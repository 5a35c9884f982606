--------------------------- MODULE GroupHub_proofs ---------------------------
(***************************************************************************)
(* Theorems about GroupHub, for any number of hosts, headsets and handoffs *)
(* and any clock skew.                                                     *)
(***************************************************************************)
EXTENDS GroupHub, SequenceTheorems, TLAPS

-----------------------------------------------------------------------------
(***************************************************************************)
(* What the methods of HandoffMachine return: a machine, and actions that  *)
(* the apply loop understands.                                             *)
(***************************************************************************)

StepType == [m : Machine, acts : Seq(Action)]

\* Saturating addition never leaves the range of the clock.
LEMMA SaturatingType ==
  ASSUME NEW a \in Nat, NEW b \in Nat
  PROVE  saturating_add(a, b) \in Time
BY ClockAssumption DEF saturating_add, Time

\* So are the deadlines and the gaps counted from any time.
LEMMA LaterTypes ==
  \A t \in Time : /\ saturating_add(t, HandoffDeadline) \in Time
                  /\ saturating_add(t, ConnectGap) \in Time
BY ClockAssumption DEF saturating_add, Time

\* A machine that enters a phase is a machine.
LEMMA EnterType ==
  ASSUME NEW m \in Machine, NEW p \in Phase
  PROVE  /\ Enter(m, p) \in Machine
         /\ Enter(m, p).phase = p
BY DEF Enter, Machine

\* Setting one of its flags leaves a machine a machine in the same phase.
LEMMA FlagType ==
  ASSUME NEW m \in Machine, NEW flag \in BOOLEAN
  PROVE  /\ [m EXCEPT !.hasAudio = flag] \in Machine
         /\ [m EXCEPT !.canControlHeadset = flag] \in Machine
         /\ [m EXCEPT !.peerHasAudio = flag] \in Machine
         /\ [m EXCEPT !.peerHasNoAudio = flag] \in Machine
         /\ [m EXCEPT !.phase = Idle, !.hasAudio = flag] \in Machine
<1>1. Idle \in Phase
  BY DEF Phase
<1>2. [m EXCEPT !.hasAudio = flag] \in Machine
  BY DEF Machine
<1>3. [m EXCEPT !.canControlHeadset = flag] \in Machine
  BY DEF Machine
<1>4. [m EXCEPT !.peerHasAudio = flag] \in Machine
  BY DEF Machine
<1>5. [m EXCEPT !.peerHasNoAudio = flag] \in Machine
  BY DEF Machine
<1>6. [m EXCEPT !.phase = Idle, !.hasAudio = flag] \in Machine
  BY <1>1 DEF Machine
<1> QED BY <1>2, <1>3, <1>4, <1>5, <1>6

\* A machine is idle or in the middle of a handoff of some headset.
LEMMA PhaseCases ==
  ASSUME NEW m \in Machine
  PROVE  /\ m.phase \in Phase
         /\ m.phase.kind = "Idle" => m.phase = Idle
         /\ m.phase.kind # "Idle" =>
              /\ m.phase.kind \in HandoffKind /\ m.phase.nonce \in Nonce
              /\ m.phase.headphone \in Headset /\ m.phase.at \in Time
BY DEF Machine, Phase, Handoff, HandoffKind, Idle

\* The phases of a handoff with proper parameters are phases.
LEMMA PhaseTypes ==
  /\ Idle \in Phase
  /\ \A n \in Nonce, hp \in Headset, t \in Time :
       /\ WaitingRelease(n, hp, t) \in Phase
       /\ WaitingFallbackGap(n, hp, t) \in Phase
       /\ Releasing(n, hp, t) \in Phase
       /\ ConnectingAudio(n, hp) \in Phase
BY ClockAssumption
   DEF WaitingRelease, WaitingFallbackGap, Releasing, ConnectingAudio, Phase,
       Handoff, HandoffKind, Time

\* The actions the machine returns are actions.
LEMMA ActionTypes ==
  /\ \A msg \in Message : Send(msg) \in Action
  /\ \A hp \in Headset : /\ ConnectAudio(hp) \in Action /\ DisconnectAudio(hp) \in Action
                         /\ Suppress(hp) \in Action /\ Restore(hp) \in Action
  /\ SendHeadsetDisconnect \in Action
  /\ \A p \in Progress : Report(p) \in Action
BY DEF Send, ConnectAudio, DisconnectAudio, Suppress, Restore, SendHeadsetDisconnect,
       Report, Action

\* The messages the machine sends are messages.
LEMMA MessageTypes ==
  /\ \A n \in Nonce, k \in ReplyKind : Reply(k, n) \in Message
  /\ \A n \in Nonce, hp \in Headset, t \in Time : HandoffRequest(n, hp, t) \in Message
BY ClockAssumption DEF Reply, HandoffRequest, Message, Time

-----------------------------------------------------------------------------
(* The methods *)

\* Starting to connect yields a machine and actions.
LEMMA StartConnectingType ==
  ASSUME NEW m \in Machine, m.phase.kind # "Idle"
  PROVE  StartConnecting(m) \in StepType
<1>1. m.phase.nonce \in Nonce /\ m.phase.headphone \in Headset
  BY PhaseCases
<1>2. Enter(m, ConnectingAudio(m.phase.nonce, m.phase.headphone)) \in Machine
  BY <1>1, EnterType, PhaseTypes, ClockAssumption DEF Time
<1>3. ConnectAudio(m.phase.headphone) \in Action
  BY <1>1, ActionTypes
<1> QED BY <1>2, <1>3 DEF StartConnecting, Step, StepType

\* claim yields a machine and actions.
LEMMA ClaimType ==
  ASSUME NEW m \in Machine, NEW hp \in Headset, NEW n \in Nonce, NEW t \in Time
  PROVE  claim(m, hp, n, t) \in StepType
<1> DEFINE d == saturating_add(t, HandoffDeadline)
<1>1. d \in Time
  BY SaturatingType, ClockAssumption DEF Time
<1>2. WaitingRelease(n, hp, d) \in Phase /\ HandoffRequest(n, hp, d) \in Message
  BY <1>1, PhaseTypes, MessageTypes
<1>3. Send(HandoffRequest(n, hp, d)) \in Action /\ Report("Busy") \in Action
  BY <1>2, ActionTypes DEF Progress
<1> HIDE DEF d
<1>4. [m EXCEPT !.phase = WaitingRelease(n, hp, d),
                !.peerHasAudio = FALSE, !.peerHasNoAudio = FALSE] \in Machine
  BY <1>2 DEF Machine
<1> QED BY <1>3, <1>4 DEF claim, d, Step, StepType

\* on_audio_disconnected yields a machine and actions.
LEMMA AudioDisconnectedType ==
  ASSUME NEW m \in Machine
  PROVE  on_audio_disconnected(m) \in StepType
<1>1. CASE m.phase.kind = "Releasing"
  <2>1. Send(Reply("Released", m.phase.nonce)) \in Action
    BY <1>1, PhaseCases, MessageTypes, ActionTypes DEF ReplyKind
  <2>2. [m EXCEPT !.hasAudio = FALSE] \in Machine
    BY FlagType
  <2> QED BY <1>1, <2>1, <2>2 DEF on_audio_disconnected, Step, StepType
<1>2. CASE m.phase.kind # "Releasing"
  BY <1>2 DEF on_audio_disconnected, Ignored, Step, StepType
<1> QED BY <1>1, <1>2

\* on_audio_connected yields a machine and actions.
LEMMA AudioConnectedType ==
  ASSUME NEW m \in Machine
  PROVE  on_audio_connected(m) \in StepType
<1>1. CASE m.phase.kind = "ConnectingAudio"
  <2>1. Send(Reply("Taken", m.phase.nonce)) \in Action
    BY <1>1, PhaseCases, MessageTypes, ActionTypes DEF ReplyKind
  <2>2. [m EXCEPT !.phase = Idle, !.hasAudio = TRUE] \in Machine
    BY FlagType
  <2> QED BY <1>1, <2>1, <2>2 DEF on_audio_connected, Step, StepType
<1>2. CASE m.phase.kind # "ConnectingAudio"
  BY <1>2 DEF on_audio_connected, Ignored, Step, StepType
<1> QED BY <1>1, <1>2

\* on_audio_failed yields a machine and actions.
LEMMA AudioFailedType ==
  ASSUME NEW m \in Machine
  PROVE  on_audio_failed(m) \in StepType
<1>1. CASE m.phase.kind # "Idle"
  <2>1. /\ Send(Reply("Abort", m.phase.nonce)) \in Action
        /\ Restore(m.phase.headphone) \in Action
        /\ Report("Failed") \in Action
    BY <1>1, PhaseCases, MessageTypes, ActionTypes DEF ReplyKind, Progress
  <2>2. Enter(m, Idle) \in Machine
    BY PhaseTypes, EnterType
  <2> QED BY <1>1, <2>1, <2>2 DEF on_audio_failed, Step, StepType
<1>2. CASE m.phase.kind = "Idle"
  BY <1>2 DEF on_audio_failed, Ignored, Step, StepType
<1> QED BY <1>1, <1>2

\* on_request yields a machine and actions.
LEMMA RequestType ==
  ASSUME NEW m \in Machine, NEW msg \in Message, msg.kind = "Request",
         NEW t \in Time
  PROVE  on_request(m, msg, t) \in StepType
<1>. msg.headphone \in Headset /\ msg.nonce \in Nonce /\ msg.deadline \in Time
  BY DEF Message, ReplyKind
<1>1. /\ \A k \in ReplyKind : Send(Reply(k, msg.nonce)) \in Action
      /\ Suppress(msg.headphone) \in Action
      /\ DisconnectAudio(msg.headphone) \in Action
  BY MessageTypes, ActionTypes
<1>2. release_actions(msg) \in Seq(Action)
  BY <1>1 DEF release_actions, ReplyKind
<1>3. release_deadline(msg, t) \in Time
  BY SaturatingType, ClockAssumption DEF release_deadline, Time, Message
<1>4. Enter(m, Releasing(msg.nonce, msg.headphone, release_deadline(msg, t))) \in Machine
  BY <1>3, PhaseTypes, EnterType DEF Message
<1>5. <<Send(Reply("Busy", msg.nonce))>> \in Seq(Action)
      /\ <<Send(Reply("NoAudio", msg.nonce))>> \in Seq(Action)
  BY <1>1 DEF ReplyKind
<1> QED BY <1>2, <1>4, <1>5 DEF on_request, Ignored, Step, StepType, Message, Time

\* The fallback at the deadline yields a machine and actions.
LEMMA FallbackType ==
  ASSUME NEW m \in Machine, m.phase.kind # "Idle", NEW t \in Time
  PROVE  fallback_or_fail(m, t) \in StepType
<1>1. saturating_add(t, ConnectGap) \in Time
  BY SaturatingType, ClockAssumption DEF Time
<1>2. Enter(m, WaitingFallbackGap(m.phase.nonce, m.phase.headphone,
                                  saturating_add(t, ConnectGap))) \in Machine
  BY <1>1, PhaseCases, PhaseTypes, EnterType
<1>3. SendHeadsetDisconnect \in Action /\ Report("Failed") \in Action
  BY ActionTypes DEF Progress
<1>4. Enter(m, Idle) \in Machine
  BY PhaseTypes, EnterType
<1> QED BY <1>2, <1>3, <1>4 DEF fallback_or_fail, Step, StepType

\* tick yields a machine and actions.
LEMMA TickType ==
  ASSUME NEW m \in Machine, NEW t \in Time
  PROVE  tick(m, t) \in StepType
<1>1. Ignored(m) \in StepType
  BY DEF Ignored, Step, StepType
<1>2. m.phase.kind # "Idle" => StartConnecting(m) \in StepType
                               /\ fallback_or_fail(m, t) \in StepType
  BY StartConnectingType, FallbackType
<1>3. on_audio_failed(m) \in StepType
  BY AudioFailedType
<1>4. m.phase.kind \in HandoffKind \cup {"Idle"} /\ m.phase.at \in Time /\ t \in Nat
  BY PhaseCases, ClockAssumption DEF Idle, Time
<1> QED BY <1>1, <1>2, <1>3, <1>4 DEF tick, HandoffKind, Time

\* Every handler of a reply yields a machine and actions.
LEMMA MessageHandlerType ==
  ASSUME NEW m \in Machine, NEW msg \in Message, NEW t \in Time
  PROVE  on_message(m, msg, t) \in StepType
<1>1. Ignored(m) \in StepType
  BY DEF Ignored, Step, StepType
<1>2. msg.kind = "Request" => on_request(m, msg, t) \in StepType
  BY RequestType
<1>3. on_peer_has_audio(m, msg.nonce) \in StepType
      /\ on_no_audio(m, msg.nonce) \in StepType
  <2>1. /\ [m EXCEPT !.peerHasAudio = TRUE] \in Machine
        /\ [m EXCEPT !.peerHasNoAudio = TRUE] \in Machine
    BY FlagType
  <2> QED BY <1>1, <2>1 DEF on_peer_has_audio, on_no_audio, Step, StepType
<1>4. on_released(m, msg.nonce) \in StepType
  BY <1>1, StartConnectingType DEF on_released, nonce_matches
<1>5. on_taken(m, msg.nonce) \in StepType
  <2>1. [m EXCEPT !.phase = Idle, !.hasAudio = FALSE] \in Machine
    BY FlagType
  <2> QED BY <1>1, <2>1 DEF on_taken, Step, StepType
<1>6. on_abort(m, msg.nonce) \in StepType
  <2>1. CASE nonce_matches(m, msg.nonce)
    <3>1. Enter(m, Idle) \in Machine
      BY PhaseTypes, EnterType
    <3>2. Report("Failed") \in Action /\ Restore(m.phase.headphone) \in Action
      BY <2>1, PhaseCases, ActionTypes DEF nonce_matches, Progress
    <3> QED BY <2>1, <3>1, <3>2 DEF on_abort, Step, StepType
  <2>2. CASE ~nonce_matches(m, msg.nonce)
    BY <2>2, <1>1 DEF on_abort
  <2> QED BY <2>1, <2>2
<1>7. on_busy(m, msg.nonce) \in StepType
  <2>1. Enter(m, Idle) \in Machine /\ Report("Busy") \in Action
    BY PhaseTypes, EnterType, ActionTypes DEF Progress
  <2> QED BY <1>1, <2>1 DEF on_busy, Step, StepType
<1> QED BY <1>2, <1>3, <1>4, <1>5, <1>6, <1>7 DEF on_message, Message, ReplyKind

-----------------------------------------------------------------------------
(* What the audio results do to the phase *)

\* A failure ends whatever handoff is in progress; the end of a connection
\* ends it only while connecting; none of them touches the capability.
LEMMA AudioResults ==
  ASSUME NEW m \in Machine
  PROVE  /\ on_audio_failed(m).m.phase = Idle
         /\ on_audio_failed(m).m.canControlHeadset = m.canControlHeadset
         /\ on_audio_connected(m).m.phase =
              IF m.phase.kind = "ConnectingAudio" THEN Idle ELSE m.phase
         /\ on_audio_connected(m).m.canControlHeadset = m.canControlHeadset
         /\ on_audio_disconnected(m).m.phase = m.phase
         /\ on_audio_disconnected(m).m.canControlHeadset = m.canControlHeadset
<1>1. m.phase.kind = "Idle" => m.phase = Idle
  BY PhaseCases
<1>2. /\ on_audio_failed(m).m.phase = Idle
      /\ on_audio_failed(m).m.canControlHeadset = m.canControlHeadset
  BY <1>1 DEF on_audio_failed, Ignored, Step, Enter, Machine
<1>3. /\ on_audio_connected(m).m.phase =
           IF m.phase.kind = "ConnectingAudio" THEN Idle ELSE m.phase
      /\ on_audio_connected(m).m.canControlHeadset = m.canControlHeadset
  BY DEF on_audio_connected, Ignored, Step, Machine
<1>4. /\ on_audio_disconnected(m).m.phase = m.phase
      /\ on_audio_disconnected(m).m.canControlHeadset = m.canControlHeadset
  BY DEF on_audio_disconnected, Ignored, Step, Machine
<1> QED BY <1>2, <1>3, <1>4

-----------------------------------------------------------------------------
(* What messages and time do to the phase *)

Claiming == {"WaitingRelease", "WaitingFallbackGap", "ConnectingAudio"}

\* A step r taken from machine m at time t: a claim in progress afterwards is
\* the one from before, connecting has just been asked for, and a release is
\* the one from before or bounded by this clock.
Faithful(m, r, t) ==
  /\ r.m.phase.kind \in Claiming =>
       /\ m.phase.kind \in Claiming /\ r.m.phase.headphone = m.phase.headphone
       /\ r.m.canControlHeadset = m.canControlHeadset
  /\ r.m.phase.kind = "ConnectingAudio" /\ m.phase.kind # "ConnectingAudio" =>
       r.acts = <<ConnectAudio(r.m.phase.headphone)>>
  /\ r.m.phase.kind = "Releasing" =>
       r.m.phase = m.phase \/ r.m.phase.at <= saturating_add(t, HandoffDeadline)

\* An input that is ignored is faithful.
LEMMA IgnoredFaithful ==
  ASSUME NEW m \in Machine, NEW t \in Time
  PROVE  Faithful(m, Ignored(m), t)
BY DEF Faithful, Ignored, Step

\* A step that ends the handoff is faithful.
LEMMA EndedFaithful ==
  ASSUME NEW m \in Machine, NEW t \in Time, NEW r, r.m.phase = Idle
  PROVE  Faithful(m, r, t)
BY DEF Faithful, Idle, Claiming

\* Starting to connect is faithful for a claim that waits.
LEMMA StartConnectingFaithful ==
  ASSUME NEW m \in Machine, NEW t \in Time,
         m.phase.kind \in {"WaitingRelease", "WaitingFallbackGap"}
  PROVE  Faithful(m, StartConnecting(m), t)
BY DEF Faithful, StartConnecting, Enter, Step, Machine, ConnectingAudio, Claiming

\* The fallback at the deadline is faithful.
LEMMA FallbackFaithful ==
  ASSUME NEW m \in Machine, NEW t \in Time, m.phase.kind = "WaitingRelease"
  PROVE  Faithful(m, fallback_or_fail(m, t), t)
<1>1. CASE m.canControlHeadset
  BY <1>1 DEF fallback_or_fail, Faithful, Enter, Step, Machine, WaitingFallbackGap, Claiming
<1>2. CASE ~m.canControlHeadset
  <2>1. fallback_or_fail(m, t).m.phase = Idle
    BY <1>2 DEF fallback_or_fail, Enter, Step, Machine
  <2> QED BY <2>1, EndedFaithful
<1> QED BY <1>1, <1>2

\* Whatever tick does is faithful.
LEMMA TickFaithful ==
  ASSUME NEW m \in Machine, NEW t \in Time
  PROVE  Faithful(m, tick(m, t), t)
<1>1. m.phase.kind \in HandoffKind \cup {"Idle"} /\ m.phase.at \in Nat /\ t \in Nat
  BY PhaseCases, ClockAssumption DEF Idle, Time
<1>2. CASE m.phase.kind \in {"Idle", "ConnectingAudio"} \/ t < m.phase.at
  <2>1. tick(m, t) = Ignored(m)
    BY <1>1, <1>2 DEF tick, HandoffKind
  <2> QED BY <2>1, IgnoredFaithful
<1>3. CASE m.phase.kind = "WaitingRelease" /\ t >= m.phase.at
  <2>1. tick(m, t) = IF nobody_holds(m) THEN StartConnecting(m) ELSE fallback_or_fail(m, t)
    BY <1>1, <1>3 DEF tick
  <2> QED BY <1>3, <2>1, StartConnectingFaithful, FallbackFaithful
<1>4. CASE m.phase.kind = "WaitingFallbackGap" /\ t >= m.phase.at
  <2>1. tick(m, t) = StartConnecting(m)
    BY <1>1, <1>4 DEF tick
  <2> QED BY <1>4, <2>1, StartConnectingFaithful
<1>5. CASE m.phase.kind = "Releasing" /\ t >= m.phase.at
  <2>1. tick(m, t) = on_audio_failed(m)
    BY <1>1, <1>5 DEF tick
  <2> QED BY <2>1, AudioResults, EndedFaithful
<1> QED BY <1>1, <1>2, <1>3, <1>4, <1>5 DEF HandoffKind

\* Answering a request is faithful: the local clock bounds the release.
LEMMA RequestFaithful ==
  ASSUME NEW m \in Machine, NEW msg \in Message, msg.kind = "Request", NEW t \in Time
  PROVE  Faithful(m, on_request(m, msg, t), t)
<1>1. CASE on_request(m, msg, t).m = m
  BY <1>1 DEF Faithful
<1>2. CASE on_request(m, msg, t) =
             Step(Enter(m, Releasing(msg.nonce, msg.headphone, release_deadline(msg, t))),
                  release_actions(msg))
  <2>1. release_deadline(msg, t) <= saturating_add(t, HandoffDeadline)
    <3>1. saturating_add(t, HandoffDeadline) \in Time
      BY LaterTypes
    <3>2. msg.deadline \in Time
      BY DEF Message, ReplyKind
    <3> QED BY <3>1, <3>2, ClockAssumption DEF release_deadline, Time
  <2> QED BY <1>2, <2>1 DEF Faithful, Step, Enter, Machine, Releasing, Claiming
<1> QED BY <1>1, <1>2 DEF on_request, Ignored, Step

\* Whatever a message does is faithful.
LEMMA MessageFaithful ==
  ASSUME NEW m \in Machine, NEW msg \in Message, NEW t \in Time
  PROVE  Faithful(m, on_message(m, msg, t), t)
<1>1. Faithful(m, Ignored(m), t)
  BY IgnoredFaithful
<1>2. Faithful(m, on_peer_has_audio(m, msg.nonce), t) /\ Faithful(m, on_no_audio(m, msg.nonce), t)
  BY DEF Faithful, on_peer_has_audio, on_no_audio, Ignored, Step, Machine, Claiming
<1>3. Faithful(m, on_released(m, msg.nonce), t)
  BY <1>1, StartConnectingFaithful DEF on_released
<1>4. Faithful(m, on_taken(m, msg.nonce), t)
  BY <1>1, EndedFaithful DEF on_taken, Step, Machine
<1>5. Faithful(m, on_abort(m, msg.nonce), t)
  BY <1>1, EndedFaithful DEF on_abort, Enter, Step, Machine
<1>6. Faithful(m, on_busy(m, msg.nonce), t)
  BY <1>1, EndedFaithful DEF on_busy, Enter, Step, Machine
<1>7. msg.kind \in ReplyKind \cup {"Request"}
  BY DEF Message
<1> QED BY <1>2, <1>3, <1>4, <1>5, <1>6, <1>7, RequestFaithful DEF on_message, ReplyKind

\* No message makes the machine announce that it aborts.
NoAbort(acts) ==
  \A i \in DOMAIN acts : acts[i].do = "Send" => acts[i].msg.kind # "Abort"

\* Messages end handoffs without an Abort of their own: only ticks and failures send one.
LEMMA MessagesNeverAbort ==
  ASSUME NEW m \in Machine, NEW msg \in Message, NEW t \in Time
  PROVE  NoAbort(on_message(m, msg, t).acts)
<1>1. NoAbort(Ignored(m).acts)
  BY DEF NoAbort, Ignored, Step
<1>2. msg.kind = "Request" => NoAbort(on_request(m, msg, t).acts)
  <2>1. /\ NoAbort(<<Send(Reply("Busy", msg.nonce))>>)
        /\ NoAbort(<<Send(Reply("NoAudio", msg.nonce))>>)
    BY DEF NoAbort, Send, Reply
  <2>2. NoAbort(release_actions(msg))
    BY DEF NoAbort, release_actions, Send, Reply, Suppress, DisconnectAudio
  <2> QED BY <1>1, <2>1, <2>2 DEF on_request, Step
<1>3. NoAbort(on_peer_has_audio(m, msg.nonce).acts) /\ NoAbort(on_no_audio(m, msg.nonce).acts)
  BY DEF NoAbort, on_peer_has_audio, on_no_audio, Ignored, Step
<1>4. NoAbort(on_released(m, msg.nonce).acts)
  BY DEF NoAbort, on_released, StartConnecting, ConnectAudio, Ignored, Step
<1>5. NoAbort(on_taken(m, msg.nonce).acts)
  BY DEF NoAbort, on_taken, Ignored, Step
<1>6. NoAbort(on_abort(m, msg.nonce).acts)
  BY DEF NoAbort, on_abort, Report, Restore, Ignored, Step
<1>7. NoAbort(on_busy(m, msg.nonce).acts)
  BY DEF NoAbort, on_busy, Report, Ignored, Step
<1>8. msg.kind \in ReplyKind \cup {"Request"}
  BY DEF Message
<1> QED BY <1>2, <1>3, <1>4, <1>5, <1>6, <1>7, <1>8 DEF on_message, ReplyKind

-----------------------------------------------------------------------------
(* Types *)

\* The clock of every host stays in range.
LEMMA ClockType ==
  ASSUME TypeOK, NEW h \in Host
  PROVE  Clock(h) \in Time
<1>1. now \in Nat /\ Skew[h] \in Nat
  BY HostAssumption, ClockAssumption DEF TypeOK, Time
<1> QED BY <1>1, SaturatingType DEF Clock

\* What the machine returns can be queued.
LEMMA QueuedActions ==
  /\ Action \subseteq Queued
  /\ \A acts \in Seq(Action) : acts \in Seq(Queued)
  /\ \A t \in Time : Pause(t) \in Queued
BY DEF Queued, Pause

\* Taking the lock with a proper step.
LEMMA BeginType ==
  ASSUME TypeOK, NEW h \in Host, NEW s \in StepType, Begin(h, s)
  PROVE  /\ machine' \in [Host -> Machine]
         /\ work' \in [Host -> Work]
BY QueuedActions DEF TypeOK, Begin, StepType, Work

\* Going on with the apply loop.
LEMMA ProceedType ==
  ASSUME TypeOK, NEW h \in Host, NEW more \in Seq(Queued), NEW failed \in BOOLEAN,
         ~LockFree(h), Proceed(h, more, failed)
  PROVE  work' \in [Host -> Work]
<1> DEFINE rest == more \o Tail(work[h].queue)
<1>1. work[h].queue \in Seq(Queued) /\ work[h].queue # <<>>
  BY DEF TypeOK, Work, LockFree
<1>2. rest \in Seq(Queued)
  BY <1>1, HeadTailProperties, ConcatProperties
<1>3. [queue |-> rest, failed |-> failed /\ rest # <<>>] \in Work
  BY <1>2 DEF Work
<1> QED BY <1>3 DEF Proceed, TypeOK

\* Failing an action.
LEMMA FailType ==
  ASSUME TypeOK, NEW h \in Host, NEW m \in Machine, ~LockFree(h), FailAction(h, m)
  PROVE  /\ machine' \in [Host -> Machine]
         /\ work' \in [Host -> Work]
<1>1. CASE work[h].failed
  <2>1. Proceed(h, <<>>, TRUE) /\ machine' = [machine EXCEPT ![h] = m]
    BY <1>1 DEF FailAction
  <2>2. work' \in [Host -> Work]
    BY <2>1, ProceedType, EmptySeq
  <2> QED BY <2>1, <2>2 DEF TypeOK
<1>2. CASE ~work[h].failed
  <2> DEFINE s == on_audio_failed(m)
             queue == IF s.acts = <<>> THEN <<Report("Failed")>> ELSE s.acts
  <2>1. s.m \in Machine /\ s.acts \in Seq(Action)
    BY AudioFailedType DEF StepType
  <2>2. queue \in Seq(Queued)
    BY <2>1, ActionTypes, QueuedActions DEF Progress
  <2> HIDE DEF queue
  <2>3. [queue |-> queue, failed |-> TRUE] \in Work
    BY <2>2 DEF Work
  <2>4. /\ machine' = [machine EXCEPT ![h] = s.m]
        /\ work' = [work EXCEPT ![h] = [queue |-> queue, failed |-> TRUE]]
    BY <1>2 DEF FailAction, queue
  <2> QED BY <2>1, <2>3, <2>4 DEF TypeOK
<1> QED BY <1>1, <1>2

\* What the apply loop may find at the head of its queue.
LEMMA HeadCases ==
  ASSUME TypeOK, NEW h \in Host, ~LockFree(h), NEW a, a = Head(work[h].queue)
  PROVE  /\ a \in Queued
         /\ a.do = "Send" => a.msg \in Message
         /\ a.do \in {"ConnectAudio", "DisconnectAudio", "Suppress", "Restore"} =>
              a.mac \in Headset
         /\ a.do = "Pause" => a.until \in Time
         /\ a.do = "Report" => a.progress \in Progress
<1>1. work[h].queue \in Seq(Queued) /\ work[h].queue # <<>>
  BY DEF TypeOK, Work, LockFree
<1>2. a \in Queued
  BY <1>1, HeadTailProperties
<1> QED BY <1>2 DEF Queued, Action, SendHeadsetDisconnect

\* Lifting a suppression changes the record and what the platform does, only.
LEMMA LiftType ==
  ASSUME TypeOK, NEW h \in Host, NEW o \in OperationState, NEW hp \in Headset,
         NEW ok \in BOOLEAN, LiftSuppression(h, o, hp, ok)
  PROVE  /\ op' \in [Host -> OperationState]
         /\ muted' \subseteq Host \X Headset
<1>1. [o EXCEPT !.suppressed = @ \ {hp}] \in OperationState
  BY DEF OperationState
<1> QED BY <1>1 DEF LiftSuppression, TypeOK

-----------------------------------------------------------------------------
(* The apply loop keeps the types *)

\* Broadcasting a message keeps the types (actions.rs, send_control).
LEMMA SendType ==
  ASSUME TypeOK, NEW h \in Host, DoSend(h)
  PROVE  TypeOK'
<1>1. ~LockFree(h) /\ Head(work[h].queue).msg \in Message
  BY HeadCases DEF DoSend, Doing
<1>2. UNCHANGED <<hubState, rx, world, claims, now>>
  BY DEF DoSend
<1>3. CASE /\ sent' = sent \cup {Datagram(h, Head(work[h].queue).msg)}
           /\ Proceed(h, <<>>, work[h].failed)
           /\ UNCHANGED machine
  <2>1. work' \in [Host -> Work]
    BY <1>1, <1>3, ProceedType, EmptySeq DEF TypeOK, Work
  <2>2. sent' \subseteq [from : Host, msg : Message]
    BY <1>1, <1>3 DEF TypeOK, Datagram
  <2> QED BY <1>2, <1>3, <2>1, <2>2 DEF TypeOK, hubState, world, claims
<1>4. CASE FailAction(h, machine[h]) /\ UNCHANGED sent
  <2>1. machine' \in [Host -> Machine] /\ work' \in [Host -> Work]
    BY <1>1, <1>4, FailType DEF TypeOK
  <2> QED BY <1>2, <1>4, <2>1 DEF TypeOK, hubState, world, claims
<1> QED BY <1>3, <1>4 DEF DoSend

\* The machine after update_holding.
LEMMA WithHoldingType ==
  ASSUME TypeOK, NEW h \in Host, NEW hp \in Headset \cup {NoHeadset}
  PROVE  WithHolding(h, hp) \in Machine
BY FlagType DEF WithHolding, TypeOK

\* Moving the audio link of one headset.
LEMMA LinkType ==
  ASSUME TypeOK, NEW hp \in Headset, NEW x \in Host \cup {NoHost}
  PROVE  [link EXCEPT ![hp] = x] \in [Headset -> Host \cup {NoHost}]
BY DEF TypeOK

\* Connecting the audio keeps the types (actions.rs, connect_audio).
LEMMA ConnectAudioType ==
  ASSUME TypeOK, NEW h \in Host, DoConnectAudio(h)
  PROVE  TypeOK'
<1> DEFINE hp == Target(h)
<1>1. ~LockFree(h) /\ hp \in Headset /\ op[h] \in OperationState /\ machine[h] \in Machine
  BY HeadCases DEF DoConnectAudio, Doing, Target, TypeOK
<1>2. UNCHANGED <<closed, running, rx, sent, claims, now>>
  BY DEF DoConnectAudio
<1>3. \E ok \in BOOLEAN : LiftSuppression(h, op[h], hp, ok)
  BY DEF DoConnectAudio
<1>4. op' \in [Host -> OperationState] /\ muted' \subseteq Host \X Headset
  BY <1>1, <1>3, LiftType
<1> HIDE DEF hp
<1>5. /\ machine' \in [Host -> Machine] /\ work' \in [Host -> Work]
      /\ holding' \in [Host -> Headset \cup {NoHeadset}]
      /\ link' \in [Headset -> Host \cup {NoHost}]
  <2>1. CASE FailAction(h, machine[h]) /\ UNCHANGED <<holding, link>>
    BY <1>1, <2>1, FailType DEF TypeOK
  <2>2. CASE /\ link' \in {link, [link EXCEPT ![hp] = h]}
             /\ FailAction(h, machine[h])
             /\ UNCHANGED holding
    BY <1>1, <2>2, FailType, LinkType DEF TypeOK
  <2>3. CASE /\ link' = [link EXCEPT ![hp] = h]
             /\ holding' = [holding EXCEPT ![h] = hp]
             /\ LET s == on_audio_connected(WithHolding(h, hp))
                IN /\ machine' = [machine EXCEPT ![h] = s.m]
                   /\ Proceed(h, s.acts, work[h].failed)
    <3> DEFINE s == on_audio_connected(WithHolding(h, hp))
    <3>1. s.m \in Machine /\ s.acts \in Seq(Action)
      BY <1>1, WithHoldingType, AudioConnectedType DEF StepType
    <3>2. s.acts \in Seq(Queued)
      BY <3>1, QueuedActions
    <3>3. machine' = [machine EXCEPT ![h] = s.m] /\ Proceed(h, s.acts, work[h].failed)
      BY <2>3
    <3> HIDE DEF s
    <3>4. work' \in [Host -> Work]
      BY <1>1, <3>2, <3>3, ProceedType DEF TypeOK, Work
    <3> QED BY <1>1, <2>3, <3>1, <3>3, <3>4 DEF TypeOK
  <2>4. CASE /\ \/ link' = [link EXCEPT ![hp] = h]
                \/ link[hp] # h /\ link' = [link EXCEPT ![hp] = NoHost]
             /\ holding' \in {[holding EXCEPT ![h] = seen] : seen \in
                   IF link'[hp] = h THEN {hp}
                   ELSE IF "observe" \in Faults THEN {hp, NoHeadset} ELSE {NoHeadset}}
             /\ FailAction(h, WithHolding(h, holding'[h]))
    <3>1. PICK seen \in {hp, NoHeadset} : holding' = [holding EXCEPT ![h] = seen]
      BY <2>4
    <3>2. holding' \in [Host -> Headset \cup {NoHeadset}]
      BY <1>1, <3>1 DEF TypeOK
    <3>3. WithHolding(h, holding'[h]) \in Machine
      BY <3>2, WithHoldingType
    <3>4. machine' \in [Host -> Machine] /\ work' \in [Host -> Work]
      BY <1>1, <2>4, <3>3, FailType
    <3>5. link' \in [Headset -> Host \cup {NoHost}]
      BY <1>1, <2>4, LinkType
    <3> QED BY <3>2, <3>4, <3>5
  <2> QED BY <2>1, <2>2, <2>3, <2>4 DEF DoConnectAudio, hp
<1> QED BY <1>2, <1>4, <1>5 DEF TypeOK, claims

\* The verified disconnection keeps the types (actions.rs, disconnect_verified).
LEMMA DisconnectAudioType ==
  ASSUME TypeOK, NEW h \in Host, DoDisconnectAudio(h)
  PROVE  TypeOK'
<1> DEFINE hp == Target(h)
           dropped == [link EXCEPT ![hp] = IF @ = h THEN NoHost ELSE @]
           free == [link EXCEPT ![hp] = NoHost]
           s == on_audio_disconnected(WithHolding(h, NoHeadset))
<1>1. ~LockFree(h) /\ hp \in Headset /\ machine[h] \in Machine
  BY HeadCases DEF DoDisconnectAudio, Doing, Target, TypeOK
<1>2. UNCHANGED <<op, closed, running, rx, sent, muted, claims, now>>
  BY DEF DoDisconnectAudio
<1>3. {link, dropped, free} \subseteq [Headset -> Host \cup {NoHost}]
  BY <1>1 DEF TypeOK
<1>4. s.m \in Machine /\ s.acts \in Seq(Queued)
  BY WithHoldingType, AudioDisconnectedType, QueuedActions DEF StepType
<1>5. \/ /\ link' \in {dropped, free}
         /\ holding' = [holding EXCEPT ![h] = NoHeadset]
         /\ machine' = [machine EXCEPT ![h] = s.m]
         /\ Proceed(h, s.acts, work[h].failed)
      \/ /\ link' \in {link, dropped, free}
         /\ FailAction(h, machine[h])
         /\ UNCHANGED holding
  BY DEF DoDisconnectAudio
<1> HIDE DEF hp, dropped, free, s
<1>6. machine' \in [Host -> Machine] /\ work' \in [Host -> Work]
  <2>1. CASE machine' = [machine EXCEPT ![h] = s.m] /\ Proceed(h, s.acts, work[h].failed)
    <3>1. work' \in [Host -> Work]
      BY <1>1, <1>4, <2>1, ProceedType DEF TypeOK, Work
    <3> QED BY <1>4, <2>1, <3>1 DEF TypeOK
  <2>2. CASE FailAction(h, machine[h])
    BY <1>1, <2>2, FailType
  <2> QED BY <1>5, <2>1, <2>2
<1>7. /\ holding' \in [Host -> Headset \cup {NoHeadset}]
      /\ link' \in [Headset -> Host \cup {NoHost}]
  BY <1>3, <1>5 DEF TypeOK
<1> QED BY <1>2, <1>6, <1>7 DEF TypeOK, claims

\* Changing what is on record as suppressed.
LEMMA RecordType ==
  ASSUME TypeOK, NEW h \in Host, NEW x \in SUBSET Headset
  PROVE  [op EXCEPT ![h].suppressed = x] \in [Host -> OperationState]
<1>1. op \in [Host -> OperationState]
  BY DEF TypeOK
<1>2. [op[h] EXCEPT !.suppressed = x] \in OperationState
  BY <1>1 DEF OperationState
<1> QED BY <1>1, <1>2

\* Suppressing reconnection keeps the types (actions.rs, suppress).
LEMMA SuppressType ==
  ASSUME TypeOK, NEW h \in Host, DoSuppress(h)
  PROVE  TypeOK'
<1> DEFINE hp == Target(h)
<1>1. ~LockFree(h) /\ hp \in Headset /\ machine[h] \in Machine /\ work[h].failed \in BOOLEAN
  BY HeadCases DEF DoSuppress, Doing, Target, TypeOK, Work
<1>2. UNCHANGED <<holding, closed, running, rx, sent, link, claims, now>>
  BY DEF DoSuppress
<1>3. /\ \/ UNCHANGED op
         \/ op' = [op EXCEPT ![h].suppressed = @ \cup {hp}]
         \/ op' = [op EXCEPT ![h].suppressed = @ \ {hp}]
      /\ muted' \in {muted, muted \cup {<<h, hp>>}}
      /\ \/ FailAction(h, machine[h])
         \/ Proceed(h, <<>>, work[h].failed) /\ UNCHANGED machine
  BY DEF DoSuppress
<1> HIDE DEF hp
<1>4. op' \in [Host -> OperationState]
  <2> DEFINE more == op[h].suppressed \cup {hp}
             less == op[h].suppressed \ {hp}
  <2>1. more \in SUBSET Headset /\ less \in SUBSET Headset
    BY <1>1 DEF TypeOK, OperationState
  <2>2. \/ op' = op
        \/ op' = [op EXCEPT ![h].suppressed = more]
        \/ op' = [op EXCEPT ![h].suppressed = less]
    BY <1>3
  <2> HIDE DEF more, less
  <2>3. /\ [op EXCEPT ![h].suppressed = more] \in [Host -> OperationState]
        /\ [op EXCEPT ![h].suppressed = less] \in [Host -> OperationState]
    BY <2>1, RecordType
  <2> QED BY <2>2, <2>3 DEF TypeOK
<1>5. muted' \subseteq Host \X Headset
  BY <1>1, <1>3 DEF TypeOK
<1>6. machine' \in [Host -> Machine] /\ work' \in [Host -> Work]
  <2>1. CASE FailAction(h, machine[h])
    BY <1>1, <2>1, FailType
  <2>2. CASE Proceed(h, <<>>, work[h].failed) /\ UNCHANGED machine
    <3>1. work' \in [Host -> Work]
      BY <1>1, <2>2, ProceedType, EmptySeq
    <3> QED BY <2>2, <3>1 DEF TypeOK
  <2> QED BY <1>3, <2>1, <2>2
<1> QED BY <1>2, <1>4, <1>5, <1>6 DEF TypeOK, claims

\* Lifting a suppression keeps the types (actions.rs, suppress).
LEMMA RestoreType ==
  ASSUME TypeOK, NEW h \in Host, DoRestore(h)
  PROVE  TypeOK'
<1> DEFINE hp == Target(h)
<1>1. /\ ~LockFree(h) /\ hp \in Headset /\ machine[h] \in Machine
      /\ work[h].failed \in BOOLEAN /\ op[h] \in OperationState
  BY HeadCases DEF DoRestore, Doing, Target, TypeOK, Work
<1>2. UNCHANGED <<holding, closed, running, rx, sent, link, claims, now>>
  BY DEF DoRestore
<1>3. /\ \E ok \in BOOLEAN : LiftSuppression(h, op[h], hp, ok)
      /\ \/ FailAction(h, machine[h])
         \/ Proceed(h, <<>>, work[h].failed) /\ UNCHANGED machine
  BY DEF DoRestore
<1> HIDE DEF hp
<1>4. op' \in [Host -> OperationState] /\ muted' \subseteq Host \X Headset
  BY <1>1, <1>3, LiftType
<1>5. machine' \in [Host -> Machine] /\ work' \in [Host -> Work]
  <2>1. CASE FailAction(h, machine[h])
    BY <1>1, <2>1, FailType
  <2>2. CASE Proceed(h, <<>>, work[h].failed) /\ UNCHANGED machine
    <3>1. work' \in [Host -> Work]
      BY <1>1, <2>2, ProceedType, EmptySeq
    <3> QED BY <2>2, <3>1 DEF TypeOK
  <2> QED BY <1>3, <2>1, <2>2
<1> QED BY <1>2, <1>4, <1>5 DEF TypeOK, claims

\* Writing CD keeps the types (actions.rs, send_cd_command).
LEMMA SendHeadsetDisconnectType ==
  ASSUME TypeOK, NEW h \in Host, DoSendHeadsetDisconnect(h)
  PROVE  TypeOK'
<1> DEFINE hp == phase_mac(h)
<1>1. /\ ~LockFree(h) /\ machine[h] \in Machine /\ work[h].failed \in BOOLEAN
      /\ hp # NoHeadset => hp \in Headset
  <2>1. ~LockFree(h) /\ machine[h] \in Machine /\ work[h].failed \in BOOLEAN
    BY DEF DoSendHeadsetDisconnect, Doing, TypeOK, Work
  <2> QED BY <2>1, PhaseCases DEF phase_mac, phase, Idle
<1>2. UNCHANGED <<hubState, rx, sent, muted, asked, ticket, now>>
  BY DEF DoSendHeadsetDisconnect
<1>3. Clock(h) \in Time /\ CdGap(h) \in Seq(Queued)
  <2>1. Clock(h) \in Time
    BY ClockType
  <2>2. saturating_add(Clock(h), ConnectGap) \in Time
    BY <2>1, LaterTypes
  <2>3. Pause(saturating_add(Clock(h), ConnectGap)) \in Queued
    BY <2>2, QueuedActions
  <2> QED BY <2>1, <2>3 DEF CdGap
<1>4. CASE /\ hp # NoHeadset
           /\ link' \in {link, [link EXCEPT ![hp] = NoHost]}
           /\ cdAt' = [cdAt EXCEPT ![h] = Clock(h)]
           /\ Proceed(h, CdGap(h), work[h].failed)
           /\ UNCHANGED machine
  <2>1. work' \in [Host -> Work]
    BY <1>1, <1>3, <1>4, ProceedType
  <2>2. link' \in [Headset -> Host \cup {NoHost}]
    BY <1>1, <1>4 DEF TypeOK
  <2>3. cdAt' \in [Host -> Time \cup {Never}]
    BY <1>3, <1>4 DEF TypeOK
  <2> QED BY <1>2, <1>4, <2>1, <2>2, <2>3 DEF TypeOK, hubState
<1>5. CASE FailAction(h, machine[h]) /\ UNCHANGED <<link, cdAt>>
  <2>1. machine' \in [Host -> Machine] /\ work' \in [Host -> Work]
    BY <1>1, <1>5, FailType
  <2> QED BY <1>2, <1>5, <2>1 DEF TypeOK, hubState
<1> QED BY <1>4, <1>5 DEF DoSendHeadsetDisconnect

\* The gap after CD and the reports keep the types (actions.rs, apply).
LEMMA PauseReportType ==
  ASSUME TypeOK, NEW h \in Host, DoPause(h) \/ DoReport(h)
  PROVE  TypeOK'
<1>1. ~LockFree(h) /\ work[h].failed \in BOOLEAN
  BY DEF DoPause, DoReport, Doing, TypeOK, Work
<1>2. /\ \E failed \in BOOLEAN : Proceed(h, <<>>, failed)
      /\ UNCHANGED <<machine, hubState, rx, sent, world, claims, now>>
  BY <1>1 DEF DoPause, DoReport
<1>3. work' \in [Host -> Work]
  BY <1>1, <1>2, ProceedType, EmptySeq
<1> QED BY <1>2, <1>3 DEF TypeOK, hubState, world, claims

\* Every turn of the apply loop keeps the types.
LEMMA ApplyType ==
  ASSUME TypeOK, NEW h \in Host, ApplyStep(h)
  PROVE  TypeOK'
BY SendType, ConnectAudioType, DisconnectAudioType, SuppressType, RestoreType,
   SendHeadsetDisconnectType, PauseReportType DEF ApplyStep

-----------------------------------------------------------------------------
(* Calls of claim that wait for the lock *)

\* They change nothing but the record of the calls.
LEMMA CallingEffect ==
  ASSUME NEW h \in Host, Calling(h)
  PROVE  UNCHANGED <<machine, op, holding, closed, running, work, rx, sent, link, muted,
                     cdAt, ticket, now>>
BY DEF Calling, Claim, ClaimClosed, hubState, world

\* What is waiting is a call (group.rs, claim).
LEMMA CallingType ==
  ASSUME TypeOK, NEW h \in Host, Calling(h)
  PROVE  TypeOK'
<1>1. PICK n \in Nonce : ClaimClosed(h, n) \/ \E hp \in Headset : Claim(h, hp, n)
  BY DEF Calling
<1>2. asked \in [Nonce -> Call] /\ NoClaim \in Call
  BY ClockAssumption DEF TypeOK, NoClaim, Call, Time
<1>3. asked' \in [Nonce -> Call]
  <2>1. CASE ClaimClosed(h, n)
    BY <1>2, <2>1 DEF ClaimClosed
  <2>2. ASSUME NEW hp \in Headset, Claim(h, hp, n)
        PROVE  asked' \in [Nonce -> Call]
    <3>1. [by |-> h, mac |-> hp, at |-> Clock(h)] \in Call
      BY ClockType DEF Call
    <3> QED BY <1>2, <2>2, <3>1 DEF Claim
  <2> QED BY <1>1, <2>1, <2>2
<1> QED BY <1>3, CallingEffect DEF TypeOK

-----------------------------------------------------------------------------
(* The handlers and the world keep the types *)

\* The capability to control the headset is a flag.
LEMMA CapabilityType ==
  ASSUME NEW m \in Machine, NEW o \in OperationState
  PROVE  update_control_capability(m, o) \in Machine
<1>1. Capability(m, o) \in BOOLEAN
  BY DEF Capability, OperationState
<1> QED BY <1>1, FlagType DEF update_control_capability

\* A claim keeps the types (group.rs, claim_at).
LEMMA ClaimAtType ==
  ASSUME TypeOK, NEW h \in Host, NEW hp \in Headset, NEW n \in Nonce, ClaimAt(h, hp, n)
  PROVE  TypeOK'
<1> DEFINE free == phase(h).kind = "Idle"
           m == IF free THEN [machine[h] EXCEPT !.canControlHeadset = Bound(h, hp)]
                        ELSE machine[h]
           s == claim(m, hp, n, asked[n].at)
<1>1. Bound(h, hp) \in BOOLEAN /\ asked[n].at \in Time
  BY DEF TypeOK, OperationState, Bound, Call
<1>2. m \in Machine
  BY <1>1, FlagType DEF TypeOK
<1>3. s \in StepType
  BY <1>1, <1>2, ClaimType
<1>4. s.m.phase.at \in Time
  BY <1>3, PhaseCases, ClockAssumption DEF StepType, Idle, Time
<1>5. /\ Begin(h, s)
      /\ \/ /\ op' = [op EXCEPT ![h].audioCandidate = hp]
            /\ ticket' = [ticket EXCEPT ![n] = [by |-> h, due |-> s.m.phase.at]]
            /\ cdAt' = [cdAt EXCEPT ![h] = Never]
         \/ UNCHANGED <<op, cdAt, ticket>>
      /\ asked' = [asked EXCEPT ![n] = NoClaim]
      /\ UNCHANGED <<holding, closed, running, rx, sent, world, now>>
  BY DEF ClaimAt
<1> HIDE DEF s, m, free
<1>6. machine' \in [Host -> Machine] /\ work' \in [Host -> Work]
  BY <1>3, <1>5, BeginType
<1>7. op' \in [Host -> OperationState]
  <2>1. op \in [Host -> OperationState]
    BY DEF TypeOK
  <2>2. [op[h] EXCEPT !.audioCandidate = hp] \in OperationState
    BY <2>1 DEF OperationState
  <2>3. [op EXCEPT ![h].audioCandidate = hp] \in [Host -> OperationState]
    BY <2>1, <2>2
  <2> QED BY <1>5, <2>1, <2>3
<1>8. /\ ticket' \in [Nonce -> [by : Host \cup {NoHost}, due : Time]]
      /\ cdAt' \in [Host -> Time \cup {Never}]
  <2>1. \A t \in Time : [by |-> h, due |-> t] \in [by : Host \cup {NoHost}, due : Time]
    OBVIOUS
  <2>2. /\ ticket \in [Nonce -> [by : Host \cup {NoHost}, due : Time]]
        /\ cdAt \in [Host -> Time \cup {Never}]
    BY DEF TypeOK
  <2>3. CASE /\ ticket' = [ticket EXCEPT ![n] = [by |-> h, due |-> s.m.phase.at]]
             /\ cdAt' = [cdAt EXCEPT ![h] = Never]
    BY <1>4, <2>1, <2>2, <2>3
  <2>4. CASE UNCHANGED <<cdAt, ticket>>
    BY <2>2, <2>4
  <2> QED BY <1>5, <2>3, <2>4
<1>9. asked' \in [Nonce -> Call]
  <2>1. asked \in [Nonce -> Call] /\ NoClaim \in Call
    BY ClockAssumption DEF TypeOK, NoClaim, Call, Time
  <2> QED BY <1>5, <2>1
<1> QED BY <1>5, <1>6, <1>7, <1>8, <1>9 DEF TypeOK, world

\* Queueing a received datagram keeps the types (runner.rs, receive_loop).
LEMMA ReceiveType ==
  ASSUME TypeOK, NEW h \in Host, Receive(h)
  PROVE  TypeOK'
<1>1. PICK d \in sent : rx' = [rx EXCEPT ![h] = Append(@, d.msg)]
  BY DEF Receive
<1>2. d.msg \in Message /\ rx[h] \in Seq(Message)
  BY DEF TypeOK
<1>3. Append(rx[h], d.msg) \in Seq(Message)
  BY <1>2, AppendProperties
<1>4. rx' \in [Host -> Seq(Message)]
  BY <1>1, <1>3 DEF TypeOK
<1> QED BY <1>4 DEF Receive, TypeOK, hubState, world, claims

\* Handling a queued message keeps the types (runner.rs, dispatch_control).
LEMMA WorkerControlType ==
  ASSUME TypeOK, NEW h \in Host, WorkerControl(h)
  PROVE  TypeOK'
<1> DEFINE msg == Head(rx[h])
           request == msg.kind = "Request"
           m == IF request THEN [machine[h] EXCEPT !.hasAudio = TRUE] ELSE machine[h]
           s == on_message(m, msg, Clock(h))
<1>1. msg \in Message /\ Tail(rx[h]) \in Seq(Message)
  BY HeadTailProperties DEF WorkerControl, TypeOK
<1>2. m \in Machine
  BY FlagType DEF TypeOK
<1>3. s \in StepType
  BY <1>1, <1>2, ClockType, MessageHandlerType
<1>4. /\ rx' = [rx EXCEPT ![h] = Tail(@)]
      /\ \/ UNCHANGED <<machine, work, sent>>
         \/ /\ sent' \in {sent, sent \cup {Datagram(h, Reply("NoAudio", msg.nonce))}}
            /\ UNCHANGED <<machine, work>>
         \/ Begin(h, s) /\ UNCHANGED sent
      /\ UNCHANGED <<hubState, world, claims, now>>
  BY DEF WorkerControl, dispatch_control
<1> HIDE DEF msg, s, m, request
<1>5. machine' \in [Host -> Machine] /\ work' \in [Host -> Work]
  BY <1>3, <1>4, BeginType DEF TypeOK
<1>6. sent' \subseteq [from : Host, msg : Message]
  <2>1. msg.nonce \in Nonce
    BY <1>1 DEF Message
  <2>2. Datagram(h, Reply("NoAudio", msg.nonce)) \in [from : Host, msg : Message]
    BY <2>1, MessageTypes DEF ReplyKind, Datagram
  <2> QED BY <1>4, <2>2 DEF TypeOK
<1> QED BY <1>1, <1>4, <1>5, <1>6 DEF TypeOK, hubState, world, claims

\* Handling a deadline keeps the types (runner.rs, the worker's tick).
LEMMA WorkerTickType ==
  ASSUME TypeOK, NEW h \in Host, WorkerTick(h)
  PROVE  TypeOK'
<1>1. tick(machine[h], Clock(h)) \in StepType
  BY ClockType, TickType DEF TypeOK
<1>2. machine' \in [Host -> Machine] /\ work' \in [Host -> Work]
  BY <1>1, BeginType DEF WorkerTick
<1> QED BY <1>2 DEF WorkerTick, TypeOK, hubState, world, claims

\* Observing what a host holds keeps the types (group.rs, refresh_holding).
LEMMA WorkerRefreshType ==
  ASSUME TypeOK, NEW h \in Host, WorkerRefresh(h)
  PROVE  TypeOK'
<1>1. PICK hp \in Headset \cup {NoHeadset} :
        /\ holding' = [holding EXCEPT ![h] = hp]
        /\ machine' = [machine EXCEPT ![h] = WithHolding(h, hp)]
  BY DEF WorkerRefresh, TypeOK, OperationState
<1>2. machine' \in [Host -> Machine]
  BY <1>1, WithHoldingType DEF TypeOK
<1> QED BY <1>1, <1>2 DEF WorkerRefresh, TypeOK, world, claims

\* Adopting a headset keeps the types (group.rs, adopt_headset).
LEMMA AdoptHeadsetType ==
  ASSUME TypeOK, NEW h \in Host, NEW hp \in Headset \cup {NoHeadset}, AdoptHeadset(h, hp)
  PROVE  TypeOK'
<1> DEFINE o == [op[h] EXCEPT !.audioCandidate = hp]
<1>1. op \in [Host -> OperationState]
  BY DEF TypeOK
<1>2. o \in OperationState
  BY <1>1 DEF OperationState
<1>3. /\ \/ op' = [op EXCEPT ![h] = o] /\ UNCHANGED world
         \/ /\ hp \in Headset
            /\ \E ok \in BOOLEAN : LiftSuppression(h, o, hp, ok)
            /\ link' \in {link, [link EXCEPT ![hp] = h]}
      /\ \E seen \in {hp, NoHeadset} : Holds(h, seen)
      /\ UNCHANGED <<closed, running, work, rx, sent, claims, now>>
  BY DEF AdoptHeadset
<1> HIDE DEF o
<1>4. /\ op' \in [Host -> OperationState]
      /\ muted' \subseteq Host \X Headset
      /\ link' \in [Headset -> Host \cup {NoHost}]
  <2>1. CASE op' = [op EXCEPT ![h] = o] /\ UNCHANGED world
    BY <1>1, <1>2, <2>1 DEF TypeOK, world
  <2>2. CASE /\ hp \in Headset
             /\ \E ok \in BOOLEAN : LiftSuppression(h, o, hp, ok)
             /\ link' \in {link, [link EXCEPT ![hp] = h]}
    <3>1. op' \in [Host -> OperationState] /\ muted' \subseteq Host \X Headset
      BY <1>2, <2>2, LiftType
    <3>2. link' \in [Headset -> Host \cup {NoHost}]
      BY <2>2 DEF TypeOK
    <3> QED BY <3>1, <3>2
  <2> QED BY <1>3, <2>1, <2>2
<1>5. /\ holding' \in [Host -> Headset \cup {NoHeadset}]
      /\ machine' \in [Host -> Machine]
  <2>1. PICK seen \in Headset \cup {NoHeadset} :
          /\ holding' = [holding EXCEPT ![h] = seen]
          /\ machine' = [machine EXCEPT ![h] = WithHolding(h, seen)]
    BY <1>3 DEF Holds
  <2> QED BY <2>1, WithHoldingType DEF TypeOK
<1> QED BY <1>3, <1>4, <1>5 DEF TypeOK, claims

\* Rebinding the control channel keeps the types (group.rs, set_control_address).
LEMMA SetControlAddressType ==
  ASSUME TypeOK, NEW h \in Host, NEW hp \in Headset \cup {NoHeadset},
         SetControlAddress(h, hp)
  PROVE  TypeOK'
<1>1. op \in [Host -> OperationState] /\ machine \in [Host -> Machine]
  BY DEF TypeOK
<1>2. [op[h] EXCEPT !.controlAddress = hp] \in OperationState
  BY <1>1 DEF OperationState
<1>3. op' \in [Host -> OperationState]
  <2>1. op' = [op EXCEPT ![h].controlAddress = hp]
    BY DEF SetControlAddress
  <2> QED BY <1>1, <1>2, <2>1
<1>4. update_control_capability(machine[h], op'[h]) \in Machine
  BY <1>1, <1>3, CapabilityType
<1>5. machine' \in [Host -> Machine]
  BY <1>1, <1>4 DEF SetControlAddress
<1> QED BY <1>3, <1>5 DEF SetControlAddress, TypeOK, world, claims

\* Leaving keeps the types (runner.rs, leave).
LEMMA LeaveType ==
  ASSUME TypeOK, NEW h \in Host, Leave(h)
  PROVE  TypeOK'
<1> DEFINE s == on_audio_failed(machine[h])
           aborts == {Datagram(h, s.acts[i].msg) :
                        i \in {j \in DOMAIN s.acts : s.acts[j].do = "Send"}}
           left == [s.m EXCEPT !.hasAudio = FALSE, !.canControlHeadset = FALSE]
<1>1. s.m \in Machine /\ s.acts \in Seq(Action)
  BY AudioFailedType DEF TypeOK, StepType
<1>2. left \in Machine
  <2> HIDE DEF s
  <2> QED BY <1>1 DEF Machine
<1>3. aborts \subseteq [from : Host, msg : Message]
  <2> HIDE DEF s
  <2>1. \A i \in DOMAIN s.acts : s.acts[i] \in Action
    BY <1>1
  <2>2. \A i \in DOMAIN s.acts : s.acts[i].do = "Send" => s.acts[i].msg \in Message
    BY <2>1 DEF Action, SendHeadsetDisconnect
  <2> QED BY <2>2 DEF Datagram
<1>4. /\ machine' = [machine EXCEPT ![h] = left]
      /\ sent' \in {sent, sent \cup aborts}
      /\ holding' = [holding EXCEPT ![h] = NoHeadset]
      /\ closed' = [closed EXCEPT ![h] = TRUE]
      /\ UNCHANGED <<running, work, rx, link, claims, now>>
  BY DEF Leave
<1>5. PICK stuck \in SUBSET op[h].suppressed :
        /\ op' = [op EXCEPT ![h] = [suppressed |-> stuck, controlAddress |-> NoHeadset,
                                    audioCandidate |-> NoHeadset, canControl |-> FALSE]]
        /\ muted' = muted \ {<<h, hp>> : hp \in op[h].suppressed \ stuck}
  BY DEF Leave
<1> HIDE DEF s, aborts, left
<1>6. /\ machine' \in [Host -> Machine]
      /\ sent' \subseteq [from : Host, msg : Message]
  BY <1>2, <1>3, <1>4 DEF TypeOK
<1>7. op' \in [Host -> OperationState] /\ muted' \subseteq Host \X Headset
  <2>1. stuck \in SUBSET Headset
    BY DEF TypeOK, OperationState
  <2>2. [suppressed |-> stuck, controlAddress |-> NoHeadset,
         audioCandidate |-> NoHeadset, canControl |-> FALSE] \in OperationState
    BY <2>1 DEF OperationState
  <2> QED BY <1>5, <2>2 DEF TypeOK
<1>8. /\ holding' \in [Host -> Headset \cup {NoHeadset}]
      /\ closed' \in [Host -> BOOLEAN]
  BY <1>4 DEF TypeOK
<1> QED BY <1>4, <1>6, <1>7, <1>8 DEF TypeOK, claims

\* Datagrams, headsets and the clock keep the types.
LEMMA EnvironmentType ==
  ASSUME TypeOK, Environment
  PROVE  TypeOK'
<1>1. ASSUME NEW h \in Host, ReceiveFails(h)
      PROVE  TypeOK'
  BY <1>1 DEF ReceiveFails, TypeOK, world, claims
<1>2. ASSUME NEW hp \in Headset, LinkDrops(hp)
      PROVE  TypeOK'
  BY <1>2 DEF LinkDrops, TypeOK, hubState, claims
<1>3. ASSUME NEW h \in Host, NEW hp \in Headset, AutoReconnects(h, hp)
      PROVE  TypeOK'
  BY <1>3 DEF AutoReconnects, TypeOK, hubState, claims
<1>4. ASSUME TimePasses
      PROVE  TypeOK'
  <2>1. now' \in Time
    BY <1>4, ClockAssumption DEF TimePasses, TypeOK, Time
  <2> QED BY <1>4, <2>1 DEF TimePasses, TypeOK, hubState, world, claims
<1> QED BY <1>1, <1>2, <1>3, <1>4, ReceiveType DEF Environment

\* Every step keeps the types.
LEMMA NextType ==
  ASSUME TypeOK, [Next]_vars
  PROVE  TypeOK'
<1>1. CASE UNCHANGED vars
  BY <1>1 DEF TypeOK, vars
<1>2. ASSUME NEW h \in Host, Worker(h)
      PROVE  TypeOK'
  BY <1>2, WorkerControlType, WorkerTickType, WorkerRefreshType DEF Worker
<1>3. ASSUME NEW h \in Host, User(h)
      PROVE  TypeOK'
  BY <1>3, CallingType, ClaimAtType, AdoptHeadsetType, SetControlAddressType, LeaveType
     DEF User
<1> QED BY <1>1, <1>2, <1>3, EnvironmentType, ApplyType DEF Next

\* The initial state is well typed.
LEMMA InitType ==
  ASSUME Init
  PROVE  TypeOK
<1>1. PICK control \in [Host -> Headset \cup {NoHeadset}] :
        op = [h \in Host |-> [suppressed |-> {}, controlAddress |-> control[h],
                              audioCandidate |-> holding[h], canControl |-> TRUE]]
  BY DEF Init
<1>2. op \in [Host -> OperationState]
  BY <1>1 DEF Init, OperationState
<1>3. NewMachine \in Machine
  BY PhaseTypes DEF NewMachine, Machine
<1>4. \A h \in Host : update_control_capability(
          [NewMachine EXCEPT !.hasAudio = (holding[h] # NoHeadset)], op[h]) \in Machine
  BY <1>2, <1>3, FlagType, CapabilityType
<1>5. machine \in [Host -> Machine]
  BY <1>4 DEF Init
<1>6. NoWork \in Work /\ work \in [Host -> Work]
  BY EmptySeq DEF NoWork, Work, Init
<1>7. 0 \in Time /\ NoClaim \in Call
  BY ClockAssumption DEF Time, NoClaim, Call
<1> QED BY <1>2, <1>5, <1>6, <1>7, EmptySeq DEF Init, TypeOK

\* In every reachable state all the variables have their types; in particular
\* no deadline or ready time ever leaves the range of the clock (handoff.rs,
\* saturating_add), and no phase loses its nonce or its headset.
THEOREM TypeCorrect == Spec => []TypeOK
<1>1. Init => TypeOK
  BY InitType
<1>2. TypeOK /\ [Next]_vars => TypeOK'
  BY NextType
<1> QED BY <1>1, <1>2, PTL DEF Spec

-----------------------------------------------------------------------------
(* What a step of the apply loop may change *)

\* The other hosts are left alone.
OthersKept(h) ==
  \A k \in Host \ {h} : /\ machine'[k] = machine[k] /\ work'[k] = work[k]
                        /\ op'[k] = op[k] /\ holding'[k] = holding[k]
                        /\ closed'[k] = closed[k] /\ rx'[k] = rx[k]
                        /\ cdAt'[k] = cdAt[k]

\* The handoff goes on, or ends; the capability to send CD stays.
PhaseKeptOrEnded(h) ==
  /\ machine'[h].phase \in {machine[h].phase, Idle}
  /\ machine'[h].canControlHeadset = machine[h].canControlHeadset

\* An action that fails ends the handoff, unless one of its queue has failed before.
LEMMA FailEffect ==
  ASSUME TypeOK, NEW h \in Host, NEW m \in Machine, FailAction(h, m)
  PROVE  /\ machine'[h].phase \in {m.phase, Idle}
         /\ machine'[h].canControlHeadset = m.canControlHeadset
         /\ ~work[h].failed => machine'[h].phase = Idle
         /\ \A k \in Host \ {h} : machine'[k] = machine[k] /\ work'[k] = work[k]
<1>1. machine \in [Host -> Machine] /\ work \in [Host -> Work]
  BY DEF TypeOK
<1>2. CASE work[h].failed
  BY <1>1, <1>2 DEF FailAction, Proceed
<1>3. CASE ~work[h].failed
  <2> DEFINE s == on_audio_failed(m)
  <2>1. s.m.phase = Idle /\ s.m.canControlHeadset = m.canControlHeadset
    BY AudioResults
  <2> HIDE DEF s
  <2>2. machine' = [machine EXCEPT ![h] = s.m] /\ \E w : work' = [work EXCEPT ![h] = w]
    BY <1>3 DEF FailAction, s
  <2> QED BY <1>1, <2>1, <2>2
<1> QED BY <1>2, <1>3

\* Going on with the apply loop touches no other host's queue.
LEMMA ProceedEffect ==
  ASSUME TypeOK, NEW h \in Host, NEW more, NEW failed, Proceed(h, more, failed)
  PROVE  \A k \in Host \ {h} : work'[k] = work[k]
BY DEF TypeOK, Proceed

\* update_holding leaves the phase and the capability of the machine alone.
LEMMA WithHoldingEffect ==
  ASSUME TypeOK, NEW h \in Host, NEW hp \in Headset \cup {NoHeadset}
  PROVE  /\ WithHolding(h, hp).phase = machine[h].phase
         /\ WithHolding(h, hp).canControlHeadset = machine[h].canControlHeadset
BY DEF WithHolding, TypeOK, Machine

\* Lifting a suppression touches no other host and no control address.
LEMMA LiftEffect ==
  ASSUME TypeOK, NEW h \in Host, NEW o \in OperationState, NEW hp, NEW ok,
         LiftSuppression(h, o, hp, ok)
  PROVE  /\ \A k \in Host \ {h} : op'[k] = op[k]
         /\ op'[h].controlAddress = o.controlAddress
BY DEF LiftSuppression, TypeOK, OperationState

\* Only DoConnectAudio, DoDisconnectAudio and a failure change the machine, and
\* the connecting phase does not survive its connection attempt.
LEMMA ConnectAudioEffect ==
  ASSUME TypeOK, NEW h \in Host, DoConnectAudio(h)
  PROVE  /\ PhaseKeptOrEnded(h) /\ OthersKept(h)
         /\ op'[h].controlAddress = op[h].controlAddress
         /\ phase(h).kind = "ConnectingAudio" /\ ~work[h].failed =>
              machine'[h].phase = Idle
<1> DEFINE hp == Target(h)
<1>1. /\ ~LockFree(h) /\ hp \in Headset /\ op[h] \in OperationState
      /\ machine \in [Host -> Machine] /\ work \in [Host -> Work]
      /\ holding \in [Host -> Headset \cup {NoHeadset}]
  BY HeadCases DEF DoConnectAudio, Doing, Target, TypeOK
<1>2. UNCHANGED <<closed, running, rx, sent, claims, now>>
  BY DEF DoConnectAudio
<1>3. /\ \A k \in Host \ {h} : op'[k] = op[k]
      /\ op'[h].controlAddress = op[h].controlAddress
  BY <1>1, LiftEffect DEF DoConnectAudio
<1> HIDE DEF hp
<1>4. CASE FailAction(h, machine[h]) /\ UNCHANGED holding
  BY <1>1, <1>2, <1>3, <1>4, FailEffect
     DEF PhaseKeptOrEnded, OthersKept, phase, claims
<1>5. CASE /\ holding' = [holding EXCEPT ![h] = hp]
           /\ LET s == on_audio_connected(WithHolding(h, hp))
              IN /\ machine' = [machine EXCEPT ![h] = s.m]
                 /\ Proceed(h, s.acts, work[h].failed)
  <2> DEFINE s == on_audio_connected(WithHolding(h, hp))
  <2>1. /\ s.m.phase = IF phase(h).kind = "ConnectingAudio" THEN Idle ELSE phase(h)
        /\ s.m.canControlHeadset = machine[h].canControlHeadset
    BY <1>1, WithHoldingType, WithHoldingEffect, AudioResults DEF phase
  <2>2. machine' = [machine EXCEPT ![h] = s.m] /\ \A k \in Host \ {h} : work'[k] = work[k]
    BY <1>5, ProceedEffect
  <2> HIDE DEF s
  <2> QED BY <1>1, <1>2, <1>3, <1>5, <2>1, <2>2
          DEF PhaseKeptOrEnded, OthersKept, phase, claims
<1>6. CASE /\ holding' \in {[holding EXCEPT ![h] = seen] : seen \in
                 IF link'[hp] = h THEN {hp}
                 ELSE IF "observe" \in Faults THEN {hp, NoHeadset} ELSE {NoHeadset}}
           /\ FailAction(h, WithHolding(h, holding'[h]))
  <2>1. PICK seen \in {hp, NoHeadset} : holding' = [holding EXCEPT ![h] = seen]
    BY <1>6
  <2>2. /\ holding'[h] \in Headset \cup {NoHeadset}
        /\ \A k \in Host \ {h} : holding'[k] = holding[k]
    BY <1>1, <2>1
  <2>3. /\ WithHolding(h, holding'[h]) \in Machine
        /\ WithHolding(h, holding'[h]).phase = machine[h].phase
        /\ WithHolding(h, holding'[h]).canControlHeadset = machine[h].canControlHeadset
    BY <2>2, WithHoldingType, WithHoldingEffect
  <2>4. /\ machine'[h].phase \in {machine[h].phase, Idle}
        /\ machine'[h].canControlHeadset = machine[h].canControlHeadset
        /\ ~work[h].failed => machine'[h].phase = Idle
        /\ \A k \in Host \ {h} : machine'[k] = machine[k] /\ work'[k] = work[k]
    BY <1>6, <2>3, FailEffect
  <2> QED BY <1>2, <1>3, <2>2, <2>4 DEF PhaseKeptOrEnded, OthersKept, claims
<1> QED BY <1>4, <1>5, <1>6 DEF DoConnectAudio, hp

\* Releasing the audio keeps the handoff or ends it, and touches no other host.
LEMMA DisconnectAudioEffect ==
  ASSUME TypeOK, NEW h \in Host, DoDisconnectAudio(h)
  PROVE  PhaseKeptOrEnded(h) /\ OthersKept(h)
<1> DEFINE s == on_audio_disconnected(WithHolding(h, NoHeadset))
<1>1. /\ machine \in [Host -> Machine] /\ holding \in [Host -> Headset \cup {NoHeadset}]
      /\ UNCHANGED <<op, closed, running, rx, sent, muted, claims, now>>
  BY DEF DoDisconnectAudio, TypeOK
<1>2. /\ s.m.phase = machine[h].phase
      /\ s.m.canControlHeadset = machine[h].canControlHeadset
  BY WithHoldingType, WithHoldingEffect, AudioResults
<1>3. CASE /\ holding' = [holding EXCEPT ![h] = NoHeadset]
           /\ machine' = [machine EXCEPT ![h] = s.m]
           /\ Proceed(h, s.acts, work[h].failed)
  <2>1. \A k \in Host \ {h} : work'[k] = work[k]
    BY <1>3, ProceedEffect
  <2> HIDE DEF s
  <2> QED BY <1>1, <1>2, <1>3, <2>1 DEF PhaseKeptOrEnded, OthersKept, claims
<1>4. CASE FailAction(h, machine[h]) /\ UNCHANGED holding
  BY <1>1, <1>4, FailEffect DEF PhaseKeptOrEnded, OthersKept, claims
<1> QED BY <1>3, <1>4 DEF DoDisconnectAudio

\* The other actions leave the machine alone unless they fail.
LEMMA PlainActionEffect ==
  ASSUME TypeOK, NEW h \in Host,
         \/ DoSend(h) \/ DoSuppress(h) \/ DoRestore(h)
         \/ DoSendHeadsetDisconnect(h) \/ DoPause(h) \/ DoReport(h)
  PROVE  PhaseKeptOrEnded(h) /\ OthersKept(h)
<1>1. /\ ~LockFree(h) /\ machine \in [Host -> Machine] /\ op \in [Host -> OperationState]
      /\ cdAt \in [Host -> Time \cup {Never}]
  BY DEF DoSend, DoSuppress, DoRestore, DoSendHeadsetDisconnect, DoPause, DoReport,
         Doing, TypeOK
<1>2. UNCHANGED <<holding, closed, rx>>
  BY DEF DoSend, DoSuppress, DoRestore, DoSendHeadsetDisconnect, DoPause, DoReport, hubState
<1>3. \/ FailAction(h, machine[h])
      \/ (\E more, failed : Proceed(h, more, failed)) /\ UNCHANGED machine
  BY DEF DoSend, DoSuppress, DoRestore, DoSendHeadsetDisconnect, DoPause, DoReport
<1>4. PhaseKeptOrEnded(h) /\ \A k \in Host \ {h} : machine'[k] = machine[k] /\ work'[k] = work[k]
  BY <1>1, <1>3, FailEffect, ProceedEffect DEF PhaseKeptOrEnded
<1>5. \A k \in Host \ {h} : op'[k] = op[k]
  <2>1. CASE UNCHANGED op
    BY <2>1
  <2>2. CASE DoSuppress(h)
    BY <1>1, <2>2 DEF DoSuppress
  <2>3. CASE DoRestore(h)
    BY <1>1, <2>3, LiftEffect DEF DoRestore
  <2> QED BY <2>1, <2>2, <2>3
          DEF DoSend, DoSendHeadsetDisconnect, DoPause, DoReport, hubState
<1>6. \A k \in Host \ {h} : cdAt'[k] = cdAt[k]
  BY <1>1 DEF DoSend, DoSuppress, DoRestore, DoSendHeadsetDisconnect, DoPause, DoReport,
              claims
<1> QED BY <1>2, <1>4, <1>5, <1>6 DEF OthersKept

\* A turn of the apply loop keeps the handoff or ends it, on this host alone.
LEMMA ApplyEffect ==
  ASSUME TypeOK, NEW h \in Host, ApplyStep(h)
  PROVE  /\ ~LockFree(h) /\ UNCHANGED <<closed, rx, now>>
         /\ PhaseKeptOrEnded(h) /\ OthersKept(h)
         /\ op'[h].controlAddress = op[h].controlAddress
<1>1. ~LockFree(h) /\ UNCHANGED <<closed, rx, now>>
  BY DEF ApplyStep, DoSend, DoConnectAudio, DoDisconnectAudio, DoSuppress, DoRestore,
         DoSendHeadsetDisconnect, DoPause, DoReport, Doing, hubState
<1>2. PhaseKeptOrEnded(h) /\ OthersKept(h)
  BY ConnectAudioEffect, DisconnectAudioEffect, PlainActionEffect DEF ApplyStep
<1>3. op'[h].controlAddress = op[h].controlAddress
  <2>1. op \in [Host -> OperationState]
    BY DEF TypeOK
  <2>2. CASE UNCHANGED op
    BY <2>2
  <2>3. CASE DoSuppress(h)
    BY <2>1, <2>3 DEF DoSuppress, OperationState
  <2>4. CASE DoRestore(h)
    BY <2>1, <2>4, LiftEffect DEF DoRestore
  <2>5. CASE DoConnectAudio(h)
    BY <2>5, ConnectAudioEffect
  <2> QED BY <2>2, <2>3, <2>4, <2>5
          DEF ApplyStep, DoSend, DoDisconnectAudio, DoSendHeadsetDisconnect, DoPause,
              DoReport, hubState
<1> QED BY <1>1, <1>2, <1>3

-----------------------------------------------------------------------------
(* The steps that matter to the handoff of a host *)

Untouched(k) ==
  /\ machine'[k].phase = machine[k].phase
  /\ machine'[k].canControlHeadset = machine[k].canControlHeadset
  /\ work'[k] = work[k]
  /\ op'[k].controlAddress = op[k].controlAddress
  /\ cdAt'[k] = cdAt[k]

\* The handlers of a host do not touch another host.
LEMMA HandlersLocal ==
  ASSUME TypeOK, NEW h \in Host, Worker(h) \/ User(h), NEW k \in Host \ {h}
  PROVE  Untouched(k)
<1>1. /\ machine \in [Host -> Machine] /\ work \in [Host -> Work]
      /\ op \in [Host -> OperationState] /\ cdAt \in [Host -> Time \cup {Never}]
  BY DEF TypeOK
<1>2. CASE WorkerControl(h)
  BY <1>1, <1>2 DEF WorkerControl, dispatch_control, Begin, Untouched, hubState, claims
<1>3. CASE WorkerTick(h)
  BY <1>1, <1>3 DEF WorkerTick, Begin, Untouched, hubState, claims
<1>4. CASE WorkerRefresh(h)
  BY <1>1, <1>4 DEF WorkerRefresh, Untouched, claims
<1>5. ASSUME NEW hp \in Headset, NEW n \in Nonce, ClaimAt(h, hp, n)
      PROVE  Untouched(k)
  BY <1>1, <1>5 DEF ClaimAt, Begin, Untouched, claims
<1>6. ASSUME NEW hp \in Headset \cup {NoHeadset}, AdoptHeadset(h, hp)
      PROVE  Untouched(k)
  BY <1>1, <1>6 DEF AdoptHeadset, Holds, LiftSuppression, Untouched, claims
<1>7. ASSUME NEW hp \in Headset \cup {NoHeadset}, SetControlAddress(h, hp)
      PROVE  Untouched(k)
  BY <1>1, <1>7 DEF SetControlAddress, Untouched, claims
<1>8. CASE Leave(h)
  BY <1>1, <1>8 DEF Leave, Untouched, claims
<1>9. CASE Calling(h)
  BY <1>9, CallingEffect DEF Untouched
<1> QED BY <1>2, <1>3, <1>4, <1>5, <1>6, <1>7, <1>8, <1>9 DEF Worker, User

\* Refreshing and adopting change what a host holds, not its handoff.
LEMMA HoldingHandlers ==
  ASSUME TypeOK, NEW h \in Host,
         WorkerRefresh(h) \/ \E hp \in Headset \cup {NoHeadset} : AdoptHeadset(h, hp)
  PROVE  Untouched(h)
<1>1. op \in [Host -> OperationState] /\ machine \in [Host -> Machine]
  BY DEF TypeOK
<1>2. CASE WorkerRefresh(h)
  <2>1. PICK hp \in Headset \cup {NoHeadset} :
          machine' = [machine EXCEPT ![h] = WithHolding(h, hp)]
    BY <1>2 DEF WorkerRefresh, TypeOK, OperationState
  <2>2. machine'[h] = WithHolding(h, hp)
    BY <1>1, <2>1
  <2> QED BY <1>2, <2>2, WithHoldingEffect DEF WorkerRefresh, Untouched, claims
<1>3. ASSUME NEW hp \in Headset \cup {NoHeadset}, AdoptHeadset(h, hp)
      PROVE  Untouched(h)
  <2> DEFINE o == [op[h] EXCEPT !.audioCandidate = hp]
  <2>1. o \in OperationState /\ o.controlAddress = op[h].controlAddress
    BY <1>1 DEF OperationState
  <2>2. /\ op' = [op EXCEPT ![h] = o] \/ \E ok \in BOOLEAN : LiftSuppression(h, o, hp, ok)
        /\ \E seen \in {hp, NoHeadset} : Holds(h, seen)
        /\ UNCHANGED <<work, claims>>
    BY <1>3 DEF AdoptHeadset
  <2> HIDE DEF o
  <2>3. op'[h].controlAddress = op[h].controlAddress
    BY <1>1, <2>1, <2>2, LiftEffect
  <2>4. PICK seen \in Headset \cup {NoHeadset} :
          machine' = [machine EXCEPT ![h] = WithHolding(h, seen)]
    BY <2>2 DEF Holds
  <2>5. machine'[h] = WithHolding(h, seen)
    BY <1>1, <2>4
  <2> QED BY <2>2, <2>3, <2>5, WithHoldingEffect DEF Untouched, claims
<1> QED BY <1>2, <1>3

\* The environment changes no machine, queue of actions or record of a hub.
LEMMA EnvironmentUntouched ==
  ASSUME Environment, NEW k \in Host
  PROVE  Untouched(k)
BY DEF Environment, Receive, ReceiveFails, LinkDrops, AutoReconnects, TimePasses,
       Untouched, hubState, claims

\* Seen from one host, a step is one of its own operations or leaves it alone.
LEMMA StepCases ==
  ASSUME TypeOK, [Next]_vars, NEW k \in Host
  PROVE  \/ Untouched(k)
         \/ ApplyStep(k)
         \/ WorkerControl(k)
         \/ WorkerTick(k)
         \/ \E hp \in Headset, n \in Nonce : ClaimAt(k, hp, n)
         \/ \E hp \in Headset \cup {NoHeadset} : SetControlAddress(k, hp)
         \/ Leave(k)
<1>1. CASE UNCHANGED vars
  BY <1>1 DEF vars, Untouched
<1>2. CASE Environment
  BY <1>2, EnvironmentUntouched
<1>3. ASSUME NEW h \in Host, h # k, ApplyStep(h)
      PROVE  Untouched(k)
  BY <1>3, ApplyEffect DEF OthersKept, Untouched
<1>4. ASSUME NEW h \in Host, h # k, Worker(h) \/ User(h)
      PROVE  Untouched(k)
  BY <1>4, HandlersLocal
<1>5. CASE Worker(k) \/ User(k)
  <2>1. CASE Calling(k)
    BY <2>1, CallingEffect DEF Untouched
  <2> QED BY <1>5, <2>1, HoldingHandlers DEF Worker, User
<1> QED BY <1>1, <1>2, <1>3, <1>4, <1>5 DEF Next

\* Time only moves forward, and with it every clock.
LEMMA TimeForward ==
  ASSUME TypeOK, [Next]_vars
  PROVE  /\ now <= now'
         /\ \A h \in Host : /\ Clock(h) \in Time /\ Clock(h)' \in Time
                           /\ Clock(h) <= Clock(h)'
<1>1. now \in Nat /\ now' \in {now, now + 1}
  <2>1. now \in Nat
    BY ClockAssumption DEF TypeOK, Time
  <2>2. CASE UNCHANGED now
    BY <2>1, <2>2
  <2>3. CASE TimePasses
    BY <2>1, <2>3 DEF TimePasses
  <2>4. ASSUME NEW h \in Host, ApplyStep(h)
        PROVE  UNCHANGED now
    BY <2>4, ApplyEffect
  <2>5. ASSUME NEW h \in Host, Worker(h)
        PROVE  UNCHANGED now
    BY <2>5 DEF Worker, WorkerControl, WorkerTick, WorkerRefresh
  <2>6. ASSUME NEW h \in Host, User(h)
        PROVE  UNCHANGED now
    BY <2>6, CallingEffect DEF User, ClaimAt, AdoptHeadset, SetControlAddress, Leave
  <2>7. CASE Environment
    BY <2>2, <2>3, <2>7
       DEF Environment, Receive, ReceiveFails, LinkDrops, AutoReconnects
  <2>8. CASE UNCHANGED vars
    BY <2>2, <2>8 DEF vars
  <2> QED BY <2>2, <2>4, <2>5, <2>6, <2>7, <2>8 DEF Next
<1>2. ASSUME NEW h \in Host
      PROVE  /\ Clock(h) \in Time /\ Clock(h)' \in Time
             /\ Clock(h) <= Clock(h)'
  <2>1. Skew[h] \in Nat
    BY HostAssumption
  <2> QED BY <1>1, <2>1, ClockAssumption DEF Clock, saturating_add, Time
<1> QED BY <1>1, <1>2

\* A control message or a tick that makes the machine move.
Moves(k) ==
  \E m \in Machine, s \in StepType :
     /\ m.phase = machine[k].phase
     /\ m.canControlHeadset = machine[k].canControlHeadset
     /\ Faithful(m, s, Clock(k))
     /\ machine'[k] = s.m
     /\ work'[k] = [queue |-> s.acts, failed |-> FALSE]

\* What the worker does is a faithful step of the machine, taken with the lock free.
LEMMA WorkerMoves ==
  ASSUME TypeOK, NEW k \in Host, WorkerControl(k) \/ WorkerTick(k)
  PROVE  /\ LockFree(k) /\ ~closed[k]
         /\ op' = op /\ cdAt' = cdAt /\ now' = now
         /\ Untouched(k) \/ Moves(k)
<1>1. /\ LockFree(k) /\ ~closed[k] /\ op' = op /\ cdAt' = cdAt /\ now' = now
      /\ machine \in [Host -> Machine] /\ work \in [Host -> Work]
  BY DEF WorkerControl, WorkerTick, WorkerReady, WorkerUnclaimed, hubState, claims, TypeOK
<1>2. Clock(k) \in Time
  BY ClockType
<1>3. CASE WorkerControl(k)
  <2> DEFINE msg == Head(rx[k])
             request == msg.kind = "Request"
             m == IF request THEN [machine[k] EXCEPT !.hasAudio = TRUE] ELSE machine[k]
             s == on_message(m, msg, Clock(k))
  <2>1. msg \in Message
    BY <1>3, HeadTailProperties DEF WorkerControl, TypeOK
  <2>2. /\ m \in Machine /\ m.phase = machine[k].phase
        /\ m.canControlHeadset = machine[k].canControlHeadset
    <3>1. machine[k] \in Machine
      BY <1>1
    <3>2. [machine[k] EXCEPT !.hasAudio = TRUE] \in Machine
      BY <3>1, FlagType
    <3>3. /\ [machine[k] EXCEPT !.hasAudio = TRUE].phase = machine[k].phase
          /\ [machine[k] EXCEPT !.hasAudio = TRUE].canControlHeadset =
               machine[k].canControlHeadset
      BY <3>1 DEF Machine
    <3> QED BY <3>1, <3>2, <3>3
  <2>3. s \in StepType /\ Faithful(m, s, Clock(k))
    BY <1>2, <2>1, <2>2, MessageHandlerType, MessageFaithful
  <2>4. UNCHANGED <<machine, work>> \/ Begin(k, s)
    BY <1>3 DEF WorkerControl, dispatch_control
  <2> HIDE DEF msg, request, m, s
  <2>5. CASE UNCHANGED <<machine, work>>
    BY <1>1, <2>5 DEF Untouched
  <2>6. CASE Begin(k, s)
    <3>1. machine'[k] = s.m /\ work'[k] = [queue |-> s.acts, failed |-> FALSE]
      BY <1>1, <2>6 DEF Begin
    <3> QED BY <1>1, <2>2, <2>3, <3>1 DEF Moves
  <2> QED BY <1>1, <2>4, <2>5, <2>6
<1>4. CASE WorkerTick(k)
  <2> DEFINE s == tick(machine[k], Clock(k))
  <2>1. s \in StepType /\ Faithful(machine[k], s, Clock(k)) /\ machine[k] \in Machine
    BY <1>1, <1>2, TickType, TickFaithful
  <2>2. Begin(k, s)
    BY <1>4 DEF WorkerTick
  <2> HIDE DEF s
  <2>3. machine'[k] = s.m /\ work'[k] = [queue |-> s.acts, failed |-> FALSE]
    BY <1>1, <2>2 DEF Begin
  <2> QED BY <1>1, <2>1, <2>3 DEF Moves
<1> QED BY <1>3, <1>4

\* A claim, refused or begun.
LEMMA ClaimMoves ==
  ASSUME TypeOK, NEW k \in Host, NEW hp \in Headset, NEW n \in Nonce, ClaimAt(k, hp, n)
  PROVE  /\ LockFree(k) /\ ~closed[k] /\ now' = now
         /\ op'[k].controlAddress = op[k].controlAddress
         /\ \/ /\ machine[k].phase.kind # "Idle" /\ machine'[k] = machine[k]
               /\ work'[k].queue = <<Report("Busy")>> /\ cdAt'[k] = cdAt[k]
            \/ /\ machine'[k].phase.kind = "WaitingRelease"
               /\ machine'[k].phase.headphone = hp
               /\ machine'[k].canControlHeadset => op[k].controlAddress = hp
               /\ cdAt'[k] = Never
<1> DEFINE free == phase(k).kind = "Idle"
           able == Bound(k, hp)
           m == IF free THEN [machine[k] EXCEPT !.canControlHeadset = able] ELSE machine[k]
           s == claim(m, hp, n, asked[n].at)
<1>1. /\ machine \in [Host -> Machine] /\ work \in [Host -> Work]
      /\ op \in [Host -> OperationState] /\ cdAt \in [Host -> Time \cup {Never}]
  BY DEF TypeOK
<1>2. LockFree(k) /\ ~closed[k] /\ now' = now
  BY DEF ClaimAt
<1>3. op'[k].controlAddress = op[k].controlAddress
  BY <1>1 DEF ClaimAt, OperationState
<1>4. machine'[k] = s.m /\ work'[k].queue = s.acts
  BY <1>1 DEF ClaimAt, Begin
<1>5. CASE free
  <2>1. /\ m.phase.kind = "Idle" /\ m.canControlHeadset = able
        /\ m \in [phase : Phase, hasAudio : BOOLEAN, canControlHeadset : {able},
                  peerHasAudio : BOOLEAN, peerHasNoAudio : BOOLEAN]
    BY <1>1, <1>5 DEF Machine, phase
  <2>2. /\ s.m.phase.kind = "WaitingRelease" /\ s.m.phase.headphone = hp
        /\ s.m.canControlHeadset = able
    <3> HIDE DEF m, able
    <3> QED BY <2>1 DEF claim, Step, WaitingRelease
  <2>3. cdAt'[k] = Never
    BY <1>1, <1>5 DEF ClaimAt
  <2>4. able => op[k].controlAddress = hp
    BY DEF Bound
  <2> HIDE DEF able, s
  <2> QED BY <1>2, <1>3, <1>4, <2>2, <2>3, <2>4
<1>6. CASE ~free
  <2>1. s = Step(machine[k], <<Report("Busy")>>)
    BY <1>6 DEF claim, phase
  <2>2. cdAt'[k] = cdAt[k]
    BY <1>6 DEF ClaimAt
  <2> QED BY <1>2, <1>3, <1>4, <1>6, <2>1, <2>2 DEF Step, phase
<1> QED BY <1>5, <1>6

\* Leaving ends the handoff.
LEMMA LeaveMoves ==
  ASSUME TypeOK, NEW k \in Host, Leave(k)
  PROVE  /\ LockFree(k) /\ closed'[k] /\ holding'[k] = NoHeadset
         /\ UNCHANGED <<work, cdAt, now>>
         /\ machine'[k].phase = Idle
         /\ ~machine'[k].hasAudio /\ ~machine'[k].canControlHeadset
<1> DEFINE s == on_audio_failed(machine[k])
<1>1. s.m \in Machine /\ s.m.phase = Idle
  BY AudioResults, AudioFailedType DEF TypeOK, StepType
<1>2. machine' = [machine EXCEPT ![k] =
                    [s.m EXCEPT !.hasAudio = FALSE, !.canControlHeadset = FALSE]]
  BY DEF Leave
<1> HIDE DEF s
<1>3. machine'[k] = [s.m EXCEPT !.hasAudio = FALSE, !.canControlHeadset = FALSE]
  BY <1>2 DEF TypeOK
<1>4. /\ machine'[k].phase = Idle
      /\ machine'[k].hasAudio = FALSE /\ machine'[k].canControlHeadset = FALSE
  BY <1>1, <1>3 DEF Machine
<1>5. /\ LockFree(k) /\ closed'[k] /\ holding'[k] = NoHeadset
      /\ UNCHANGED <<work, cdAt, now>>
  BY DEF Leave, claims, TypeOK
<1> QED BY <1>4, <1>5

\* Rebinding the control channel recomputes the capability, only.
LEMMA RebindMoves ==
  ASSUME TypeOK, NEW k \in Host, NEW hp \in Headset \cup {NoHeadset},
         SetControlAddress(k, hp)
  PROVE  /\ LockFree(k) /\ ~closed[k]
         /\ UNCHANGED <<work, cdAt, now>>
         /\ op'[k].controlAddress = hp
         /\ machine'[k].phase = machine[k].phase
         /\ machine'[k].canControlHeadset = Capability(machine[k], op'[k])
<1>1. machine[k] \in Machine /\ machine \in [Host -> Machine]
  BY DEF TypeOK
<1>2. machine'[k] = [machine[k] EXCEPT !.canControlHeadset = Capability(machine[k], op'[k])]
  BY <1>1 DEF SetControlAddress, update_control_capability
<1>3. op'[k].controlAddress = hp
  BY DEF SetControlAddress, TypeOK, OperationState
<1> QED BY <1>1, <1>2, <1>3 DEF SetControlAddress, claims, Machine

-----------------------------------------------------------------------------
(* The inductive invariant of the handoff *)

\* A connecting hub has exactly its connection attempt to make.
ConnectingAlone ==
  \A h \in Host : phase(h).kind = "ConnectingAudio" =>
     work[h] = [queue |-> <<ConnectAudio(phase_mac(h))>>, failed |-> FALSE]

\* Since it wrote CD a claimant has slept the gap, or is just doing so.
GapOrPause ==
  \A h \in Host : cdAt[h] # Never =>
     LET over == saturating_add(cdAt[h], ConnectGap)
     IN Clock(h) >= over \/ (~LockFree(h) /\ Head(work[h].queue) = Pause(over))

HandoffInv == TypeOK /\ ConnectingAlone /\ GapOrPause /\ CdOnlyToTarget /\ ReleaseBounded

\* A hub that is connecting has left that phase after its next action.
LEMMA PhaseAfterApply ==
  ASSUME HandoffInv, NEW h \in Host, ApplyStep(h), phase(h).kind = "ConnectingAudio"
  PROVE  machine'[h].phase = Idle
<1>1. Head(work[h].queue) = ConnectAudio(phase_mac(h)) /\ ~work[h].failed
  <2> DEFINE a == ConnectAudio(phase_mac(h))
  <2>1. work[h] = [queue |-> <<a>>, failed |-> FALSE]
    BY DEF HandoffInv, ConnectingAlone
  <2> HIDE DEF a
  <2>2. work[h].queue = <<a>> /\ ~work[h].failed
    BY <2>1
  <2> QED BY <2>2 DEF a
<1>2. Head(work[h].queue).do = "ConnectAudio"
  BY <1>1 DEF ConnectAudio
<1>3. DoConnectAudio(h)
  BY <1>2 DEF ApplyStep, DoSend, DoDisconnectAudio, DoSuppress, DoRestore,
              DoSendHeadsetDisconnect, DoPause, DoReport, Doing
<1> QED BY <1>1, <1>3, ConnectAudioEffect DEF HandoffInv

\* Every step keeps ConnectingAlone.
LEMMA ConnectingAloneStep ==
  ASSUME HandoffInv, [Next]_vars
  PROVE  ConnectingAlone'
<1> SUFFICES ASSUME NEW h \in Host, machine'[h].phase.kind = "ConnectingAudio"
             PROVE  work'[h] = [queue |-> <<ConnectAudio(machine'[h].phase.headphone)>>,
                                failed |-> FALSE]
  BY DEF ConnectingAlone, phase, phase_mac
<1>1. /\ TypeOK
      /\ phase(h).kind = "ConnectingAudio" =>
           work[h] = [queue |-> <<ConnectAudio(phase_mac(h))>>, failed |-> FALSE]
  BY DEF HandoffInv, ConnectingAlone
<1>2. CASE Untouched(h)
  BY <1>1, <1>2 DEF Untouched, phase, phase_mac
<1>3. CASE ApplyStep(h)
  BY <1>1, <1>3, ApplyEffect, PhaseAfterApply DEF PhaseKeptOrEnded, phase, Idle
<1>4. CASE WorkerControl(h) \/ WorkerTick(h)
  <2>1. LockFree(h) /\ (Untouched(h) \/ Moves(h))
    BY <1>1, <1>4, WorkerMoves
  <2>2. phase(h).kind # "ConnectingAudio"
    BY <1>1, <2>1 DEF LockFree
  <2> QED BY <1>2, <2>1, <2>2 DEF Moves, Faithful, phase
<1>5. ASSUME NEW hp \in Headset, NEW n \in Nonce, ClaimAt(h, hp, n)
      PROVE  FALSE
  BY <1>1, <1>5, ClaimMoves DEF LockFree, phase
<1>6. ASSUME NEW hp \in Headset \cup {NoHeadset}, SetControlAddress(h, hp)
      PROVE  FALSE
  BY <1>1, <1>6, RebindMoves DEF LockFree, phase
<1>7. CASE Leave(h)
  BY <1>1, <1>7, LeaveMoves DEF Idle
<1> QED BY <1>1, <1>2, <1>3, <1>4, <1>5, <1>6, <1>7, StepCases

\* Every step keeps CdOnlyToTarget: a capability is recomputed whenever the address or
\* the claim changes.
LEMMA CdOnlyToTargetStep ==
  ASSUME HandoffInv, [Next]_vars
  PROVE  CdOnlyToTarget'
<1> SUFFICES ASSUME NEW h \in Host, machine'[h].phase.kind \in Claiming,
                    machine'[h].canControlHeadset
             PROVE  op'[h].controlAddress = machine'[h].phase.headphone
  BY DEF CdOnlyToTarget, ClaimPhase, Claiming, phase, phase_mac
<1>1. /\ TypeOK
      /\ machine[h].phase.kind \in Claiming /\ machine[h].canControlHeadset =>
           op[h].controlAddress = machine[h].phase.headphone
  BY DEF HandoffInv, CdOnlyToTarget, ClaimPhase, Claiming, phase, phase_mac
<1>2. CASE Untouched(h)
  BY <1>1, <1>2 DEF Untouched
<1>3. CASE ApplyStep(h)
  BY <1>1, <1>3, ApplyEffect DEF PhaseKeptOrEnded, Idle, Claiming
<1>4. CASE WorkerControl(h) \/ WorkerTick(h)
  <2>1. op' = op /\ (Untouched(h) \/ Moves(h))
    BY <1>1, <1>4, WorkerMoves
  <2>2. CASE Moves(h)
    <3>1. /\ machine[h].phase.kind \in Claiming
          /\ machine'[h].phase.headphone = machine[h].phase.headphone
          /\ machine'[h].canControlHeadset = machine[h].canControlHeadset
      BY <2>2 DEF Moves, Faithful
    <3> QED BY <1>1, <2>1, <3>1
  <2> QED BY <1>2, <2>1, <2>2
<1>5. ASSUME NEW hp \in Headset, NEW n \in Nonce, ClaimAt(h, hp, n)
      PROVE  op'[h].controlAddress = machine'[h].phase.headphone
  BY <1>1, <1>5, ClaimMoves
<1>6. ASSUME NEW hp \in Headset \cup {NoHeadset}, SetControlAddress(h, hp)
      PROVE  op'[h].controlAddress = machine'[h].phase.headphone
  <2>1. machine[h].phase.headphone \in Headset
    BY <1>1, <1>6, RebindMoves, PhaseCases DEF TypeOK, Claiming
  <2>2. Capability(machine[h], op'[h])
    BY <1>1, <1>6, RebindMoves
  <2> QED BY <1>1, <1>6, <2>1, <2>2, RebindMoves, HeadsetAssumption DEF Capability
<1>7. CASE Leave(h)
  BY <1>1, <1>7, LeaveMoves
<1> QED BY <1>1, <1>2, <1>3, <1>4, <1>5, <1>6, <1>7, StepCases

\* Every step keeps ReleaseBounded: a release is bounded when it begins, and time only
\* moves on.
LEMMA ReleaseBoundedStep ==
  ASSUME HandoffInv, [Next]_vars
  PROVE  ReleaseBounded'
<1> SUFFICES ASSUME NEW h \in Host, machine'[h].phase.kind = "Releasing"
             PROVE  machine'[h].phase.at <= saturating_add(Clock(h)', HandoffDeadline)
  BY DEF ReleaseBounded, phase
<1>1. /\ TypeOK /\ TypeOK'
      /\ machine[h].phase.kind = "Releasing" =>
           machine[h].phase.at <= saturating_add(Clock(h), HandoffDeadline)
  BY NextType DEF HandoffInv, ReleaseBounded, phase
<1>2. /\ Clock(h) \in Nat /\ Clock(h)' \in Nat /\ Clock(h) <= Clock(h)'
      /\ machine'[h].phase.at \in Nat
  <2>1. Clock(h) \in Time /\ Clock(h)' \in Time
    BY <1>1, TimeForward
  <2>2. machine'[h].phase.at \in Time
    BY <1>1, PhaseCases DEF TypeOK
  <2>3. Clock(h) <= Clock(h)'
    BY <1>1, TimeForward
  <2> QED BY <2>1, <2>2, <2>3, ClockAssumption DEF Time
<1> SUFFICES machine'[h].phase.at <= saturating_add(Clock(h), HandoffDeadline)
  BY <1>2, ClockAssumption DEF saturating_add
<1>3. CASE machine'[h].phase = machine[h].phase
  BY <1>1, <1>3
<1>4. CASE Untouched(h) \/ ApplyStep(h)
  BY <1>1, <1>3, <1>4, ApplyEffect DEF Untouched, PhaseKeptOrEnded, Idle
<1>5. CASE WorkerControl(h) \/ WorkerTick(h)
  BY <1>1, <1>3, <1>4, <1>5, WorkerMoves DEF Moves, Faithful
<1>6. ASSUME NEW hp \in Headset, NEW n \in Nonce, ClaimAt(h, hp, n)
      PROVE  machine'[h].phase = machine[h].phase
  BY <1>1, <1>6, ClaimMoves
<1>7. ASSUME NEW hp \in Headset \cup {NoHeadset}, SetControlAddress(h, hp)
      PROVE  machine'[h].phase = machine[h].phase
  BY <1>1, <1>7, RebindMoves
<1>8. CASE Leave(h)
  BY <1>1, <1>8, LeaveMoves DEF Idle
<1> QED BY <1>1, <1>3, <1>4, <1>5, <1>6, <1>7, <1>8, StepCases

\* While a hub sleeps after a CD nothing else happens to its handoff.
LEMMA PauseStep ==
  ASSUME TypeOK, NEW h \in Host, ApplyStep(h), Head(work[h].queue).do = "Pause"
  PROVE  /\ Clock(h) >= Head(work[h].queue).until
         /\ cdAt' = cdAt
BY DEF ApplyStep, DoSend, DoConnectAudio, DoDisconnectAudio, DoSuppress, DoRestore,
       DoSendHeadsetDisconnect, DoPause, DoReport, Doing, claims

\* Every step keeps GapOrPause: the pause at the head of the queue ends only when the gap
\* is over.
LEMMA GapOrPauseStep ==
  ASSUME HandoffInv, [Next]_vars
  PROVE  GapOrPause'
<1> DEFINE over(t) == saturating_add(t, ConnectGap)
<1> SUFFICES ASSUME NEW h \in Host, cdAt'[h] # Never
             PROVE  \/ Clock(h)' >= over(cdAt'[h])
                    \/ work'[h].queue # <<>> /\ Head(work'[h].queue) = Pause(over(cdAt'[h]))
  BY DEF GapOrPause, LockFree
<1>1. /\ TypeOK /\ TypeOK'
      /\ cdAt[h] # Never => \/ Clock(h) >= over(cdAt[h])
                            \/ ~LockFree(h) /\ Head(work[h].queue) = Pause(over(cdAt[h]))
  BY NextType DEF HandoffInv, GapOrPause
<1>2. /\ Clock(h) \in Nat /\ Clock(h)' \in Nat /\ Clock(h) <= Clock(h)'
      /\ cdAt[h] # Never => over(cdAt[h]) \in Nat
  <2>1. Clock(h) \in Time /\ Clock(h)' \in Time
    BY <1>1, TimeForward
  <2>2. cdAt[h] # Never => over(cdAt[h]) \in Time
    BY <1>1, LaterTypes DEF TypeOK
  <2>3. Clock(h) <= Clock(h)'
    BY <1>1, TimeForward
  <2> QED BY <2>1, <2>2, <2>3, ClockAssumption DEF Time
<1> HIDE DEF over
<1>3. CASE Untouched(h)
  BY <1>1, <1>2, <1>3 DEF Untouched, LockFree
<1>4. CASE LockFree(h) /\ cdAt'[h] = cdAt[h]
  BY <1>1, <1>2, <1>4
<1>5. CASE ApplyStep(h)
  <2>1. CASE cdAt' = cdAt
    <3>1. CASE Clock(h) >= over(cdAt[h])
      BY <1>2, <2>1, <3>1
    <3>2. CASE Head(work[h].queue) = Pause(over(cdAt[h]))
      BY <1>1, <1>2, <1>5, <2>1, <3>2, PauseStep DEF Pause
    <3> QED BY <1>1, <2>1, <3>1, <3>2
  <2>2. CASE cdAt' # cdAt
    <3>1. DoSendHeadsetDisconnect(h)
      BY <1>5, <2>2 DEF ApplyStep, DoSend, DoConnectAudio, DoDisconnectAudio, DoSuppress,
                        DoRestore, DoPause, DoReport, claims
    <3>2. /\ cdAt' = [cdAt EXCEPT ![h] = Clock(h)]
          /\ Proceed(h, CdGap(h), work[h].failed)
      BY <2>2, <3>1 DEF DoSendHeadsetDisconnect
    <3>3. cdAt'[h] = Clock(h)
      BY <1>1, <3>2 DEF TypeOK
    <3>4. work'[h].queue = <<Pause(over(Clock(h)))>> \o Tail(work[h].queue)
      BY <1>1, <3>2 DEF Proceed, CdGap, TypeOK, over
    <3>5. Tail(work[h].queue) \in Seq(Queued) /\ Pause(over(Clock(h))) \in Queued
      <4>1. work[h].queue \in Seq(Queued) /\ work[h].queue # <<>>
        BY <1>1, <3>1 DEF DoSendHeadsetDisconnect, Doing, LockFree, TypeOK, Work
      <4>2. over(Clock(h)) \in Time
        BY <1>1, ClockType, LaterTypes DEF over
      <4> QED BY <4>1, <4>2, HeadTailProperties, QueuedActions
    <3>6. /\ work'[h].queue # <<>>
          /\ Head(work'[h].queue) = Pause(over(Clock(h)))
      <4> DEFINE p == Pause(over(Clock(h)))
                 tail == Tail(work[h].queue)
      <4> HIDE DEF p, tail
      <4>1. p \in Queued /\ tail \in Seq(Queued)
        BY <3>5 DEF p, tail
      <4>2. <<p>> \o tail # <<>> /\ Head(<<p>> \o tail) = p
        BY <4>1
      <4> QED BY <3>4, <4>2 DEF p, tail
    <3> QED BY <3>3, <3>6
  <2> QED BY <2>1, <2>2
<1>6. CASE WorkerControl(h) \/ WorkerTick(h)
  BY <1>1, <1>4, <1>6, WorkerMoves
<1>7. ASSUME NEW hp \in Headset, NEW n \in Nonce, ClaimAt(h, hp, n)
      PROVE  LockFree(h) /\ cdAt'[h] = cdAt[h]
  BY <1>1, <1>7, ClaimMoves
<1>8. ASSUME NEW hp \in Headset \cup {NoHeadset}, SetControlAddress(h, hp)
      PROVE  LockFree(h) /\ cdAt'[h] = cdAt[h]
  BY <1>1, <1>8, RebindMoves
<1>9. CASE Leave(h)
  BY <1>1, <1>4, <1>9, LeaveMoves
<1> QED BY <1>1, <1>3, <1>4, <1>5, <1>6, <1>7, <1>8, <1>9, StepCases

\* The inductive invariant holds initially.
LEMMA HandoffInvInit ==
  ASSUME Init
  PROVE  HandoffInv
<1>1. TypeOK
  BY InitType
<1>2. \A h \in Host : machine[h].phase.kind = "Idle" /\ cdAt[h] = Never
  BY DEF Init, update_control_capability, NewMachine, Idle
<1> QED BY <1>1, <1>2
        DEF HandoffInv, ConnectingAlone, GapOrPause, CdOnlyToTarget, ReleaseBounded,
            ClaimPhase, phase

\* Every step keeps the inductive invariant.
LEMMA HandoffInvNext ==
  ASSUME HandoffInv, [Next]_vars
  PROVE  HandoffInv'
BY NextType, ConnectingAloneStep, GapOrPauseStep, CdOnlyToTargetStep, ReleaseBoundedStep
   DEF HandoffInv

\* The inductive invariant holds in every reachable state.
THEOREM HandoffInvariant == Spec => []HandoffInv
<1>1. Init => HandoffInv
  BY HandoffInvInit
<1>2. HandoffInv /\ [Next]_vars => HandoffInv'
  BY HandoffInvNext
<1> QED BY <1>1, <1>2, PTL DEF Spec

\* No hub is ever left in ConnectingAudio, the phase without a timeout
\* (handoff.rs, tick), unless its apply loop is about to connect.
THEOREM NeverStuckConnecting == Spec => []ConnectingUnderLock
<1>1. HandoffInv => ConnectingUnderLock
  <2> SUFFICES ASSUME HandoffInv, NEW h \in Host, phase(h).kind = "ConnectingAudio"
               PROVE  Pending(h, ConnectAudio(phase_mac(h)))
    BY DEF ConnectingUnderLock
  <2> DEFINE a == ConnectAudio(phase_mac(h))
  <2>1. work[h] = [queue |-> <<a>>, failed |-> FALSE]
    BY DEF HandoffInv, ConnectingAlone
  <2> HIDE DEF a
  <2>2. work[h].queue = <<a>>
    BY <2>1
  <2>3. 1 \in DOMAIN work[h].queue /\ work[h].queue[1] = a
    BY <2>2
  <2> QED BY <2>3 DEF Pending, a
<1> QED BY <1>1, HandoffInvariant, PTL

\* A fallback connects no earlier than the gap after the end of the CD write
\* (actions.rs, send_cd), whatever the clock did when the claim timed out.
THEOREM GapIsKept == Spec => []GapAfterCd
<1>1. HandoffInv => GapAfterCd
  <2> SUFFICES ASSUME HandoffInv, NEW h \in Host, cdAt[h] # Never,
                      phase(h).kind = "ConnectingAudio"
               PROVE  Clock(h) >= saturating_add(cdAt[h], ConnectGap)
    BY DEF GapAfterCd
  <2> DEFINE a == ConnectAudio(phase_mac(h))
             over == saturating_add(cdAt[h], ConnectGap)
  <2>1. /\ work[h] = [queue |-> <<a>>, failed |-> FALSE]
        /\ Clock(h) >= over \/ Head(work[h].queue) = Pause(over)
    BY DEF HandoffInv, ConnectingAlone, GapOrPause
  <2>2. a.do = "ConnectAudio" /\ Pause(over).do = "Pause"
    BY DEF ConnectAudio, Pause
  <2> HIDE DEF a, over
  <2>3. work[h].queue = <<a>>
    BY <2>1
  <2>4. Head(work[h].queue) = a
    BY <2>3
  <2> QED BY <2>1, <2>2, <2>4 DEF over
<1> QED BY <1>1, HandoffInvariant, PTL

\* A claim falls back to CD only on a control channel bound to the claimed
\* headset (group.rs, update_control_capability), however channels are rebound.
THEOREM CdReachesTarget == Spec => []CdOnlyToTarget
<1>1. HandoffInv => CdOnlyToTarget
  BY DEF HandoffInv
<1> QED BY <1>1, HandoffInvariant, PTL

\* However far ahead the claimant's clock runs, a request holds the releasing
\* host for at most HandoffDeadline of its own clock (handoff.rs, on_request).
THEOREM RemoteClockCannotHold == Spec => []ReleaseBounded
<1>1. HandoffInv => ReleaseBounded
  BY DEF HandoffInv
<1> QED BY <1>1, HandoffInvariant, PTL

-----------------------------------------------------------------------------
(* Suppressions on record *)

\* Only platforms that can suppress a reconnection do.
MutedSuppressable == \A x \in muted : x[1] \notin Unsuppressable

MutedInv == SuppressionRecorded /\ MutedSuppressable

\* What the record and the platforms become, pair by pair.
RecordFollows ==
  \A k \in Host, hp \in Headset :
     /\ <<k, hp>> \in muted' => <<k, hp>> \in muted \/ k \notin Unsuppressable
     /\ <<k, hp>> \in muted' => hp \in op'[k].suppressed

\* A step that keeps platforms and records in line keeps the invariant.
LEMMA RecordSuffices ==
  ASSUME TypeOK', RecordFollows, MutedInv
  PROVE  MutedInv'
BY DEF RecordFollows, MutedInv, SuppressionRecorded, MutedSuppressable, TypeOK

\* A suppression is taken off the record only when the platform has lifted it.
LEMMA LiftRecord ==
  ASSUME TypeOK, MutedInv, NEW h \in Host, NEW o \in OperationState,
         o.suppressed = op[h].suppressed, NEW x \in Headset, NEW ok,
         LiftSuppression(h, o, x, ok)
  PROVE  RecordFollows
<1>1. op \in [Host -> OperationState]
  BY DEF TypeOK
<1>2. CASE x \in o.suppressed /\ ok
  <2>1. /\ op'[h].suppressed = o.suppressed \ {x}
        /\ \A k \in Host \ {h} : op'[k] = op[k]
        /\ muted' = muted \ {<<h, x>>}
    BY <1>1, <1>2 DEF LiftSuppression, OperationState
  <2> QED BY <2>1 DEF RecordFollows, MutedInv, SuppressionRecorded
<1>3. CASE ~(x \in o.suppressed /\ ok)
  <2>1. op' = [op EXCEPT ![h] = o] /\ muted' = muted
    BY <1>3 DEF LiftSuppression
  <2>2. \A k \in Host : op'[k].suppressed = op[k].suppressed
    BY <1>1, <2>1
  <2> QED BY <2>1, <2>2 DEF RecordFollows, MutedInv, SuppressionRecorded
<1> QED BY <1>2, <1>3

\* A suppression is on the record before the platform is called.
LEMMA SuppressRecord ==
  ASSUME TypeOK, MutedInv, NEW h \in Host, DoSuppress(h)
  PROVE  RecordFollows
<1> DEFINE x == Target(h)
<1>1. op \in [Host -> OperationState]
  BY DEF TypeOK
<1>2. CASE UNCHANGED <<op, muted>>
  BY <1>2 DEF RecordFollows, MutedInv, SuppressionRecorded
<1>3. CASE /\ op' = [op EXCEPT ![h].suppressed = @ \cup {x}]
           /\ \/ muted' = muted
              \/ h \notin Unsuppressable /\ muted' = muted \cup {<<h, x>>}
  <2>1. /\ op'[h].suppressed = op[h].suppressed \cup {x}
        /\ \A k \in Host \ {h} : op'[k] = op[k]
    BY <1>1, <1>3 DEF OperationState
  <2> HIDE DEF x
  <2>2. ASSUME NEW k \in Host, NEW hp \in Headset, <<k, hp>> \in muted'
        PROVE  /\ <<k, hp>> \in muted \/ k \notin Unsuppressable
               /\ hp \in op'[k].suppressed
    <3>1. CASE <<k, hp>> \in muted
      BY <2>1, <3>1 DEF MutedInv, SuppressionRecorded
    <3>2. CASE <<k, hp>> = <<h, x>> /\ h \notin Unsuppressable
      BY <2>1, <3>2
    <3> QED BY <1>3, <2>2, <3>1, <3>2
  <2> QED BY <2>2 DEF RecordFollows
<1>4. CASE /\ h \in Unsuppressable
           /\ op' = [op EXCEPT ![h].suppressed = @ \ {x}]
           /\ muted' = muted
  <2>1. \A k \in Host \ {h} : op'[k] = op[k]
    BY <1>1, <1>4
  <2>2. \A hp \in Headset : <<h, hp>> \notin muted
    BY <1>4 DEF MutedInv, MutedSuppressable
  <2> QED BY <1>4, <2>1, <2>2 DEF RecordFollows, MutedInv, SuppressionRecorded
<1> QED BY <1>2, <1>3, <1>4 DEF DoSuppress

\* Leaving forgets only the suppressions that were lifted.
LEMMA LeaveRecord ==
  ASSUME TypeOK, MutedInv, NEW h \in Host, Leave(h)
  PROVE  RecordFollows
<1>1. PICK stuck \in SUBSET op[h].suppressed :
        /\ op' = [op EXCEPT ![h] = [suppressed |-> stuck, controlAddress |-> NoHeadset,
                                    audioCandidate |-> NoHeadset, canControl |-> FALSE]]
        /\ muted' = muted \ {<<h, hp>> : hp \in op[h].suppressed \ stuck}
  BY DEF Leave
<1>2. /\ op'[h].suppressed = stuck
      /\ \A k \in Host \ {h} : op'[k] = op[k]
  BY <1>1 DEF TypeOK
<1>3. ASSUME NEW hp \in Headset, <<h, hp>> \in muted'
      PROVE  hp \in stuck
  BY <1>1, <1>3 DEF MutedInv, SuppressionRecorded
<1> QED BY <1>1, <1>2, <1>3 DEF RecordFollows, MutedInv, SuppressionRecorded

\* All other steps leave the records and the platforms alone.
LEMMA RecordStep ==
  ASSUME TypeOK, MutedInv, [Next]_vars
  PROVE  RecordFollows
<1>1. op \in [Host -> OperationState]
  BY DEF TypeOK
<1>2. ASSUME muted' = muted, \A k \in Host : op'[k].suppressed = op[k].suppressed
      PROVE  RecordFollows
  BY <1>2 DEF RecordFollows, MutedInv, SuppressionRecorded
<1>3. CASE UNCHANGED <<op, muted>>
  BY <1>2, <1>3
<1>4. ASSUME NEW h \in Host, ApplyStep(h)
      PROVE  RecordFollows
  <2>1. Doing(h, "ConnectAudio") \/ Doing(h, "Restore") => Target(h) \in Headset
    BY HeadCases DEF Doing, Target
  <2>2. CASE DoConnectAudio(h)
    BY <1>1, <2>1, <2>2, LiftRecord DEF DoConnectAudio
  <2>3. CASE DoRestore(h)
    BY <1>1, <2>1, <2>3, LiftRecord DEF DoRestore
  <2>4. CASE DoSuppress(h)
    BY <2>4, SuppressRecord
  <2> QED BY <1>3, <1>4, <2>2, <2>3, <2>4
          DEF ApplyStep, DoSend, DoDisconnectAudio, DoSendHeadsetDisconnect, DoPause,
              DoReport, hubState, world
<1>5. ASSUME NEW h \in Host, Worker(h)
      PROVE  RecordFollows
  BY <1>3, <1>5 DEF Worker, WorkerControl, WorkerTick, WorkerRefresh, hubState, world
<1>6. ASSUME NEW h \in Host, NEW hp \in Headset, NEW n \in Nonce, ClaimAt(h, hp, n)
      PROVE  RecordFollows
  <2>1. op' = op \/ op' = [op EXCEPT ![h].audioCandidate = hp]
    BY <1>6 DEF ClaimAt
  <2>2. \A k \in Host : op'[k].suppressed = op[k].suppressed
    BY <1>1, <2>1 DEF OperationState
  <2> QED BY <1>2, <1>6, <2>2 DEF ClaimAt, world
<1>7. ASSUME NEW h \in Host, NEW hp \in Headset \cup {NoHeadset}, AdoptHeadset(h, hp)
      PROVE  RecordFollows
  <2> DEFINE o == [op[h] EXCEPT !.audioCandidate = hp]
  <2>1. o \in OperationState /\ o.suppressed = op[h].suppressed
    BY <1>1 DEF OperationState
  <2>2. \/ op' = [op EXCEPT ![h] = o] /\ muted' = muted
        \/ hp \in Headset /\ \E ok \in BOOLEAN : LiftSuppression(h, o, hp, ok)
    BY <1>7 DEF AdoptHeadset, world
  <2> HIDE DEF o
  <2>3. CASE op' = [op EXCEPT ![h] = o] /\ muted' = muted
    <3>1. \A k \in Host : op'[k].suppressed = op[k].suppressed
      BY <1>1, <2>1, <2>3
    <3> QED BY <1>2, <2>3, <3>1
  <2>4. CASE hp \in Headset /\ \E ok \in BOOLEAN : LiftSuppression(h, o, hp, ok)
    BY <2>1, <2>4, LiftRecord
  <2> QED BY <2>2, <2>3, <2>4
<1>8. ASSUME NEW h \in Host, NEW hp \in Headset \cup {NoHeadset}, SetControlAddress(h, hp)
      PROVE  RecordFollows
  <2>1. op' = [op EXCEPT ![h].controlAddress = hp]
    BY <1>8 DEF SetControlAddress
  <2>2. \A k \in Host : op'[k].suppressed = op[k].suppressed
    BY <1>1, <2>1 DEF OperationState
  <2> QED BY <1>2, <1>8, <2>2 DEF SetControlAddress, world
<1>9. CASE Environment
  BY <1>3, <1>9 DEF Environment, Receive, ReceiveFails, LinkDrops, AutoReconnects,
                    TimePasses, hubState, world
<1>10. ASSUME NEW h \in Host, Calling(h)
       PROVE  RecordFollows
  BY <1>3, <1>10, CallingEffect
<1> QED BY <1>3, <1>4, <1>5, <1>6, <1>7, <1>8, <1>9, <1>10, LeaveRecord DEF Next, User, vars

\* Whatever a platform suppresses is on record, whichever call failed halfway,
\* so that leave can always undo it (actions.rs, suppress; group.rs, leave).
THEOREM NothingStaysMuted == Spec => []SuppressionRecorded
<1>1. Init => TypeOK /\ MutedInv
  BY InitType DEF Init, MutedInv, SuppressionRecorded, MutedSuppressable
<1>2. TypeOK /\ MutedInv /\ [Next]_vars => (TypeOK /\ MutedInv)'
  BY NextType, RecordStep, RecordSuffices
<1>3. MutedInv => SuppressionRecorded
  BY DEF MutedInv
<1> QED BY <1>1, <1>2, <1>3, PTL DEF Spec

-----------------------------------------------------------------------------
(* A queued Taken *)

\* A Taken that has reached the control queue of a releasing host is honoured:
\* the worker looks at the queue again under the lock before it ticks
\* (runner.rs, worker_loop), so no due tick turns it into an abort.
THEOREM TakenBeatsTimeout == Spec => QueuedTakenWins
<1> DEFINE Taken(h, n) ==
             /\ LockFree(h) /\ phase(h).kind = "Releasing" /\ phase(h).nonce = n
             /\ \E i \in DOMAIN rx[h] : rx[h][i] = Reply("Taken", n)
<1>1. ASSUME TypeOK, [Next]_vars, NEW h \in Host, NEW n \in Nonce, Taken(h, n),
             Pending(h, Send(Reply("Abort", n)))'
      PROVE  FALSE
  <2>1. /\ work[h].queue = <<>> /\ phase(h).kind # "Idle"
        /\ ~ApplyStep(h) /\ ~WorkerTick(h)
    <3>1. LockFree(h) /\ phase(h).kind # "Idle"
      BY <1>1
    <3>2. rx[h] # <<>>
      BY <1>1
    <3> QED BY <1>1, <3>1, <3>2, ApplyEffect DEF LockFree, WorkerTick, WorkerUnclaimed
  <2>2. \E i \in DOMAIN work'[h].queue :
           work'[h].queue[i].do = "Send" /\ work'[h].queue[i].msg.kind = "Abort"
    BY <1>1 DEF Pending, Send, Reply
  <2>3. work'[h] # work[h]
    BY <2>1, <2>2
  <2>4. CASE WorkerControl(h)
    <3> DEFINE msg == Head(rx[h])
               m == IF msg.kind = "Request" THEN [machine[h] EXCEPT !.hasAudio = TRUE]
                                            ELSE machine[h]
               s == on_message(m, msg, Clock(h))
    <3>1. msg \in Message
      BY <1>1, <2>4, HeadTailProperties DEF WorkerControl, TypeOK
    <3>2. m \in Machine
      <4>1. machine[h] \in Machine
        BY <1>1 DEF TypeOK
      <4> QED BY <4>1, FlagType
    <3>3. NoAbort(s.acts)
      BY <1>1, <3>1, <3>2, ClockType, MessagesNeverAbort
    <3>4. Begin(h, s)
      BY <2>3, <2>4 DEF WorkerControl, dispatch_control
    <3> HIDE DEF s, m, msg
    <3>5. work'[h].queue = s.acts
      BY <1>1, <3>4 DEF Begin, TypeOK
    <3> QED BY <2>2, <3>3, <3>5 DEF NoAbort
  <2>5. ASSUME NEW hp \in Headset, NEW k \in Nonce, ClaimAt(h, hp, k)
        PROVE  FALSE
    <3>1. machine[h].phase.kind # "Idle"
      BY <2>1 DEF phase
    <3>2. claim(machine[h], hp, k, asked[k].at) = Step(machine[h], <<Report("Busy")>>)
      BY <3>1 DEF claim
    <3>3. work'[h].queue = <<Report("Busy")>>
      BY <1>1, <2>5, <3>1, <3>2 DEF ClaimAt, Begin, phase, Step, TypeOK
    <3> QED BY <2>2, <3>3 DEF Report
  <2>6. ASSUME NEW hp \in Headset \cup {NoHeadset}, SetControlAddress(h, hp)
        PROVE  FALSE
    BY <1>1, <2>3, <2>6, RebindMoves
  <2>7. CASE Leave(h)
    BY <1>1, <2>3, <2>7, LeaveMoves
  <2>8. CASE Untouched(h)
    BY <2>3, <2>8 DEF Untouched
  <2> QED BY <1>1, <2>1, <2>4, <2>5, <2>6, <2>7, <2>8, StepCases
<1>2. TypeOK /\ [Next]_vars =>
        [\A h \in Host, n \in Nonce : Taken(h, n) => ~Pending(h, Send(Reply("Abort", n)))']_vars
  BY <1>1
<1> QED BY <1>2, TypeCorrect, PTL DEF Spec, QueuedTakenWins

-----------------------------------------------------------------------------
(* Hubs that have left *)

\* A closed hub rests: nothing in progress, nothing held, no capability.
ClosedRests ==
  \A h \in Host : closed[h] =>
     /\ LockFree(h) /\ phase(h) = Idle /\ holding[h] = NoHeadset
     /\ machine[h].hasAudio = FALSE /\ machine[h].canControlHeadset = FALSE

\* What ClosedIsQuiet asks of a step of the closed hub h.
Quiet(h) ==
  /\ machine'[h] = machine[h] /\ work'[h] = work[h] /\ holding'[h] = holding[h]
  /\ closed'[h] = closed[h]
  /\ \A d \in sent' \ sent : d.from # h

\* Whatever a host broadcasts carries its own id.
LEMMA OwnDatagrams ==
  ASSUME NEW k \in Host, ApplyStep(k) \/ Worker(k) \/ User(k), NEW d \in sent' \ sent
  PROVE  d.from = k
<1>1. CASE ApplyStep(k)
  <2>1. UNCHANGED sent \/ sent' = sent \cup {Datagram(k, Head(work[k].queue).msg)}
    BY <1>1 DEF ApplyStep, DoSend, DoConnectAudio, DoDisconnectAudio, DoSuppress, DoRestore,
                DoSendHeadsetDisconnect, DoPause, DoReport
  <2> QED BY <2>1 DEF Datagram
<1>2. CASE Worker(k)
  BY <1>2 DEF Worker, WorkerControl, dispatch_control, WorkerTick, WorkerRefresh, Datagram
<1>3. CASE User(k)
  <2>1. CASE UNCHANGED sent
    BY <2>1
  <2>2. CASE Leave(k)
    <3> DEFINE s == on_audio_failed(machine[k])
               aborts == {Datagram(k, s.acts[i].msg) :
                            i \in {j \in DOMAIN s.acts : s.acts[j].do = "Send"}}
    <3>1. sent' = sent \cup aborts \/ sent' = sent
      BY <2>2 DEF Leave
    <3>2. \A e \in aborts : e.from = k
      BY DEF Datagram
    <3> QED BY <3>1, <3>2
  <2> QED BY <1>3, <2>1, <2>2, CallingEffect
          DEF User, ClaimAt, AdoptHeadset, SetControlAddress
<1> QED BY <1>1, <1>2, <1>3

\* The handlers of one host leave the state of another exactly as it is.
LEMMA HandlersQuiet ==
  ASSUME TypeOK, NEW k \in Host, Worker(k) \/ User(k), NEW h \in Host \ {k}
  PROVE  /\ machine'[h] = machine[h] /\ work'[h] = work[h] /\ holding'[h] = holding[h]
         /\ closed'[h] = closed[h]
<1>1. /\ machine \in [Host -> Machine] /\ work \in [Host -> Work]
      /\ holding \in [Host -> Headset \cup {NoHeadset}] /\ closed \in [Host -> BOOLEAN]
  BY DEF TypeOK
<1>2. CASE WorkerControl(k)
  BY <1>1, <1>2 DEF WorkerControl, dispatch_control, Begin, hubState
<1>3. CASE WorkerTick(k)
  BY <1>1, <1>3 DEF WorkerTick, Begin, hubState
<1>4. CASE WorkerRefresh(k)
  BY <1>1, <1>4 DEF WorkerRefresh
<1>5. ASSUME NEW hp \in Headset, NEW n \in Nonce, ClaimAt(k, hp, n)
      PROVE  /\ machine'[h] = machine[h] /\ work'[h] = work[h] /\ holding'[h] = holding[h]
             /\ closed'[h] = closed[h]
  BY <1>1, <1>5 DEF ClaimAt, Begin
<1>6. ASSUME NEW hp \in Headset \cup {NoHeadset}, AdoptHeadset(k, hp)
      PROVE  /\ machine'[h] = machine[h] /\ work'[h] = work[h] /\ holding'[h] = holding[h]
             /\ closed'[h] = closed[h]
  BY <1>1, <1>6 DEF AdoptHeadset, Holds
<1>7. ASSUME NEW hp \in Headset \cup {NoHeadset}, SetControlAddress(k, hp)
      PROVE  /\ machine'[h] = machine[h] /\ work'[h] = work[h] /\ holding'[h] = holding[h]
             /\ closed'[h] = closed[h]
  BY <1>1, <1>7 DEF SetControlAddress
<1>8. CASE Leave(k)
  BY <1>1, <1>8 DEF Leave
<1>9. CASE Calling(k)
  BY <1>9, CallingEffect
<1> QED BY <1>2, <1>3, <1>4, <1>5, <1>6, <1>7, <1>8, <1>9 DEF Worker, User

\* Leaving again only retries restorations.
LEMMA LeaveAgain ==
  ASSUME TypeOK, ClosedRests, NEW h \in Host, closed[h], Leave(h)
  PROVE  Quiet(h)
<1> DEFINE s == on_audio_failed(machine[h])
           left == [s.m EXCEPT !.hasAudio = FALSE, !.canControlHeadset = FALSE]
<1>1. machine[h].phase.kind = "Idle"
  BY DEF ClosedRests, phase, Idle
<1>2. s.m = machine[h] /\ s.acts = <<>>
  BY <1>1 DEF on_audio_failed, Ignored, Step
<1>3. left = machine[h]
  <2>1. /\ machine[h] \in Machine
        /\ machine[h].hasAudio = FALSE /\ machine[h].canControlHeadset = FALSE
    BY DEF TypeOK, ClosedRests
  <2> HIDE DEF s
  <2> QED BY <1>2, <2>1 DEF Machine
<1>4. machine'[h] = left /\ work' = work
  BY DEF Leave, TypeOK
<1>5. sent' = sent
  <2> DEFINE aborts == {Datagram(h, s.acts[i].msg) :
                          i \in {j \in DOMAIN s.acts : s.acts[j].do = "Send"}}
  <2>1. sent' = sent \cup aborts \/ sent' = sent
    BY DEF Leave
  <2>2. aborts = {}
    <3>1. DOMAIN s.acts = {}
      BY <1>2
    <3> QED BY <3>1
  <2> QED BY <2>1, <2>2
<1>6. holding'[h] = holding[h] /\ closed'[h] = closed[h]
  BY DEF Leave, TypeOK, ClosedRests
<1> QED BY <1>3, <1>4, <1>5, <1>6 DEF Quiet

\* A hub that has left does nothing but retry restorations.
LEMMA ClosedQuiet ==
  ASSUME TypeOK, ClosedRests, [Next]_vars, NEW h \in Host, closed[h]
  PROVE  Quiet(h)
<1>1. LockFree(h)
  BY DEF ClosedRests
<1>2. CASE UNCHANGED vars
  BY <1>2 DEF vars, Quiet
<1>3. CASE Environment
  BY <1>3 DEF Environment, Receive, ReceiveFails, LinkDrops, AutoReconnects, TimePasses,
              hubState, Quiet
<1>4. ASSUME NEW k \in Host, k # h, ApplyStep(k)
      PROVE  Quiet(h)
  BY <1>4, ApplyEffect, OwnDatagrams DEF OthersKept, Quiet
<1>5. ASSUME NEW k \in Host, k # h, Worker(k) \/ User(k)
      PROVE  Quiet(h)
  <2>1. /\ machine'[h] = machine[h] /\ work'[h] = work[h] /\ holding'[h] = holding[h]
        /\ closed'[h] = closed[h]
    BY <1>5, HandlersQuiet
  <2>2. \A d \in sent' \ sent : d.from = k
    BY <1>5, OwnDatagrams
  <2> QED BY <1>5, <2>1, <2>2 DEF Quiet
<1>6. ~ApplyStep(h)
  BY <1>1, ApplyEffect
<1>7. ~Worker(h)
  BY DEF Worker, WorkerControl, WorkerTick, WorkerRefresh, WorkerUnclaimed, WorkerReady
<1>8. User(h) => Leave(h) \/ Calling(h)
  BY DEF User, ClaimAt, AdoptHeadset, SetControlAddress
<1>9. CASE Calling(h)
  BY <1>9, CallingEffect DEF Quiet
<1> QED BY <1>2, <1>3, <1>4, <1>5, <1>6, <1>7, <1>8, <1>9, LeaveAgain DEF Next

\* A hub that has left keeps resting.
LEMMA ClosedRestsStep ==
  ASSUME TypeOK, ClosedRests, [Next]_vars
  PROVE  ClosedRests'
<1> SUFFICES ASSUME NEW h \in Host, closed'[h]
             PROVE  /\ work'[h].queue = <<>> /\ machine'[h].phase = Idle
                    /\ holding'[h] = NoHeadset
                    /\ machine'[h].hasAudio = FALSE
                    /\ machine'[h].canControlHeadset = FALSE
  BY DEF ClosedRests, LockFree, phase
<1>1. CASE closed[h]
  <2>1. machine'[h] = machine[h] /\ work'[h] = work[h] /\ holding'[h] = holding[h]
    BY <1>1, ClosedQuiet DEF Quiet
  <2>2. /\ work[h].queue = <<>> /\ machine[h].phase = Idle /\ holding[h] = NoHeadset
        /\ machine[h].hasAudio = FALSE /\ machine[h].canControlHeadset = FALSE
    BY <1>1 DEF ClosedRests, LockFree, phase
  <2> QED BY <2>1, <2>2
<1>2. CASE ~closed[h]
  <2>1. CASE Leave(h)
    <3>1. machine' \in [Host -> Machine]
      BY NextType DEF TypeOK
    <3>2. machine'[h].hasAudio \in BOOLEAN /\ machine'[h].canControlHeadset \in BOOLEAN
      BY <3>1 DEF Machine
    <3> QED BY <2>1, <3>2, LeaveMoves DEF LockFree
  <2>2. CASE ~Leave(h)
    <3>1. ASSUME NEW k \in Host, ApplyStep(k) \/ Worker(k) \/ User(k), ~Leave(h)
          PROVE  ~closed'[h]
      <4>1. CASE ApplyStep(k)
        BY <1>2, <4>1, ApplyEffect
      <4>2. CASE k # h
        BY <1>2, <3>1, <4>1, <4>2, HandlersQuiet
      <4>3. CASE Worker(h) \/ User(h)
        BY <1>2, <3>1, <4>3, CallingEffect
           DEF Worker, WorkerControl, WorkerTick, WorkerRefresh, User, ClaimAt,
               AdoptHeadset, SetControlAddress, hubState
      <4> QED BY <3>1, <4>1, <4>2, <4>3
    <3>2. CASE UNCHANGED closed
      BY <1>2, <3>2
    <3> QED BY <2>2, <3>1, <3>2
            DEF Next, Environment, Receive, ReceiveFails, LinkDrops, AutoReconnects,
                TimePasses, hubState, vars
  <2> QED BY <2>1, <2>2
<1> QED BY <1>1, <1>2

\* A hub that has left never acts again, on its own or because of a message, a
\* tick or an operation that waited for the lock while it left (runner.rs,
\* worker_loop; group.rs, leave): it starts nothing, holds nothing and
\* broadcasts nothing.
THEOREM LeftIsQuiet == Spec => ClosedIsQuiet
<1>1. Init => TypeOK /\ ClosedRests
  BY InitType DEF Init, ClosedRests
<1>2. TypeOK /\ ClosedRests /\ [Next]_vars => (TypeOK /\ ClosedRests)'
  BY NextType, ClosedRestsStep
<1>3. TypeOK /\ ClosedRests /\ [Next]_vars =>
        [\A h \in Host : closed[h] =>
            /\ machine'[h] = machine[h] /\ LockFree(h)' /\ holding'[h] = NoHeadset
            /\ \A d \in sent' \ sent : d.from # h]_vars
  <2> SUFFICES ASSUME TypeOK, ClosedRests, [Next]_vars, NEW h \in Host, closed[h]
               PROVE  /\ machine'[h] = machine[h] /\ LockFree(h)' /\ holding'[h] = NoHeadset
                      /\ \A d \in sent' \ sent : d.from # h
    OBVIOUS
  <2>1. LockFree(h) /\ holding[h] = NoHeadset
    BY DEF ClosedRests
  <2>2. Quiet(h)
    BY ClosedQuiet
  <2> QED BY <2>1, <2>2 DEF Quiet, LockFree
<1> QED BY <1>1, <1>2, <1>3, PTL DEF Spec, ClosedIsQuiet
=============================================================================
