------------------------- MODULE GroupPromise_proofs -------------------------
(***************************************************************************)
(* What a host holds, what it gives away and what it says: theorems about  *)
(* GroupHub for any number of hosts, headsets and handoffs.  Machine and   *)
(* announced holding of a host agree; a release holds until its handoff is *)
(* over; every message has a sender entitled to it, so that a handoff has  *)
(* one verdict; and the hubs implement HandoffPromise.                     *)
(***************************************************************************)
EXTENDS GroupHub_proofs

-----------------------------------------------------------------------------
(* What the machine does to has_audio and to a release *)

\* Failures and ticks leave has_audio alone.
LEMMA AudioKept ==
  ASSUME NEW m \in Machine, NEW t \in Time
  PROVE  /\ on_audio_failed(m).m.hasAudio = m.hasAudio
         /\ tick(m, t).m.hasAudio = m.hasAudio
<1>1. on_audio_failed(m).m.hasAudio = m.hasAudio
  BY DEF on_audio_failed, Ignored, Step, Enter, Machine
<1>2. StartConnecting(m).m.hasAudio = m.hasAudio
  BY DEF StartConnecting, Step, Enter, Machine
<1>3. fallback_or_fail(m, t).m.hasAudio = m.hasAudio
  BY DEF fallback_or_fail, Step, Enter, Machine
<1>4. Ignored(m).m.hasAudio = m.hasAudio
  BY DEF Ignored, Step
<1>5. m.phase.kind \in HandoffKind \cup {"Idle"} /\ m.phase.at \in Nat /\ t \in Nat
  BY PhaseCases, ClockAssumption DEF Idle, Time
<1>6. tick(m, t) \in {Ignored(m), StartConnecting(m), fallback_or_fail(m, t), on_audio_failed(m)}
  BY <1>5 DEF tick, HandoffKind
<1> QED BY <1>1, <1>2, <1>3, <1>4, <1>6

\* A release does not survive a tick that does anything.
LEMMA TickEndsRelease ==
  ASSUME NEW m \in Machine, NEW t \in Time, tick(m, t).m.phase.kind = "Releasing"
  PROVE  tick(m, t) = Ignored(m)
<1>1. Faithful(m, tick(m, t), t)
  BY TickFaithful
<1>2. m.phase.kind \in HandoffKind \cup {"Idle"} /\ m.phase.at \in Nat /\ t \in Nat
  BY PhaseCases, ClockAssumption DEF Idle, Time
<1>3. on_audio_failed(m).m.phase.kind # "Releasing"
  BY AudioResults DEF Idle
<1>4. StartConnecting(m).m.phase.kind # "Releasing"
  BY DEF StartConnecting, Step, Enter, Machine, ConnectingAudio
<1>5. fallback_or_fail(m, t).m.phase.kind # "Releasing" \/ fallback_or_fail(m, t) = Ignored(m)
  BY DEF fallback_or_fail, Step, Enter, Machine, WaitingFallbackGap, Idle
<1>6. tick(m, t) \in {Ignored(m), StartConnecting(m), fallback_or_fail(m, t), on_audio_failed(m)}
  BY <1>2 DEF tick, HandoffKind
<1> QED BY <1>3, <1>4, <1>5, <1>6

\* Only Taken takes has_audio away, and only from a host that releases.
TakesAudio(m, r) == m.phase.kind = "Releasing" /\ r.m.phase = Idle /\ r.m.hasAudio = FALSE

LEMMA MessageAudio ==
  ASSUME NEW m \in Machine, NEW msg \in Message, NEW t \in Time
  PROVE  LET r == on_message(m, msg, t)
         IN r.m.hasAudio = m.hasAudio \/ (msg.kind # "Request" /\ TakesAudio(m, r))
<1>1. on_request(m, msg, t).m.hasAudio = m.hasAudio
  BY DEF on_request, Ignored, Step, Enter, Machine
<1>2. /\ on_peer_has_audio(m, msg.nonce).m.hasAudio = m.hasAudio
      /\ on_no_audio(m, msg.nonce).m.hasAudio = m.hasAudio
  BY DEF on_peer_has_audio, on_no_audio, Ignored, Step, Machine
<1>3. on_released(m, msg.nonce).m.hasAudio = m.hasAudio
  BY DEF on_released, StartConnecting, Enter, Ignored, Step, Machine
<1>4. LET r == on_taken(m, msg.nonce) IN r.m.hasAudio = m.hasAudio \/ TakesAudio(m, r)
  BY DEF on_taken, Ignored, Step, Machine, TakesAudio
<1>5. /\ on_abort(m, msg.nonce).m.hasAudio = m.hasAudio
      /\ on_busy(m, msg.nonce).m.hasAudio = m.hasAudio
  BY DEF on_abort, on_busy, Enter, Ignored, Step, Machine
<1>6. msg.kind \in ReplyKind \cup {"Request"} /\ "Request" \notin ReplyKind
  BY DEF Message, ReplyKind
<1> QED BY <1>1, <1>2, <1>3, <1>4, <1>5, <1>6 DEF on_message, ReplyKind

\* A machine that is releasing after a message has just been asked to by that
\* message, while it had audio, or goes on releasing with nothing to do.
LEMMA MessageRelease ==
  ASSUME NEW m \in Machine, NEW msg \in Message, NEW t \in Time, NEW r,
         r = on_message(m, msg, t), r.m.phase.kind = "Releasing"
  PROVE  \/ /\ msg.kind = "Request" /\ m.phase.kind = "Idle" /\ m.hasAudio
            /\ r.m.phase.nonce = msg.nonce /\ r.m.phase.headphone = msg.headphone
            /\ r.m.hasAudio = m.hasAudio /\ r.acts = release_actions(msg)
         \/ msg.kind = "Request" /\ m.phase.kind = "Releasing"
         \/ r = Ignored(m)
<1>1. CASE msg.kind = "Request"
  <2>1. r = on_request(m, msg, t)
    BY <1>1 DEF on_message
  <2>2. msg.deadline \in Nat /\ t \in Nat
    BY <1>1, ClockAssumption DEF Message, ReplyKind, Time
  <2>3. CASE r = Step(Enter(m, Releasing(msg.nonce, msg.headphone, release_deadline(msg, t))),
                      release_actions(msg)) /\ m.phase.kind = "Idle" /\ m.hasAudio
    <3> DEFINE p == Releasing(msg.nonce, msg.headphone, release_deadline(msg, t))
    <3>1. p.nonce = msg.nonce /\ p.headphone = msg.headphone
      BY DEF Releasing
    <3> HIDE DEF p
    <3>2. r.m = [m EXCEPT !.phase = p] /\ r.acts = release_actions(msg)
      BY <2>3 DEF Step, Enter, p
    <3>3. r.m.phase = p /\ r.m.hasAudio = m.hasAudio
      BY <3>2 DEF Machine
    <3> QED BY <1>1, <2>3, <3>1, <3>2, <3>3
  <2>4. CASE r.m = m
    BY <1>1, <2>4
  <2> DEFINE release == Step(Enter(m, Releasing(msg.nonce, msg.headphone,
                                                release_deadline(msg, t))),
                             release_actions(msg))
  <2>5. CASE msg.deadline > t /\ m.phase.kind = "Idle" /\ m.hasAudio
    <3>1. on_request(m, msg, t) = release
      <4> HIDE DEF release
      <4> QED BY <2>2, <2>5 DEF on_request, release
    <3> QED BY <2>1, <2>3, <2>5, <3>1
  <2>6. CASE ~(msg.deadline > t /\ m.phase.kind = "Idle" /\ m.hasAudio)
    <3>1. on_request(m, msg, t).m = m
      BY <2>2, <2>6 DEF on_request, Ignored, Step, Machine
    <3> QED BY <2>1, <2>4, <3>1
  <2> QED BY <2>5, <2>6
<1>2. CASE msg.kind # "Request"
  <2>1. /\ on_peer_has_audio(m, msg.nonce).m.phase.kind = "Releasing" =>
             on_peer_has_audio(m, msg.nonce) = Ignored(m)
        /\ on_no_audio(m, msg.nonce).m.phase.kind = "Releasing" =>
             on_no_audio(m, msg.nonce) = Ignored(m)
    BY DEF on_peer_has_audio, on_no_audio, Ignored, Step, Machine
  <2>2. on_released(m, msg.nonce).m.phase.kind = "Releasing" =>
          on_released(m, msg.nonce) = Ignored(m)
    BY DEF on_released, StartConnecting, Enter, ConnectingAudio, Step, Machine
  <2>3. on_taken(m, msg.nonce).m.phase.kind = "Releasing" => on_taken(m, msg.nonce) = Ignored(m)
    BY DEF on_taken, Step, Machine, Idle
  <2>4. /\ on_abort(m, msg.nonce).m.phase.kind = "Releasing" =>
             on_abort(m, msg.nonce) = Ignored(m)
        /\ on_busy(m, msg.nonce).m.phase.kind = "Releasing" =>
             on_busy(m, msg.nonce) = Ignored(m)
    BY DEF on_abort, on_busy, Enter, Step, Machine, Idle
  <2>5. msg.kind \in ReplyKind
    BY <1>2 DEF Message
  <2> QED BY <1>2, <2>1, <2>2, <2>3, <2>4, <2>5 DEF on_message, ReplyKind
<1> QED BY <1>1, <1>2

-----------------------------------------------------------------------------
(* The steps of the others *)

\* The step is not one of the hub h: it keeps what h does and holds, its platform
\* stays as quiet as it was and reconnects only what it may.
Elsewhere(h) ==
  /\ machine'[h] = machine[h] /\ work'[h] = work[h] /\ holding'[h] = holding[h]
  /\ \A hp \in Headset :
        /\ <<h, hp>> \in muted => <<h, hp>> \in muted'
        /\ link'[hp] = h => link[hp] = h \/ <<h, hp>> \notin muted

\* Lifting a suppression of a host leaves those of the others.
LEMMA LiftElsewhere ==
  ASSUME NEW k \in Host, NEW h \in Host, h # k, NEW o, NEW x, NEW ok, LiftSuppression(k, o, x, ok)
  PROVE  \A hp \in Headset : <<h, hp>> \in muted => <<h, hp>> \in muted'
BY DEF LiftSuppression

LEMMA ApplyElsewhere ==
  ASSUME TypeOK, NEW k \in Host, NEW h \in Host, h # k, ApplyStep(k)
  PROVE  Elsewhere(h)
<1>1. machine'[h] = machine[h] /\ work'[h] = work[h] /\ holding'[h] = holding[h]
  BY ApplyEffect DEF OthersKept
<1>2. link \in [Headset -> Host \cup {NoHost}] /\ NoHost \notin Host
  BY HostAssumption DEF TypeOK
<1>3. ASSUME NEW hp \in Headset, <<h, hp>> \in muted
      PROVE  <<h, hp>> \in muted'
  <2>1. CASE muted' = muted
    BY <1>3, <2>1
  <2>2. CASE DoConnectAudio(k)
    BY <1>3, <2>2, LiftElsewhere DEF DoConnectAudio
  <2>3. CASE DoSuppress(k)
    BY <1>3, <2>3 DEF DoSuppress
  <2>4. CASE DoRestore(k)
    BY <1>3, <2>4, LiftElsewhere DEF DoRestore
  <2> QED BY <2>1, <2>2, <2>3, <2>4
          DEF ApplyStep, DoSend, DoDisconnectAudio, DoSendHeadsetDisconnect, DoPause,
              DoReport, world
<1>4. ASSUME NEW hp \in Headset, link'[hp] = h
      PROVE  link[hp] = h
  <2>1. CASE link' = link
    BY <1>4, <2>1
  <2>2. CASE DoConnectAudio(k)
    <3>1. \/ link' = link
          \/ link' = [link EXCEPT ![Target(k)] = k]
          \/ link' = [link EXCEPT ![Target(k)] = NoHost]
      BY <2>2 DEF DoConnectAudio
    <3> QED BY <1>2, <1>4, <3>1
  <2>3. CASE DoDisconnectAudio(k)
    <3>1. \/ link' = link
          \/ link' = [link EXCEPT ![Target(k)] = IF @ = k THEN NoHost ELSE @]
          \/ link' = [link EXCEPT ![Target(k)] = NoHost]
      BY <2>3 DEF DoDisconnectAudio
    <3> QED BY <1>2, <1>4, <3>1
  <2>4. CASE DoSendHeadsetDisconnect(k)
    <3>1. link' = link \/ link' = [link EXCEPT ![phase_mac(k)] = NoHost]
      BY <2>4 DEF DoSendHeadsetDisconnect
    <3> QED BY <1>2, <1>4, <3>1
  <2> QED BY <2>1, <2>2, <2>3, <2>4
          DEF ApplyStep, DoSend, DoSuppress, DoRestore, DoPause, DoReport, world
<1> QED BY <1>1, <1>3, <1>4 DEF Elsewhere

LEMMA HandlersElsewhere ==
  ASSUME TypeOK, NEW k \in Host, NEW h \in Host, h # k, Worker(k) \/ User(k)
  PROVE  Elsewhere(h)
<1>1. machine'[h] = machine[h] /\ work'[h] = work[h] /\ holding'[h] = holding[h]
  BY HandlersQuiet
<1>2. link \in [Headset -> Host \cup {NoHost}]
  BY DEF TypeOK
<1>3. CASE UNCHANGED world
  BY <1>1, <1>3 DEF Elsewhere, world
<1>4. ASSUME NEW x \in Headset \cup {NoHeadset}, AdoptHeadset(k, x)
      PROVE  Elsewhere(h)
  <2>1. \/ UNCHANGED world
        \/ \E o, ok : LiftSuppression(k, o, x, ok) /\ x \in Headset
              /\ link' \in {link, [link EXCEPT ![x] = k]}
    BY <1>4 DEF AdoptHeadset
  <2>2. \A hp \in Headset : <<h, hp>> \in muted => <<h, hp>> \in muted'
    BY <2>1, LiftElsewhere DEF world
  <2>3. \A hp \in Headset : link'[hp] = h => link[hp] = h
    BY <1>2, <2>1 DEF world
  <2> QED BY <1>1, <2>2, <2>3 DEF Elsewhere
<1>5. CASE Leave(k)
  <2>1. link' = link /\ \A hp \in Headset : <<h, hp>> \in muted => <<h, hp>> \in muted'
    BY <1>5 DEF Leave
  <2> QED BY <1>1, <2>1 DEF Elsewhere
<1>6. CASE Calling(k)
  BY <1>3, <1>6, CallingEffect DEF world
<1> QED BY <1>3, <1>4, <1>5, <1>6
        DEF Worker, User, WorkerControl, WorkerTick, WorkerRefresh, ClaimAt, SetControlAddress,
            world

LEMMA EnvironmentElsewhere ==
  ASSUME TypeOK, NEW h \in Host, Environment \/ UNCHANGED vars
  PROVE  Elsewhere(h)
<1>1. link \in [Headset -> Host \cup {NoHost}] /\ NoHost \notin Host
  BY HostAssumption DEF TypeOK
<1>2. UNCHANGED <<machine, work, holding, muted>>
  BY DEF Environment, Receive, ReceiveFails, LinkDrops, AutoReconnects, TimePasses, hubState,
         world, vars
<1>3. ASSUME NEW hp \in Headset, link'[hp] = h
      PROVE  link[hp] = h \/ <<h, hp>> \notin muted
  <2>1. ASSUME NEW x \in Headset, LinkDrops(x)
        PROVE  link[hp] = h
    BY <1>1, <1>3, <2>1 DEF LinkDrops
  <2>2. ASSUME NEW k \in Host, NEW x \in Headset, AutoReconnects(k, x)
        PROVE  link[hp] = h \/ <<h, hp>> \notin muted
    BY <1>1, <1>3, <2>2 DEF AutoReconnects
  <2> QED BY <1>3, <2>1, <2>2 DEF Environment, Receive, ReceiveFails, TimePasses, world, vars
<1> QED BY <1>2, <1>3 DEF Elsewhere

\* Seen from one host, a step is one of its own or leaves it alone.
LEMMA OwnOrElsewhere ==
  ASSUME TypeOK, [Next]_vars, NEW h \in Host
  PROVE  Elsewhere(h) \/ ApplyStep(h) \/ Worker(h) \/ User(h)
BY ApplyElsewhere, HandlersElsewhere, EnvironmentElsewhere DEF Next

-----------------------------------------------------------------------------
(* The plan of a release *)

\* The platform of h does not reconnect hp by itself, where it can be told so;
\* nor, once the release is done, does h stream with hp.
Hushed(h, hp) == h \notin Unsuppressable => <<h, hp>> \in muted
Freed(h, hp) == h \notin Unsuppressable => <<h, hp>> \in muted /\ link[hp] # h

\* What h still has to do for a release: first all of it, then without the
\* announcement, then without the suppression, and when the audio is gone only
\* the answer, or the refusal of a claim that came in between.
Announcing(q, n, hp) == q = <<Send(Reply("HasAudio", n)), Suppress(hp), DisconnectAudio(hp)>>
Hushing(q, hp) == q = <<Suppress(hp), DisconnectAudio(hp)>>
Dropping(q, hp) == q = <<DisconnectAudio(hp)>>
Answering(q, n) == q = <<Send(Reply("Released", n))>>
Refusing(q) == q = <<Report("Busy")>>

Releases(h, q, n, hp) ==
  \/ holding[h] = hp /\ (Announcing(q, n, hp) \/ Hushing(q, hp))
  \/ holding[h] = hp /\ Dropping(q, hp) /\ Hushed(h, hp)
  \/ holding[h] = NoHeadset /\ (Answering(q, n) \/ Refusing(q) \/ q = <<>>) /\ Freed(h, hp)

ReleasePlan(h) ==
  phase(h).kind = "Releasing" =>
     ~work[h].failed /\ Releases(h, work[h].queue, phase(h).nonce, phase_mac(h))

Agree(h) == machine[h].hasAudio <=> holding[h] # NoHeadset

ReleaseInv == TypeOK /\ \A h \in Host : ReleasePlan(h) /\ Agree(h)

\* What is at the head of these queues, and what comes after it.
LEMMA Heads ==
  ASSUME NEW q, NEW n \in Nonce, NEW hp \in Headset
  PROVE  /\ Announcing(q, n, hp) => /\ q # <<>> /\ Head(q) = Send(Reply("HasAudio", n))
                                    /\ Hushing(<<>> \o Tail(q), hp)
         /\ Hushing(q, hp) => /\ q # <<>> /\ Head(q) = Suppress(hp)
                              /\ Dropping(<<>> \o Tail(q), hp)
         /\ Dropping(q, hp) => /\ q # <<>> /\ Head(q) = DisconnectAudio(hp)
                               /\ Answering(<<Send(Reply("Released", n))>> \o Tail(q), n)
         /\ Answering(q, n) => /\ q # <<>> /\ Head(q) = Send(Reply("Released", n))
                               /\ <<>> \o Tail(q) = <<>>
         /\ Refusing(q) => q # <<>> /\ Head(q) = Report("Busy") /\ <<>> \o Tail(q) = <<>>
<1> DEFINE has == Send(Reply("HasAudio", n))
           hush == Suppress(hp)
           drop == DisconnectAudio(hp)
           done == Send(Reply("Released", n))
           busy == Report("Busy")
<1>1. /\ has \in Queued /\ hush \in Queued /\ drop \in Queued /\ done \in Queued
      /\ busy \in Queued
  <2>1. Reply("HasAudio", n) \in Message /\ Reply("Released", n) \in Message
    BY MessageTypes DEF ReplyKind
  <2> QED BY <2>1, ActionTypes, QueuedActions DEF Progress
<1> HIDE DEF has, hush, drop, done, busy
<1>2. q = <<has, hush, drop>> =>
        q # <<>> /\ Head(q) = has /\ <<>> \o Tail(q) = <<hush, drop>>
  BY <1>1
<1>3. q = <<hush, drop>> => q # <<>> /\ Head(q) = hush /\ <<>> \o Tail(q) = <<drop>>
  BY <1>1
<1>4. q = <<drop>> => q # <<>> /\ Head(q) = drop /\ <<done>> \o Tail(q) = <<done>>
  BY <1>1
<1>5. q = <<done>> => q # <<>> /\ Head(q) = done /\ <<>> \o Tail(q) = <<>>
  BY <1>1
<1>6. q = <<busy>> => q # <<>> /\ Head(q) = busy /\ <<>> \o Tail(q) = <<>>
  BY <1>1
<1> QED BY <1>2, <1>3, <1>4, <1>5, <1>6
        DEF Announcing, Hushing, Dropping, Answering, Refusing, has, hush, drop, done, busy

\* What others do leaves a release and the agreement as they were.
LEMMA ReleaseElsewhere ==
  ASSUME TypeOK, NEW h \in Host, ReleasePlan(h), Agree(h), Elsewhere(h)
  PROVE  ReleasePlan(h)' /\ Agree(h)'
<1>1. /\ machine'[h] = machine[h] /\ work'[h] = work[h] /\ holding'[h] = holding[h]
  BY DEF Elsewhere
<1>2. phase(h).kind = "Releasing" => phase_mac(h) \in Headset
  BY PhaseCases DEF TypeOK, phase, phase_mac
<1>3. \A hp \in Headset : /\ Hushed(h, hp) => Hushed(h, hp)'
                          /\ Freed(h, hp) => Freed(h, hp)'
  BY DEF Elsewhere, Hushed, Freed
<1> QED BY <1>1, <1>2, <1>3 DEF ReleasePlan, Releases, Agree, phase, phase_mac

\* A failure ends the release, and has_audio is what the action made of it.
LEMMA FailRelease ==
  ASSUME TypeOK, NEW h \in Host, NEW m \in Machine, ReleasePlan(h),
         m.phase = machine[h].phase, FailAction(h, m)
  PROVE  machine'[h].phase.kind # "Releasing" /\ machine'[h].hasAudio = m.hasAudio
<1>1. machine \in [Host -> Machine]
  BY DEF TypeOK
<1>2. CASE work[h].failed
  <2>1. machine'[h] = m /\ machine[h].phase.kind # "Releasing"
    BY <1>1, <1>2 DEF FailAction, ReleasePlan, phase
  <2> QED BY <2>1
<1>3. CASE ~work[h].failed
  <2>1. machine'[h] = on_audio_failed(m).m
    BY <1>1, <1>3 DEF FailAction
  <2> QED BY <2>1, AudioResults, AudioKept, ClockAssumption DEF Idle, Time
<1> QED BY <1>2, <1>3

\* What a turn of the apply loop may be while the host releases.
LEMMA ReleaseTurns ==
  ASSUME TypeOK, NEW h \in Host, ReleasePlan(h), phase(h).kind = "Releasing", ~LockFree(h)
  PROVE  /\ phase(h).nonce \in Nonce /\ phase_mac(h) \in Headset /\ ~work[h].failed
         /\ \/ /\ Doing(h, "Send") /\ holding[h] = phase_mac(h)
               /\ Announcing(work[h].queue, phase(h).nonce, phase_mac(h))
            \/ /\ Doing(h, "Suppress") /\ holding[h] = phase_mac(h) /\ Target(h) = phase_mac(h)
               /\ Hushing(work[h].queue, phase_mac(h))
            \/ /\ Doing(h, "DisconnectAudio") /\ holding[h] = phase_mac(h)
               /\ Target(h) = phase_mac(h)
               /\ Dropping(work[h].queue, phase_mac(h)) /\ Hushed(h, phase_mac(h))
            \/ /\ Doing(h, "Send") /\ holding[h] = NoHeadset
               /\ Answering(work[h].queue, phase(h).nonce) /\ Freed(h, phase_mac(h))
            \/ /\ Doing(h, "Report") /\ holding[h] = NoHeadset
               /\ Refusing(work[h].queue) /\ Freed(h, phase_mac(h))
<1> DEFINE q == work[h].queue
           n == phase(h).nonce
           hp == phase_mac(h)
<1>1. n \in Nonce /\ hp \in Headset
  BY PhaseCases DEF TypeOK, phase, phase_mac
<1>2. ~work[h].failed /\ Releases(h, q, n, hp) /\ q # <<>>
  BY DEF ReleasePlan, LockFree
<1> HIDE DEF q, n, hp
<1>3. /\ Send(Reply("HasAudio", n)).do = "Send" /\ Send(Reply("Released", n)).do = "Send"
      /\ Report("Busy").do = "Report"
      /\ Suppress(hp).do = "Suppress" /\ Suppress(hp).mac = hp
      /\ DisconnectAudio(hp).do = "DisconnectAudio" /\ DisconnectAudio(hp).mac = hp
  BY DEF Send, Report, Suppress, DisconnectAudio
<1>4. \/ holding[h] = hp /\ Announcing(q, n, hp)
      \/ holding[h] = hp /\ Hushing(q, hp)
      \/ holding[h] = hp /\ Dropping(q, hp) /\ Hushed(h, hp)
      \/ holding[h] = NoHeadset /\ Answering(q, n) /\ Freed(h, hp)
      \/ holding[h] = NoHeadset /\ Refusing(q) /\ Freed(h, hp)
  BY <1>2 DEF Releases
<1>5. \/ holding[h] = hp /\ Announcing(q, n, hp) /\ Head(q).do = "Send"
      \/ holding[h] = hp /\ Hushing(q, hp) /\ Head(q).do = "Suppress" /\ Head(q).mac = hp
      \/ /\ holding[h] = hp /\ Dropping(q, hp) /\ Hushed(h, hp)
         /\ Head(q).do = "DisconnectAudio" /\ Head(q).mac = hp
      \/ holding[h] = NoHeadset /\ Answering(q, n) /\ Freed(h, hp) /\ Head(q).do = "Send"
      \/ holding[h] = NoHeadset /\ Refusing(q) /\ Freed(h, hp) /\ Head(q).do = "Report"
  <2> HIDE DEF Send, Report, Suppress, DisconnectAudio
  <2> QED BY <1>1, <1>3, <1>4, Heads
<1> QED BY <1>1, <1>2, <1>5 DEF Doing, LockFree, Target, q, n, hp

\* The loop goes on with what is left, and stays free of failures.
LEMMA ProceedRelease ==
  ASSUME TypeOK, NEW h \in Host, NEW more, Proceed(h, more, work[h].failed), ~work[h].failed
  PROVE  work'[h].queue = more \o Tail(work[h].queue) /\ ~work'[h].failed
<1> DEFINE failed == work[h].failed
           rest == more \o Tail(work[h].queue)
<1>1. failed \in BOOLEAN /\ ~failed /\ work \in [Host -> Work]
  BY DEF TypeOK, Work
<1>2. work' = [work EXCEPT ![h] = [queue |-> rest, failed |-> failed /\ rest # <<>>]]
  BY DEF Proceed
<1> HIDE DEF failed, rest
<1>3. work'[h] = [queue |-> rest, failed |-> failed /\ rest # <<>>]
  BY <1>1, <1>2
<1>4. work'[h].queue = rest
  BY <1>3
<1>5. ~work'[h].failed
  BY <1>1, <1>3
<1> QED BY <1>4, <1>5 DEF rest

\* A release goes on when the next step of it does.
LEMMA ReleaseGoesOn ==
  ASSUME NEW h \in Host, ~work'[h].failed, machine'[h].phase = machine[h].phase,
         \/ /\ holding'[h] = phase_mac(h)
            /\ \/ Hushing(work'[h].queue, phase_mac(h))
               \/ /\ Dropping(work'[h].queue, phase_mac(h))
                  /\ h \notin Unsuppressable => <<h, phase_mac(h)>> \in muted'
         \/ /\ holding'[h] = NoHeadset
            /\ \/ Answering(work'[h].queue, phase(h).nonce)
               \/ Refusing(work'[h].queue) \/ work'[h].queue = <<>>
            /\ h \notin Unsuppressable =>
                 <<h, phase_mac(h)>> \in muted' /\ link'[phase_mac(h)] # h
  PROVE  ReleasePlan(h)'
BY DEF ReleasePlan, Releases, Hushing, Dropping, Answering, Refusing, Hushed, Freed, phase, phase_mac

\* Announcing the release, or that it is done.
LEMMA SendRelease ==
  ASSUME TypeOK, NEW h \in Host, ReleasePlan(h), Agree(h), DoSend(h)
  PROVE  ReleasePlan(h)' /\ Agree(h)'
<1>1. ~LockFree(h) /\ UNCHANGED <<holding, muted, link>> /\ machine[h] \in Machine
  BY DEF DoSend, Doing, hubState, world, TypeOK
<1>2. CASE FailAction(h, machine[h])
  BY <1>1, <1>2, FailRelease DEF ReleasePlan, Agree, phase
<1>3. CASE Proceed(h, <<>>, work[h].failed) /\ UNCHANGED machine
  <2>1. Agree(h)'
    BY <1>1, <1>3 DEF Agree
  <2>2. CASE phase(h).kind = "Releasing"
    <3>1. /\ phase(h).nonce \in Nonce /\ phase_mac(h) \in Headset /\ ~work[h].failed
          /\ \/ /\ holding[h] = phase_mac(h)
                /\ Announcing(work[h].queue, phase(h).nonce, phase_mac(h))
             \/ /\ holding[h] = NoHeadset
                /\ Answering(work[h].queue, phase(h).nonce) /\ Freed(h, phase_mac(h))
      BY <1>1, <2>2, ReleaseTurns DEF DoSend, Doing
    <3>2. work'[h].queue = <<>> \o Tail(work[h].queue) /\ ~work'[h].failed
      BY <1>3, <3>1, ProceedRelease
    <3>3. \/ holding[h] = phase_mac(h) /\ Hushing(work'[h].queue, phase_mac(h))
          \/ holding[h] = NoHeadset /\ work'[h].queue = <<>> /\ Freed(h, phase_mac(h))
      <4> DEFINE q == work[h].queue
                 n == phase(h).nonce
                 hp == phase_mac(h)
      <4> HIDE DEF q, n, hp
      <4>1. n \in Nonce /\ hp \in Headset
        BY <3>1 DEF n, hp
      <4>2. Announcing(q, n, hp) => Hushing(<<>> \o Tail(q), hp)
        BY <4>1, Heads
      <4>3. Answering(q, n) => <<>> \o Tail(q) = <<>>
        BY <4>1, Heads
      <4> QED BY <3>1, <3>2, <4>2, <4>3 DEF q, n, hp
    <3> QED BY <1>1, <1>3, <2>1, <3>2, <3>3, ReleaseGoesOn DEF Freed
  <2>3. CASE phase(h).kind # "Releasing"
    BY <1>3, <2>1, <2>3 DEF ReleasePlan, phase
  <2> QED BY <2>2, <2>3
<1> QED BY <1>2, <1>3 DEF DoSend

\* Suppressing the reconnection comes before the disconnection.
LEMMA SuppressRelease ==
  ASSUME TypeOK, NEW h \in Host, ReleasePlan(h), Agree(h), DoSuppress(h)
  PROVE  ReleasePlan(h)' /\ Agree(h)'
<1>1. ~LockFree(h) /\ UNCHANGED <<holding, link>> /\ machine[h] \in Machine
  BY DEF DoSuppress, Doing, TypeOK
<1>2. CASE FailAction(h, machine[h])
  BY <1>1, <1>2, FailRelease DEF ReleasePlan, Agree, phase
<1>3. CASE /\ Proceed(h, <<>>, work[h].failed) /\ UNCHANGED machine
           /\ h \in Unsuppressable \/ muted' = muted \cup {<<h, Target(h)>>}
  <2>1. Agree(h)'
    BY <1>1, <1>3 DEF Agree
  <2>2. CASE phase(h).kind = "Releasing"
    <3>1. /\ phase(h).nonce \in Nonce /\ phase_mac(h) \in Headset /\ ~work[h].failed
          /\ holding[h] = phase_mac(h) /\ Target(h) = phase_mac(h)
          /\ Hushing(work[h].queue, phase_mac(h))
      BY <1>1, <2>2, ReleaseTurns DEF DoSuppress, Doing
    <3>2. work'[h].queue = <<>> \o Tail(work[h].queue) /\ ~work'[h].failed
      BY <1>3, <3>1, ProceedRelease
    <3>3. Dropping(work'[h].queue, phase_mac(h))
      BY <3>1, <3>2, Heads
    <3>4. h \notin Unsuppressable => <<h, phase_mac(h)>> \in muted'
      BY <1>3, <3>1
    <3> QED BY <1>1, <1>3, <2>1, <3>1, <3>2, <3>3, <3>4, ReleaseGoesOn
  <2>3. CASE phase(h).kind # "Releasing"
    BY <1>3, <2>1, <2>3 DEF ReleasePlan, phase
  <2> QED BY <2>2, <2>3
<1> QED
  <2>1. \/ FailAction(h, machine[h])
        \/ /\ Proceed(h, <<>>, work[h].failed) /\ UNCHANGED machine
           /\ h \in Unsuppressable \/ muted' = muted \cup {<<h, Target(h)>>}
    BY DEF DoSuppress
  <2> QED BY <1>2, <1>3, <2>1

\* A verified disconnection gives the headset away.
LEMMA DisconnectRelease ==
  ASSUME TypeOK, NEW h \in Host, ReleasePlan(h), Agree(h), DoDisconnectAudio(h)
  PROVE  ReleasePlan(h)' /\ Agree(h)'
<1>1. /\ ~LockFree(h) /\ muted' = muted /\ machine[h] \in Machine
      /\ machine \in [Host -> Machine] /\ holding \in [Host -> Headset \cup {NoHeadset}]
  BY DEF DoDisconnectAudio, Doing, TypeOK
<1>2. CASE FailAction(h, machine[h]) /\ UNCHANGED holding
  BY <1>1, <1>2, FailRelease DEF ReleasePlan, Agree, phase
<1> DEFINE m == WithHolding(h, NoHeadset)
           s == on_audio_disconnected(m)
<1>3. CASE /\ phase(h).kind = "Releasing"
           /\ \/ link' = [link EXCEPT ![Target(h)] = IF @ = h THEN NoHost ELSE @]
              \/ link' = [link EXCEPT ![Target(h)] = NoHost]
           /\ holding' = [holding EXCEPT ![h] = NoHeadset]
           /\ machine' = [machine EXCEPT ![h] = s.m] /\ Proceed(h, s.acts, work[h].failed)
  <2>1. /\ phase(h).nonce \in Nonce /\ phase_mac(h) \in Headset /\ ~work[h].failed
        /\ Target(h) = phase_mac(h)
        /\ Dropping(work[h].queue, phase_mac(h)) /\ Hushed(h, phase_mac(h))
    BY <1>1, <1>3, ReleaseTurns DEF DoDisconnectAudio, Doing
  <2>2. m \in Machine /\ m.phase = machine[h].phase
    <3>1. NoHeadset \in Headset \cup {NoHeadset}
      OBVIOUS
    <3> QED BY <3>1, WithHoldingType, WithHoldingEffect
  <2>3. /\ s.m.phase = machine[h].phase /\ s.m.hasAudio = FALSE
        /\ s.acts = <<Send(Reply("Released", phase(h).nonce))>>
    <3> HIDE DEF m
    <3> QED BY <1>3, <2>2 DEF on_audio_disconnected, Step, Machine, phase
  <2> HIDE DEF s, m
  <2>4. machine'[h] = s.m /\ holding'[h] = NoHeadset
    BY <1>1, <1>3
  <2>5. /\ work'[h].queue = <<Send(Reply("Released", phase(h).nonce))>> \o Tail(work[h].queue)
        /\ ~work'[h].failed
    BY <1>3, <2>1, <2>3, ProceedRelease
  <2>6. Answering(work'[h].queue, phase(h).nonce)
    BY <2>1, <2>5, Heads
  <2>7. link'[phase_mac(h)] # h
    <3>1. link \in [Headset -> Host \cup {NoHost}] /\ NoHost # h
      BY HostAssumption DEF TypeOK
    <3> QED BY <1>3, <2>1, <3>1
  <2>8. Agree(h)'
    BY <2>3, <2>4 DEF Agree
  <2> QED BY <1>1, <2>1, <2>3, <2>4, <2>5, <2>6, <2>7, <2>8, ReleaseGoesOn DEF Hushed
<1> QED BY <1>2, <1>3 DEF DoDisconnectAudio

\* has_audio after holding is updated, and after a connection.
LEMMA HoldingAudio ==
  ASSUME TypeOK, NEW h \in Host, NEW hp
  PROVE  WithHolding(h, hp).hasAudio <=> hp # NoHeadset
<1>1. machine[h] \in Machine
  BY DEF TypeOK
<1> QED BY <1>1 DEF WithHolding, Machine

LEMMA ConnectedAudio ==
  ASSUME NEW m \in Machine, m.hasAudio
  PROVE  on_audio_connected(m).m.hasAudio
BY DEF on_audio_connected, Ignored, Step, Machine

\* Connecting never happens while releasing, and the machine learns what is held.
LEMMA ConnectRelease ==
  ASSUME TypeOK, NEW h \in Host, ReleasePlan(h), Agree(h), DoConnectAudio(h)
  PROVE  ReleasePlan(h)' /\ Agree(h)'
<1> DEFINE hp == Target(h)
<1>1. /\ ~LockFree(h) /\ machine[h] \in Machine /\ hp \in Headset
      /\ machine \in [Host -> Machine] /\ holding \in [Host -> Headset \cup {NoHeadset}]
  BY HeadCases DEF DoConnectAudio, Doing, Target, TypeOK
<1>2. phase(h).kind # "Releasing"
  BY <1>1, ReleaseTurns DEF DoConnectAudio, Doing
<1>3. ReleasePlan(h)'
  BY <1>2, ConnectAudioEffect DEF PhaseKeptOrEnded, ReleasePlan, phase, Idle
<1>4. hp # NoHeadset
  BY <1>1, HeadsetAssumption
<1> HIDE DEF hp
<1>5. CASE FailAction(h, machine[h]) /\ UNCHANGED holding
  BY <1>1, <1>3, <1>5, FailRelease DEF Agree
<1>6. CASE /\ holding' = [holding EXCEPT ![h] = hp]
           /\ machine' = [machine EXCEPT ![h] = on_audio_connected(WithHolding(h, hp)).m]
  <2> DEFINE m == WithHolding(h, hp)
  <2>1. m \in Machine /\ m.hasAudio
    BY <1>1, <1>4, WithHoldingType, HoldingAudio
  <2>2. machine'[h] = on_audio_connected(m).m /\ holding'[h] = hp
    BY <1>1, <1>6
  <2> HIDE DEF m
  <2>3. on_audio_connected(m).m.hasAudio
    BY <2>1, ConnectedAudio
  <2> QED BY <1>3, <1>4, <2>2, <2>3 DEF Agree
<1>7. ASSUME NEW seen \in {hp, NoHeadset}, holding' = [holding EXCEPT ![h] = seen],
             FailAction(h, WithHolding(h, holding'[h]))
      PROVE  Agree(h)'
  <2> DEFINE m == WithHolding(h, seen)
  <2>1. holding'[h] = seen /\ seen \in Headset \cup {NoHeadset}
    BY <1>1, <1>7
  <2>2. FailAction(h, m)
    BY <1>7, <2>1
  <2>3. m \in Machine /\ m.phase = machine[h].phase /\ (m.hasAudio <=> seen # NoHeadset)
    BY <2>1, WithHoldingType, WithHoldingEffect, HoldingAudio
  <2> HIDE DEF m
  <2>4. machine'[h].hasAudio = m.hasAudio
    BY <2>2, <2>3, FailRelease
  <2> QED BY <2>1, <2>3, <2>4 DEF Agree
<1> QED
  <2>1. \/ FailAction(h, machine[h]) /\ UNCHANGED holding
        \/ /\ holding' = [holding EXCEPT ![h] = hp]
           /\ machine' = [machine EXCEPT ![h] = on_audio_connected(WithHolding(h, hp)).m]
        \/ \E seen \in {hp, NoHeadset} :
              /\ holding' = [holding EXCEPT ![h] = seen]
              /\ FailAction(h, WithHolding(h, holding'[h]))
    BY DEF DoConnectAudio, hp
  <2> QED BY <1>3, <1>5, <1>6, <1>7, <2>1

\* The other actions: no release restores, pauses or writes CD.
LEMMA OtherActionRelease ==
  ASSUME TypeOK, NEW h \in Host, ReleasePlan(h), Agree(h),
         DoRestore(h) \/ DoSendHeadsetDisconnect(h) \/ DoPause(h) \/ DoReport(h)
  PROVE  ReleasePlan(h)' /\ Agree(h)'
<1>1. /\ ~LockFree(h) /\ UNCHANGED holding /\ machine[h] \in Machine
      /\ machine \in [Host -> Machine]
  BY DEF DoRestore, DoSendHeadsetDisconnect, DoPause, DoReport, Doing, hubState, TypeOK
<1>2. CASE FailAction(h, machine[h])
  BY <1>1, <1>2, FailRelease DEF ReleasePlan, Agree, phase
<1>3. CASE UNCHANGED machine
  <2>1. Agree(h)'
    BY <1>1, <1>3 DEF Agree
  <2>2. CASE phase(h).kind # "Releasing"
    BY <1>3, <2>1, <2>2 DEF ReleasePlan, phase
  <2>3. CASE phase(h).kind = "Releasing"
    <3>1. DoReport(h)
      BY <1>1, <2>3, ReleaseTurns
         DEF DoRestore, DoSendHeadsetDisconnect, DoPause, DoReport, Doing
    <3>2. /\ phase(h).nonce \in Nonce /\ phase_mac(h) \in Headset /\ ~work[h].failed
          /\ holding[h] = NoHeadset /\ Refusing(work[h].queue) /\ Freed(h, phase_mac(h))
      BY <1>1, <2>3, <3>1, ReleaseTurns DEF DoReport, Doing
    <3>3. PICK failed \in BOOLEAN : Proceed(h, <<>>, failed)
      BY <3>1, <3>2 DEF DoReport
    <3>4. work'[h] = NoWork
      <4> DEFINE rest == <<>> \o Tail(work[h].queue)
      <4>1. rest = <<>>
        <5> DEFINE q == work[h].queue
                   hp == phase_mac(h)
                   n == phase(h).nonce
        <5>1. Refusing(q) /\ n \in Nonce /\ hp \in Headset
          BY <3>2
        <5> HIDE DEF q, hp, n
        <5>2. <<>> \o Tail(q) = <<>>
          BY <5>1, Heads
        <5> QED BY <5>2 DEF q
      <4>2. work' = [work EXCEPT ![h] = [queue |-> rest, failed |-> failed /\ rest # <<>>]]
        BY <3>3 DEF Proceed
      <4>3. work \in [Host -> Work] /\ (failed /\ rest # <<>>) = FALSE
        BY <4>1 DEF TypeOK
      <4> HIDE DEF rest
      <4> QED BY <4>1, <4>2, <4>3 DEF NoWork
    <3>5. work'[h].queue = <<>> /\ ~work'[h].failed
      BY <3>4 DEF NoWork
    <3> QED BY <1>1, <1>3, <2>1, <3>1, <3>2, <3>5, ReleaseGoesOn DEF DoReport, world, Freed
  <2> QED BY <2>2, <2>3
<1> QED BY <1>2, <1>3 DEF DoRestore, DoSendHeadsetDisconnect, DoPause, DoReport

LEMMA ApplyRelease ==
  ASSUME TypeOK, NEW h \in Host, ReleasePlan(h), Agree(h), ApplyStep(h)
  PROVE  ReleasePlan(h)' /\ Agree(h)'
BY SendRelease, SuppressRelease, DisconnectRelease, ConnectRelease, OtherActionRelease
   DEF ApplyStep

-----------------------------------------------------------------------------
(* The handlers *)

\* A host that releases and does nothing about it has given the headset away.
LEMMA RestingRelease ==
  ASSUME NEW h \in Host, ReleasePlan(h), LockFree(h), phase(h).kind = "Releasing"
  PROVE  holding[h] = NoHeadset /\ Freed(h, phase_mac(h))
BY DEF ReleasePlan, Releases, LockFree, Announcing, Hushing, Dropping

\* A handler that leaves the machine releasing as it was.
LEMMA RestingGoesOn ==
  ASSUME NEW h \in Host, ReleasePlan(h), LockFree(h), machine'[h].phase = machine[h].phase,
         holding'[h] = holding[h], UNCHANGED world, ~work'[h].failed,
         Refusing(work'[h].queue) \/ work'[h].queue = <<>>
  PROVE  ReleasePlan(h)'
<1>1. CASE phase(h).kind = "Releasing"
  BY <1>1, RestingRelease, ReleaseGoesOn DEF Freed, world
<1>2. CASE phase(h).kind # "Releasing"
  BY <1>2 DEF ReleasePlan, phase
<1> QED BY <1>1, <1>2

\* A control message: only a request for the headset in hand starts a release,
\* and only Taken, when that is over, takes has_audio away.
LEMMA ControlRelease ==
  ASSUME TypeOK, NEW h \in Host, ReleasePlan(h), Agree(h), WorkerControl(h)
  PROVE  ReleasePlan(h)' /\ Agree(h)'
<1> DEFINE msg == Head(rx[h])
           request == msg.kind = "Request"
           m == IF request THEN [machine[h] EXCEPT !.hasAudio = TRUE] ELSE machine[h]
           t == Clock(h)
           r == on_message(m, msg, t)
<1>1. /\ LockFree(h) /\ holding' = holding /\ UNCHANGED world /\ t \in Time
      /\ machine \in [Host -> Machine] /\ work \in [Host -> Work]
  BY ClockType DEF WorkerControl, WorkerReady, hubState, TypeOK
<1>2. msg \in Message /\ (request => msg.headphone \in Headset)
  <2>1. msg \in Message
    BY HeadTailProperties DEF WorkerControl, TypeOK
  <2> HIDE DEF msg
  <2> QED BY <2>1 DEF Message, ReplyKind
<1>3. CASE UNCHANGED <<machine, work>>
  <2>1. Elsewhere(h)
    BY <1>1, <1>3 DEF Elsewhere, world
  <2> QED BY <2>1, ReleaseElsewhere
<1>4. CASE Begin(h, r) /\ (request => holding[h] = msg.headphone)
  <2>1. machine'[h] = r.m /\ work'[h] = [queue |-> r.acts, failed |-> FALSE]
    BY <1>1, <1>4 DEF Begin
  <2>2. request => holding[h] # NoHeadset
    BY <1>2, <1>4, HeadsetAssumption
  <2>3. /\ m \in Machine /\ m.phase = machine[h].phase
        /\ m.hasAudio <=> holding[h] # NoHeadset
    <3> DEFINE told == [machine[h] EXCEPT !.hasAudio = TRUE]
    <3>1. machine[h] \in Machine
      BY <1>1
    <3>2. told \in Machine /\ told.phase = machine[h].phase /\ told.hasAudio
      BY <3>1, FlagType DEF Machine
    <3>3. CASE request
      <4>1. m = told
        BY <3>3
      <4> HIDE DEF told, m
      <4> QED BY <2>2, <3>2, <3>3, <4>1
    <3>4. CASE ~request
      <4>1. m = machine[h]
        BY <3>4
      <4> HIDE DEF m
      <4> QED BY <3>1, <4>1 DEF Agree
    <3> QED BY <3>3, <3>4
  <2>4. work'[h].queue = r.acts /\ ~work'[h].failed
    <3> HIDE DEF r
    <3> QED BY <2>1
  <2> HIDE DEF r, m, msg, t
  <2>5. Agree(h)'
    <3>1. r.m.hasAudio = m.hasAudio \/ TakesAudio(m, r)
      BY <1>1, <1>2, <2>3, MessageAudio DEF r
    <3>2. CASE r.m.hasAudio = m.hasAudio
      BY <1>1, <2>1, <2>3, <3>2 DEF Agree
    <3>3. CASE TakesAudio(m, r)
      <4>1. holding[h] = NoHeadset
        BY <1>1, <2>3, <3>3, RestingRelease DEF TakesAudio, phase
      <4> QED BY <1>1, <2>1, <3>3, <4>1 DEF TakesAudio, Agree
    <3> QED BY <3>1, <3>2, <3>3
  <2>6. CASE machine'[h].phase.kind # "Releasing"
    BY <2>5, <2>6 DEF ReleasePlan, phase
  <2>7. CASE r.m.phase.kind = "Releasing"
    <3>1. \/ /\ request /\ r.m.phase.nonce = msg.nonce
             /\ r.m.phase.headphone = msg.headphone /\ r.acts = release_actions(msg)
          \/ request /\ m.phase.kind = "Releasing"
          \/ r = Ignored(m)
      BY <1>1, <1>2, <2>3, <2>7, MessageRelease DEF r
    <3>2. CASE /\ request /\ r.m.phase.nonce = msg.nonce
               /\ r.m.phase.headphone = msg.headphone /\ r.acts = release_actions(msg)
      <4>1. holding'[h] = r.m.phase.headphone
        BY <1>1, <1>4, <3>2
      <4>2. Announcing(work'[h].queue, r.m.phase.nonce, r.m.phase.headphone)
        BY <2>4, <3>2 DEF Announcing, release_actions
      <4> QED BY <2>1, <2>4, <2>5, <4>1, <4>2
              DEF ReleasePlan, Releases, Announcing, phase, phase_mac
    <3>3. CASE request /\ m.phase.kind = "Releasing"
      BY <1>1, <2>2, <2>3, <3>3, RestingRelease DEF phase
    <3>4. CASE r = Ignored(m)
      <4>1. machine'[h].phase = machine[h].phase /\ work'[h].queue = <<>>
        BY <2>1, <2>3, <2>4, <3>4 DEF Ignored, Step
      <4> QED BY <1>1, <2>4, <2>5, <4>1, RestingGoesOn
    <3> QED BY <3>1, <3>2, <3>3, <3>4
  <2> QED BY <2>1, <2>6, <2>7
<1> QED
  <2>1. \/ UNCHANGED <<machine, work>>
        \/ Begin(h, r) /\ (request => holding[h] = msg.headphone)
    BY DEF WorkerControl, dispatch_control
  <2> QED BY <1>3, <1>4, <2>1

\* A tick ends a release, and an observation of an idle host is adopted whole.
LEMMA TickRefreshRelease ==
  ASSUME TypeOK, NEW h \in Host, ReleasePlan(h), Agree(h), WorkerTick(h) \/ WorkerRefresh(h)
  PROVE  ReleasePlan(h)' /\ Agree(h)'
<1>1. machine \in [Host -> Machine] /\ holding \in [Host -> Headset \cup {NoHeadset}]
  BY DEF TypeOK
<1>2. CASE WorkerTick(h)
  <2> DEFINE t == Clock(h)
             s == tick(machine[h], t)
  <2>1. t \in Time /\ machine[h] \in Machine
    BY <1>1, ClockType
  <2>2. s # Ignored(machine[h]) /\ holding' = holding /\ machine'[h] = s.m
    BY <1>1, <1>2 DEF WorkerTick, Begin, hubState
  <2>3. s.m.phase.kind # "Releasing" /\ s.m.hasAudio = machine[h].hasAudio
    <3> HIDE DEF t
    <3> QED BY <2>1, <2>2, TickEndsRelease, AudioKept
  <2> HIDE DEF s
  <2> QED BY <2>2, <2>3 DEF ReleasePlan, Agree, phase
<1>3. CASE WorkerRefresh(h)
  <2>1. PICK hp \in Headset \cup {NoHeadset} :
           /\ holding' = [holding EXCEPT ![h] = hp]
           /\ machine' = [machine EXCEPT ![h] = WithHolding(h, hp)]
    <3> DEFINE candidate == IF holding[h] # NoHeadset THEN holding[h] ELSE op[h].audioCandidate
    <3>1. candidate \in Headset \cup {NoHeadset}
      BY DEF TypeOK, OperationState
    <3> QED BY <1>3, <3>1 DEF WorkerRefresh
  <2>2. phase(h).kind = "Idle"
    BY <1>3 DEF WorkerRefresh
  <2>3. /\ machine'[h] = WithHolding(h, hp) /\ holding'[h] = hp
    BY <1>1, <2>1
  <2> QED BY <2>2, <2>3, WithHoldingEffect, HoldingAudio DEF ReleasePlan, Agree, phase
<1> QED BY <1>2, <1>3

\* Users: a claim during a release is refused, the rest waits for its end, or,
\* leaving, ends it.
LEMMA UserRelease ==
  ASSUME TypeOK, NEW h \in Host, ReleasePlan(h), Agree(h), User(h)
  PROVE  ReleasePlan(h)' /\ Agree(h)'
<1>1. /\ machine \in [Host -> Machine] /\ holding \in [Host -> Headset \cup {NoHeadset}]
      /\ work \in [Host -> Work]
  BY DEF TypeOK
<1>2. ASSUME NEW hp \in Headset, NEW n \in Nonce, ClaimAt(h, hp, n)
      PROVE  ReleasePlan(h)' /\ Agree(h)'
  <2>1. holding' = holding /\ UNCHANGED world /\ LockFree(h)
    BY <1>2 DEF ClaimAt
  <2>2. CASE machine[h].phase.kind # "Idle"
    <3>1. Begin(h, Step(machine[h], <<Report("Busy")>>))
      BY <1>2, <2>2 DEF ClaimAt, claim, phase
    <3>2. machine'[h] = machine[h] /\ work'[h] = [queue |-> <<Report("Busy")>>, failed |-> FALSE]
      BY <1>1, <3>1 DEF Begin, Step
    <3>3. Refusing(work'[h].queue) /\ ~work'[h].failed
      BY <3>2 DEF Refusing
    <3>4. Agree(h)'
      BY <2>1, <3>2 DEF Agree
    <3> QED BY <2>1, <3>2, <3>3, <3>4, RestingGoesOn
  <2>3. CASE machine[h].phase.kind = "Idle"
    <3> DEFINE able == Bound(h, hp)
               m == [machine[h] EXCEPT !.canControlHeadset = able]
               t == asked[n].at
               s == claim(m, hp, n, t)
    <3>1. machine'[h] = s.m
      BY <1>1, <1>2, <2>3 DEF ClaimAt, Begin, phase
    <3>2. m.phase.kind = "Idle" /\ m.hasAudio = machine[h].hasAudio
      BY <1>1, <2>3 DEF Machine
    <3>3. m \in [phase : Phase, hasAudio : BOOLEAN, canControlHeadset : {able},
                 peerHasAudio : BOOLEAN, peerHasNoAudio : BOOLEAN]
      BY <1>1 DEF Machine
    <3>4. s.m.phase.kind = "WaitingRelease" /\ s.m.hasAudio = m.hasAudio
      <4> HIDE DEF m, able, t
      <4> QED BY <3>2, <3>3 DEF claim, Step, WaitingRelease
    <3> HIDE DEF s, m
    <3> QED BY <2>1, <3>1, <3>2, <3>4 DEF ReleasePlan, Agree, phase
  <2> QED BY <2>2, <2>3
<1>3. ASSUME NEW hp \in Headset \cup {NoHeadset}, AdoptHeadset(h, hp)
      PROVE  ReleasePlan(h)' /\ Agree(h)'
  <2>1. phase(h).kind = "Idle"
    BY <1>3 DEF AdoptHeadset
  <2>2. PICK held \in Headset \cup {NoHeadset} : Holds(h, held)
    BY <1>3 DEF AdoptHeadset
  <2>3. /\ machine'[h] = WithHolding(h, held) /\ holding'[h] = held
    BY <1>1, <2>2 DEF Holds
  <2> QED BY <2>1, <2>3, WithHoldingEffect, HoldingAudio DEF ReleasePlan, Agree, phase
<1>4. ASSUME NEW hp \in Headset \cup {NoHeadset}, SetControlAddress(h, hp)
      PROVE  ReleasePlan(h)' /\ Agree(h)'
  <2>1. UNCHANGED <<holding, work, muted, link>>
    BY <1>4 DEF SetControlAddress, world
  <2>2. machine'[h].phase = machine[h].phase
    BY <1>4, RebindMoves
  <2>3. machine'[h].hasAudio = machine[h].hasAudio
    <3>1. machine'[h] = [machine[h] EXCEPT !.canControlHeadset = Capability(machine[h], op'[h])]
      BY <1>1, <1>4 DEF SetControlAddress, update_control_capability
    <3> QED BY <1>1, <3>1 DEF Machine
  <2>4. ReleasePlan(h)'
    BY <2>1, <2>2 DEF ReleasePlan, Releases, Announcing, Hushing, Dropping, Answering, Refusing,
                      Hushed, Freed, phase, phase_mac
  <2>5. Agree(h)'
    BY <2>1, <2>3 DEF Agree
  <2> QED BY <2>4, <2>5
<1>5. CASE Leave(h)
  BY <1>5, LeaveMoves DEF ReleasePlan, Agree, phase, Idle
<1>6. CASE Calling(h)
  <2>1. UNCHANGED <<machine, holding, work, muted, link>>
    BY <1>6, CallingEffect
  <2> QED BY <2>1 DEF ReleasePlan, Releases, Announcing, Hushing, Dropping, Answering, Refusing,
                      Hushed, Freed, Agree, phase, phase_mac
<1> QED BY <1>2, <1>3, <1>4, <1>5, <1>6 DEF User

-----------------------------------------------------------------------------
(* The theorems *)

LEMMA ReleaseInit ==
  ASSUME Init
  PROVE  ReleaseInv
<1>1. TypeOK
  BY InitType
<1>2. ASSUME NEW h \in Host
      PROVE  ReleasePlan(h) /\ Agree(h)
  <2> DEFINE m == [NewMachine EXCEPT !.hasAudio = (holding[h] # NoHeadset)]
  <2>1. machine[h] = update_control_capability(m, op[h])
    BY DEF Init
  <2>2. m.phase = Idle /\ (m.hasAudio <=> holding[h] # NoHeadset) /\ m \in Machine
    <3>1. NewMachine \in Machine /\ NewMachine.phase = Idle
      BY PhaseTypes DEF NewMachine, Machine
    <3> QED BY <3>1, FlagType DEF Machine
  <2> HIDE DEF m
  <2>3. machine[h].phase = Idle /\ machine[h].hasAudio = m.hasAudio
    BY <2>1, <2>2 DEF update_control_capability, Machine
  <2> QED BY <2>2, <2>3 DEF ReleasePlan, Agree, phase, Idle
<1> QED BY <1>1, <1>2 DEF ReleaseInv

LEMMA ReleaseNext ==
  ASSUME ReleaseInv, [Next]_vars
  PROVE  ReleaseInv'
<1>1. TypeOK /\ TypeOK'
  BY NextType DEF ReleaseInv
<1>2. ASSUME NEW h \in Host
      PROVE  ReleasePlan(h)' /\ Agree(h)'
  <2>1. ReleasePlan(h) /\ Agree(h)
    BY DEF ReleaseInv
  <2>2. Elsewhere(h) \/ ApplyStep(h) \/ Worker(h) \/ User(h)
    BY <1>1, OwnOrElsewhere
  <2> QED BY <1>1, <2>1, <2>2, ReleaseElsewhere, ApplyRelease, ControlRelease,
             TickRefreshRelease, UserRelease DEF Worker
<1>3. \A h \in Host : ReleasePlan(h)' /\ Agree(h)'
  BY <1>2
<1> QED BY <1>1, <1>3 DEF ReleaseInv

LEMMA ReleaseInvariant == Spec => []ReleaseInv
<1>1. Init => ReleaseInv
  BY ReleaseInit
<1>2. ReleaseInv /\ [Next]_vars => ReleaseInv'
  BY ReleaseNext
<1> QED BY <1>1, <1>2, PTL DEF Spec

\* In every state of a group of any size the has_audio of a machine and the
\* announced holding of its host agree (group.rs, update_holding; handoff.rs,
\* on_taken): not only at rest but between two actions of an operation too.
THEOREM HoldingsAgree == Spec => []HoldingAgrees
<1>1. ReleaseInv => HoldingAgrees
  BY DEF ReleaseInv, Agree, HoldingAgrees
<1> QED BY <1>1, ReleaseInvariant, PTL

\* From the end of its release to the end of the handoff a host neither claims
\* the headset nor, where reconnection can be suppressed, streams with it,
\* whatever is lost, refused or reconnected meanwhile (actions.rs,
\* disconnect_verified and suppress).
THEOREM ReleasesHold == Spec => []ReleasedStaysReleased
<1>1. ASSUME ReleaseInv, NEW h \in Host, phase(h).kind = "Releasing", LockFree(h)
      PROVE  /\ holding[h] # phase_mac(h) /\ ~machine[h].hasAudio
             /\ h \notin Unsuppressable => link[phase_mac(h)] # h
  <2>1. TypeOK /\ ReleasePlan(h) /\ Agree(h)
    BY <1>1 DEF ReleaseInv
  <2>2. holding[h] = NoHeadset /\ Freed(h, phase_mac(h))
    BY <1>1, <2>1, RestingRelease
  <2>3. phase_mac(h) \in Headset
    BY <1>1, <2>1, PhaseCases DEF TypeOK, phase, phase_mac
  <2> QED BY <2>1, <2>2, <2>3, HeadsetAssumption DEF Freed, Agree
<1>2. ReleaseInv => ReleasedStaysReleased
  BY <1>1 DEF ReleasedStaysReleased
<1> QED BY <1>2, ReleaseInvariant, PTL

-----------------------------------------------------------------------------
(* What a host says *)

\* The messages a queue of actions is going to send, and the messages a host
\* has sent or is going to.
Outbox(q) == {msg \in Message : \E i \in DOMAIN q : q[i] = Send(msg)}
Said(h) == {msg \in Message : Datagram(h, msg) \in sent}
Voice(h) == Outbox(work[h].queue) \cup Said(h)

LEMMA SendFields ==
  /\ \A msg : Send(msg).do = "Send" /\ Send(msg).msg = msg
  /\ \A hp : ConnectAudio(hp).do # "Send" /\ DisconnectAudio(hp).do # "Send"
  /\ \A hp : Suppress(hp).do # "Send" /\ Restore(hp).do # "Send"
  /\ \A p : Report(p).do # "Send"
  /\ \A t : Pause(t).do # "Send"
  /\ SendHeadsetDisconnect.do # "Send"
BY DEF Send, ConnectAudio, DisconnectAudio, Suppress, Restore, Report, Pause,
       SendHeadsetDisconnect

\* Lists of no, one, two and three actions.
LEMMA OutboxEmpty == Outbox(<<>>) = {}
BY DEF Outbox

LEMMA OutboxOther ==
  ASSUME NEW a, a.do # "Send"
  PROVE  Outbox(<<a>>) = {}
<1>1. \A x \in Message : a # Send(x)
  BY SendFields
<1> QED BY <1>1 DEF Outbox

LEMMA OutboxOthers ==
  ASSUME NEW a, NEW b, a.do # "Send", b.do # "Send"
  PROVE  Outbox(<<a, b>>) = {}
<1>1. \A x \in Message : a # Send(x) /\ b # Send(x)
  BY SendFields
<1> QED BY <1>1 DEF Outbox

LEMMA OutboxMessage ==
  ASSUME NEW msg \in Message
  PROVE  Outbox(<<Send(msg)>>) = {msg}
<1> DEFINE s == Send(msg)
<1>1. \A x \in Message : s = Send(x) => x = msg
  BY SendFields
<1> HIDE DEF s
<1>2. 1 \in DOMAIN <<s>> /\ <<s>>[1] = s
  OBVIOUS
<1>3. \A i \in DOMAIN <<s>> : <<s>>[i] = s
  OBVIOUS
<1>4. Outbox(<<s>>) = {msg}
  BY <1>1, <1>2, <1>3 DEF Outbox, s
<1> QED BY <1>4 DEF s

LEMMA OutboxFirst ==
  ASSUME NEW msg \in Message, NEW b, NEW c, b.do # "Send", c.do # "Send"
  PROVE  Outbox(<<Send(msg), b, c>>) = {msg}
<1> DEFINE s == Send(msg)
           q == <<s, b, c>>
<1>1. \A x \in Message : /\ Send(x).do = "Send" /\ (s = Send(x) => x = msg)
                         /\ b # Send(x) /\ c # Send(x)
  BY SendFields
<1>2. 1 \in DOMAIN q /\ q[1] = s
  OBVIOUS
<1>3. \A i \in DOMAIN q : q[i] \in {s, b, c}
  OBVIOUS
<1> HIDE DEF q, s
<1>4. Outbox(q) = {msg}
  BY <1>1, <1>2, <1>3 DEF Outbox, s
<1> QED BY <1>4 DEF q, s

\* What is left of a queue, after what its head asks for.
LEMMA OutboxRest ==
  ASSUME NEW q \in Seq(Queued), q # <<>>, NEW more \in Seq(Queued)
  PROVE  Outbox(more \o Tail(q)) \subseteq Outbox(more) \cup Outbox(q)
<1> DEFINE rest == Tail(q)
<1>1. rest \in Seq(Queued) /\ \A i \in DOMAIN rest : i + 1 \in DOMAIN q /\ rest[i] = q[i + 1]
  OBVIOUS
<1> HIDE DEF rest
<1>2. \A i \in DOMAIN (more \o rest) :
        \/ i \in DOMAIN more /\ (more \o rest)[i] = more[i]
        \/ i - Len(more) \in DOMAIN rest /\ (more \o rest)[i] = rest[i - Len(more)]
  BY <1>1
<1>3. ASSUME NEW msg \in Outbox(more \o rest)
      PROVE  msg \in Outbox(more) \cup Outbox(q)
  <2>1. PICK i \in DOMAIN (more \o rest) : (more \o rest)[i] = Send(msg) /\ msg \in Message
    BY <1>3 DEF Outbox
  <2>2. CASE i \in DOMAIN more /\ (more \o rest)[i] = more[i]
    BY <2>1, <2>2 DEF Outbox
  <2>3. CASE i - Len(more) \in DOMAIN rest /\ (more \o rest)[i] = rest[i - Len(more)]
    <3>1. \E j \in DOMAIN q : q[j] = Send(msg)
      BY <1>1, <2>1, <2>3
    <3> QED BY <2>1, <3>1 DEF Outbox
  <2> QED BY <1>2, <2>2, <2>3
<1> QED BY <1>3 DEF rest

\* The head of a queue, when it is a message.
LEMMA OutboxHead ==
  ASSUME NEW q \in Seq(Queued), q # <<>>, Head(q).do = "Send"
  PROVE  Head(q).msg \in Outbox(q) /\ Head(q).msg \in Message
<1> DEFINE a == Head(q)
<1>1. a \in Queued /\ 1 \in DOMAIN q /\ q[1] = a
  OBVIOUS
<1> HIDE DEF a
<1>2. a.do = "Send" => a.msg \in Message /\ a = Send(a.msg)
  BY <1>1, SendFields DEF Queued, Action, Send, SendHeadsetDisconnect
<1> QED BY <1>1, <1>2 DEF Outbox, a

\* A failure tells the other side, once.
LEMMA FailedSays ==
  ASSUME NEW m \in Machine
  PROVE  /\ m.phase.kind = "Idle" => on_audio_failed(m).acts = <<>>
         /\ m.phase.kind # "Idle" =>
              Outbox(on_audio_failed(m).acts) = {Reply("Abort", m.phase.nonce)}
<1>1. m.phase.kind = "Idle" => on_audio_failed(m).acts = <<>>
  BY DEF on_audio_failed, Ignored, Step
<1>2. CASE m.phase.kind # "Idle"
  <2> DEFINE msg == Reply("Abort", m.phase.nonce)
             b == Restore(m.phase.headphone)
             c == Report("Failed")
  <2>1. msg \in Message
    BY <1>2, PhaseCases, MessageTypes DEF ReplyKind
  <2>2. b.do # "Send" /\ c.do # "Send"
    BY SendFields
  <2>3. on_audio_failed(m).acts = <<Send(msg), b, c>>
    BY <1>2 DEF on_audio_failed, Step
  <2> HIDE DEF msg, b, c
  <2>4. Outbox(on_audio_failed(m).acts) = {msg}
    BY <2>1, <2>2, <2>3, OutboxFirst
  <2> QED BY <1>2, <2>4 DEF msg
<1> QED BY <1>1, <1>2

\* A message is answered, if at all, to the handoff it is about.
Answers(n) == {Reply(kind, n) : kind \in {"HasAudio", "NoAudio", "Busy"}}

LEMMA MessageSays ==
  ASSUME NEW m \in Machine, NEW msg \in Message, NEW t \in Time
  PROVE  Outbox(on_message(m, msg, t).acts) \subseteq Answers(msg.nonce)
<1> DEFINE n == msg.nonce
           r == on_message(m, msg, t)
<1>1. \A k \in {"HasAudio", "NoAudio", "Busy"} :
         Reply(k, n) \in Message /\ Reply(k, n) \in Answers(n)
  BY MessageTypes DEF Answers, Message, ReplyKind
<1>2. CASE r.acts = <<>>
  BY <1>2, OutboxEmpty
<1>3. CASE r.acts = <<Send(Reply("Busy", n))>> \/ r.acts = <<Send(Reply("NoAudio", n))>>
  <2> HIDE DEF r, n
  <2> QED BY <1>1, <1>3, OutboxMessage DEF r, n
<1>4. CASE r.acts = release_actions(msg)
  <2> DEFINE b == Suppress(msg.headphone)
             c == DisconnectAudio(msg.headphone)
             says == Reply("HasAudio", n)
  <2>1. b.do # "Send" /\ c.do # "Send"
    BY SendFields
  <2>2. r.acts = <<Send(says), b, c>>
    BY <1>4 DEF release_actions
  <2>3. says \in Message /\ says \in Answers(n)
    BY <1>1
  <2> HIDE DEF b, c, says, r, n
  <2>4. Outbox(r.acts) = {says}
    BY <2>1, <2>2, <2>3, OutboxFirst
  <2> QED BY <2>3, <2>4 DEF r, n
<1>5. CASE r.acts = <<ConnectAudio(m.phase.headphone)>> \/ r.acts = <<Report("Busy")>>
  <2> DEFINE a == ConnectAudio(m.phase.headphone)
             b == Report("Busy")
  <2>1. a.do # "Send" /\ b.do # "Send"
    BY SendFields
  <2> HIDE DEF a, b, r
  <2>2. r.acts = <<a>> \/ r.acts = <<b>>
    BY <1>5 DEF a, b
  <2> QED BY <2>1, <2>2, OutboxOther DEF r
<1>6. CASE r.acts = <<Report("Failed"), Restore(m.phase.headphone)>>
  <2> DEFINE a == Report("Failed")
             b == Restore(m.phase.headphone)
  <2>1. a.do # "Send" /\ b.do # "Send"
    BY SendFields
  <2> HIDE DEF a, b, r
  <2>2. r.acts = <<a, b>>
    BY <1>6 DEF a, b
  <2> QED BY <2>1, <2>2, OutboxOthers DEF r
<1>7. \/ r.acts \in {<<>>, <<Send(Reply("Busy", n))>>, <<Send(Reply("NoAudio", n))>>,
                     release_actions(msg), <<ConnectAudio(m.phase.headphone)>>,
                     <<Report("Busy")>>, <<Report("Failed"), Restore(m.phase.headphone)>>}
  <2>1. msg.kind \in ReplyKind \cup {"Request"} /\ "Request" \notin ReplyKind
    BY DEF Message, ReplyKind
  <2>2. CASE msg.kind = "Request"
    <3>1. msg.deadline \in Nat /\ t \in Nat
      BY <2>2, ClockAssumption DEF Message, ReplyKind, Time
    <3>2. \/ on_request(m, msg, t) = Ignored(m)
          \/ on_request(m, msg, t) = Step(m, <<Send(Reply("Busy", n))>>)
          \/ on_request(m, msg, t) = Step(m, <<Send(Reply("NoAudio", n))>>)
          \/ on_request(m, msg, t) =
               Step(Enter(m, Releasing(n, msg.headphone, release_deadline(msg, t))),
                    release_actions(msg))
      BY <3>1 DEF on_request
    <3> QED BY <2>2, <3>2 DEF on_message, Ignored, Step
  <2>3. CASE msg.kind # "Request"
    <3>1. on_peer_has_audio(m, n).acts = <<>> /\ on_no_audio(m, n).acts = <<>>
      BY DEF on_peer_has_audio, on_no_audio, Ignored, Step
    <3>2. on_released(m, n).acts \in {<<>>, <<ConnectAudio(m.phase.headphone)>>}
      BY DEF on_released, StartConnecting, Ignored, Step
    <3>3. on_taken(m, n).acts = <<>> /\ on_busy(m, n).acts \in {<<>>, <<Report("Busy")>>}
      BY DEF on_taken, on_busy, Ignored, Step
    <3>4. on_abort(m, n).acts \in {<<>>, <<Report("Failed"), Restore(m.phase.headphone)>>}
      BY DEF on_abort, Ignored, Step
    <3> QED BY <2>1, <2>3, <3>1, <3>2, <3>3, <3>4 DEF on_message, ReplyKind
  <2> QED BY <2>2, <2>3
<1> QED BY <1>2, <1>3, <1>4, <1>5, <1>6, <1>7

\* A deadline of a release is told to the other side, that of a claim is not.
LEMMA TickSays ==
  ASSUME NEW m \in Machine, NEW t \in Time
  PROVE  \/ Outbox(tick(m, t).acts) = {}
         \/ m.phase.kind = "Releasing" /\ tick(m, t) = on_audio_failed(m)
<1> DEFINE r == tick(m, t)
           a == ConnectAudio(m.phase.headphone)
           b == Report("Failed")
           c == SendHeadsetDisconnect
<1>1. m.phase.kind \in HandoffKind \cup {"Idle"} /\ m.phase.at \in Nat /\ t \in Nat
  BY PhaseCases, ClockAssumption DEF Idle, Time
<1>2. a.do # "Send" /\ b.do # "Send" /\ c.do # "Send"
  BY SendFields
<1>3. \/ r \in {Ignored(m), StartConnecting(m), fallback_or_fail(m, t)}
      \/ m.phase.kind = "Releasing" /\ r = on_audio_failed(m)
  BY <1>1 DEF tick, HandoffKind
<1>4. r \in {Ignored(m), StartConnecting(m), fallback_or_fail(m, t)} =>
        r.acts \in {<<>>, <<a>>, <<b>>, <<c>>}
  BY DEF Ignored, StartConnecting, fallback_or_fail, Step
<1> HIDE DEF a, b, c
<1>5. r.acts \in {<<>>, <<a>>, <<b>>, <<c>>} => Outbox(r.acts) = {}
  <2> HIDE DEF r
  <2> QED BY <1>2, OutboxEmpty, OutboxOther
<1> QED BY <1>3, <1>4, <1>5

\* What a step of h adds to what it says: nothing, the verdict on the handoff it
\* ends by it, the end of its release, an answer to the message it has in hand,
\* or a request with a nonce of its own.
Adds(h, S) == Voice(h)' \subseteq Voice(h) \cup S

Speech(h) ==
  \/ Adds(h, {})
  \/ /\ phase(h).kind = "ConnectingAudio" /\ machine'[h].phase = Idle
     /\ Adds(h, {Reply("Taken", phase(h).nonce)})
  \/ /\ phase(h).kind # "Idle" /\ machine'[h].phase = Idle
     /\ Adds(h, {Reply("Abort", phase(h).nonce)})
  \/ phase(h).kind = "Releasing" /\ Adds(h, {Reply("Released", phase(h).nonce)})
  \/ rx[h] # <<>> /\ Adds(h, Answers(Head(rx[h]).nonce))
  \/ \E n \in Nonce, hp \in Headset, t \in Time :
        ticket[n].by = NoHost /\ ticket'[n].by = h /\ Adds(h, {HandoffRequest(n, hp, t)})

LEMMA QueueSpeech ==
  ASSUME NEW h \in Host, NEW S, sent' = sent,
         Outbox(work'[h].queue) \subseteq Outbox(work[h].queue) \cup S
  PROVE  Adds(h, S)
BY DEF Adds, Voice, Said, Outbox

\* Going on with the apply loop, failing in it, and beginning it.
LEMMA GoingOnSays ==
  ASSUME TypeOK, NEW h \in Host, ~LockFree(h), NEW more \in Seq(Queued),
         \E failed : Proceed(h, more, failed)
  PROVE  Outbox(work'[h].queue) \subseteq Outbox(work[h].queue) \cup Outbox(more)
<1> DEFINE q == work[h].queue
           rest == more \o Tail(q)
<1>1. q \in Seq(Queued) /\ q # <<>> /\ work \in [Host -> Work]
  BY DEF TypeOK, Work, LockFree
<1>2. PICK failed : work' = [work EXCEPT ![h] = [queue |-> rest, failed |-> failed /\ rest # <<>>]]
  BY DEF Proceed
<1> HIDE DEF q, rest
<1>3. work'[h].queue = rest
  BY <1>1, <1>2
<1>4. Outbox(more \o Tail(q)) \subseteq Outbox(more) \cup Outbox(q)
  BY <1>1, OutboxRest
<1> QED BY <1>3, <1>4 DEF q, rest

LEMMA FailSpeech ==
  ASSUME TypeOK, NEW h \in Host, NEW m \in Machine, m.phase = machine[h].phase,
         ~LockFree(h), FailAction(h, m), sent' = sent
  PROVE  Speech(h)
<1>1. machine \in [Host -> Machine] /\ work \in [Host -> Work]
  BY DEF TypeOK
<1>2. CASE work[h].failed
  <2>1. \E failed : Proceed(h, <<>>, failed)
    BY <1>2 DEF FailAction
  <2>2. Outbox(work'[h].queue) \subseteq Outbox(work[h].queue) \cup Outbox(<<>>)
    BY <2>1, GoingOnSays, EmptySeq
  <2>3. Adds(h, {})
    BY <2>2, OutboxEmpty, QueueSpeech
  <2> QED BY <2>3 DEF Speech
<1>3. CASE ~work[h].failed
  <2> DEFINE s == on_audio_failed(m)
             queue == IF s.acts = <<>> THEN <<Report("Failed")>> ELSE s.acts
  <2>1. /\ machine' = [machine EXCEPT ![h] = s.m]
        /\ work' = [work EXCEPT ![h] = [queue |-> queue, failed |-> TRUE]]
    BY <1>3 DEF FailAction
  <2>2. s.m.phase = Idle
    BY AudioResults
  <2>3. /\ m.phase.kind = "Idle" => s.acts = <<>>
        /\ m.phase.kind # "Idle" => Outbox(s.acts) = {Reply("Abort", m.phase.nonce)}
    BY FailedSays
  <2>4. Outbox(<<Report("Failed")>>) = {}
    BY SendFields, OutboxOther
  <2> HIDE DEF s
  <2>5. \/ Outbox(queue) = {}
        \/ m.phase.kind # "Idle" /\ Outbox(queue) = {Reply("Abort", m.phase.nonce)}
    <3>1. CASE s.acts = <<>>
      BY <2>4, <3>1
    <3>2. CASE s.acts # <<>>
      BY <2>3, <3>2
    <3> QED BY <3>1, <3>2
  <2> HIDE DEF queue
  <2>6. machine'[h].phase = Idle /\ work'[h].queue = queue
    BY <1>1, <2>1, <2>2
  <2>7. CASE Outbox(queue) = {}
    <3>1. Adds(h, {})
      BY <2>6, <2>7, QueueSpeech
    <3> QED BY <3>1 DEF Speech
  <2>8. CASE m.phase.kind # "Idle" /\ Outbox(queue) = {Reply("Abort", m.phase.nonce)}
    <3>1. Adds(h, {Reply("Abort", m.phase.nonce)})
      BY <2>6, <2>8, QueueSpeech
    <3> QED BY <2>6, <2>8, <3>1 DEF Speech, phase
  <2> QED BY <2>5, <2>7, <2>8
<1> QED BY <1>2, <1>3

LEMMA BegunSpeech ==
  ASSUME TypeOK, NEW h \in Host, NEW s, Begin(h, s), sent' = sent
  PROVE  Adds(h, Outbox(s.acts)) /\ machine'[h] = s.m
<1>1. work'[h].queue = s.acts /\ machine'[h] = s.m
  BY DEF TypeOK, Begin
<1> QED BY <1>1, QueueSpeech

-----------------------------------------------------------------------------
(* The apply loop speaks *)

LEMMA SendSpeech ==
  ASSUME TypeOK, NEW h \in Host, DoSend(h)
  PROVE  Speech(h)
<1>1. ~LockFree(h) /\ machine[h] \in Machine /\ Head(work[h].queue).do = "Send"
  BY DEF DoSend, Doing, TypeOK
<1>2. CASE FailAction(h, machine[h]) /\ UNCHANGED sent
  BY <1>1, <1>2, FailSpeech
<1>3. CASE /\ sent' = sent \cup {Datagram(h, Head(work[h].queue).msg)}
           /\ Proceed(h, <<>>, work[h].failed)
  <2> DEFINE q == work[h].queue
             said == Head(q).msg
  <2>1. \E failed : Proceed(h, <<>>, failed)
    BY <1>3
  <2>2. Outbox(work'[h].queue) \subseteq Outbox(q) \cup Outbox(<<>>)
    BY <1>1, <2>1, GoingOnSays, EmptySeq
  <2>3. said \in Outbox(q)
    <3>1. q \in Seq(Queued) /\ q # <<>> /\ Head(q).do = "Send"
      BY <1>1 DEF TypeOK, Work, LockFree
    <3> HIDE DEF q
    <3> QED BY <3>1, OutboxHead
  <2>4. \A msg \in Message : Datagram(h, msg) \in sent' => Datagram(h, msg) \in sent \/ msg = said
    BY <1>3 DEF Datagram
  <2> HIDE DEF q, said
  <2>5. Adds(h, {})
    <3>1. Said(h)' \subseteq Said(h) \cup {said}
      BY <2>4 DEF Said
    <3>2. Outbox(work[h].queue)' \subseteq Outbox(q)
      BY <2>2, OutboxEmpty
    <3> QED BY <2>3, <3>1, <3>2 DEF Adds, Voice, q
  <2> QED BY <2>5 DEF Speech
<1> QED BY <1>2, <1>3 DEF DoSend

LEMMA ConnectSpeech ==
  ASSUME TypeOK, NEW h \in Host, DoConnectAudio(h)
  PROVE  Speech(h)
<1> DEFINE hp == Target(h)
<1>1. /\ ~LockFree(h) /\ machine[h] \in Machine /\ hp \in Headset /\ sent' = sent
      /\ machine \in [Host -> Machine] /\ holding \in [Host -> Headset \cup {NoHeadset}]
  BY HeadCases DEF DoConnectAudio, Doing, Target, TypeOK
<1> HIDE DEF hp
<1>2. CASE FailAction(h, machine[h])
  BY <1>1, <1>2, FailSpeech
<1> DEFINE m == WithHolding(h, hp)
           s == on_audio_connected(m)
<1>3. CASE machine' = [machine EXCEPT ![h] = s.m] /\ Proceed(h, s.acts, work[h].failed)
  <2>1. m \in Machine /\ m.phase = machine[h].phase
    BY <1>1, WithHoldingType, WithHoldingEffect
  <2>2. s \in StepType
    BY <2>1, AudioConnectedType
  <2>3. machine'[h] = s.m
    BY <1>1, <1>3
  <2>4. Outbox(work'[h].queue) \subseteq Outbox(work[h].queue) \cup Outbox(s.acts)
    <3> HIDE DEF s
    <3>1. s.acts \in Seq(Queued) /\ \E failed : Proceed(h, s.acts, failed)
      BY <1>3, <2>2, QueuedActions DEF StepType
    <3> QED BY <1>1, <3>1, GoingOnSays
  <2>5. CASE m.phase.kind = "ConnectingAudio"
    <3> DEFINE msg == Reply("Taken", m.phase.nonce)
    <3>1. msg \in Message
      BY <2>1, <2>5, PhaseCases, MessageTypes DEF ReplyKind
    <3>2. s.acts = <<Send(msg)>>
      BY <2>5 DEF on_audio_connected, Step
    <3> HIDE DEF msg
    <3>3. Outbox(s.acts) = {msg}
      BY <3>1, <3>2, OutboxMessage
    <3>4. s.m.phase = Idle
      BY <2>1, <2>5, AudioResults
    <3> HIDE DEF s, m
    <3>5. Adds(h, {msg})
      BY <1>1, <2>4, <3>3, QueueSpeech
    <3> QED BY <2>1, <2>3, <2>5, <3>4, <3>5 DEF Speech, msg, phase
  <2>6. CASE m.phase.kind # "ConnectingAudio"
    <3>1. Outbox(s.acts) = {}
      BY <2>6, OutboxEmpty DEF on_audio_connected, Ignored, Step
    <3> HIDE DEF s
    <3>2. Adds(h, {})
      BY <1>1, <2>4, <3>1, QueueSpeech
    <3> QED BY <3>2 DEF Speech
  <2> QED BY <2>5, <2>6
<1>4. ASSUME NEW seen \in {hp, NoHeadset}, holding' = [holding EXCEPT ![h] = seen],
             FailAction(h, WithHolding(h, holding'[h]))
      PROVE  Speech(h)
  <2>1. holding'[h] = seen /\ seen \in Headset \cup {NoHeadset}
    BY <1>1, <1>4
  <2>2. FailAction(h, WithHolding(h, seen))
    BY <1>4, <2>1
  <2>3. WithHolding(h, seen) \in Machine /\ WithHolding(h, seen).phase = machine[h].phase
    BY <2>1, WithHoldingType, WithHoldingEffect
  <2> QED BY <1>1, <2>2, <2>3, FailSpeech
<1> QED
  <2>1. \/ FailAction(h, machine[h])
        \/ machine' = [machine EXCEPT ![h] = s.m] /\ Proceed(h, s.acts, work[h].failed)
        \/ \E seen \in {hp, NoHeadset} :
              /\ holding' = [holding EXCEPT ![h] = seen]
              /\ FailAction(h, WithHolding(h, holding'[h]))
    BY DEF DoConnectAudio, hp
  <2> QED BY <1>2, <1>3, <1>4, <2>1

LEMMA QuietSpeech ==
  ASSUME TypeOK, NEW h \in Host, ~LockFree(h), sent' = sent,
         NEW more \in Seq(Queued), Outbox(more) = {}, \E failed : Proceed(h, more, failed)
  PROVE  Speech(h)
<1>1. Outbox(work'[h].queue) \subseteq Outbox(work[h].queue) \cup Outbox(more)
  BY GoingOnSays
<1>2. Adds(h, {})
  BY <1>1, QueueSpeech
<1> QED BY <1>2 DEF Speech

LEMMA DisconnectSpeech ==
  ASSUME TypeOK, NEW h \in Host, DoDisconnectAudio(h)
  PROVE  Speech(h)
<1>1. /\ ~LockFree(h) /\ machine[h] \in Machine /\ sent' = sent
      /\ machine \in [Host -> Machine]
  BY DEF DoDisconnectAudio, Doing, TypeOK
<1> DEFINE m == WithHolding(h, NoHeadset)
           s == on_audio_disconnected(m)
<1>2. CASE FailAction(h, machine[h])
  BY <1>1, <1>2, FailSpeech
<1>3. CASE phase(h).kind = "Releasing" /\ Proceed(h, s.acts, work[h].failed)
  <2>1. m \in Machine /\ m.phase = machine[h].phase
    BY WithHoldingType, WithHoldingEffect
  <2> DEFINE msg == Reply("Released", m.phase.nonce)
  <2>2. msg \in Message
    BY <1>3, <2>1, PhaseCases, MessageTypes DEF ReplyKind, phase
  <2>3. s.acts = <<Send(msg)>>
    BY <1>3, <2>1 DEF on_audio_disconnected, Step, phase
  <2>4. s.acts \in Seq(Queued)
    BY <2>1, AudioDisconnectedType, QueuedActions DEF StepType
  <2> HIDE DEF msg
  <2>5. Outbox(s.acts) = {msg}
    BY <2>2, <2>3, OutboxMessage
  <2> HIDE DEF s, m
  <2>6. \E failed : Proceed(h, s.acts, failed)
    BY <1>3
  <2>7. Outbox(work'[h].queue) \subseteq Outbox(work[h].queue) \cup Outbox(s.acts)
    BY <1>1, <2>4, <2>6, GoingOnSays
  <2>8. Adds(h, {msg})
    BY <1>1, <2>5, <2>7, QueueSpeech
  <2> QED BY <1>3, <2>1, <2>8 DEF Speech, msg, phase
<1> QED
  <2>1. \/ FailAction(h, machine[h])
        \/ phase(h).kind = "Releasing" /\ Proceed(h, s.acts, work[h].failed)
    BY DEF DoDisconnectAudio
  <2> QED BY <1>2, <1>3, <2>1

LEMMA OtherActionSpeech ==
  ASSUME TypeOK, NEW h \in Host,
         \/ DoSuppress(h) \/ DoRestore(h) \/ DoSendHeadsetDisconnect(h)
         \/ DoPause(h) \/ DoReport(h)
  PROVE  Speech(h)
<1>1. ~LockFree(h) /\ machine[h] \in Machine /\ sent' = sent
  BY DEF DoSuppress, DoRestore, DoSendHeadsetDisconnect, DoPause, DoReport, Doing, TypeOK
<1>2. CASE FailAction(h, machine[h])
  BY <1>1, <1>2, FailSpeech
<1>3. CASE \E failed : Proceed(h, <<>>, failed)
  BY <1>1, <1>3, QuietSpeech, OutboxEmpty, EmptySeq
<1>4. CASE \E failed : Proceed(h, CdGap(h), failed)
  <2> DEFINE p == Pause(saturating_add(Clock(h), ConnectGap))
  <2>1. p \in Queued
    BY ClockType, LaterTypes, QueuedActions
  <2>2. p.do # "Send"
    BY SendFields
  <2> HIDE DEF p
  <2>3. <<p>> \in Seq(Queued) /\ Outbox(<<p>>) = {} /\ CdGap(h) = <<p>>
    BY <2>1, <2>2, OutboxOther DEF CdGap, p
  <2> QED BY <1>1, <1>4, <2>3, QuietSpeech
<1> QED
  <2>1. \/ FailAction(h, machine[h]) \/ \E failed : Proceed(h, <<>>, failed)
        \/ \E failed : Proceed(h, CdGap(h), failed)
    BY DEF DoSuppress, DoRestore, DoSendHeadsetDisconnect, DoPause, DoReport
  <2> QED BY <1>2, <1>3, <1>4, <2>1

LEMMA ApplySpeech ==
  ASSUME TypeOK, NEW h \in Host, ApplyStep(h)
  PROVE  Speech(h)
BY SendSpeech, ConnectSpeech, DisconnectSpeech, OtherActionSpeech DEF ApplyStep

-----------------------------------------------------------------------------
(* The handlers speak *)

LEMMA ControlSpeech ==
  ASSUME TypeOK, NEW h \in Host, WorkerControl(h)
  PROVE  Speech(h)
<1> DEFINE msg == Head(rx[h])
           m == IF msg.kind = "Request" THEN [machine[h] EXCEPT !.hasAudio = TRUE]
                                        ELSE machine[h]
           s == on_message(m, msg, Clock(h))
           says == Reply("NoAudio", msg.nonce)
<1>1. rx[h] # <<>> /\ msg \in Message /\ Clock(h) \in Time
  BY ClockType, HeadTailProperties DEF WorkerControl, TypeOK
<1>2. m \in Machine
  <2>1. machine[h] \in Machine
    BY DEF TypeOK
  <2> QED BY <2>1, FlagType
<1>3. \/ UNCHANGED <<work, sent>>
      \/ work' = work /\ sent' = sent \cup {Datagram(h, says)}
      \/ Begin(h, s) /\ sent' = sent
  BY DEF WorkerControl, dispatch_control
<1>4. Outbox(s.acts) \subseteq Answers(msg.nonce)
  BY <1>1, <1>2, MessageSays
<1> HIDE DEF s, m
<1>5. CASE UNCHANGED <<work, sent>>
  BY <1>5 DEF Speech, Adds, Voice, Said
<1>6. CASE work' = work /\ sent' = sent \cup {Datagram(h, says)}
  <2>1. says \in Answers(msg.nonce)
    BY DEF Answers
  <2> HIDE DEF says, msg
  <2>2. \A x \in Message : Datagram(h, x) \in sent' => Datagram(h, x) \in sent \/ x = says
    BY <1>6 DEF Datagram
  <2>3. Said(h)' \subseteq Said(h) \cup {says}
    BY <2>2 DEF Said
  <2>4. Adds(h, Answers(msg.nonce))
    BY <1>6, <2>1, <2>3 DEF Adds, Voice
  <2> QED BY <1>1, <2>4 DEF Speech, msg
<1>7. CASE Begin(h, s) /\ sent' = sent
  <2>1. Adds(h, Outbox(s.acts))
    BY <1>7, BegunSpeech
  <2>2. Adds(h, Answers(msg.nonce))
    BY <1>4, <2>1 DEF Adds
  <2> QED BY <1>1, <2>2 DEF Speech
<1> QED BY <1>3, <1>5, <1>6, <1>7

LEMMA TickSpeech ==
  ASSUME TypeOK, NEW h \in Host, WorkerTick(h)
  PROVE  Speech(h)
<1> DEFINE m == machine[h]
           s == tick(m, Clock(h))
<1>1. /\ m \in Machine /\ Clock(h) \in Time /\ phase(h).kind # "Idle"
      /\ Begin(h, s) /\ sent' = sent
  BY ClockType DEF WorkerTick, TypeOK
<1>2. \/ Outbox(s.acts) = {}
      \/ m.phase.kind = "Releasing" /\ s = on_audio_failed(m)
  BY <1>1, TickSays
<1> HIDE DEF s
<1>3. Adds(h, Outbox(s.acts)) /\ machine'[h] = s.m
  BY <1>1, BegunSpeech
<1>4. CASE Outbox(s.acts) = {}
  BY <1>3, <1>4 DEF Speech
<1>5. CASE m.phase.kind = "Releasing" /\ s = on_audio_failed(m)
  <2>1. s.m.phase = Idle /\ Outbox(s.acts) = {Reply("Abort", m.phase.nonce)}
    BY <1>1, <1>5, AudioResults, FailedSays
  <2> QED BY <1>1, <1>3, <2>1 DEF Speech, phase
<1> QED BY <1>2, <1>4, <1>5

LEMMA ClaimSpeech ==
  ASSUME TypeOK, NEW h \in Host, NEW hp \in Headset, NEW n \in Nonce, ClaimAt(h, hp, n)
  PROVE  Speech(h)
<1> DEFINE free == phase(h).kind = "Idle"
           m == IF free
                THEN [machine[h] EXCEPT !.canControlHeadset = Bound(h, hp)]
                ELSE machine[h]
           s == claim(m, hp, n, asked[n].at)
<1>1. /\ Begin(h, s) /\ sent' = sent /\ ticket[n].by = NoHost /\ machine[h] \in Machine
      /\ free => ticket' = [ticket EXCEPT ![n] = [by |-> h, due |-> s.m.phase.at]]
  BY DEF ClaimAt, TypeOK
<1>2. Adds(h, Outbox(s.acts))
  <2> HIDE DEF s
  <2> QED BY <1>1, BegunSpeech
<1>3. CASE free
  <2> DEFINE t == saturating_add(asked[n].at, HandoffDeadline)
             msg == HandoffRequest(n, hp, t)
  <2>1. t \in Time /\ msg \in Message
    <3>1. asked[n].at \in Time
      BY DEF TypeOK, Call
    <3> QED BY <3>1, LaterTypes, MessageTypes
  <2>2. m.phase.kind = "Idle"
    BY <1>1, <1>3 DEF phase, Machine
  <2>3. s.acts = <<Send(msg)>>
    <3> HIDE DEF m
    <3> QED BY <2>2 DEF claim, Step
  <2>4. ticket'[n].by = h
    BY <1>1, <1>3 DEF TypeOK
  <2> HIDE DEF s, m
  <2>5. Outbox(s.acts) = {msg}
    <3> HIDE DEF msg
    <3> QED BY <2>1, <2>3, OutboxMessage
  <2>6. Adds(h, {msg})
    BY <1>2, <2>5
  <2> HIDE DEF t
  <2> QED BY <1>1, <2>1, <2>4, <2>6 DEF Speech
<1>4. CASE ~free
  <2>1. s.acts = <<Report("Busy")>>
    BY <1>4 DEF claim, phase, Step
  <2> HIDE DEF s
  <2>2. Outbox(s.acts) = {}
    BY <2>1, SendFields, OutboxOther
  <2> QED BY <1>2, <2>2 DEF Speech
<1> QED BY <1>3, <1>4

LEMMA LeaveSpeech ==
  ASSUME TypeOK, NEW h \in Host, Leave(h)
  PROVE  Speech(h)
<1> DEFINE s == on_audio_failed(machine[h])
           aborts == {Datagram(h, s.acts[i].msg) :
                        i \in {j \in DOMAIN s.acts : s.acts[j].do = "Send"}}
<1>1. /\ machine[h] \in Machine /\ work' = work /\ machine'[h].phase = Idle
      /\ sent' = sent \cup aborts \/ sent' = sent
  BY LeaveMoves DEF Leave, TypeOK
<1>2. s.acts \in Seq(Action)
  BY <1>1, AudioFailedType DEF StepType
<1> HIDE DEF s
<1>3. \A x \in Message : Datagram(h, x) \in aborts => x \in Outbox(s.acts)
  <2> SUFFICES ASSUME NEW x \in Message, NEW i \in DOMAIN s.acts, s.acts[i].do = "Send",
                      Datagram(h, x) = Datagram(h, s.acts[i].msg)
               PROVE  x \in Outbox(s.acts)
    OBVIOUS
  <2>1. s.acts[i] \in Action /\ s.acts[i].msg = x
    BY <1>2 DEF Datagram
  <2>2. s.acts[i] = Send(x)
    <3> DEFINE a == s.acts[i]
    <3> HIDE DEF a
    <3>1. a \in Action /\ a.do = "Send" /\ a.msg = x => a = Send(x)
      BY SendFields DEF Action, Send, SendHeadsetDisconnect
    <3> QED BY <2>1, <3>1 DEF a
  <2> QED BY <2>2 DEF Outbox
<1> HIDE DEF aborts
<1>4. Adds(h, Outbox(s.acts))
  <2>1. Said(h)' \subseteq Said(h) \cup Outbox(s.acts)
    BY <1>1, <1>3 DEF Said
  <2> QED BY <1>1, <2>1 DEF Adds, Voice
<1>5. CASE phase(h).kind = "Idle"
  <2>1. s.acts = <<>>
    BY <1>1, <1>5, FailedSays DEF s, phase
  <2>2. Adds(h, {})
    BY <1>4, <2>1, OutboxEmpty
  <2> QED BY <2>2 DEF Speech
<1>6. CASE phase(h).kind # "Idle"
  <2>1. Outbox(s.acts) = {Reply("Abort", phase(h).nonce)}
    BY <1>1, <1>6, FailedSays DEF s, phase
  <2> QED BY <1>1, <1>4, <1>6, <2>1 DEF Speech
<1> QED BY <1>5, <1>6

\* Every step of a host is one of those of Speech.
LEMMA OwnSpeech ==
  ASSUME TypeOK, NEW h \in Host, ApplyStep(h) \/ Worker(h) \/ User(h)
  PROVE  Speech(h)
<1>1. UNCHANGED <<work, sent>> => Speech(h)
  BY DEF Speech, Adds, Voice, Said
<1>2. /\ WorkerRefresh(h) => UNCHANGED <<work, sent>>
      /\ \A hp \in Headset \cup {NoHeadset} :
            AdoptHeadset(h, hp) \/ SetControlAddress(h, hp) => UNCHANGED <<work, sent>>
  BY DEF WorkerRefresh, AdoptHeadset, SetControlAddress
<1>3. Calling(h) => UNCHANGED <<work, sent>>
  BY CallingEffect
<1> QED BY <1>1, <1>2, <1>3, ApplySpeech, ControlSpeech, TickSpeech, ClaimSpeech, LeaveSpeech
        DEF Worker, User

-----------------------------------------------------------------------------
(* The course of a handoff *)

LEMMA MessageCourse ==
  ASSUME NEW m \in Machine, NEW msg \in Message, NEW t \in Time, NEW r,
         r = on_message(m, msg, t)
  PROVE  \/ r.m.phase = m.phase
         \/ r.m.phase = Idle
         \/ /\ msg = Reply("Released", m.phase.nonce) /\ m.phase.kind = "WaitingRelease"
            /\ r.m.phase.kind = "ConnectingAudio" /\ r.m.phase.nonce = m.phase.nonce
         \/ /\ msg.kind = "Request" /\ m.phase.kind = "Idle"
            /\ r.m.phase.kind = "Releasing" /\ r.m.phase.nonce = msg.nonce
<1> DEFINE n == msg.nonce
<1>1. msg.kind \in ReplyKind \cup {"Request"} /\ "Request" \notin ReplyKind
  BY DEF Message, ReplyKind
<1>2. CASE msg.kind = "Request"
  <2>1. msg.deadline \in Nat /\ t \in Nat
    BY <1>2, ClockAssumption DEF Message, ReplyKind, Time
  <2>2. r = on_request(m, msg, t)
    BY <1>2 DEF on_message
  <2>3. \/ r.m = m
        \/ /\ m.phase.kind = "Idle"
           /\ r.m = Enter(m, Releasing(n, msg.headphone, release_deadline(msg, t)))
    BY <2>1, <2>2 DEF on_request, Ignored, Step
  <2> DEFINE p == Releasing(n, msg.headphone, release_deadline(msg, t))
  <2>4. p.kind = "Releasing" /\ p.nonce = n
    BY DEF Releasing
  <2> HIDE DEF p
  <2>5. Enter(m, p).phase = p
    BY DEF Enter, Machine
  <2> QED BY <1>2, <2>3, <2>4, <2>5 DEF p
<1>3. CASE msg.kind = "Released" /\ nonce_matches(m, n) /\ m.phase.kind = "WaitingRelease"
  <2> DEFINE p == ConnectingAudio(m.phase.nonce, m.phase.headphone)
  <2>1. r.m = Enter(m, p)
    BY <1>3 DEF on_message, on_released, StartConnecting, Step
  <2>2. p.kind = "ConnectingAudio" /\ p.nonce = m.phase.nonce
    BY DEF ConnectingAudio
  <2> HIDE DEF p
  <2>3. r.m.phase = p
    BY <2>1 DEF Enter, Machine
  <2>4. msg = Reply("Released", m.phase.nonce)
    BY <1>3 DEF nonce_matches, Message, Reply, ReplyKind
  <2> QED BY <1>3, <2>2, <2>3, <2>4
<1>4. CASE msg.kind = "Released" /\ ~(nonce_matches(m, n) /\ m.phase.kind = "WaitingRelease")
  BY <1>4 DEF on_message, on_released, Ignored, Step
<1>5. CASE msg.kind \in {"HasAudio", "NoAudio"}
  <2>1. r.m \in {m, [m EXCEPT !.peerHasAudio = TRUE], [m EXCEPT !.peerHasNoAudio = TRUE]}
    BY <1>5 DEF on_message, on_peer_has_audio, on_no_audio, Ignored, Step
  <2> QED BY <2>1 DEF Machine
<1>6. CASE msg.kind \in {"Taken", "Abort", "Busy"}
  <2>1. r.m \in {m, [m EXCEPT !.phase = Idle, !.hasAudio = FALSE], Enter(m, Idle)}
    BY <1>6 DEF on_message, on_taken, on_abort, on_busy, Ignored, Step
  <2> QED BY <2>1 DEF Machine, Enter
<1> QED BY <1>1, <1>2, <1>3, <1>4, <1>5, <1>6 DEF ReplyKind

LEMMA TickCourse ==
  ASSUME NEW m \in Machine, NEW t \in Time, NEW r, r = tick(m, t)
  PROVE  \/ r.m.phase = m.phase
         \/ r.m.phase = Idle
         \/ /\ m.phase.kind = "WaitingRelease" /\ t >= m.phase.at
            /\ r.m.phase.kind = "WaitingFallbackGap" /\ r.m.phase.nonce = m.phase.nonce
            /\ r.acts = <<SendHeadsetDisconnect>>
         \/ /\ m.phase.kind = "WaitingRelease" /\ t >= m.phase.at
            /\ r.m.phase.kind = "ConnectingAudio" /\ r.m.phase.nonce = m.phase.nonce
            /\ ~r.m.peerHasAudio
         \/ /\ m.phase.kind = "WaitingFallbackGap"
            /\ r.m.phase.kind = "ConnectingAudio" /\ r.m.phase.nonce = m.phase.nonce
<1> DEFINE c == ConnectingAudio(m.phase.nonce, m.phase.headphone)
           g == WaitingFallbackGap(m.phase.nonce, m.phase.headphone, saturating_add(t, ConnectGap))
<1>1. m.phase.kind \in HandoffKind \cup {"Idle"} /\ m.phase.at \in Nat /\ t \in Nat
  BY PhaseCases, ClockAssumption DEF Idle, Time
<1>2. /\ c.kind = "ConnectingAudio" /\ c.nonce = m.phase.nonce
      /\ g.kind = "WaitingFallbackGap" /\ g.nonce = m.phase.nonce
  BY DEF ConnectingAudio, WaitingFallbackGap
<1>3. /\ StartConnecting(m).m = Enter(m, c)
      /\ fallback_or_fail(m, t) \in {Step(Enter(m, g), <<SendHeadsetDisconnect>>),
                                     Step(Enter(m, Idle), <<Report("Failed")>>)}
  BY DEF StartConnecting, fallback_or_fail, Step
<1> HIDE DEF c, g
<1>4. /\ Enter(m, c).phase = c /\ Enter(m, g).phase = g /\ Enter(m, Idle).phase = Idle
      /\ Enter(m, c).peerHasAudio = m.peerHasAudio
  BY DEF Enter, Machine
<1>5. CASE m.phase.kind = "WaitingRelease" /\ t >= m.phase.at
  <2>1. \/ nobody_holds(m) /\ r = StartConnecting(m)
        \/ r = fallback_or_fail(m, t)
    BY <1>1, <1>5 DEF tick
  <2>2. CASE nobody_holds(m) /\ r = StartConnecting(m)
    BY <1>2, <1>3, <1>4, <1>5, <2>2 DEF nobody_holds
  <2>3. CASE r = Step(Enter(m, g), <<SendHeadsetDisconnect>>)
    BY <1>2, <1>4, <1>5, <2>3 DEF Step
  <2>4. CASE r = Step(Enter(m, Idle), <<Report("Failed")>>)
    BY <1>4, <2>4 DEF Step
  <2> QED BY <1>3, <2>1, <2>2, <2>3, <2>4
<1>6. CASE m.phase.kind = "WaitingFallbackGap" /\ t >= m.phase.at
  <2>1. r = StartConnecting(m)
    BY <1>1, <1>6 DEF tick
  <2> QED BY <1>2, <1>3, <1>4, <1>6, <2>1
<1>7. CASE m.phase.kind = "Releasing" /\ t >= m.phase.at
  <2>1. r = on_audio_failed(m)
    BY <1>1, <1>7 DEF tick
  <2> QED BY <2>1, AudioResults
<1>8. CASE m.phase.kind \in {"Idle", "ConnectingAudio"} \/ t < m.phase.at
  <2>1. r = Ignored(m)
    BY <1>1, <1>8 DEF tick, HandoffKind
  <2> QED BY <2>1 DEF Ignored, Step
<1> QED BY <1>1, <1>5, <1>6, <1>7, <1>8 DEF HandoffKind

\* What a step of h does to the handoff h takes part in.
Course(h) ==
  LET p == phase(h)
      next == machine'[h].phase
      connects == next.kind = "ConnectingAudio" /\ next.nonce = p.nonce
  IN \/ next \in {p, Idle} /\ ticket' = ticket
     \/ /\ p.kind = "WaitingRelease" /\ next.kind = "WaitingFallbackGap"
        /\ next.nonce = p.nonce /\ Clock(h) >= p.at /\ ticket' = ticket
        /\ work'[h] = [queue |-> <<SendHeadsetDisconnect>>, failed |-> FALSE]
     \/ /\ p.kind = "WaitingRelease" /\ connects /\ Clock(h) >= p.at /\ ticket' = ticket
        /\ ~machine'[h].peerHasAudio
     \/ /\ p.kind = "WaitingRelease" /\ connects /\ ticket' = ticket
        /\ rx[h] # <<>> /\ Head(rx[h]) = Reply("Released", p.nonce)
     \/ /\ p.kind = "WaitingFallbackGap" /\ connects /\ ticket' = ticket
        /\ LockFree(h) /\ UNCHANGED <<now, cdAt>>
     \/ /\ p.kind = "Idle" /\ next.kind = "Releasing" /\ ticket' = ticket
        /\ rx[h] # <<>> /\ Head(rx[h]).kind = "Request" /\ next.nonce = Head(rx[h]).nonce
     \/ /\ p.kind = "Idle" /\ next.kind = "WaitingRelease" /\ next.nonce \in Nonce
        /\ next.at \in Time
        /\ ticket[next.nonce].by = NoHost /\ UNCHANGED <<sent, now>>
        /\ ticket' = [ticket EXCEPT ![next.nonce] = [by |-> h, due |-> next.at]]

LEMMA ControlCourse ==
  ASSUME TypeOK, NEW h \in Host, WorkerControl(h)
  PROVE  Course(h)
<1> DEFINE msg == Head(rx[h])
           m == IF msg.kind = "Request" THEN [machine[h] EXCEPT !.hasAudio = TRUE]
                                        ELSE machine[h]
           s == on_message(m, msg, Clock(h))
<1>1. /\ rx[h] # <<>> /\ msg \in Message /\ Clock(h) \in Time /\ ticket' = ticket
      /\ machine \in [Host -> Machine]
  BY ClockType, HeadTailProperties DEF WorkerControl, TypeOK, claims
<1>2. m \in Machine /\ m.phase = machine[h].phase
  <2> DEFINE told == [machine[h] EXCEPT !.hasAudio = TRUE]
  <2>1. machine[h] \in Machine
    BY <1>1
  <2>2. told \in Machine /\ told.phase = machine[h].phase
    BY <2>1, FlagType DEF Machine
  <2> QED BY <2>1, <2>2
<1>3. UNCHANGED machine \/ machine' = [machine EXCEPT ![h] = s.m]
  BY DEF WorkerControl, dispatch_control, Begin
<1>4. CASE UNCHANGED machine
  BY <1>1, <1>4 DEF Course, phase
<1>5. CASE machine' = [machine EXCEPT ![h] = s.m]
  <2> HIDE DEF m, msg
  <2>1. machine'[h] = s.m
    <3> HIDE DEF s
    <3> QED BY <1>1, <1>5
  <2>2. \/ s.m.phase = m.phase
        \/ s.m.phase = Idle
        \/ /\ msg = Reply("Released", m.phase.nonce) /\ m.phase.kind = "WaitingRelease"
           /\ s.m.phase.kind = "ConnectingAudio" /\ s.m.phase.nonce = m.phase.nonce
        \/ /\ msg.kind = "Request" /\ m.phase.kind = "Idle"
           /\ s.m.phase.kind = "Releasing" /\ s.m.phase.nonce = msg.nonce
    BY <1>1, <1>2, MessageCourse
  <2> HIDE DEF s
  <2> QED BY <1>1, <1>2, <2>1, <2>2 DEF Course, phase, msg
<1> QED BY <1>3, <1>4, <1>5

LEMMA TickedCourse ==
  ASSUME TypeOK, NEW h \in Host, WorkerTick(h)
  PROVE  Course(h)
<1> DEFINE m == machine[h]
           s == tick(m, Clock(h))
<1>1. /\ m \in Machine /\ Clock(h) \in Time /\ LockFree(h) /\ UNCHANGED <<now, cdAt, ticket>>
      /\ machine' = [machine EXCEPT ![h] = s.m]
      /\ work' = [work EXCEPT ![h] = [queue |-> s.acts, failed |-> FALSE]]
  BY ClockType DEF WorkerTick, WorkerUnclaimed, WorkerReady, Begin, TypeOK, claims
<1> DEFINE t == Clock(h)
<1>2. \/ s.m.phase = m.phase
      \/ s.m.phase = Idle
      \/ /\ m.phase.kind = "WaitingRelease" /\ t >= m.phase.at
         /\ s.m.phase.kind = "WaitingFallbackGap" /\ s.m.phase.nonce = m.phase.nonce
         /\ s.acts = <<SendHeadsetDisconnect>>
      \/ /\ m.phase.kind = "WaitingRelease" /\ t >= m.phase.at
         /\ s.m.phase.kind = "ConnectingAudio" /\ s.m.phase.nonce = m.phase.nonce
         /\ ~s.m.peerHasAudio
      \/ /\ m.phase.kind = "WaitingFallbackGap"
         /\ s.m.phase.kind = "ConnectingAudio" /\ s.m.phase.nonce = m.phase.nonce
  <2> HIDE DEF t
  <2>1. t \in Time
    BY <1>1 DEF t
  <2> QED BY <1>1, <2>1, TickCourse DEF t
<1> HIDE DEF s, t
<1>3. machine'[h] = s.m /\ work'[h] = [queue |-> s.acts, failed |-> FALSE]
  BY <1>1 DEF TypeOK
<1> QED BY <1>1, <1>2, <1>3 DEF Course, phase, t

\* A claim that gets the lock of an idle hub starts to wait for the release; its
\* deadline counts from the clock the call read (group.rs, claim and claim_at).
LEMMA ClaimBegins ==
  ASSUME TypeOK, NEW h \in Host, NEW hp \in Headset, NEW n \in Nonce, ClaimAt(h, hp, n),
         phase(h).kind = "Idle",
         NEW due, due = saturating_add(asked[n].at, HandoffDeadline)
  PROVE  /\ due \in Time
         /\ machine'[h].phase = WaitingRelease(n, hp, due)
         /\ ticket' = [ticket EXCEPT ![n] = [by |-> h, due |-> due]]
<1> DEFINE able == Bound(h, hp)
           m == [machine[h] EXCEPT !.canControlHeadset = able]
           t == asked[n].at
           s == claim(m, hp, n, t)
           p == WaitingRelease(n, hp, due)
<1>1. /\ machine[h] \in Machine /\ machine' = [machine EXCEPT ![h] = s.m]
      /\ ticket' = [ticket EXCEPT ![n] = [by |-> h, due |-> s.m.phase.at]]
  BY DEF ClaimAt, Begin, TypeOK
<1>2. t \in Time
  BY DEF TypeOK, Call
<1>3. due \in Time
  BY <1>2, LaterTypes
<1>4. m.phase.kind = "Idle"
  BY <1>1 DEF phase, Machine
<1>5. m \in [phase : Phase, hasAudio : BOOLEAN, canControlHeadset : {able},
             peerHasAudio : BOOLEAN, peerHasNoAudio : BOOLEAN]
  BY <1>1 DEF Machine
<1>6. p.at = due
  BY DEF WaitingRelease
<1> HIDE DEF m, able
<1>7. s.m = [m EXCEPT !.phase = p, !.peerHasAudio = FALSE, !.peerHasNoAudio = FALSE]
  BY <1>4 DEF claim, Step
<1> HIDE DEF s, p, t
<1>8. s.m.phase = p
  BY <1>5, <1>7
<1>9. machine'[h].phase = p
  BY <1>1, <1>8 DEF TypeOK
<1> QED BY <1>1, <1>3, <1>6, <1>8, <1>9 DEF p

\* One that finds the hub busy is refused.
LEMMA ClaimRefused ==
  ASSUME TypeOK, NEW h \in Host, NEW hp \in Headset, NEW n \in Nonce, ClaimAt(h, hp, n),
         phase(h).kind # "Idle"
  PROVE  machine' = machine /\ ticket' = ticket
<1>1. machine \in [Host -> Machine]
  BY DEF TypeOK
<1>2. Begin(h, Step(machine[h], <<Report("Busy")>>)) /\ ticket' = ticket
  BY DEF ClaimAt, claim, phase
<1>3. machine' = [machine EXCEPT ![h] = machine[h]]
  BY <1>2 DEF Begin, Step
<1> QED BY <1>1, <1>2, <1>3

LEMMA ClaimCourse ==
  ASSUME TypeOK, NEW h \in Host, NEW hp \in Headset, NEW n \in Nonce, ClaimAt(h, hp, n)
  PROVE  Course(h)
<1>1. CASE phase(h).kind = "Idle"
  <2> DEFINE due == saturating_add(asked[n].at, HandoffDeadline)
             p == WaitingRelease(n, hp, due)
  <2>1. p.kind = "WaitingRelease" /\ p.nonce = n /\ p.at = due
    BY DEF WaitingRelease
  <2>2. PICK d : d = due
    OBVIOUS
  <2>3. /\ d \in Time /\ machine'[h].phase = p
        /\ ticket' = [ticket EXCEPT ![n] = [by |-> h, due |-> d]]
    BY <1>1, <2>2, ClaimBegins
  <2>4. ticket[n].by = NoHost /\ UNCHANGED <<sent, now>>
    BY DEF ClaimAt
  <2> HIDE DEF p, due
  <2> QED BY <1>1, <2>1, <2>2, <2>3, <2>4 DEF Course
<1>2. CASE phase(h).kind # "Idle"
  BY <1>2, ClaimRefused DEF Course, phase
<1> QED BY <1>1, <1>2

\* Every step of a host is one of those of Course.
LEMMA OwnCourse ==
  ASSUME TypeOK, NEW h \in Host, ApplyStep(h) \/ Worker(h) \/ User(h)
  PROVE  Course(h)
<1>1. CASE ApplyStep(h)
  <2>1. ticket' = ticket
    BY <1>1 DEF ApplyStep, DoSend, DoConnectAudio, DoDisconnectAudio, DoSuppress, DoRestore,
                DoSendHeadsetDisconnect, DoPause, DoReport, claims
  <2> QED BY <1>1, <2>1, ApplyEffect DEF PhaseKeptOrEnded, Course, phase
<1>2. CASE WorkerRefresh(h) \/ \E hp \in Headset \cup {NoHeadset} : AdoptHeadset(h, hp)
  <2>1. ticket' = ticket
    BY <1>2 DEF WorkerRefresh, AdoptHeadset, claims
  <2> QED BY <1>2, <2>1, HoldingHandlers DEF Untouched, Course, phase
<1>3. ASSUME NEW hp \in Headset \cup {NoHeadset}, SetControlAddress(h, hp)
      PROVE  Course(h)
  <2>1. ticket' = ticket
    BY <1>3 DEF SetControlAddress, claims
  <2> QED BY <1>3, <2>1, RebindMoves DEF Course, phase
<1>4. CASE Leave(h)
  <2>1. ticket' = ticket
    BY <1>4 DEF Leave, claims
  <2> QED BY <1>4, <2>1, LeaveMoves DEF Course, phase
<1>5. CASE Calling(h)
  BY <1>5, CallingEffect DEF Course, phase
<1> QED BY <1>1, <1>2, <1>3, <1>4, <1>5, ControlCourse, TickedCourse, ClaimCourse
        DEF Worker, User

-----------------------------------------------------------------------------
(* Who says what about whose handoff *)

\* A nonce that is spoken about has been claimed; requests come from the
\* claimant, releases do not.
Fits(h, msg) ==
  /\ ticket[msg.nonce].by # NoHost
  /\ msg.kind = "Request" => ticket[msg.nonce].by = h
  /\ msg.kind = "Released" => ticket[msg.nonce].by # h

VoiceFits(h) == \A msg \in Voice(h) : Fits(h, msg)

PhaseFits(h) ==
  /\ phase(h).kind \in ClaimPhase => ticket[phase(h).nonce].by = h
  /\ phase(h).kind = "Releasing" => ticket[phase(h).nonce].by \notin {h, NoHost}

\* What a host has received, another one has sent.
RxFits(h) == \A i \in DOMAIN rx[h] : \E k \in Host \ {h} : rx[h][i] \in Said(k)

\* A claim waits until its deadline; the fallback begins after it.
DueFits(h) ==
  /\ phase(h).kind = "WaitingRelease" => phase(h).at = ticket[phase(h).nonce].due
  /\ phase(h).kind = "WaitingFallbackGap" => Clock(h) >= ticket[phase(h).nonce].due

ProvenanceInv ==
  /\ TypeOK
  /\ \A h \in Host : VoiceFits(h) /\ PhaseFits(h) /\ RxFits(h) /\ DueFits(h)

LEMMA ActorOrQuiet ==
  ASSUME [Next]_vars
  PROVE  \/ \E k \in Host : ApplyStep(k) \/ Worker(k) \/ User(k)
         \/ Environment \/ UNCHANGED vars
BY DEF Next

LEMMA QuietSteps ==
  ASSUME Environment \/ UNCHANGED vars
  PROVE  UNCHANGED <<machine, work, asked, ticket, sent, cdAt>>
BY DEF Environment, Receive, ReceiveFails, LinkDrops, AutoReconnects, TimePasses, hubState,
       claims, vars

\* Nothing is unsaid.
LEMMA SentGrows ==
  ASSUME [Next]_vars
  PROVE  sent \subseteq sent'
<1>1. ASSUME NEW k \in Host, ApplyStep(k) \/ Worker(k) \/ User(k)
      PROVE  sent \subseteq sent'
  <2>1. CASE ApplyStep(k)
    BY <2>1 DEF ApplyStep, DoSend, DoConnectAudio, DoDisconnectAudio, DoSuppress, DoRestore,
                DoSendHeadsetDisconnect, DoPause, DoReport
  <2>2. CASE Worker(k)
    BY <2>2 DEF Worker, WorkerControl, dispatch_control, WorkerTick, WorkerRefresh
  <2>3. CASE User(k)
    BY <2>3, CallingEffect DEF User, ClaimAt, AdoptHeadset, SetControlAddress, Leave
  <2> QED BY <1>1, <2>1, <2>2, <2>3
<1> QED BY <1>1, ActorOrQuiet, QuietSteps

\* A ticket is written once.
LEMMA TicketKept ==
  ASSUME TypeOK, [Next]_vars, NEW n \in Nonce, ticket[n].by # NoHost
  PROVE  ticket'[n] = ticket[n]
<1>1. ASSUME NEW k \in Host, ApplyStep(k) \/ Worker(k) \/ User(k)
      PROVE  ticket'[n] = ticket[n]
  <2>1. Course(k)
    BY <1>1, OwnCourse
  <2>2. \/ ticket' = ticket
        \/ \E x \in Nonce : /\ ticket[x].by = NoHost
                            /\ \E y : ticket' = [ticket EXCEPT ![x] = y]
    BY <2>1 DEF Course
  <2> QED BY <2>2 DEF TypeOK
<1> QED BY <1>1, ActorOrQuiet, QuietSteps

\* The steps of the others leave what a host says, and its handoff, alone.
LEMMA OthersVoice ==
  ASSUME TypeOK, [Next]_vars, NEW h \in Host, ~(ApplyStep(h) \/ Worker(h) \/ User(h))
  PROVE  /\ Voice(h)' = Voice(h) /\ Said(h)' = Said(h)
         /\ machine'[h] = machine[h] /\ work'[h] = work[h]
<1>1. machine'[h] = machine[h] /\ work'[h] = work[h]
  BY OwnOrElsewhere DEF Elsewhere
<1>2. \A msg : Datagram(h, msg) \in sent' <=> Datagram(h, msg) \in sent
  <2>1. ASSUME NEW k \in Host, ApplyStep(k) \/ Worker(k) \/ User(k)
        PROVE  \A d \in sent' \ sent : d.from # h
    <3>1. k # h
      BY <2>1
    <3> QED BY <2>1, <3>1, OwnDatagrams
  <2>2. \A d \in sent' \ sent : d.from # h
    BY <2>1, ActorOrQuiet, QuietSteps
  <2>3. \A msg : Datagram(h, msg).from = h
    BY DEF Datagram
  <2> QED BY <2>2, <2>3, SentGrows
<1>3. Said(h)' = Said(h)
  BY <1>2 DEF Said
<1>4. Outbox(work[h].queue)' = Outbox(work[h].queue)
  BY <1>1 DEF Outbox
<1> QED BY <1>1, <1>3, <1>4 DEF Voice

LEMMA FitsOn ==
  ASSUME TypeOK, [Next]_vars, NEW h \in Host, NEW msg \in Message, Fits(h, msg)
  PROVE  Fits(h, msg)'
<1>1. msg.nonce \in Nonce
  BY DEF Message
<1>2. ticket'[msg.nonce] = ticket[msg.nonce]
  BY <1>1, TicketKept DEF Fits
<1> QED BY <1>2 DEF Fits

LEMMA VoiceMessages ==
  ASSUME NEW h \in Host
  PROVE  Voice(h) \subseteq Message
BY DEF Voice, Outbox, Said

\* The message at hand is another host's, and fits it.
LEMMA HeadFits ==
  ASSUME ProvenanceInv, NEW h \in Host, rx[h] # <<>>
  PROVE  /\ Head(rx[h]) \in Message
         /\ \E k \in Host \ {h} : Head(rx[h]) \in Said(k) /\ Fits(k, Head(rx[h]))
<1>1. rx[h] \in Seq(Message)
  BY DEF ProvenanceInv, TypeOK
<1>2. Head(rx[h]) \in Message /\ 1 \in DOMAIN rx[h] /\ rx[h][1] = Head(rx[h])
  BY <1>1
<1>3. PICK k \in Host \ {h} : Head(rx[h]) \in Said(k)
  BY <1>2 DEF ProvenanceInv, RxFits
<1>4. Fits(k, Head(rx[h]))
  BY <1>3 DEF ProvenanceInv, VoiceFits, Voice
<1> QED BY <1>2, <1>3, <1>4

LEMMA VoiceFitsStep ==
  ASSUME ProvenanceInv, [Next]_vars, NEW h \in Host
  PROVE  VoiceFits(h)'
<1>1. TypeOK /\ VoiceFits(h) /\ PhaseFits(h) /\ machine[h] \in Machine
  BY DEF ProvenanceInv, TypeOK
<1>2. \A msg \in Voice(h) : Fits(h, msg)'
  BY <1>1, FitsOn, VoiceMessages DEF VoiceFits
<1>3. CASE ~(ApplyStep(h) \/ Worker(h) \/ User(h))
  BY <1>1, <1>2, <1>3, OthersVoice DEF VoiceFits
<1>4. CASE ApplyStep(h) \/ Worker(h) \/ User(h)
  <2> DEFINE p == phase(h)
  <2>1. p.kind # "Idle" =>
          /\ p.nonce \in Nonce /\ ticket[p.nonce].by # NoHost
          /\ p.kind = "Releasing" => ticket[p.nonce].by # h
    <3>1. p.kind # "Idle" => p.nonce \in Nonce /\ p.kind \in ClaimPhase \cup {"Releasing"}
      BY <1>1, PhaseCases DEF phase, HandoffKind, ClaimPhase
    <3> QED BY <1>1, <3>1, HostAssumption DEF PhaseFits
  <2>2. \A k \in {"Taken", "Abort", "Released", "HasAudio", "NoAudio", "Busy"}, n \in Nonce :
           /\ Reply(k, n) \in Message /\ Reply(k, n).nonce = n /\ Reply(k, n).kind = k
    BY MessageTypes DEF Reply, ReplyKind
  <2>3. Speech(h)
    BY <1>1, <1>4, OwnSpeech
  <2>4. ASSUME NEW S, Adds(h, S), \A msg \in S : Fits(h, msg)'
        PROVE  VoiceFits(h)'
    BY <1>2, <2>4 DEF Adds, VoiceFits
  <2>5. ASSUME p.kind # "Idle", NEW k \in {"Taken", "Abort"}, NEW n \in Nonce, n = p.nonce
        PROVE  Fits(h, Reply(k, n))'
    <3>1. Fits(h, Reply(k, n)) /\ Reply(k, n) \in Message
      BY <2>1, <2>2, <2>5 DEF Fits
    <3> QED BY <1>1, <3>1, FitsOn
  <2>6. ASSUME p.kind = "Releasing", NEW n \in Nonce, n = p.nonce
        PROVE  Fits(h, Reply("Released", n))'
    <3>1. Fits(h, Reply("Released", n)) /\ Reply("Released", n) \in Message
      BY <2>1, <2>2, <2>6 DEF Fits
    <3> QED BY <1>1, <3>1, FitsOn
  <2>7. ASSUME rx[h] # <<>>
        PROVE  \A msg \in Answers(Head(rx[h]).nonce) : Fits(h, msg)'
    <3> DEFINE n == Head(rx[h]).nonce
    <3>1. n \in Nonce /\ ticket[n].by # NoHost
      BY <2>7, HeadFits DEF Fits, Message
    <3> HIDE DEF n
    <3>2. \A msg \in Answers(n) : msg \in Message /\ Fits(h, msg)
      BY <2>2, <3>1 DEF Answers, Fits
    <3>3. \A msg \in Answers(n) : Fits(h, msg)'
      BY <1>1, <3>2, FitsOn
    <3> QED BY <3>3 DEF n
  <2>8. ASSUME NEW n \in Nonce, NEW hp \in Headset, NEW t \in Time, ticket'[n].by = h
        PROVE  Fits(h, HandoffRequest(n, hp, t))'
    BY <2>8, HostAssumption DEF Fits, HandoffRequest
  <2>9. CASE Adds(h, {})
    BY <2>4, <2>9
  <2>10. ASSUME NEW k \in {"Taken", "Abort"}, p.kind # "Idle", Adds(h, {Reply(k, p.nonce)})
         PROVE  VoiceFits(h)'
    <3>1. PICK n \in Nonce : n = p.nonce
      BY <2>1, <2>10
    <3>2. Fits(h, Reply(k, n))' /\ Adds(h, {Reply(k, n)})
      BY <2>5, <2>10, <3>1
    <3> QED BY <2>4, <3>2
  <2>11. CASE p.kind = "Releasing" /\ Adds(h, {Reply("Released", p.nonce)})
    <3>1. PICK n \in Nonce : n = p.nonce
      BY <2>1, <2>11
    <3>2. Fits(h, Reply("Released", n))' /\ Adds(h, {Reply("Released", n)})
      BY <2>6, <2>11, <3>1
    <3> QED BY <2>4, <3>2
  <2>12. CASE rx[h] # <<>> /\ Adds(h, Answers(Head(rx[h]).nonce))
    BY <2>4, <2>7, <2>12
  <2>13. ASSUME NEW n \in Nonce, NEW hp \in Headset, NEW t \in Time, ticket'[n].by = h,
                Adds(h, {HandoffRequest(n, hp, t)})
         PROVE  VoiceFits(h)'
    BY <2>4, <2>8, <2>13
  <2> QED BY <2>3, <2>9, <2>10, <2>11, <2>12, <2>13 DEF Speech
<1> QED BY <1>3, <1>4

LEMMA PhaseFitsStep ==
  ASSUME ProvenanceInv, [Next]_vars, NEW h \in Host
  PROVE  PhaseFits(h)' /\ DueFits(h)'
<1> DEFINE p == phase(h)
           next == machine'[h].phase
<1>1. /\ TypeOK /\ PhaseFits(h) /\ DueFits(h) /\ machine[h] \in Machine
      /\ Clock(h) \in Nat /\ Clock(h)' \in Nat /\ Clock(h) <= Clock(h)'
  BY TimeForward DEF ProvenanceInv, TypeOK, Time
<1>2. p.kind # "Idle" =>
        /\ p.nonce \in Nonce /\ p.at \in Nat /\ ticket[p.nonce].by # NoHost
        /\ ticket'[p.nonce] = ticket[p.nonce]
  <2>1. p.kind # "Idle" => /\ p.nonce \in Nonce /\ p.at \in Nat
                           /\ p.kind \in ClaimPhase \cup {"Releasing"}
    BY <1>1, PhaseCases DEF phase, HandoffKind, ClaimPhase, Time
  <2>2. p.kind # "Idle" => ticket[p.nonce].by # NoHost
    BY <1>1, <2>1, HostAssumption DEF PhaseFits
  <2> QED BY <1>1, <2>1, <2>2, TicketKept
<1>3. ASSUME next = p
      PROVE  PhaseFits(h)' /\ DueFits(h)'
  <2>1. PhaseFits(h)'
    BY <1>1, <1>2, <1>3 DEF PhaseFits, phase, ClaimPhase
  <2>2. DueFits(h)'
    <3>1. CASE p.kind \notin {"WaitingRelease", "WaitingFallbackGap"}
      BY <1>3, <3>1 DEF DueFits, phase
    <3>2. CASE p.kind = "WaitingRelease"
      BY <1>1, <1>2, <1>3, <3>2 DEF DueFits, phase
    <3>3. CASE p.kind = "WaitingFallbackGap"
      <4> DEFINE due == ticket[p.nonce].due
      <4>1. Clock(h) >= due /\ due \in Nat
        BY <1>1, <1>2, <3>3 DEF DueFits, TypeOK, Time
      <4>2. Clock(h)' >= due
        BY <1>1, <4>1
      <4> QED BY <1>2, <1>3, <3>3, <4>2 DEF DueFits, phase
    <3> QED BY <3>1, <3>2, <3>3
  <2> QED BY <2>1, <2>2
<1>4. CASE ~(ApplyStep(h) \/ Worker(h) \/ User(h))
  <2>1. next = p
    BY <1>1, <1>4, OthersVoice DEF phase
  <2> QED BY <1>3, <2>1
<1>5. CASE ApplyStep(h) \/ Worker(h) \/ User(h)
  <2>1. Course(h)
    BY <1>1, <1>5, OwnCourse
  <2>2. CASE next = Idle
    BY <2>2 DEF PhaseFits, DueFits, phase, Idle, ClaimPhase
  <2>3. CASE /\ p.kind \in {"WaitingRelease", "WaitingFallbackGap"}
             /\ next.kind = "ConnectingAudio" /\ next.nonce = p.nonce
    BY <1>1, <1>2, <2>3 DEF PhaseFits, DueFits, phase, ClaimPhase
  <2>4. CASE /\ p.kind = "WaitingRelease" /\ Clock(h) >= p.at
             /\ next.kind = "WaitingFallbackGap" /\ next.nonce = p.nonce
    <3> DEFINE due == ticket[p.nonce].due
    <3>1. Clock(h) >= due /\ due \in Nat
      BY <1>1, <1>2, <2>4 DEF DueFits, TypeOK, Time
    <3>2. Clock(h)' >= due
      BY <1>1, <3>1
    <3>3. DueFits(h)'
      BY <1>2, <2>4, <3>2 DEF DueFits, phase
    <3>4. PhaseFits(h)'
      BY <1>1, <1>2, <2>4 DEF PhaseFits, phase, ClaimPhase
    <3> QED BY <3>3, <3>4
  <2>5. CASE /\ next.kind = "Releasing" /\ ticket' = ticket
             /\ rx[h] # <<>> /\ Head(rx[h]).kind = "Request" /\ next.nonce = Head(rx[h]).nonce
    <3>1. PICK k \in Host \ {h} : Fits(k, Head(rx[h]))
      BY <2>5, HeadFits
    <3>2. ticket[next.nonce].by = k
      BY <2>5, <3>1 DEF Fits
    <3> QED BY <2>5, <3>2, HostAssumption DEF PhaseFits, DueFits, phase, ClaimPhase
  <2>6. CASE /\ next.kind = "WaitingRelease" /\ next.nonce \in Nonce
             /\ ticket' = [ticket EXCEPT ![next.nonce] = [by |-> h, due |-> next.at]]
    <3>1. ticket'[next.nonce].by = h /\ ticket'[next.nonce].due = next.at
      BY <1>1, <2>6 DEF TypeOK
    <3> QED BY <2>6, <3>1 DEF PhaseFits, DueFits, phase, ClaimPhase
  <2> QED BY <1>3, <2>1, <2>2, <2>3, <2>4, <2>5, <2>6 DEF Course
<1> QED BY <1>4, <1>5

\* A control queue loses its head or gains what somebody else has sent.
LEMMA RxMoves ==
  ASSUME TypeOK, [Next]_vars, NEW h \in Host
  PROVE  \/ rx'[h] = rx[h]
         \/ rx[h] # <<>> /\ rx'[h] = Tail(rx[h])
         \/ \E d \in sent : d.from # h /\ rx'[h] = Append(rx[h], d.msg)
<1> USE DEF TypeOK
<1>1. ASSUME NEW k \in Host, ApplyStep(k)
      PROVE  rx' = rx
  BY <1>1, ApplyEffect
<1>2. ASSUME NEW k \in Host, Worker(k)
      PROVE  \/ rx'[h] = rx[h]
             \/ rx[h] # <<>> /\ rx'[h] = Tail(rx[h])
  BY <1>2 DEF Worker, WorkerControl, WorkerTick, WorkerRefresh
<1>3. ASSUME NEW k \in Host, User(k)
      PROVE  rx' = rx
  BY <1>3, CallingEffect DEF User, ClaimAt, AdoptHeadset, SetControlAddress, Leave
<1>4. ASSUME NEW k \in Host, Receive(k)
      PROVE  \/ rx'[h] = rx[h]
             \/ \E d \in sent : d.from # h /\ rx'[h] = Append(rx[h], d.msg)
  BY <1>4 DEF Receive
<1>5. CASE UNCHANGED vars
  BY <1>5 DEF vars
<1> QED BY <1>1, <1>2, <1>3, <1>4, <1>5
        DEF Next, Environment, ReceiveFails, LinkDrops, AutoReconnects, TimePasses

LEMMA RxFitsStep ==
  ASSUME ProvenanceInv, [Next]_vars, NEW h \in Host
  PROVE  RxFits(h)'
<1> DEFINE q == rx[h]
<1>1. TypeOK /\ RxFits(h) /\ q \in Seq(Message) /\ sent \subseteq [from : Host, msg : Message]
  BY DEF ProvenanceInv, TypeOK
<1>2. \A k \in Host : Said(k) \subseteq Said(k)'
  BY SentGrows DEF Said
<1>3. \A i \in DOMAIN q : \E k \in Host \ {h} : q[i] \in Said(k)'
  BY <1>1, <1>2 DEF RxFits
<1>4. CASE rx'[h] = q
  BY <1>3, <1>4 DEF RxFits
<1>5. CASE q # <<>> /\ rx'[h] = Tail(q)
  <2> HIDE DEF q
  <2>1. \A i \in DOMAIN Tail(q) : i + 1 \in DOMAIN q /\ Tail(q)[i] = q[i + 1]
    BY <1>1, <1>5
  <2> QED BY <1>3, <1>5, <2>1 DEF RxFits
<1>6. ASSUME NEW d \in sent, d.from # h, rx'[h] = Append(q, d.msg)
      PROVE  RxFits(h)'
  <2>1. d.from \in Host \ {h} /\ d.msg \in Message /\ d = Datagram(d.from, d.msg)
    BY <1>1, <1>6 DEF Datagram
  <2>2. d.msg \in Said(d.from)'
    BY <1>2, <2>1 DEF Said
  <2> HIDE DEF q
  <2>3. \A i \in DOMAIN Append(q, d.msg) :
           \/ i \in DOMAIN q /\ Append(q, d.msg)[i] = q[i]
           \/ Append(q, d.msg)[i] = d.msg
    BY <1>1, <2>1
  <2> QED BY <1>3, <1>6, <2>1, <2>2, <2>3 DEF RxFits
<1> QED BY <1>1, <1>4, <1>5, <1>6, RxMoves

LEMMA ProvenanceInit ==
  ASSUME Init
  PROVE  ProvenanceInv
<1>1. TypeOK
  BY InitType
<1>2. ASSUME NEW h \in Host
      PROVE  VoiceFits(h) /\ PhaseFits(h) /\ RxFits(h) /\ DueFits(h)
  <2>1. work[h].queue = <<>> /\ sent = {} /\ rx[h] = <<>>
    BY DEF Init, NoWork
  <2>2. Voice(h) = {}
    BY <2>1, OutboxEmpty DEF Voice, Said
  <2>3. phase(h).kind = "Idle"
    BY DEF Init, update_control_capability, NewMachine, Idle, phase
  <2> QED BY <2>1, <2>2, <2>3 DEF VoiceFits, PhaseFits, RxFits, DueFits, ClaimPhase
<1> QED BY <1>1, <1>2 DEF ProvenanceInv

LEMMA ProvenanceNext ==
  ASSUME ProvenanceInv, [Next]_vars
  PROVE  ProvenanceInv'
<1>1. TypeOK'
  BY NextType DEF ProvenanceInv
<1>2. \A h \in Host : VoiceFits(h)' /\ PhaseFits(h)' /\ RxFits(h)' /\ DueFits(h)'
  BY VoiceFitsStep, PhaseFitsStep, RxFitsStep
<1> QED BY <1>1, <1>2 DEF ProvenanceInv

LEMMA ProvenanceInvariant == Spec => []ProvenanceInv
<1>1. Init => ProvenanceInv
  BY ProvenanceInit
<1>2. ProvenanceInv /\ [Next]_vars => ProvenanceInv'
  BY ProvenanceNext
<1> QED BY <1>1, <1>2, PTL DEF Spec

-----------------------------------------------------------------------------
(* One verdict *)

\* A claimant has announced at most one of Taken and Abort, and neither while
\* its claim goes on; what still waits in its queue counts as announced.
VerdictPlan(h) ==
  \A n \in Nonce : ticket[n].by = h =>
     /\ ~(Reply("Taken", n) \in Voice(h) /\ Reply("Abort", n) \in Voice(h))
     /\ phase(h).kind \in ClaimPhase /\ phase(h).nonce = n =>
          Reply("Taken", n) \notin Voice(h) /\ Reply("Abort", n) \notin Voice(h)

VerdictInv == ProvenanceInv /\ \A h \in Host : VerdictPlan(h)

LEMMA NewVerdict ==
  ASSUME NEW h \in Host, NEW n \in Nonce, Speech(h)
  PROVE  \/ \A k \in {"Taken", "Abort"} : Reply(k, n) \in Voice(h)' => Reply(k, n) \in Voice(h)
         \/ /\ phase(h).kind # "Idle" /\ phase(h).nonce = n /\ machine'[h].phase = Idle
            /\ \E k \in {"Taken", "Abort"} : Adds(h, {Reply(k, n)})
<1> DEFINE p == phase(h)
           Old == \A k \in {"Taken", "Abort"} :
                     Reply(k, n) \in Voice(h)' => Reply(k, n) \in Voice(h)
<1>1. ASSUME NEW S, Adds(h, S), \A k \in {"Taken", "Abort"} : Reply(k, n) \notin S
      PROVE  Old
  BY <1>1 DEF Adds
<1>2. \A k \in {"Taken", "Abort"} : \A x : Reply(k, x) = Reply(k, n) => x = n
  BY DEF Reply
<1>3. ASSUME NEW k \in {"Taken", "Abort"}, p.kind # "Idle", machine'[h].phase = Idle,
             Adds(h, {Reply(k, p.nonce)})
      PROVE  \/ Old
             \/ /\ p.kind # "Idle" /\ p.nonce = n /\ machine'[h].phase = Idle
                /\ \E j \in {"Taken", "Abort"} : Adds(h, {Reply(j, n)})
  <2>1. CASE p.nonce = n
    BY <1>3, <2>1
  <2>2. CASE p.nonce # n
    <3>1. \A j \in {"Taken", "Abort"} : Reply(j, n) \notin {Reply(k, p.nonce)}
      BY <2>2 DEF Reply
    <3> QED BY <1>1, <1>3, <3>1
  <2> QED BY <2>1, <2>2
<1>4. CASE Adds(h, {})
  BY <1>1, <1>4
<1>5. CASE Adds(h, {Reply("Released", p.nonce)})
  <2>1. \A k \in {"Taken", "Abort"} : Reply(k, n) \notin {Reply("Released", p.nonce)}
    BY DEF Reply
  <2> QED BY <1>1, <1>5, <2>1
<1>6. CASE Adds(h, Answers(Head(rx[h]).nonce))
  <2>1. \A k \in {"Taken", "Abort"} : Reply(k, n) \notin Answers(Head(rx[h]).nonce)
    BY DEF Reply, Answers
  <2> QED BY <1>1, <1>6, <2>1
<1>7. ASSUME NEW x \in Nonce, NEW hp \in Headset, NEW t \in Time,
             Adds(h, {HandoffRequest(x, hp, t)})
      PROVE  Old
  <2>1. \A k \in {"Taken", "Abort"} : Reply(k, n) \notin {HandoffRequest(x, hp, t)}
    BY DEF Reply, HandoffRequest
  <2> QED BY <1>1, <1>7, <2>1
<1> HIDE DEF Old
<1>8. CASE /\ p.kind = "ConnectingAudio" /\ machine'[h].phase = Idle
           /\ Adds(h, {Reply("Taken", p.nonce)})
  <2>1. p.kind # "Idle"
    BY <1>8
  <2> QED BY <1>3, <1>8, <2>1 DEF Old
<1>9. CASE /\ p.kind # "Idle" /\ machine'[h].phase = Idle
           /\ Adds(h, {Reply("Abort", p.nonce)})
  BY <1>3, <1>9 DEF Old
<1> QED BY <1>4, <1>5, <1>6, <1>7, <1>8, <1>9 DEF Speech, Old

LEMMA VerdictStep ==
  ASSUME VerdictInv, [Next]_vars, NEW h \in Host
  PROVE  VerdictPlan(h)'
<1> DEFINE p == phase(h)
           next == machine'[h].phase
<1>1. TypeOK /\ PhaseFits(h) /\ VoiceFits(h) /\ VerdictPlan(h) /\ machine[h] \in Machine
  BY DEF VerdictInv, ProvenanceInv, TypeOK
<1> SUFFICES ASSUME NEW n \in Nonce, ticket'[n].by = h
             PROVE  /\ ~(Reply("Taken", n) \in Voice(h)' /\ Reply("Abort", n) \in Voice(h)')
                    /\ next.kind \in ClaimPhase /\ next.nonce = n =>
                         /\ Reply("Taken", n) \notin Voice(h)'
                         /\ Reply("Abort", n) \notin Voice(h)'
  BY DEF VerdictPlan, phase
<1>2. ticket[n].by \in {h, NoHost}
  BY <1>1, TicketKept
<1>3. ticket[n].by = NoHost =>
        Reply("Taken", n) \notin Voice(h) /\ Reply("Abort", n) \notin Voice(h)
  <2>1. Reply("Taken", n).nonce = n /\ Reply("Abort", n).nonce = n
    BY DEF Reply
  <2> QED BY <1>1, <2>1 DEF VoiceFits, Fits
<1>4. ~(Reply("Taken", n) \in Voice(h) /\ Reply("Abort", n) \in Voice(h))
  BY <1>1, <1>2, <1>3 DEF VerdictPlan
<1>5. p.kind \in ClaimPhase /\ p.nonce = n =>
        Reply("Taken", n) \notin Voice(h) /\ Reply("Abort", n) \notin Voice(h)
  BY <1>1, <1>2, <1>3 DEF VerdictPlan
<1>6. CASE ~(ApplyStep(h) \/ Worker(h) \/ User(h))
  <2>1. Voice(h)' = Voice(h) /\ next = p
    BY <1>1, <1>6, OthersVoice DEF phase
  <2> QED BY <1>4, <1>5, <2>1
<1>7. CASE ApplyStep(h) \/ Worker(h) \/ User(h)
  <2>1. Speech(h) /\ Course(h)
    BY <1>1, <1>7, OwnSpeech, OwnCourse
  <2>2. CASE \A k \in {"Taken", "Abort"} : Reply(k, n) \in Voice(h)' => Reply(k, n) \in Voice(h)
    <3>1. next.kind \in ClaimPhase /\ next.nonce = n =>
            Reply("Taken", n) \notin Voice(h) /\ Reply("Abort", n) \notin Voice(h)
      <4>1. \/ next = p \/ next.kind \notin ClaimPhase
            \/ next.nonce = p.nonce /\ p.kind \in ClaimPhase
            \/ ticket[next.nonce].by = NoHost
        BY <2>1 DEF Course, Idle, ClaimPhase
      <4> QED BY <1>3, <1>5, <4>1
    <3> QED BY <1>4, <2>2, <3>1
  <2>3. CASE /\ p.kind # "Idle" /\ p.nonce = n /\ next = Idle
             /\ \E k \in {"Taken", "Abort"} : Adds(h, {Reply(k, n)})
    <3>1. p.kind \in ClaimPhase \cup {"Releasing"}
      BY <1>1, <2>3, PhaseCases DEF phase, HandoffKind, ClaimPhase
    <3>2. p.kind \in ClaimPhase
      BY <1>1, <1>2, <2>3, <3>1 DEF PhaseFits
    <3>3. Reply("Taken", n) # Reply("Abort", n)
      BY DEF Reply
    <3>4. ~(Reply("Taken", n) \in Voice(h)' /\ Reply("Abort", n) \in Voice(h)')
      BY <1>5, <2>3, <3>2, <3>3 DEF Adds
    <3> QED BY <2>3, <3>4 DEF Idle, ClaimPhase
  <2> QED BY <2>1, <2>2, <2>3, NewVerdict
<1> QED BY <1>6, <1>7

\* The claimant of a handoff announces Taken or Abort for it, never both
\* (actions.rs, apply; handoff.rs, on_audio_connected and on_audio_failed): not
\* even when the connection succeeds but announcing it fails.
THEOREM VerdictIsOne == Spec => []OneVerdict
<1>1. Init => VerdictInv
  <2> SUFFICES ASSUME Init, NEW h \in Host, NEW n \in Nonce
               PROVE  ticket[n].by # h
    BY ProvenanceInit DEF VerdictInv, VerdictPlan
  <2> QED BY HostAssumption DEF Init
<1>2. VerdictInv /\ [Next]_vars => VerdictInv'
  BY ProvenanceNext, VerdictStep DEF VerdictInv
<1>3. VerdictInv => OneVerdict
  <2> SUFFICES ASSUME VerdictInv, NEW n \in Nonce, NEW h \in Host, ticket[n].by = h,
                      Sent(h, "Taken", n), Sent(h, "Abort", n)
               PROVE  FALSE
    BY DEF OneVerdict
  <2>1. Reply("Taken", n) \in Message /\ Reply("Abort", n) \in Message
    BY MessageTypes DEF ReplyKind
  <2>2. Reply("Taken", n) \in Voice(h) /\ Reply("Abort", n) \in Voice(h)
    BY <2>1 DEF Sent, Voice, Said
  <2> QED BY <2>2 DEF VerdictInv, VerdictPlan
<1> QED BY <1>1, <1>2, <1>3, PTL DEF Spec

-----------------------------------------------------------------------------
(* Audio that somebody holds *)

\* In the gap of the fallback the CD has been written or is about to be.
GapPlan(h) ==
  phase(h).kind = "WaitingFallbackGap" =>
     \/ cdAt[h] # Never
     \/ work[h] = [queue |-> <<SendHeadsetDisconnect>>, failed |-> FALSE]

HeldPlan(h) ==
  phase(h).kind = "ConnectingAudio" /\ machine[h].peerHasAudio =>
     cdAt[h] # Never \/ \E k \in Host : Sent(k, "Released", phase(h).nonce)

HeldInv == ProvenanceInv /\ HandoffInv /\ \A h \in Host : GapPlan(h) /\ HeldPlan(h)

\* Only a new claim forgets when the CD was written.
LEMMA CdKept ==
  ASSUME TypeOK, [Next]_vars, NEW h \in Host, phase(h).kind # "Idle", cdAt[h] # Never
  PROVE  cdAt'[h] # Never
<1>1. CASE ApplyStep(h)
  <2>1. Clock(h) \in Nat
    BY ClockType DEF Time
  <2>2. \/ cdAt'[h] = cdAt[h] \/ cdAt'[h] = Clock(h)
    BY <1>1 DEF ApplyStep, DoSend, DoConnectAudio, DoDisconnectAudio, DoSuppress, DoRestore,
                DoSendHeadsetDisconnect, DoPause, DoReport, claims, TypeOK
  <2> QED BY <2>1, <2>2 DEF Never
<1>2. CASE WorkerControl(h) \/ WorkerTick(h)
  BY <1>2 DEF WorkerControl, WorkerTick, claims
<1>3. ASSUME NEW hp \in Headset, NEW n \in Nonce, ClaimAt(h, hp, n)
      PROVE  cdAt'[h] = cdAt[h]
  BY <1>3 DEF ClaimAt
<1>4. ASSUME NEW hp \in Headset \cup {NoHeadset}, SetControlAddress(h, hp)
      PROVE  cdAt'[h] = cdAt[h]
  BY <1>4 DEF SetControlAddress, claims
<1>5. CASE Leave(h)
  BY <1>5 DEF Leave, claims
<1> QED BY <1>1, <1>2, <1>3, <1>4, <1>5, StepCases DEF Untouched

LEMMA GapPlanStep ==
  ASSUME HeldInv, [Next]_vars, NEW h \in Host
  PROVE  GapPlan(h)'
<1> DEFINE p == phase(h)
           next == machine'[h].phase
           asking == [queue |-> <<SendHeadsetDisconnect>>, failed |-> FALSE]
<1>1. TypeOK /\ GapPlan(h) /\ machine[h] \in Machine
  BY DEF HeldInv, ProvenanceInv, TypeOK
<1> SUFFICES ASSUME next.kind = "WaitingFallbackGap"
             PROVE  cdAt'[h] # Never \/ work'[h] = asking
  BY DEF GapPlan, phase
<1>2. CASE p.kind = "WaitingFallbackGap" /\ cdAt[h] # Never
  BY <1>1, <1>2, CdKept
<1>3. CASE p.kind = "WaitingFallbackGap" /\ work[h] = asking
  <2>1. ~LockFree(h) /\ Head(work[h].queue) = SendHeadsetDisconnect /\ ~work[h].failed
    BY <1>3 DEF LockFree
  <2>2. CASE ApplyStep(h)
    <3>1. DoSendHeadsetDisconnect(h)
      <4>1. Head(work[h].queue).do = "SendHeadsetDisconnect"
        BY <2>1 DEF SendHeadsetDisconnect
      <4> QED BY <2>2, <4>1 DEF ApplyStep, DoSend, DoConnectAudio, DoDisconnectAudio,
                    DoSuppress, DoRestore, DoPause, DoReport, Doing
    <3>2. \/ cdAt' = [cdAt EXCEPT ![h] = Clock(h)] \/ FailAction(h, machine[h])
      BY <3>1 DEF DoSendHeadsetDisconnect
    <3>3. ~FailAction(h, machine[h])
      <4>1. FailAction(h, machine[h]) => next = Idle
        BY <1>1, <2>1, FailEffect
      <4> QED BY <4>1 DEF Idle
    <3>4. cdAt'[h] = Clock(h) /\ Clock(h) \in Nat
      BY <1>1, <3>2, <3>3, ClockType DEF TypeOK, Time
    <3> QED BY <3>4 DEF Never
  <2>3. CASE ~ApplyStep(h)
    <3>1. ~Worker(h) /\ \A hp \in Headset, n \in Nonce : ~ClaimAt(h, hp, n)
      BY <2>1 DEF Worker, WorkerControl, WorkerTick, WorkerRefresh, WorkerUnclaimed,
                  WorkerReady, ClaimAt
    <3>2. ~Leave(h) /\ \A hp \in Headset \cup {NoHeadset} :
                          ~AdoptHeadset(h, hp) /\ ~SetControlAddress(h, hp)
      BY <2>1 DEF Leave, AdoptHeadset, SetControlAddress
    <3>3. CASE Calling(h)
      BY <1>3, <3>3, CallingEffect
    <3>4. CASE ~Calling(h)
      <4>1. ~(ApplyStep(h) \/ Worker(h) \/ User(h))
        BY <2>3, <3>1, <3>2, <3>4 DEF User
      <4> QED BY <1>1, <1>3, <4>1, OthersVoice
    <3> QED BY <3>3, <3>4
  <2> QED BY <2>2, <2>3
<1>4. CASE p.kind # "WaitingFallbackGap"
  <2>1. ApplyStep(h) \/ Worker(h) \/ User(h)
    BY <1>1, <1>4, OthersVoice DEF phase
  <2>2. Course(h)
    BY <1>1, <2>1, OwnCourse
  <2> QED BY <1>4, <2>2 DEF Course, Idle
<1> QED BY <1>1, <1>2, <1>3, <1>4 DEF GapPlan

LEMMA HeldPlanStep ==
  ASSUME HeldInv, [Next]_vars, NEW h \in Host
  PROVE  HeldPlan(h)'
<1> DEFINE p == phase(h)
           next == machine'[h].phase
<1>1. /\ TypeOK /\ ProvenanceInv /\ HandoffInv /\ GapPlan(h) /\ HeldPlan(h)
      /\ machine[h] \in Machine
  BY DEF HeldInv, ProvenanceInv, TypeOK
<1> SUFFICES ASSUME next.kind = "ConnectingAudio", machine'[h].peerHasAudio
             PROVE  \/ cdAt'[h] # Never
                    \/ \E k \in Host : Datagram(k, Reply("Released", next.nonce)) \in sent'
  BY DEF HeldPlan, Sent, phase
<1>2. \A k \in Host, n \in Nonce : Sent(k, "Released", n) => Datagram(k, Reply("Released", n)) \in sent'
  BY SentGrows DEF Sent
<1>3. CASE Calling(h) \/ ~(ApplyStep(h) \/ Worker(h) \/ User(h))
  <2>1. machine'[h] = machine[h]
    BY <1>1, <1>3, CallingEffect, OthersVoice
  <2>2. p = next /\ p.kind = "ConnectingAudio" /\ p.nonce \in Nonce
    BY <1>1, <2>1, PhaseCases DEF phase
  <2>3. cdAt[h] # Never \/ \E k \in Host : Sent(k, "Released", p.nonce)
    BY <1>1, <2>1, <2>2 DEF HeldPlan
  <2>4. CASE cdAt[h] # Never
    BY <1>1, <2>2, <2>4, CdKept
  <2>5. CASE \E k \in Host : Sent(k, "Released", p.nonce)
    BY <1>2, <2>2, <2>5
  <2> QED BY <2>3, <2>4, <2>5
<1>4. CASE ~Calling(h) /\ (ApplyStep(h) \/ Worker(h) \/ User(h))
  <2>1. Course(h)
    BY <1>1, <1>4, OwnCourse
  <2>2. p.kind # "ConnectingAudio"
    <3> SUFFICES ASSUME p.kind = "ConnectingAudio"
                 PROVE  FALSE
      OBVIOUS
    <3> DEFINE queue == <<ConnectAudio(phase_mac(h))>>
    <3>1. ~LockFree(h)
      <4>1. work[h] = [queue |-> queue, failed |-> FALSE]
        BY <1>1 DEF HandoffInv, ConnectingAlone
      <4>2. queue # <<>>
        OBVIOUS
      <4> HIDE DEF queue
      <4> QED BY <4>1, <4>2 DEF LockFree
    <3>2. ~Worker(h) /\ \A hp \in Headset, n \in Nonce : ~ClaimAt(h, hp, n)
      BY <3>1 DEF Worker, WorkerControl, WorkerTick, WorkerRefresh, WorkerUnclaimed,
                  WorkerReady, ClaimAt
    <3>3. ~Leave(h) /\ \A hp \in Headset \cup {NoHeadset} :
                          ~AdoptHeadset(h, hp) /\ ~SetControlAddress(h, hp)
      BY <3>1 DEF Leave, AdoptHeadset, SetControlAddress
    <3>4. next = Idle
      BY <1>1, <1>4, <3>2, <3>3, PhaseAfterApply DEF User
    <3> QED BY <3>4 DEF Idle
  <2>3. CASE /\ p.kind = "WaitingRelease" /\ next.nonce = p.nonce
             /\ rx[h] # <<>> /\ Head(rx[h]) = Reply("Released", p.nonce)
    <3>1. p.nonce \in Nonce
      BY <1>1, <2>3, PhaseCases DEF phase
    <3>2. PICK k \in Host : Head(rx[h]) \in Said(k)
      BY <1>1, <2>3, HeadFits
    <3>3. Sent(k, "Released", p.nonce)
      BY <2>3, <3>2 DEF Said, Sent
    <3> QED BY <1>2, <2>3, <3>1, <3>3
  <2>4. CASE p.kind = "WaitingFallbackGap" /\ LockFree(h)
    <3> DEFINE queue == <<SendHeadsetDisconnect>>
    <3>1. cdAt[h] # Never
      <4>1. cdAt[h] # Never \/ work[h] = [queue |-> queue, failed |-> FALSE]
        BY <1>1, <2>4 DEF GapPlan
      <4>2. queue # <<>>
        OBVIOUS
      <4> HIDE DEF queue
      <4> QED BY <2>4, <4>1, <4>2 DEF LockFree
    <3> QED BY <1>1, <2>4, <3>1, CdKept
  <2> QED BY <2>1, <2>2, <2>3, <2>4 DEF Course, Idle
<1> QED BY <1>3, <1>4

\* A claimant that was told that somebody holds the headset connects only after
\* a release of this handoff or its own CD (handoff.rs, tick): the NoAudio of a
\* bystander does not stand in for them, however late the holder answers.
THEOREM HeldIsAskedFor == Spec => []HeldAudioIsNotGrabbed
<1>1. Init => HeldInv
  <2> SUFFICES ASSUME Init, NEW h \in Host
               PROVE  phase(h).kind = "Idle"
    BY ProvenanceInit, HandoffInvInit DEF HeldInv, GapPlan, HeldPlan
  <2> QED BY DEF Init, update_control_capability, NewMachine, Idle, phase
<1>2. HeldInv /\ [Next]_vars => HeldInv'
  BY ProvenanceNext, HandoffInvNext, GapPlanStep, HeldPlanStep DEF HeldInv
<1>3. HeldInv => HeldAudioIsNotGrabbed
  BY DEF HeldInv, HeldPlan, HeldAudioIsNotGrabbed
<1> QED BY <1>1, <1>2, <1>3, PTL DEF Spec

-----------------------------------------------------------------------------
(* The promise *)

\* How far the handoff n has come for a claimant in phase p.
StageIn(p, n) ==
  IF p.nonce = n /\ p.kind \in {"WaitingRelease", "WaitingFallbackGap"} THEN "waiting"
  ELSE IF p.nonce = n /\ p.kind = "ConnectingAudio" THEN "connecting"
  ELSE "over"

LEMMA StageCases ==
  ASSUME NEW n \in Nonce
  PROVE  /\ ticket[n].by # NoHost =>
               /\ stageOf(n) = StageIn(machine[ticket[n].by].phase, n)
               /\ askerOf(n) = ticket[n].by /\ dueOf(n) = ticket[n].due
         /\ ticket[n].by = NoHost =>
               /\ stageOf(n) = IF asked[n] = NoClaim THEN "fresh" ELSE "asked"
               /\ askerOf(n) = asked[n].by
               /\ dueOf(n) = IF asked[n] = NoClaim THEN 0
                             ELSE saturating_add(asked[n].at, HandoffDeadline)
         /\ ticket'[n].by # NoHost =>
               /\ stageOf(n)' = StageIn(machine'[ticket'[n].by].phase, n)
               /\ askerOf(n)' = ticket'[n].by /\ dueOf(n)' = ticket'[n].due
         /\ ticket'[n].by = NoHost =>
               /\ stageOf(n)' = IF asked'[n] = NoClaim THEN "fresh" ELSE "asked"
               /\ askerOf(n)' = asked'[n].by
               /\ dueOf(n)' = IF asked'[n] = NoClaim THEN 0
                              ELSE saturating_add(asked'[n].at, HandoffDeadline)
BY DEF stageOf, askerOf, dueOf, Made, StageIn, phase

\* What happens to the handoffs: nothing, or one of them is asked for, refused,
\* begun, connects its audio or ends.
SameTerms(n) == askerOf(n)' = askerOf(n) /\ dueOf(n)' = dueOf(n)

Kept(n) == stageOf(n)' = stageOf(n) /\ SameTerms(n)

StagesKept == \A n \in Nonce : Kept(n)

OnlyStage(n, from, to) ==
  /\ stageOf(n) \in from /\ stageOf(n)' = to
  /\ \A x \in Nonce \ {n} : Kept(x)

Asked(n, h) ==
  /\ OnlyStage(n, {"fresh"}, "asked") /\ UNCHANGED <<sent, now>>
  /\ askerOf(n)' = h /\ dueOf(n)' \in Clock(h) .. MaxClock

Refused(n) ==
  /\ OnlyStage(n, {"asked"}, "fresh") /\ UNCHANGED <<sent, now>>
  /\ askerOf(n)' = NoHost /\ dueOf(n)' = 0

Begun(n) ==
  /\ OnlyStage(n, {"asked"}, "waiting") /\ UNCHANGED <<sent, now>>
  /\ SameTerms(n)

Connected(n) ==
  /\ OnlyStage(n, {"waiting"}, "connecting") /\ SameTerms(n)
  /\ askerOf(n) \in Host
  /\ \/ \E h \in Host : Sent(h, "Released", n)
     \/ Clock(askerOf(n)) >= dueOf(n)

Finished(n) == OnlyStage(n, {"waiting", "connecting"}, "over") /\ SameTerms(n)

StageMove ==
  \/ StagesKept
  \/ \E n \in Nonce : Refused(n) \/ Begun(n) \/ Connected(n) \/ Finished(n)
  \/ \E n \in Nonce, h \in Host : Asked(n, h)

\* A handoff is where it was if its call, its ticket and the machines are.
LEMMA StageStays ==
  ASSUME NEW n \in Nonce, machine' = machine, ticket'[n] = ticket[n],
         ticket[n].by = NoHost => asked'[n] = asked[n]
  PROVE  Kept(n)
<1>1. CASE ticket[n].by = NoHost
  BY <1>1, StageCases DEF Kept, SameTerms
<1>2. CASE ticket[n].by # NoHost
  BY <1>2, StageCases DEF Kept, SameTerms
<1> QED BY <1>1, <1>2

\* The steps of one host move the stages of its own handoffs only.
LEMMA StageElsewhere ==
  ASSUME TypeOK, [Next]_vars, NEW k \in Host, ApplyStep(k) \/ Worker(k) \/ User(k),
         NEW n \in Nonce, ticket'[n] = ticket[n], asked'[n] = asked[n], ticket[n].by # k
  PROVE  Kept(n)
<1>1. CASE ticket[n].by = NoHost
  BY <1>1, StageCases DEF Kept, SameTerms
<1>2. CASE ticket[n].by # NoHost
  <2> DEFINE b == ticket[n].by
  <2>1. b \in Host /\ b # k
    BY <1>2 DEF TypeOK
  <2>2. machine'[b] = machine[b]
    BY <2>1, ApplyEffect, HandlersQuiet DEF OthersKept
  <2> QED BY <1>2, <2>2, StageCases DEF Kept, SameTerms
<1> QED BY <1>1, <1>2

\* A call that begins to wait asks; one that finds the hub closed is refused.
LEMMA CallStage ==
  ASSUME TypeOK, NEW k \in Host, Calling(k)
  PROVE  StageMove
<1>1. /\ machine' = machine /\ ticket' = ticket /\ UNCHANGED <<sent, now>>
      /\ asked \in [Nonce -> Call] /\ k # NoHost
  BY CallingEffect, HostAssumption DEF TypeOK
<1>2. PICK n \in Nonce : ClaimClosed(k, n) \/ \E hp \in Headset : Claim(k, hp, n)
  BY DEF Calling
<1>3. \A x \in Nonce \ {n} : Kept(x)
  <2>1. \A x \in Nonce \ {n} : asked'[x] = asked[x]
    BY <1>1, <1>2 DEF ClaimClosed, Claim
  <2> QED BY <1>1, <2>1, StageStays
<1>4. CASE ClaimClosed(k, n) /\ ticket[n].by # NoHost
  <2>1. Kept(n)
    BY <1>1, <1>4, StageStays
  <2> QED BY <1>3, <2>1 DEF StageMove, StagesKept
<1>5. CASE ClaimClosed(k, n) /\ ticket[n].by = NoHost
  <2>1. asked[n] # NoClaim /\ asked'[n] = NoClaim
    BY <1>1, <1>5 DEF ClaimClosed, NoClaim
  <2>2. Refused(n)
    BY <1>1, <1>3, <1>5, <2>1, StageCases DEF Refused, OnlyStage, NoClaim
  <2> QED BY <2>2 DEF StageMove
<1>6. ASSUME NEW hp \in Headset, Claim(k, hp, n)
      PROVE  StageMove
  <2> DEFINE call == [by |-> k, mac |-> hp, at |-> Clock(k)]
             due == saturating_add(Clock(k), HandoffDeadline)
  <2>1. ticket[n].by = NoHost /\ asked[n] = NoClaim /\ asked'[n] = call
    BY <1>1, <1>6 DEF Claim
  <2>2. call # NoClaim
    BY <1>1 DEF NoClaim
  <2>3. due \in Clock(k) .. MaxClock
    <3> DEFINE t == Clock(k)
    <3>1. t \in Time
      BY ClockType
    <3> HIDE DEF t
    <3>2. saturating_add(t, HandoffDeadline) \in t .. MaxClock
      BY <3>1, ClockAssumption DEF saturating_add, Time
    <3> QED BY <3>2 DEF t
  <2>4. stageOf(n) = "fresh" /\ stageOf(n)' = "asked" /\ askerOf(n)' = k /\ dueOf(n)' = due
    BY <1>1, <2>1, <2>2, StageCases
  <2>5. Asked(n, k)
    BY <1>1, <1>3, <2>3, <2>4 DEF Asked, OnlyStage
  <2> QED BY <2>5 DEF StageMove
<1> QED BY <1>2, <1>4, <1>5, <1>6

\* A call that gets the lock begins its handoff, or is refused by a busy hub.
LEMMA ClaimStage ==
  ASSUME ProvenanceInv, [Next]_vars, NEW k \in Host, NEW hp \in Headset, NEW n \in Nonce,
         ClaimAt(k, hp, n)
  PROVE  StageMove
<1>1. /\ TypeOK /\ asked[n].by = k /\ ticket[n].by = NoHost /\ k # NoHost
      /\ asked' = [asked EXCEPT ![n] = NoClaim] /\ UNCHANGED <<sent, now>> /\ User(k)
  BY HostAssumption DEF ProvenanceInv, ClaimAt, User
<1>2. asked \in [Nonce -> Call] /\ asked[n] # NoClaim /\ asked'[n] = NoClaim
  BY <1>1 DEF TypeOK, NoClaim
<1>3. \A x \in Nonce \ {n} : asked'[x] = asked[x]
  BY <1>1, <1>2
<1>4. CASE phase(k).kind # "Idle"
  <2>1. machine' = machine /\ ticket' = ticket
    BY <1>1, <1>4, ClaimRefused
  <2>2. \A x \in Nonce \ {n} : Kept(x)
    BY <1>3, <2>1, StageStays
  <2>3. Refused(n)
    BY <1>1, <1>2, <2>1, <2>2, StageCases DEF Refused, OnlyStage, NoClaim
  <2> QED BY <2>3 DEF StageMove
<1>5. CASE phase(k).kind = "Idle"
  <2>1. PICK due : due = saturating_add(asked[n].at, HandoffDeadline)
    OBVIOUS
  <2> DEFINE next == WaitingRelease(n, hp, due)
  <2>2. /\ machine'[k].phase = next
        /\ ticket' = [ticket EXCEPT ![n] = [by |-> k, due |-> due]]
    BY <1>1, <1>5, <2>1, ClaimBegins
  <2>3. next.kind = "WaitingRelease" /\ next.nonce = n
    BY DEF WaitingRelease
  <2> HIDE DEF next
  <2>4. /\ ticket'[n] = [by |-> k, due |-> due]
        /\ \A x \in Nonce \ {n} : ticket'[x] = ticket[x]
    BY <1>1, <2>2 DEF TypeOK
  <2>5. ASSUME NEW x \in Nonce \ {n}
        PROVE  Kept(x)
    <3>1. CASE ticket[x].by # k
      BY <1>1, <1>3, <2>4, <3>1, StageElsewhere
    <3>2. CASE ticket[x].by = k
      <4>1. StageIn(phase(k), x) = "over" /\ StageIn(next, x) = "over"
        BY <1>5, <2>3 DEF StageIn
      <4> QED BY <1>1, <2>2, <2>4, <3>2, <4>1, StageCases DEF Kept, SameTerms, phase
    <3> QED BY <3>1, <3>2
  <2>6. stageOf(n) = "asked" /\ askerOf(n) = k /\ dueOf(n) = due
    BY <1>1, <1>2, <2>1, StageCases
  <2>7. stageOf(n)' = "waiting" /\ askerOf(n)' = k /\ dueOf(n)' = due
    BY <1>1, <2>2, <2>3, <2>4, StageCases DEF StageIn
  <2>8. Begun(n)
    BY <1>1, <2>5, <2>6, <2>7 DEF Begun, OnlyStage, SameTerms
  <2> QED BY <2>8 DEF StageMove
<1> QED BY <1>4, <1>5

\* No other step touches the calls and the tickets.
LEMMA TermsKept ==
  ASSUME NEW k \in Host, ApplyStep(k) \/ Worker(k) \/ User(k), ~Calling(k),
         \A hp \in Headset, n \in Nonce : ~ClaimAt(k, hp, n)
  PROVE  UNCHANGED <<asked, ticket>>
<1>1. CASE ApplyStep(k)
  BY <1>1 DEF ApplyStep, DoSend, DoConnectAudio, DoDisconnectAudio, DoSuppress, DoRestore,
              DoSendHeadsetDisconnect, DoPause, DoReport, claims
<1>2. CASE Worker(k)
  BY <1>2 DEF Worker, WorkerControl, WorkerTick, WorkerRefresh, claims
<1>3. CASE User(k)
  BY <1>3 DEF User, AdoptHeadset, SetControlAddress, Leave, claims
<1> QED BY <1>1, <1>2, <1>3

LEMMA OtherStage ==
  ASSUME ProvenanceInv, [Next]_vars, NEW k \in Host, ApplyStep(k) \/ Worker(k) \/ User(k),
         UNCHANGED <<asked, ticket>>
  PROVE  StageMove
<1> DEFINE p == phase(k)
           next == machine'[k].phase
<1>1. /\ TypeOK /\ PhaseFits(k) /\ DueFits(k) /\ machine[k] \in Machine /\ Course(k)
      /\ Clock(k) \in Nat /\ k # NoHost
  <2>1. TypeOK /\ PhaseFits(k) /\ DueFits(k)
    BY DEF ProvenanceInv
  <2>2. Course(k)
    BY <2>1, OwnCourse
  <2>3. Clock(k) \in Nat
    BY <2>1, ClockType DEF Time
  <2> QED BY <2>1, <2>2, <2>3, HostAssumption DEF TypeOK
<1>2. /\ p.kind = "Idle" => p = Idle
      /\ p.kind # "Idle" => p.nonce \in Nonce /\ p.kind \in ClaimPhase \cup {"Releasing"}
      /\ Idle.nonce \notin Nonce
  BY <1>1, PhaseCases, NonceAssumption DEF phase, HandoffKind, ClaimPhase, Idle
<1>3. p.kind \in ClaimPhase => p.nonce \in Nonce /\ ticket[p.nonce].by = k
  BY <1>1, <1>2 DEF PhaseFits, ClaimPhase, Idle
<1>4. ASSUME NEW n \in Nonce, ticket[n].by = k
      PROVE  /\ stageOf(n) = StageIn(p, n) /\ stageOf(n)' = StageIn(next, n)
             /\ askerOf(n) = k /\ dueOf(n) = ticket[n].due /\ SameTerms(n)
  BY <1>1, <1>4, StageCases DEF SameTerms, phase
<1>5. ASSUME NEW n \in Nonce, ticket[n].by # k
      PROVE  Kept(n)
  BY <1>1, <1>5, StageElsewhere
<1>6. ASSUME \A n \in Nonce : ticket[n].by = k => StageIn(next, n) = StageIn(p, n)
      PROVE  StageMove
  <2>1. \A n \in Nonce : Kept(n)
    BY <1>4, <1>5, <1>6 DEF Kept
  <2> QED BY <1>6, <2>1 DEF StageMove, StagesKept
<1>7. ASSUME NEW n \in Nonce, ticket[n].by = k,
             \A x \in Nonce \ {n} : ticket[x].by = k => StageIn(next, x) = StageIn(p, x)
      PROVE  \A x \in Nonce \ {n} : Kept(x)
  BY <1>4, <1>5, <1>7 DEF Kept
<1>8. CASE next = p
  BY <1>6, <1>8
<1>9. CASE next = Idle
  <2>1. \A n \in Nonce : StageIn(next, n) = "over"
    BY <1>2, <1>9 DEF StageIn, Idle
  <2>2. CASE p.kind \notin ClaimPhase
    <3>1. \A n \in Nonce : StageIn(p, n) = "over"
      BY <2>2 DEF StageIn, ClaimPhase
    <3> QED BY <1>6, <1>9, <2>1, <3>1
  <2>3. CASE p.kind \in ClaimPhase
    <3> DEFINE n == p.nonce
    <3>1. \A x \in Nonce \ {n} : StageIn(p, x) = "over"
      BY DEF StageIn
    <3>2. StageIn(p, n) \in {"waiting", "connecting"}
      BY <2>3 DEF StageIn, ClaimPhase
    <3>3. PICK c \in Nonce : c = n /\ ticket[c].by = k
      BY <1>3, <2>3
    <3> HIDE DEF n
    <3>4. \A x \in Nonce \ {c} : Kept(x)
      BY <1>7, <1>9, <2>1, <3>1, <3>3
    <3>5. stageOf(c) \in {"waiting", "connecting"} /\ stageOf(c)' = "over" /\ SameTerms(c)
      BY <1>4, <1>9, <2>1, <3>2, <3>3
    <3> QED BY <1>9, <3>4, <3>5 DEF StageMove, Finished, OnlyStage
  <2> QED BY <2>2, <2>3
<1>10. CASE /\ p.kind = "WaitingRelease" /\ next.kind = "WaitingFallbackGap"
            /\ next.nonce = p.nonce
  <2>1. \A n \in Nonce : StageIn(next, n) = StageIn(p, n)
    BY <1>10 DEF StageIn
  <2> QED BY <1>6, <1>10, <2>1
<1>11. CASE p.kind = "Idle" /\ next.kind = "Releasing"
  <2>1. \A n \in Nonce : StageIn(next, n) = "over" /\ StageIn(p, n) = "over"
    BY <1>11 DEF StageIn
  <2> QED BY <1>6, <1>11, <2>1
<1>12. CASE /\ p.kind \in {"WaitingRelease", "WaitingFallbackGap"}
            /\ next.kind = "ConnectingAudio" /\ next.nonce = p.nonce
            /\ \/ p.kind = "WaitingRelease" /\ Clock(k) >= p.at
               \/ p.kind = "WaitingFallbackGap"
               \/ rx[k] # <<>> /\ Head(rx[k]) = Reply("Released", p.nonce)
  <2> DEFINE n == p.nonce
  <2>1. n \in Nonce /\ ticket[n].by = k
    BY <1>3, <1>12 DEF ClaimPhase
  <2>2. /\ \A x \in Nonce \ {n} : StageIn(p, x) = "over" /\ StageIn(next, x) = "over"
        /\ StageIn(p, n) = "waiting" /\ StageIn(next, n) = "connecting"
    BY <1>12 DEF StageIn
  <2>3. \/ \E h \in Host : Sent(h, "Released", n)
        \/ Clock(k) >= ticket[n].due
    <3>1. CASE p.kind = "WaitingRelease" /\ Clock(k) >= p.at
      BY <1>1, <3>1 DEF DueFits
    <3>2. CASE p.kind = "WaitingFallbackGap"
      BY <1>1, <3>2 DEF DueFits
    <3>3. CASE rx[k] # <<>> /\ Head(rx[k]) = Reply("Released", n)
      <4>1. PICK h \in Host : Head(rx[k]) \in Said(h)
        BY <3>3, HeadFits
      <4> QED BY <3>3, <4>1 DEF Said, Sent
    <3> QED BY <1>12, <3>1, <3>2, <3>3
  <2>4. PICK c \in Nonce : c = n
    BY <2>1
  <2> HIDE DEF n
  <2>5. \A x \in Nonce \ {c} : Kept(x)
    BY <1>7, <1>12, <2>1, <2>2, <2>4
  <2>6. /\ stageOf(c) = "waiting" /\ stageOf(c)' = "connecting"
        /\ askerOf(c) = k /\ dueOf(c) = ticket[c].due /\ SameTerms(c)
    BY <1>4, <1>12, <2>1, <2>2, <2>4
  <2>7. Connected(c)
    BY <1>12, <2>1, <2>3, <2>4, <2>5, <2>6 DEF Connected, OnlyStage
  <2> QED BY <2>7 DEF StageMove
<1>13. ~(next.nonce \in Nonce /\ ticket[next.nonce].by = NoHost
        /\ ticket' = [ticket EXCEPT ![next.nonce] = [by |-> k, due |-> next.at]])
  BY <1>1 DEF TypeOK
<1> QED BY <1>1, <1>8, <1>9, <1>10, <1>11, <1>12, <1>13 DEF Course

LEMMA OwnStage ==
  ASSUME ProvenanceInv, [Next]_vars, NEW k \in Host, ApplyStep(k) \/ Worker(k) \/ User(k)
  PROVE  StageMove
<1>1. TypeOK
  BY DEF ProvenanceInv
<1>2. CASE Calling(k)
  BY <1>1, <1>2, CallStage
<1>3. ASSUME NEW hp \in Headset, NEW n \in Nonce, ClaimAt(k, hp, n)
      PROVE  StageMove
  BY <1>3, ClaimStage
<1> QED BY <1>2, <1>3, TermsKept, OtherStage

LEMMA SomeStage ==
  ASSUME ProvenanceInv, [Next]_vars
  PROVE  StageMove
<1>1. CASE Environment \/ UNCHANGED vars
  <2>1. ticket' = ticket /\ asked' = asked /\ machine' = machine
    BY <1>1, QuietSteps
  <2> QED BY <2>1, StageStays DEF StageMove, StagesKept
<1> QED BY <1>1, ActorOrQuiet, OwnStage

\* What happens to the announced releases: nothing, or somebody else than the
\* claimant announces one, in a step that does nothing else to a handoff.
FreedKept == \A n \in Nonce, h \in Host : Sent(h, "Released", n)' <=> Sent(h, "Released", n)

Announced(n, h) ==
  /\ ticket[n].by # NoHost /\ ticket[n].by # h
  /\ sent' = sent \cup {Datagram(h, Reply("Released", n))}
  /\ UNCHANGED <<machine, asked, ticket, now>>

LEMMA FreedMove ==
  ASSUME ProvenanceInv, [Next]_vars
  PROVE  FreedKept \/ \E n \in Nonce, h \in Host : Announced(n, h)
<1>1. TypeOK /\ TypeOK'
  BY NextType DEF ProvenanceInv
<1>2. CASE UNCHANGED sent
  BY <1>2 DEF FreedKept, Sent
<1>3. ASSUME NEW k \in Host, DoSend(k), ~UNCHANGED sent
      PROVE  FreedKept \/ \E n \in Nonce, h \in Host : Announced(n, h)
  <2> DEFINE msg == Head(work[k].queue).msg
  <2>1. /\ sent' = sent \cup {Datagram(k, msg)} /\ UNCHANGED <<machine, asked, ticket, now>>
        /\ work[k].queue \in Seq(Queued) /\ work[k].queue # <<>>
        /\ Head(work[k].queue).do = "Send"
    BY <1>1, <1>3 DEF DoSend, Doing, LockFree, claims, TypeOK, Work
  <2>2. msg \in Voice(k) /\ msg \in Message
    BY <2>1, OutboxHead DEF Voice
  <2>3. Fits(k, msg)
    BY <2>2 DEF ProvenanceInv, VoiceFits
  <2> HIDE DEF msg
  <2>4. CASE msg.kind = "Released"
    <3>1. msg = Reply("Released", msg.nonce) /\ msg.nonce \in Nonce
      BY <2>2, <2>4 DEF Message, ReplyKind, Reply
    <3>2. PICK n \in Nonce : msg = Reply("Released", n) /\ n = msg.nonce
      BY <3>1
    <3>3. Announced(n, k)
      BY <2>1, <2>3, <2>4, <3>2 DEF Announced, Fits, msg
    <3> QED BY <3>3
  <2>5. CASE msg.kind # "Released"
    <3>1. \A h \in Host, n \in Nonce : Datagram(h, Reply("Released", n)) # Datagram(k, msg)
      BY <2>5 DEF Datagram, Reply
    <3>2. sent' = sent \cup {Datagram(k, msg)}
      BY <2>1 DEF msg
    <3> QED BY <3>1, <3>2 DEF FreedKept, Sent
  <2> QED BY <2>4, <2>5
<1>4. ASSUME NEW k \in Host, WorkerControl(k)
      PROVE  FreedKept
  <2> DEFINE d == Datagram(k, Reply("NoAudio", Head(rx[k]).nonce))
  <2>1. \A h \in Host, n \in Nonce : Datagram(h, Reply("Released", n)) # d
    BY DEF Datagram, Reply
  <2>2. sent' = sent \/ sent' = sent \cup {d}
    BY <1>4 DEF WorkerControl, dispatch_control
  <2> HIDE DEF d
  <2> QED BY <2>1, <2>2 DEF FreedKept, Sent
<1>5. ASSUME NEW k \in Host, Leave(k)
      PROVE  FreedKept
  <2> DEFINE s == on_audio_failed(machine[k])
             aborts == {Datagram(k, s.acts[i].msg) :
                          i \in {j \in DOMAIN s.acts : s.acts[j].do = "Send"}}
  <2>1. sent' = sent \cup aborts \/ sent' = sent
    BY <1>5 DEF Leave
  <2>2. \A i \in DOMAIN s.acts : s.acts[i].do = "Send" => s.acts[i].msg.kind = "Abort"
    <3> DEFINE m == machine[k]
               a == Send(Reply("Abort", m.phase.nonce))
               b == Restore(m.phase.headphone)
               c == Report("Failed")
    <3>1. a.msg.kind = "Abort" /\ b.do # "Send" /\ c.do # "Send"
      BY SendFields DEF Reply
    <3>2. s.acts = <<>> \/ s.acts = <<a, b, c>>
      BY DEF on_audio_failed, Ignored, Step
    <3> HIDE DEF a, b, c, s
    <3>3. \A i \in DOMAIN <<a, b, c>> : <<a, b, c>>[i] \in {a, b, c}
      OBVIOUS
    <3> QED BY <3>1, <3>2, <3>3
  <2> HIDE DEF s
  <2>3. ASSUME NEW h \in Host, NEW n \in Nonce, NEW i \in DOMAIN s.acts, s.acts[i].do = "Send",
               Datagram(h, Reply("Released", n)) = Datagram(k, s.acts[i].msg)
        PROVE  FALSE
    <3>1. Reply("Released", n) = s.acts[i].msg
      BY <2>3 DEF Datagram
    <3>2. Reply("Released", n).kind = "Released"
      BY DEF Reply
    <3> QED BY <2>2, <2>3, <3>1, <3>2
  <2>4. \A h \in Host, n \in Nonce : Datagram(h, Reply("Released", n)) \notin aborts
    BY <2>3
  <2> HIDE DEF aborts
  <2> QED BY <2>1, <2>4 DEF FreedKept, Sent
<1>6. CASE Environment \/ UNCHANGED vars
  BY <1>2, <1>6, QuietSteps
<1>7. ASSUME NEW k \in Host, ApplyStep(k) \/ Worker(k) \/ User(k)
      PROVE  UNCHANGED sent \/ DoSend(k) \/ WorkerControl(k) \/ Leave(k)
  <2>1. ApplyStep(k) => UNCHANGED sent \/ DoSend(k)
    BY DEF ApplyStep, DoConnectAudio, DoDisconnectAudio, DoSuppress, DoRestore,
           DoSendHeadsetDisconnect, DoPause, DoReport
  <2>2. Worker(k) => UNCHANGED sent \/ WorkerControl(k)
    BY DEF Worker, WorkerTick, WorkerRefresh
  <2>3. User(k) => UNCHANGED sent \/ Leave(k)
    BY CallingEffect DEF User, ClaimAt, AdoptHeadset, SetControlAddress
  <2> QED BY <1>7, <2>1, <2>2, <2>3
<1> QED BY <1>2, <1>3, <1>4, <1>5, <1>6, <1>7, ActorOrQuiet

\* Time passes on its own.
LEMMA ClockMove ==
  ASSUME TypeOK, [Next]_vars
  PROVE  now' = now \/ UNCHANGED <<machine, asked, ticket, sent>>
<1>1. CASE Environment \/ UNCHANGED vars
  BY <1>1, QuietSteps
<1>2. ASSUME NEW k \in Host, ApplyStep(k) \/ Worker(k) \/ User(k)
      PROVE  now' = now
  <2>1. CASE ApplyStep(k)
    BY <2>1, ApplyEffect
  <2>2. CASE Worker(k)
    BY <2>2 DEF Worker, WorkerControl, WorkerTick, WorkerRefresh
  <2>3. CASE User(k)
    BY <2>3, CallingEffect DEF User, ClaimAt, AdoptHeadset, SetControlAddress, Leave
  <2> QED BY <1>2, <2>1, <2>2, <2>3
<1> QED BY <1>1, <1>2, ActorOrQuiet

\* What the promise sees of the releases and the clocks in a step that changes
\* neither.
LEMMA RestKept ==
  ASSUME FreedKept, now' = now
  PROVE  /\ \A x \in Nonce : {k \in Host : Sent(k, "Released", x)}' =
                             {k \in Host : Sent(k, "Released", x)}
         /\ \A k \in Host : Clock(k)' = Clock(k)
BY DEF FreedKept, Clock

LEMMA PromiseAsk ==
  ASSUME NEW n \in Nonce, NEW h \in Host, Asked(n, h), FreedKept, now' = now
  PROVE  Promise!Ask(n, h)
<1>1. /\ stageOf(n) = "fresh" /\ stageOf(n)' = "asked" /\ askerOf(n)' = h
      /\ dueOf(n)' \in Clock(h) .. MaxClock
  BY DEF Asked, OnlyStage
<1>2. \A x \in Nonce \ {n} : /\ stageOf(x)' = stageOf(x) /\ askerOf(x)' = askerOf(x)
                             /\ dueOf(x)' = dueOf(x)
  BY DEF Asked, OnlyStage, Kept, SameTerms
<1> QED BY <1>1, <1>2, RestKept DEF Promise!Ask

LEMMA PromiseRefuse ==
  ASSUME NEW n \in Nonce, Refused(n), FreedKept, now' = now
  PROVE  Promise!Refuse(n)
<1>1. /\ stageOf(n) = "asked" /\ stageOf(n)' = "fresh" /\ askerOf(n)' = NoHost
      /\ dueOf(n)' = 0
  BY DEF Refused, OnlyStage
<1>2. \A x \in Nonce \ {n} : /\ stageOf(x)' = stageOf(x) /\ askerOf(x)' = askerOf(x)
                             /\ dueOf(x)' = dueOf(x)
  BY DEF Refused, OnlyStage, Kept, SameTerms
<1> QED BY <1>1, <1>2, RestKept DEF Promise!Refuse

\* The stage of n alone changes; who asked for what until when stays.
LEMMA TermsStay ==
  ASSUME NEW n \in Nonce, NEW from, NEW to, OnlyStage(n, from, to), SameTerms(n)
  PROVE  /\ stageOf(n)' = to /\ \A x \in Nonce \ {n} : stageOf(x)' = stageOf(x)
         /\ \A x \in Nonce : askerOf(x)' = askerOf(x) /\ dueOf(x)' = dueOf(x)
BY DEF OnlyStage, Kept, SameTerms

LEMMA PromiseBegin ==
  ASSUME NEW n \in Nonce, Begun(n), FreedKept, now' = now
  PROVE  Promise!Begin(n)
<1>1. /\ stageOf(n) = "asked" /\ stageOf(n)' = "waiting"
      /\ \A x \in Nonce \ {n} : stageOf(x)' = stageOf(x)
  BY DEF Begun, OnlyStage, Kept
<1>2. \A x \in Nonce : askerOf(x)' = askerOf(x) /\ dueOf(x)' = dueOf(x)
  BY TermsStay DEF Begun
<1> QED BY <1>1, <1>2, RestKept DEF Promise!Begin

LEMMA PromiseConnect ==
  ASSUME NEW n \in Nonce, Connected(n), FreedKept, now' = now
  PROVE  Promise!Connect(n)
<1>1. /\ stageOf(n) = "waiting" /\ stageOf(n)' = "connecting"
      /\ \A x \in Nonce \ {n} : stageOf(x)' = stageOf(x)
  BY DEF Connected, OnlyStage, Kept
<1>2. \A x \in Nonce : askerOf(x)' = askerOf(x) /\ dueOf(x)' = dueOf(x)
  BY TermsStay DEF Connected
<1>3. /\ askerOf(n) \in Host
      /\ \/ \E k \in Host : Sent(k, "Released", n)
         \/ Clock(askerOf(n)) >= dueOf(n)
  BY DEF Connected
<1> QED BY <1>1, <1>2, <1>3, RestKept DEF Promise!Connect

LEMMA PromiseFinish ==
  ASSUME NEW n \in Nonce, Finished(n), FreedKept, now' = now
  PROVE  Promise!Finish(n)
<1>1. /\ stageOf(n) \in {"waiting", "connecting"} /\ stageOf(n)' = "over"
      /\ \A x \in Nonce \ {n} : stageOf(x)' = stageOf(x)
  BY DEF Finished, OnlyStage, Kept
<1>2. \A x \in Nonce : askerOf(x)' = askerOf(x) /\ dueOf(x)' = dueOf(x)
  BY TermsStay DEF Finished
<1> QED BY <1>1, <1>2, RestKept DEF Promise!Finish

LEMMA PromiseLetGo ==
  ASSUME NEW n \in Nonce, NEW h \in Host, Announced(n, h)
  PROVE  Promise!LetGo(n, h)
<1>1. /\ machine' = machine /\ asked' = asked /\ ticket' = ticket /\ now' = now
      /\ ticket[n].by # NoHost /\ ticket[n].by # h
  BY DEF Announced
<1>2. \A x \in Nonce : /\ stageOf(x)' = stageOf(x) /\ askerOf(x)' = askerOf(x)
                       /\ dueOf(x)' = dueOf(x)
  BY <1>1, StageStays DEF Kept, SameTerms
<1>3. stageOf(n) \notin {"fresh", "asked"} /\ askerOf(n) # h
  BY <1>1, StageCases DEF StageIn
<1>4. \A x \in Nonce, k \in Host :
         Sent(k, "Released", x)' <=> Sent(k, "Released", x) \/ (x = n /\ k = h)
  <2>1. \A x \in Nonce, k \in Host :
           Datagram(k, Reply("Released", x)) = Datagram(h, Reply("Released", n)) <=> x = n /\ k = h
    BY DEF Datagram, Reply
  <2> QED BY <2>1 DEF Announced, Sent
<1>5. \A k \in Host : Clock(k)' = Clock(k)
  BY <1>1 DEF Clock
<1> QED BY <1>2, <1>3, <1>4, <1>5 DEF Promise!LetGo

LEMMA PromiseStep ==
  ASSUME ProvenanceInv, [Next]_vars
  PROVE  [Promise!Next]_(Promise!vars)
<1>1. TypeOK /\ StageMove
  BY SomeStage DEF ProvenanceInv
<1>2. ASSUME NEW n \in Nonce, NEW h \in Host, Announced(n, h)
      PROVE  Promise!Next
  BY <1>2, PromiseLetGo DEF Promise!Next
<1>3. ASSUME FreedKept, now' = now
      PROVE  [Promise!Next]_(Promise!vars)
  <2>1. CASE StagesKept
    <3>1. \A n \in Nonce : /\ stageOf(n)' = stageOf(n) /\ askerOf(n)' = askerOf(n)
                           /\ dueOf(n)' = dueOf(n)
      BY <2>1 DEF StagesKept, Kept, SameTerms
    <3> QED BY <1>3, <3>1, RestKept DEF Promise!vars
  <2>2. ASSUME NEW n \in Nonce, Refused(n) \/ Begun(n) \/ Connected(n) \/ Finished(n)
        PROVE  Promise!Next
    BY <1>3, <2>2, PromiseRefuse, PromiseBegin, PromiseConnect, PromiseFinish
       DEF Promise!Next
  <2>3. ASSUME NEW n \in Nonce, NEW h \in Host, Asked(n, h)
        PROVE  Promise!Next
    BY <1>3, <2>3, PromiseAsk DEF Promise!Next
  <2> QED BY <1>1, <2>1, <2>2, <2>3 DEF StageMove
<1>4. ASSUME UNCHANGED <<machine, asked, ticket, sent>>
      PROVE  Promise!Next
  <2>1. \A n \in Nonce : /\ stageOf(n)' = stageOf(n) /\ askerOf(n)' = askerOf(n)
                         /\ dueOf(n)' = dueOf(n)
    BY <1>4, StageStays DEF Kept, SameTerms
  <2>2. \A n \in Nonce, k \in Host : Sent(k, "Released", n)' <=> Sent(k, "Released", n)
    BY <1>4 DEF Sent
  <2>3. \A k \in Host : /\ Clock(k)' \in 0 .. MaxClock /\ Clock(k)' >= Clock(k)
    <3>1. \A k \in Host : Clock(k) \in Time /\ Clock(k)' \in Time /\ Clock(k) <= Clock(k)'
      BY <1>1, TimeForward
    <3>2. Time \subseteq Int
      BY ClockAssumption DEF Time
    <3> QED BY <3>1, <3>2 DEF Time
  <2>4. Promise!TimePasses
    BY <2>1, <2>2, <2>3 DEF Promise!TimePasses
  <2> QED BY <2>4 DEF Promise!Next
<1> QED BY <1>1, <1>2, <1>3, <1>4, FreedMove, ClockMove

\* Whatever the network, the platforms and the clocks do, a claimant connects
\* its audio only after somebody else has announced, for this handoff, that it
\* let go, or after the deadline of its request, and what is over stays over
\* (handoff.rs, on_released and tick; group.rs, claim_at): the hubs implement
\* HandoffPromise.
THEOREM PromiseHolds == Spec => PromiseKept
<1>1. Init => Promise!Init
  <2> SUFFICES ASSUME Init
               PROVE  Promise!Init
    OBVIOUS
  <2>1. \A n \in Nonce : askerOf(n) = NoHost /\ dueOf(n) = 0 /\ stageOf(n) = "fresh"
    BY StageCases DEF Init, NoClaim
  <2>2. \A n \in Nonce, h \in Host : ~Sent(h, "Released", n)
    BY DEF Init, Sent
  <2>3. \A h \in Host : Clock(h) \in 0 .. MaxClock
    BY InitType, ClockType DEF Time
  <2> QED BY <2>1, <2>2, <2>3 DEF Promise!Init
<1>2. ProvenanceInv /\ [Next]_vars => [Promise!Next]_(Promise!vars)
  BY PromiseStep
<1> QED BY <1>1, <1>2, ProvenanceInvariant, PTL DEF Spec, PromiseKept, Promise!Spec

-----------------------------------------------------------------------------
(* Suppressions are undone *)

\* Messages are sent and restorations succeed; any other call may fail.
Dependable == Faults \cap {"send", "restore"} = {}

\* The queue of a handoff that was given up still restores hp.
Undoing(q, hp) ==
  \/ \E n \in Nonce : q = <<Send(Reply("Abort", n)), Restore(hp), Report("Failed")>>
  \/ q = <<Restore(hp), Report("Failed")>>
  \/ q = <<Report("Failed"), Restore(hp)>>
  \/ q = <<Restore(hp)>>

\* Every recorded suppression belongs to a handoff that is over because of a
\* Taken, to the release in progress, or to one that is being undone.
MutePlan(h) ==
  \A hp \in op[h].suppressed :
     \/ TakenOver(h, hp)
     \/ phase(h).kind = "Releasing" /\ phase_mac(h) = hp
     \/ Undoing(work[h].queue, hp)

\* A release has been asked for, for that very headset.
AskedPlan(h) ==
  phase(h).kind = "Releasing" =>
    \E d \in sent : /\ d.msg.kind = "Request" /\ d.msg.nonce = phase(h).nonce
                    /\ d.msg.headphone = phase_mac(h)

\* Only a release suppresses.
Calm(q) == \A i \in DOMAIN q : q[i].do # "Suppress"
CalmPlan(h) == phase(h).kind # "Releasing" => Calm(work[h].queue)

MutePlans(h) == MutePlan(h) /\ AskedPlan(h) /\ CalmPlan(h)
MuteInv == ProvenanceInv /\ ReleaseInv /\ \A h \in Host : MutePlans(h)

LEMMA CalmLists ==
  ASSUME NEW a, NEW b, NEW c, a.do # "Suppress", b.do # "Suppress", c.do # "Suppress"
  PROVE  Calm(<<>>) /\ Calm(<<a>>) /\ Calm(<<a, b>>) /\ Calm(<<a, b, c>>)
BY DEF Calm

LEMMA CalmRest ==
  ASSUME NEW q \in Seq(Queued), q # <<>>, Calm(q), NEW more \in Seq(Queued), Calm(more)
  PROVE  Calm(more \o Tail(q))
<1>1. \A i \in DOMAIN Tail(q) : i + 1 \in DOMAIN q /\ Tail(q)[i] = q[i + 1]
  OBVIOUS
<1>2. Tail(q) \in Seq(Queued) /\ Calm(Tail(q))
  BY <1>1 DEF Calm
<1> DEFINE p == Tail(q)
<1> HIDE DEF p
<1>3. p \in Seq(Queued) /\ Calm(p)
  BY <1>2 DEF p
<1>4. \A i \in DOMAIN (more \o p) :
         \/ i \in DOMAIN more /\ (more \o p)[i] = more[i]
         \/ i - Len(more) \in DOMAIN p /\ (more \o p)[i] = p[i - Len(more)]
  BY <1>3
<1>5. Calm(more \o p)
  BY <1>3, <1>4 DEF Calm
<1> QED BY <1>5 DEF p

\* What is at the head of the queue that undoes, and what comes after it.
LEMMA UndoingHeads ==
  ASSUME NEW q, NEW hp \in Headset, Undoing(q, hp)
  PROVE  /\ q # <<>>
         /\ \/ Head(q).do = "Send" /\ Undoing(<<>> \o Tail(q), hp)
            \/ Head(q).do = "Restore" /\ Head(q).mac = hp
            \/ Head(q).do = "Report" /\ Undoing(<<>> \o Tail(q), hp)
<1> DEFINE r == Restore(hp)
           f == Report("Failed")
<1>1. r \in Queued /\ f \in Queued /\ r.do = "Restore" /\ r.mac = hp /\ f.do = "Report"
  BY ActionTypes, QueuedActions DEF Progress, Restore, Report
<1>2. ASSUME NEW n \in Nonce, q = <<Send(Reply("Abort", n)), r, f>>
      PROVE  q # <<>> /\ Head(q).do = "Send" /\ <<>> \o Tail(q) = <<r, f>>
  <2> DEFINE a == Send(Reply("Abort", n))
  <2>1. a \in Queued /\ a.do = "Send"
    BY MessageTypes, ActionTypes, QueuedActions DEF ReplyKind, Send
  <2> HIDE DEF a, r, f
  <2>2. q = <<a, r, f>>
    BY <1>2 DEF a
  <2> QED BY <1>1, <2>1, <2>2
<1> HIDE DEF r, f
<1>3. q = <<r, f>> => q # <<>> /\ Head(q) = r
  BY <1>1
<1>4. q = <<f, r>> => q # <<>> /\ Head(q) = f /\ <<>> \o Tail(q) = <<r>>
  BY <1>1
<1>5. q = <<r>> => q # <<>> /\ Head(q) = r
  BY <1>1
<1> QED BY <1>1, <1>2, <1>3, <1>4, <1>5 DEF Undoing, r, f

\* A failure undoes a release.
LEMMA FailureUndoes ==
  ASSUME NEW m \in Machine
  PROVE  /\ Calm(on_audio_failed(m).acts)
         /\ m.phase.kind = "Releasing" =>
              on_audio_failed(m).acts # <<>> /\ Undoing(on_audio_failed(m).acts, m.phase.headphone)
<1>1. m.phase.kind = "Idle" => on_audio_failed(m).acts = <<>>
  BY DEF on_audio_failed, Ignored, Step
<1>2. CASE m.phase.kind # "Idle"
  <2> DEFINE a == Send(Reply("Abort", m.phase.nonce))
             b == Restore(m.phase.headphone)
             c == Report("Failed")
             acts == on_audio_failed(m).acts
  <2>1. acts = <<a, b, c>>
    BY <1>2 DEF on_audio_failed, Step
  <2>2. m.phase.nonce \in Nonce
    BY <1>2, PhaseCases
  <2>3. Undoing(acts, m.phase.headphone)
    BY <2>1, <2>2 DEF Undoing
  <2>4. a.do # "Suppress" /\ b.do # "Suppress" /\ c.do # "Suppress"
    BY DEF Send, Restore, Report
  <2> HIDE DEF a, b, c, acts
  <2>5. Calm(acts) /\ acts # <<>>
    BY <2>1, <2>4, CalmLists
  <2> QED BY <2>3, <2>5 DEF acts
<1>3. Calm(<<>>)
  BY DEF Calm
<1> QED BY <1>1, <1>2, <1>3

\* So does the end of its time,
LEMMA TickUndoes ==
  ASSUME NEW m \in Machine, NEW t \in Time, NEW r, r = tick(m, t)
  PROVE  /\ Calm(r.acts)
         /\ m.phase.kind = "Releasing" => r = Ignored(m) \/ Undoing(r.acts, m.phase.headphone)
<1>1. m.phase.kind \in HandoffKind \cup {"Idle"} /\ m.phase.at \in Nat /\ t \in Nat
  BY PhaseCases, ClockAssumption DEF Idle, Time
<1>2. /\ r \in {Ignored(m), StartConnecting(m), fallback_or_fail(m, t), on_audio_failed(m)}
      /\ m.phase.kind = "Releasing" => r = Ignored(m) \/ r = on_audio_failed(m)
  BY <1>1 DEF tick, HandoffKind
<1>3. Calm(StartConnecting(m).acts) /\ Calm(fallback_or_fail(m, t).acts) /\ Calm(Ignored(m).acts)
  BY DEF Calm, StartConnecting, fallback_or_fail, Ignored, Step, ConnectAudio,
         SendHeadsetDisconnect, Report
<1> QED BY <1>2, <1>3, FailureUndoes

\* and so does every message that ends it, but Taken.
LEMMA MessageUndoes ==
  ASSUME NEW m \in Machine, NEW msg \in Message, NEW t \in Time, NEW r,
         r = on_message(m, msg, t)
  PROVE  /\ Calm(r.acts) \/ r.m.phase.kind = "Releasing"
         /\ m.phase.kind = "Releasing" =>
              \/ r.m.phase = m.phase
              \/ msg = Reply("Taken", m.phase.nonce)
              \/ Undoing(r.acts, m.phase.headphone)
<1>1. msg.kind \in ReplyKind \cup {"Request"} /\ "Request" \notin ReplyKind
  BY DEF Message, ReplyKind
<1>2. Calm(<<>>)
  BY DEF Calm
<1>3. CASE msg.kind = "Request"
  <2>1. msg.deadline \in Nat /\ t \in Nat
    BY <1>3, ClockAssumption DEF Message, ReplyKind, Time
  <2>2. r = on_request(m, msg, t)
    BY <1>3 DEF on_message
  <2> DEFINE p == Releasing(msg.nonce, msg.headphone, release_deadline(msg, t))
  <2>3. \/ r = Ignored(m)
        \/ r = Step(m, <<Send(Reply("Busy", msg.nonce))>>)
        \/ r = Step(m, <<Send(Reply("NoAudio", msg.nonce))>>)
        \/ r = Step(Enter(m, p), release_actions(msg)) /\ m.phase.kind = "Idle"
    BY <2>1, <2>2 DEF on_request
  <2>4. p.kind = "Releasing"
    BY DEF Releasing
  <2> HIDE DEF p
  <2>5. Enter(m, p).phase.kind = "Releasing"
    BY <2>4 DEF Enter, Machine
  <2>6. Calm(<<Send(Reply("Busy", msg.nonce))>>) /\ Calm(<<Send(Reply("NoAudio", msg.nonce))>>)
    BY DEF Calm, Send
  <2> QED BY <1>2, <2>3, <2>5, <2>6 DEF Ignored, Step
<1>4. CASE msg.kind \in {"HasAudio", "NoAudio", "Released", "Busy"}
  <2>1. /\ Calm(on_peer_has_audio(m, msg.nonce).acts) /\ Calm(on_no_audio(m, msg.nonce).acts)
        /\ Calm(on_released(m, msg.nonce).acts) /\ Calm(on_busy(m, msg.nonce).acts)
    BY DEF Calm, on_peer_has_audio, on_no_audio, on_released, on_busy, StartConnecting, Ignored,
           Step, ConnectAudio, Report
  <2>2. m.phase.kind = "Releasing" => r = Ignored(m)
    BY <1>4 DEF on_message, on_peer_has_audio, on_no_audio, on_released, on_busy
  <2> QED BY <1>4, <2>1, <2>2 DEF on_message, Ignored, Step
<1>5. CASE msg.kind = "Taken"
  <2>1. Calm(on_taken(m, msg.nonce).acts)
    BY <1>2 DEF on_taken, Ignored, Step
  <2>2. m.phase.kind = "Releasing" => r = Ignored(m) \/ msg = Reply("Taken", m.phase.nonce)
    BY <1>5 DEF on_message, on_taken, nonce_matches, Message, Reply, ReplyKind
  <2> QED BY <1>5, <2>1, <2>2 DEF on_message, Ignored, Step
<1>6. CASE msg.kind = "Abort"
  <2>1. \/ r = Ignored(m)
        \/ r.acts = <<Report("Failed"), Restore(m.phase.headphone)>>
    BY <1>6 DEF on_message, on_abort, Step
  <2>2. Calm(<<Report("Failed"), Restore(m.phase.headphone)>>)
    BY DEF Calm, Report, Restore
  <2> QED BY <1>2, <2>1, <2>2 DEF Undoing, Ignored, Step
<1> QED BY <1>1, <1>3, <1>4, <1>5, <1>6 DEF ReplyKind

\* Going on with the loop.
LEMMA LoopGoesOn ==
  ASSUME TypeOK, NEW h \in Host, ~LockFree(h), NEW more \in Seq(Queued), Calm(more), NEW failed,
         Proceed(h, more, failed)
  PROVE  /\ work'[h].queue = more \o Tail(work[h].queue)
         /\ Calm(work[h].queue) => Calm(work'[h].queue)
<1> DEFINE q == work[h].queue
           rest == more \o Tail(q)
<1>1. work \in [Host -> Work] /\ q \in Seq(Queued) /\ q # <<>>
  BY DEF TypeOK, Work, LockFree
<1>2. work' = [work EXCEPT ![h] = [queue |-> rest, failed |-> failed /\ rest # <<>>]]
  BY DEF Proceed
<1>3. Calm(q) => Calm(rest)
  <2> HIDE DEF q
  <2> QED BY <1>1, CalmRest
<1> HIDE DEF rest
<1>4. work'[h].queue = rest
  BY <1>1, <1>2
<1> QED BY <1>3, <1>4 DEF rest

\* Failing an action ends a release by undoing it.
LEMMA FailMutes ==
  ASSUME TypeOK, NEW h \in Host, ReleasePlan(h), CalmPlan(h), ~LockFree(h), NEW m \in Machine,
         m.phase = machine[h].phase, FailAction(h, m)
  PROVE  /\ machine'[h].phase.kind # "Releasing"
         /\ CalmPlan(h)'
         /\ phase(h).kind = "Releasing" => Undoing(work'[h].queue, phase_mac(h))
<1>1. machine \in [Host -> Machine] /\ work \in [Host -> Work]
  BY DEF TypeOK
<1>2. machine'[h].phase.kind # "Releasing"
  BY FailRelease
<1>3. CASE work[h].failed
  <2>1. phase(h).kind # "Releasing"
    BY <1>3 DEF ReleasePlan
  <2>2. <<>> \in Seq(Queued) /\ Calm(<<>>)
    BY EmptySeq DEF Calm
  <2>3. Calm(work'[h].queue)
    BY <1>3, <2>1, <2>2, LoopGoesOn DEF FailAction, CalmPlan
  <2> QED BY <1>2, <2>1, <2>3 DEF CalmPlan
<1>4. CASE ~work[h].failed
  <2> DEFINE s == on_audio_failed(m)
             queue == IF s.acts = <<>> THEN <<Report("Failed")>> ELSE s.acts
  <2>1. Calm(s.acts) /\ (m.phase.kind = "Releasing" =>
                           s.acts # <<>> /\ Undoing(s.acts, m.phase.headphone))
    BY FailureUndoes
  <2>2. Calm(<<Report("Failed")>>)
    BY DEF Calm, Report
  <2>3. Calm(queue) /\ (m.phase.kind = "Releasing" => Undoing(queue, m.phase.headphone))
    <3> HIDE DEF s
    <3> QED BY <2>1, <2>2
  <2>4. work' = [work EXCEPT ![h] = [queue |-> queue, failed |-> TRUE]]
    BY <1>4 DEF FailAction
  <2> HIDE DEF queue
  <2>5. work'[h].queue = queue
    BY <1>1, <2>4
  <2> QED BY <1>2, <2>3, <2>5 DEF CalmPlan, phase, phase_mac
<1> QED BY <1>3, <1>4

\* A takeover cannot be unsaid, nor can a request.
LEMMA TakenStays ==
  ASSUME [Next]_vars, NEW h \in Host
  PROVE  \A hp : TakenOver(h, hp) => TakenOver(h, hp)'
BY SentGrows DEF TakenOver, Sent

LEMMA AskedStays ==
  ASSUME [Next]_vars, NEW h \in Host, AskedPlan(h),
         machine'[h].phase = machine[h].phase \/ machine'[h].phase.kind # "Releasing"
  PROVE  AskedPlan(h)'
<1>1. CASE machine'[h].phase.kind # "Releasing"
  BY <1>1 DEF AskedPlan, phase
<1>2. CASE machine'[h].phase = machine[h].phase
  BY <1>2, SentGrows DEF AskedPlan, phase, phase_mac
<1> QED BY <1>1, <1>2

\* A step that records no new suppression and neither ends a release nor moves
\* the loop of a host.
LEMMA MuteStays ==
  ASSUME [Next]_vars, NEW h \in Host, MutePlans(h),
         op'[h].suppressed \subseteq op[h].suppressed,
         machine'[h].phase = machine[h].phase, work'[h] = work[h]
  PROVE  MutePlans(h)'
<1>1. AskedPlan(h)'
  BY AskedStays DEF MutePlans
<1>2. CalmPlan(h)'
  BY DEF MutePlans, CalmPlan, phase
<1>3. MutePlan(h)'
  BY TakenStays DEF MutePlans, MutePlan, phase, phase_mac
<1> QED BY <1>1, <1>2, <1>3 DEF MutePlans

LEMMA LiftedRecord ==
  ASSUME TypeOK, NEW h \in Host, NEW o \in OperationState, o.suppressed = op[h].suppressed,
         NEW x, NEW ok, LiftSuppression(h, o, x, ok)
  PROVE  /\ op'[h].suppressed \subseteq op[h].suppressed
         /\ ok => x \notin op'[h].suppressed
         /\ ok \/ "restore" \in Faults
<1>1. op \in [Host -> OperationState]
  BY DEF TypeOK
<1>2. CASE x \in o.suppressed /\ ok
  <2>1. op'[h].suppressed = o.suppressed \ {x}
    BY <1>1, <1>2 DEF LiftSuppression, OperationState
  <2> QED BY <1>2, <2>1
<1>3. CASE ~(x \in o.suppressed /\ ok)
  <2>1. op'[h] = o
    BY <1>1, <1>3 DEF LiftSuppression
  <2> QED BY <1>3, <2>1 DEF LiftSuppression
<1> QED BY <1>2, <1>3

\* A turn of the loop that fails, not being one of those that undo a release.
LEMMA FailedTurn ==
  ASSUME TypeOK, [Next]_vars, NEW h \in Host, ReleasePlan(h), MutePlans(h), ~LockFree(h),
         Head(work[h].queue).do \notin {"Send", "Restore", "Report"},
         NEW m \in Machine, m.phase = machine[h].phase, FailAction(h, m),
         \A hp \in op'[h].suppressed :
            hp \in op[h].suppressed \/ (phase(h).kind = "Releasing" /\ phase_mac(h) = hp)
  PROVE  MutePlans(h)'
<1>1. /\ machine'[h].phase.kind # "Releasing" /\ CalmPlan(h)'
      /\ phase(h).kind = "Releasing" => Undoing(work'[h].queue, phase_mac(h))
  BY FailMutes DEF MutePlans
<1>2. AskedPlan(h)'
  BY <1>1, AskedStays DEF MutePlans
<1>3. ASSUME NEW hp \in op'[h].suppressed
      PROVE  TakenOver(h, hp)' \/ Undoing(work'[h].queue, hp)
  <2>1. CASE phase(h).kind = "Releasing" /\ phase_mac(h) = hp
    BY <1>1, <2>1
  <2>2. CASE hp \in op[h].suppressed /\ ~(phase(h).kind = "Releasing" /\ phase_mac(h) = hp)
    <3>1. hp \in Headset
      BY <2>2 DEF TypeOK, OperationState
    <3>2. ~Undoing(work[h].queue, hp)
      BY <3>1, UndoingHeads
    <3>3. TakenOver(h, hp)
      BY <2>2, <3>2 DEF MutePlans, MutePlan
    <3> QED BY <3>3, TakenStays
  <2> QED BY <2>1, <2>2
<1>4. MutePlan(h)'
  BY <1>3 DEF MutePlan
<1> QED BY <1>1, <1>2, <1>4 DEF MutePlans

\* A turn of the loop that succeeds.
LEMMA TurnGoesOn ==
  ASSUME TypeOK, [Next]_vars, NEW h \in Host, MutePlans(h), ~LockFree(h),
         NEW more \in Seq(Queued), Calm(more), NEW failed, Proceed(h, more, failed),
         \/ machine'[h].phase = machine[h].phase
         \/ phase(h).kind # "Releasing" /\ machine'[h].phase.kind # "Releasing",
         \A hp \in op'[h].suppressed :
            hp \in op[h].suppressed \/ (phase(h).kind = "Releasing" /\ phase_mac(h) = hp),
         Head(work[h].queue).do \in {"Send", "Report"} => more = <<>>,
         Head(work[h].queue).do = "Restore" => Head(work[h].queue).mac \notin op'[h].suppressed
  PROVE  MutePlans(h)'
<1>1. /\ work'[h].queue = more \o Tail(work[h].queue)
      /\ Calm(work[h].queue) => Calm(work'[h].queue)
  BY LoopGoesOn
<1>2. CalmPlan(h)'
  BY <1>1 DEF MutePlans, CalmPlan, phase
<1>3. AskedPlan(h)'
  BY AskedStays DEF MutePlans
<1>4. ASSUME NEW hp \in op'[h].suppressed
      PROVE  \/ TakenOver(h, hp)'
             \/ machine'[h].phase.kind = "Releasing" /\ machine'[h].phase.headphone = hp
             \/ Undoing(work'[h].queue, hp)
  <2>1. CASE phase(h).kind = "Releasing" /\ phase_mac(h) = hp
    BY <2>1 DEF phase, phase_mac
  <2>2. CASE hp \in op[h].suppressed /\ ~(phase(h).kind = "Releasing" /\ phase_mac(h) = hp)
    <3>1. CASE TakenOver(h, hp)
      BY <3>1, TakenStays
    <3>2. CASE Undoing(work[h].queue, hp)
      <4>1. hp \in Headset
        BY <2>2 DEF TypeOK, OperationState
      <4>2. Undoing(<<>> \o Tail(work[h].queue), hp) /\ more = <<>>
        BY <3>2, <4>1, UndoingHeads
      <4> QED BY <1>1, <4>2
    <3> QED BY <2>2, <3>1, <3>2 DEF MutePlans, MutePlan
  <2> QED BY <2>1, <2>2
<1>5. MutePlan(h)'
  BY <1>4 DEF MutePlan, phase, phase_mac
<1> QED BY <1>2, <1>3, <1>5 DEF MutePlans

LEMMA SendMutes ==
  ASSUME TypeOK, Dependable, [Next]_vars, NEW h \in Host, MutePlans(h), DoSend(h)
  PROVE  MutePlans(h)'
<1>1. "send" \notin Faults
  BY DEF Dependable
<1>2. /\ ~LockFree(h) /\ Head(work[h].queue).do = "Send" /\ op' = op /\ machine' = machine
      /\ Proceed(h, <<>>, work[h].failed)
  BY <1>1 DEF DoSend, Doing, hubState
<1>3. <<>> \in Seq(Queued) /\ Calm(<<>>)
  BY EmptySeq DEF Calm
<1> QED BY <1>2, <1>3, TurnGoesOn

LEMMA ReportPauseMutes ==
  ASSUME TypeOK, [Next]_vars, NEW h \in Host, MutePlans(h), DoReport(h) \/ DoPause(h)
  PROVE  MutePlans(h)'
<1>1. PICK failed : /\ ~LockFree(h) /\ Head(work[h].queue).do \in {"Report", "Pause"} /\ op' = op
                    /\ machine' = machine /\ Proceed(h, <<>>, failed)
  BY DEF DoReport, DoPause, Doing, hubState
<1>2. <<>> \in Seq(Queued) /\ Calm(<<>>)
  BY EmptySeq DEF Calm
<1> QED BY <1>1, <1>2, TurnGoesOn

\* A restoration is what takes a headset off the record.
LEMMA RestoreMutes ==
  ASSUME TypeOK, Dependable, [Next]_vars, NEW h \in Host, MutePlans(h), DoRestore(h)
  PROVE  MutePlans(h)'
<1>1. "restore" \notin Faults /\ op[h] \in OperationState
  BY DEF Dependable, TypeOK
<1>2. ~LockFree(h) /\ Head(work[h].queue).do = "Restore"
  BY DEF DoRestore, Doing
<1>3. ~LiftSuppression(h, op[h], Target(h), FALSE)
  BY <1>1 DEF LiftSuppression
<1>4. /\ LiftSuppression(h, op[h], Target(h), TRUE) /\ machine' = machine
      /\ Proceed(h, <<>>, work[h].failed)
  BY <1>3 DEF DoRestore
<1>5. op'[h].suppressed \subseteq op[h].suppressed /\ Target(h) \notin op'[h].suppressed
  BY <1>1, <1>4, LiftedRecord
<1>6. <<>> \in Seq(Queued) /\ Calm(<<>>)
  BY EmptySeq DEF Calm
<1> QED BY <1>2, <1>4, <1>5, <1>6, TurnGoesOn DEF Target

LEMMA SuppressMutes ==
  ASSUME TypeOK, [Next]_vars, NEW h \in Host, ReleasePlan(h), MutePlans(h), DoSuppress(h)
  PROVE  MutePlans(h)'
<1>1. /\ ~LockFree(h) /\ Head(work[h].queue).do = "Suppress" /\ machine[h] \in Machine
      /\ op \in [Host -> OperationState]
  BY DEF DoSuppress, Doing, TypeOK
<1>2. phase(h).kind = "Releasing"
  <2>1. 1 \in DOMAIN work[h].queue /\ work[h].queue[1] = Head(work[h].queue)
    BY <1>1 DEF LockFree, TypeOK, Work
  <2> QED BY <1>1, <2>1 DEF MutePlans, CalmPlan, Calm
<1>3. Target(h) = phase_mac(h)
  BY <1>1, <1>2, ReleaseTurns DEF Doing
<1>4. op'[h].suppressed \subseteq op[h].suppressed \cup {phase_mac(h)}
  <2>1. \/ op' = op
        \/ op' = [op EXCEPT ![h].suppressed = @ \cup {Target(h)}]
        \/ op' = [op EXCEPT ![h].suppressed = @ \ {Target(h)}]
    BY DEF DoSuppress
  <2> QED BY <1>1, <1>3, <2>1 DEF OperationState
<1>5. CASE FailAction(h, machine[h])
  BY <1>1, <1>2, <1>4, <1>5, FailedTurn
<1>6. CASE Proceed(h, <<>>, work[h].failed) /\ UNCHANGED machine
  <2>1. <<>> \in Seq(Queued) /\ Calm(<<>>)
    BY EmptySeq DEF Calm
  <2> QED BY <1>1, <1>2, <1>4, <1>6, <2>1, TurnGoesOn
<1> QED BY <1>5, <1>6 DEF DoSuppress

LEMMA DisconnectMutes ==
  ASSUME TypeOK, [Next]_vars, NEW h \in Host, ReleasePlan(h), MutePlans(h), DoDisconnectAudio(h)
  PROVE  MutePlans(h)'
<1>1. /\ ~LockFree(h) /\ Head(work[h].queue).do = "DisconnectAudio" /\ machine[h] \in Machine
      /\ machine \in [Host -> Machine] /\ op' = op
  BY DEF DoDisconnectAudio, Doing, TypeOK
<1>2. CASE FailAction(h, machine[h])
  BY <1>1, <1>2, FailedTurn
<1> DEFINE m == WithHolding(h, NoHeadset)
           s == on_audio_disconnected(m)
<1>3. CASE machine' = [machine EXCEPT ![h] = s.m] /\ Proceed(h, s.acts, work[h].failed)
  <2>1. m \in Machine /\ m.phase = machine[h].phase
    <3>1. NoHeadset \in Headset \cup {NoHeadset}
      OBVIOUS
    <3> QED BY <3>1, WithHoldingType, WithHoldingEffect
  <2> HIDE DEF m
  <2>2. s.m.phase = machine[h].phase /\ s.acts \in Seq(Action)
    BY <2>1, AudioResults, AudioDisconnectedType DEF StepType
  <2>3. Calm(s.acts)
    BY DEF Calm, on_audio_disconnected, Ignored, Step, Send
  <2> HIDE DEF s
  <2>4. machine'[h].phase = machine[h].phase /\ s.acts \in Seq(Queued)
    BY <1>1, <1>3, <2>2, QueuedActions
  <2> QED BY <1>1, <1>3, <2>3, <2>4, TurnGoesOn
<1> QED BY <1>2, <1>3 DEF DoDisconnectAudio

LEMMA HeadsetDisconnectMutes ==
  ASSUME TypeOK, [Next]_vars, NEW h \in Host, ReleasePlan(h), MutePlans(h),
         DoSendHeadsetDisconnect(h)
  PROVE  MutePlans(h)'
<1>1. /\ ~LockFree(h) /\ Head(work[h].queue).do = "SendHeadsetDisconnect" /\ op' = op
      /\ machine[h] \in Machine
  BY DEF DoSendHeadsetDisconnect, Doing, hubState, TypeOK
<1>2. CASE FailAction(h, machine[h])
  BY <1>1, <1>2, FailedTurn
<1>3. CASE Proceed(h, CdGap(h), work[h].failed) /\ UNCHANGED machine
  <2>1. saturating_add(Clock(h), ConnectGap) \in Time
    BY ClockType, LaterTypes
  <2>2. CdGap(h) \in Seq(Queued) /\ Calm(CdGap(h))
    BY <2>1 DEF CdGap, Pause, Queued, Calm
  <2> QED BY <1>1, <1>3, <2>2, TurnGoesOn
<1> QED BY <1>2, <1>3 DEF DoSendHeadsetDisconnect

LEMMA ConnectMutes ==
  ASSUME TypeOK, [Next]_vars, NEW h \in Host, ReleasePlan(h), MutePlans(h), DoConnectAudio(h)
  PROVE  MutePlans(h)'
<1> DEFINE hp == Target(h)
<1>1. /\ ~LockFree(h) /\ Head(work[h].queue).do = "ConnectAudio" /\ hp \in Headset
      /\ machine[h] \in Machine /\ machine \in [Host -> Machine] /\ op[h] \in OperationState
  BY HeadCases DEF DoConnectAudio, Doing, Target, TypeOK
<1>2. op'[h].suppressed \subseteq op[h].suppressed
  <2>1. \E ok \in BOOLEAN : LiftSuppression(h, op[h], hp, ok)
    BY DEF DoConnectAudio
  <2> QED BY <1>1, <2>1, LiftedRecord
<1>3. phase(h).kind # "Releasing"
  BY <1>1, ReleaseTurns DEF Doing
<1> HIDE DEF hp
<1>4. ASSUME NEW m \in Machine, m.phase = machine[h].phase, FailAction(h, m)
      PROVE  MutePlans(h)'
  BY <1>1, <1>2, <1>4, FailedTurn
<1> DEFINE m == WithHolding(h, hp)
           s == on_audio_connected(m)
<1>5. m \in Machine /\ m.phase = machine[h].phase
  BY <1>1, WithHoldingType, WithHoldingEffect
<1>6. CASE machine' = [machine EXCEPT ![h] = s.m] /\ Proceed(h, s.acts, work[h].failed)
  <2> HIDE DEF m
  <2>1. s.m.phase.kind # "Releasing" /\ s.acts \in Seq(Action)
    <3>1. s.m.phase \in {Idle, m.phase}
      BY <1>5, AudioResults
    <3>2. s.acts \in Seq(Action)
      BY <1>5, AudioConnectedType DEF StepType
    <3> QED BY <1>3, <1>5, <3>1, <3>2 DEF phase, Idle
  <2>2. Calm(s.acts)
    BY DEF Calm, on_audio_connected, Ignored, Step, Send
  <2> HIDE DEF s
  <2>3. machine'[h].phase.kind # "Releasing" /\ s.acts \in Seq(Queued)
    BY <1>1, <1>6, <2>1, QueuedActions
  <2> QED BY <1>1, <1>2, <1>3, <1>6, <2>2, <2>3, TurnGoesOn
<1>7. ASSUME FailAction(h, WithHolding(h, holding'[h])),
             \E seen \in Headset \cup {NoHeadset} : holding' = [holding EXCEPT ![h] = seen]
      PROVE  MutePlans(h)'
  <2>1. PICK seen \in Headset \cup {NoHeadset} : holding' = [holding EXCEPT ![h] = seen]
    BY <1>7
  <2>2. holding'[h] = seen
    BY <2>1 DEF TypeOK
  <2>3. FailAction(h, WithHolding(h, seen))
    BY <1>7, <2>2
  <2> QED BY <1>4, <2>3, WithHoldingType, WithHoldingEffect
<1>8. \/ FailAction(h, machine[h])
      \/ machine' = [machine EXCEPT ![h] = s.m] /\ Proceed(h, s.acts, work[h].failed)
      \/ /\ FailAction(h, WithHolding(h, holding'[h]))
         /\ \E seen \in Headset \cup {NoHeadset} : holding' = [holding EXCEPT ![h] = seen]
  BY <1>1 DEF DoConnectAudio, hp
<1> QED BY <1>1, <1>4, <1>6, <1>7, <1>8

LEMMA ApplyMutes ==
  ASSUME TypeOK, Dependable, [Next]_vars, NEW h \in Host, ReleasePlan(h), MutePlans(h),
         ApplyStep(h)
  PROVE  MutePlans(h)'
BY SendMutes, ConnectMutes, DisconnectMutes, SuppressMutes, RestoreMutes, HeadsetDisconnectMutes,
   ReportPauseMutes DEF ApplyStep

\* With the lock free nothing is being undone.
LEMMA RestingMutes ==
  ASSUME NEW h \in Host, MutePlan(h), LockFree(h), NEW hp \in op[h].suppressed
  PROVE  TakenOver(h, hp) \/ (phase(h).kind = "Releasing" /\ phase_mac(h) = hp)
<1>1. ~Undoing(<<>>, hp)
  BY DEF Undoing
<1> QED BY <1>1 DEF MutePlan, LockFree

\* A control message: only the Taken of another host ends a release without
\* undoing it, and that release was asked for.
LEMMA ControlMutes ==
  ASSUME ProvenanceInv, [Next]_vars, NEW h \in Host, MutePlans(h), WorkerControl(h)
  PROVE  MutePlans(h)'
<1> DEFINE msg == Head(rx[h])
           m == IF msg.kind = "Request" THEN [machine[h] EXCEPT !.hasAudio = TRUE]
                                        ELSE machine[h]
           t == Clock(h)
           r == on_message(m, msg, t)
<1>1. /\ TypeOK /\ LockFree(h) /\ op' = op /\ t \in Time /\ rx[h] # <<>>
      /\ machine \in [Host -> Machine] /\ work \in [Host -> Work]
  BY ClockType DEF ProvenanceInv, WorkerControl, WorkerReady, hubState, TypeOK
<1>2. /\ msg \in Message /\ \E k \in Host \ {h} : msg \in Said(k)
  BY <1>1, HeadFits
<1>3. m \in Machine /\ m.phase = machine[h].phase
  <2>1. machine[h] \in Machine
    BY <1>1
  <2>2. /\ [machine[h] EXCEPT !.hasAudio = TRUE] \in Machine
        /\ [machine[h] EXCEPT !.hasAudio = TRUE].phase = machine[h].phase
    BY <2>1, FlagType DEF Machine
  <2> QED BY <2>1, <2>2
<1>4. CASE UNCHANGED <<machine, work>>
  BY <1>1, <1>4, MuteStays
<1>5. CASE Begin(h, r)
  <2>1. machine'[h] = r.m /\ work'[h].queue = r.acts
    BY <1>1, <1>5 DEF Begin
  <2> HIDE DEF r, m, t, msg
  <2>2. /\ Calm(r.acts) \/ r.m.phase.kind = "Releasing"
        /\ m.phase.kind = "Releasing" =>
             \/ r.m.phase = m.phase
             \/ msg = Reply("Taken", m.phase.nonce)
             \/ Undoing(r.acts, m.phase.headphone)
    BY <1>1, <1>2, <1>3, MessageUndoes DEF r
  <2>3. CalmPlan(h)'
    BY <2>1, <2>2 DEF CalmPlan, phase
  <2>4. AskedPlan(h)'
    <3>1. CASE machine'[h].phase = machine[h].phase \/ machine'[h].phase.kind # "Releasing"
      BY <3>1, AskedStays DEF MutePlans
    <3>2. CASE r.m.phase.kind = "Releasing" /\ r.m.phase # m.phase
      <4>1. /\ msg.kind = "Request"
            /\ r.m.phase.nonce = msg.nonce /\ r.m.phase.headphone = msg.headphone
        <5>1. \/ /\ msg.kind = "Request"
                 /\ r.m.phase.nonce = msg.nonce /\ r.m.phase.headphone = msg.headphone
              \/ msg.kind = "Request" /\ m.phase.kind = "Releasing"
              \/ r = Ignored(m)
          BY <1>1, <1>2, <1>3, <3>2, MessageRelease DEF r
        <5>2. \/ r.m.phase \in {m.phase, Idle}
              \/ m.phase.kind \in {"WaitingRelease", "Idle"}
          BY <1>1, <1>2, <1>3, MessageCourse DEF r
        <5> QED BY <3>2, <5>1, <5>2 DEF Ignored, Step, Idle
      <4>2. PICK k \in Host : Datagram(k, msg) \in sent'
        BY <1>2, SentGrows DEF Said
      <4>3. Datagram(k, msg).msg = msg
        BY DEF Datagram
      <4> QED BY <2>1, <4>1, <4>2, <4>3 DEF AskedPlan, phase, phase_mac
    <3> QED BY <1>3, <2>1, <3>1, <3>2
  <2>5. ASSUME NEW hp \in op'[h].suppressed
        PROVE  \/ TakenOver(h, hp)'
               \/ r.m.phase.kind = "Releasing" /\ r.m.phase.headphone = hp
               \/ Undoing(r.acts, hp)
    <3>1. CASE TakenOver(h, hp)
      BY <3>1, TakenStays
    <3>2. CASE phase(h).kind = "Releasing" /\ phase_mac(h) = hp
      <4>1. m.phase.kind = "Releasing" /\ m.phase.headphone = hp
        BY <1>3, <3>2 DEF phase, phase_mac
      <4>2. CASE msg = Reply("Taken", m.phase.nonce)
        <5>1. m.phase.nonce \in Nonce
          BY <1>3, <4>1, PhaseCases
        <5>2. \E k \in Host \ {h} : Sent(k, "Taken", m.phase.nonce)
          BY <1>2, <4>2 DEF Said, Sent
        <5>3. \E d \in sent : /\ d.msg.kind = "Request" /\ d.msg.nonce = m.phase.nonce
                              /\ d.msg.headphone = hp
          BY <1>3, <3>2 DEF MutePlans, AskedPlan, phase, phase_mac
        <5>4. TakenOver(h, hp)
          BY <5>1, <5>2, <5>3 DEF TakenOver
        <5> QED BY <5>4, TakenStays
      <4> QED BY <2>2, <4>1, <4>2
    <3>3. hp \in op[h].suppressed
      BY <1>1
    <3> QED BY <1>1, <3>1, <3>2, <3>3, RestingMutes DEF MutePlans
  <2>6. MutePlan(h)'
    BY <2>1, <2>5 DEF MutePlan, phase, phase_mac
  <2> QED BY <2>3, <2>4, <2>6 DEF MutePlans
<1> QED
  <2>1. UNCHANGED <<machine, work>> \/ Begin(h, r)
    BY DEF WorkerControl, dispatch_control
  <2> QED BY <1>4, <1>5, <2>1

LEMMA TickMutes ==
  ASSUME TypeOK, [Next]_vars, NEW h \in Host, MutePlans(h), WorkerTick(h)
  PROVE  MutePlans(h)'
<1> DEFINE m == machine[h]
           t == Clock(h)
           r == tick(m, t)
<1>1. /\ LockFree(h) /\ op' = op /\ t \in Time /\ m \in Machine
      /\ machine \in [Host -> Machine] /\ work \in [Host -> Work]
  BY ClockType DEF WorkerTick, WorkerUnclaimed, WorkerReady, hubState, TypeOK
<1>2. machine'[h] = r.m /\ work'[h].queue = r.acts
  BY <1>1 DEF WorkerTick, Begin
<1>3. r # Ignored(m)
  BY DEF WorkerTick
<1> HIDE DEF r, t
<1>4. r.m.phase.kind # "Releasing"
  BY <1>1, <1>3, TickEndsRelease DEF r
<1>5. Calm(r.acts) /\ (m.phase.kind = "Releasing" => Undoing(r.acts, m.phase.headphone))
  BY <1>1, <1>3, TickUndoes DEF r
<1>6. CalmPlan(h)' /\ AskedPlan(h)'
  BY <1>2, <1>4, <1>5 DEF CalmPlan, AskedPlan, phase
<1>7. ASSUME NEW hp \in op'[h].suppressed
      PROVE  TakenOver(h, hp)' \/ Undoing(r.acts, hp)
  BY <1>1, <1>5, <1>7, RestingMutes, TakenStays DEF MutePlans, phase, phase_mac
<1>8. MutePlan(h)'
  BY <1>2, <1>7 DEF MutePlan
<1> QED BY <1>6, <1>8 DEF MutePlans

\* What users do: a claim changes no record, adopting can only lift one, and
\* leaving lifts them all.
LEMMA UserMutes ==
  ASSUME TypeOK, Dependable, [Next]_vars, NEW h \in Host, MutePlans(h), User(h)
  PROVE  MutePlans(h)'
<1>1. /\ machine \in [Host -> Machine] /\ work \in [Host -> Work]
      /\ op \in [Host -> OperationState]
  BY DEF TypeOK
<1>2. ASSUME NEW hp \in Headset, NEW n \in Nonce, ClaimAt(h, hp, n)
      PROVE  MutePlans(h)'
  <2>1. LockFree(h) /\ op'[h].suppressed = op[h].suppressed
    <3>1. op' = op \/ op' = [op EXCEPT ![h].audioCandidate = hp]
      BY <1>2 DEF ClaimAt
    <3> QED BY <1>1, <1>2, <3>1 DEF ClaimAt, OperationState
  <2>2. Calm(work'[h].queue)
    <3> DEFINE free == phase(h).kind = "Idle"
               m == IF free
                    THEN [machine[h] EXCEPT !.canControlHeadset = Bound(h, hp)]
                    ELSE machine[h]
               t == asked[n].at
               s == claim(m, hp, n, t)
    <3>1. work'[h].queue = s.acts
      BY <1>1, <1>2 DEF ClaimAt, Begin
    <3> HIDE DEF m, t
    <3>2. Calm(s.acts)
      BY DEF Calm, claim, Step, Report, Send
    <3> QED BY <3>1, <3>2
  <2>3. \/ machine[h].phase.kind # "Idle" /\ machine'[h] = machine[h]
        \/ machine[h].phase.kind = "Idle" /\ machine'[h].phase.kind = "WaitingRelease"
    <3>1. CASE machine[h].phase.kind # "Idle"
      <4>1. Begin(h, Step(machine[h], <<Report("Busy")>>))
        BY <1>2, <3>1 DEF ClaimAt, claim, phase
      <4>2. machine'[h] = machine[h]
        BY <1>1, <4>1 DEF Begin, Step
      <4> QED BY <3>1, <4>2
    <3>2. CASE machine[h].phase.kind = "Idle"
      BY <1>2, <3>2, ClaimMoves
    <3> QED BY <3>1, <3>2
  <2>4. AskedPlan(h)' /\ CalmPlan(h)'
    BY <2>2, <2>3, AskedStays DEF MutePlans, CalmPlan
  <2>5. MutePlan(h)'
    BY <2>1, <2>3, RestingMutes, TakenStays DEF MutePlans, MutePlan, phase, phase_mac
  <2> QED BY <2>4, <2>5 DEF MutePlans
<1>3. ASSUME NEW hp \in Headset \cup {NoHeadset}, AdoptHeadset(h, hp)
      PROVE  MutePlans(h)'
  <2> DEFINE o == [op[h] EXCEPT !.audioCandidate = hp]
  <2>1. o \in OperationState /\ o.suppressed = op[h].suppressed
    BY <1>1 DEF OperationState
  <2>2. op' = [op EXCEPT ![h] = o] \/ \E ok \in BOOLEAN : LiftSuppression(h, o, hp, ok)
    BY <1>3 DEF AdoptHeadset
  <2> HIDE DEF o
  <2>3. op'[h].suppressed \subseteq op[h].suppressed
    BY <1>1, <2>1, <2>2, LiftedRecord
  <2>4. machine'[h].phase = machine[h].phase /\ work'[h] = work[h]
    BY <1>3, HoldingHandlers DEF Untouched
  <2> QED BY <2>3, <2>4, MuteStays
<1>4. ASSUME NEW hp \in Headset \cup {NoHeadset}, SetControlAddress(h, hp)
      PROVE  MutePlans(h)'
  <2>1. op'[h].suppressed = op[h].suppressed
    BY <1>1, <1>4 DEF SetControlAddress, OperationState
  <2>2. machine'[h].phase = machine[h].phase /\ work' = work
    BY <1>4, RebindMoves
  <2> QED BY <2>1, <2>2, MuteStays
<1>5. CASE Leave(h)
  <2>1. op'[h].suppressed = {}
    <3>1. "restore" \notin Faults
      BY DEF Dependable
    <3>2. PICK stuck : /\ stuck # {} => "restore" \in Faults
                       /\ op' = [op EXCEPT ![h] = [suppressed |-> stuck, controlAddress |-> NoHeadset,
                                                   audioCandidate |-> NoHeadset, canControl |-> FALSE]]
      BY <1>5 DEF Leave
    <3>3. op'[h].suppressed = stuck
      BY <1>1, <3>2
    <3> QED BY <3>1, <3>2, <3>3
  <2>2. machine'[h].phase = Idle /\ work'[h].queue = <<>>
    BY <1>5, LeaveMoves DEF LockFree
  <2> QED BY <2>1, <2>2 DEF MutePlans, MutePlan, AskedPlan, CalmPlan, Calm, phase, Idle
<1>6. CASE Calling(h)
  <2>1. UNCHANGED <<machine, work, op>>
    BY <1>6, CallingEffect
  <2> QED BY <2>1, MuteStays
<1> QED BY <1>2, <1>3, <1>4, <1>5, <1>6 DEF User

\* The records of a hub are its own.
LEMMA RecordElsewhere ==
  ASSUME TypeOK, [Next]_vars, NEW h \in Host, ~(ApplyStep(h) \/ Worker(h) \/ User(h))
  PROVE  op'[h] = op[h]
<1>1. op \in [Host -> OperationState]
  BY DEF TypeOK
<1>2. ASSUME NEW k \in Host, k # h, ApplyStep(k)
      PROVE  op'[h] = op[h]
  BY <1>2, ApplyEffect DEF OthersKept
<1>3. ASSUME NEW k \in Host, k # h, Worker(k)
      PROVE  op'[h] = op[h]
  BY <1>3 DEF Worker, WorkerControl, WorkerTick, WorkerRefresh, hubState
<1>4. ASSUME NEW k \in Host, k # h, User(k)
      PROVE  op'[h] = op[h]
  BY <1>1, <1>4, CallingEffect
     DEF User, ClaimAt, AdoptHeadset, LiftSuppression, SetControlAddress, Leave
<1>5. CASE Environment \/ UNCHANGED vars
  BY <1>5 DEF Environment, Receive, ReceiveFails, LinkDrops, AutoReconnects, TimePasses, hubState,
              vars
<1> QED BY <1>2, <1>3, <1>4, <1>5 DEF Next

LEMMA MuteStep ==
  ASSUME MuteInv, Dependable, [Next]_vars, NEW h \in Host
  PROVE  MutePlans(h)'
<1>1. /\ TypeOK /\ ProvenanceInv /\ ReleasePlan(h) /\ MutePlans(h)
  BY DEF MuteInv, ProvenanceInv, ReleaseInv
<1>2. CASE ~(ApplyStep(h) \/ Worker(h) \/ User(h))
  <2>1. machine'[h] = machine[h] /\ work'[h] = work[h] /\ op'[h] = op[h]
    BY <1>1, <1>2, OthersVoice, RecordElsewhere
  <2> QED BY <1>1, <2>1, MuteStays
<1>3. CASE WorkerRefresh(h)
  <2>1. op' = op
    BY <1>3 DEF WorkerRefresh
  <2>2. machine'[h].phase = machine[h].phase /\ work'[h] = work[h]
    BY <1>1, <1>3, HoldingHandlers DEF Untouched
  <2> QED BY <1>1, <2>1, <2>2, MuteStays
<1> QED BY <1>1, <1>2, <1>3, ApplyMutes, ControlMutes, TickMutes, UserMutes DEF Worker

\* A suppression that outlives its operation belongs to a headset another host
\* has taken over: every failure, timeout, abort and departure lifts the one it
\* made, whatever calls fail, as long as messages are sent and restorations
\* succeed (handoff.rs, on_audio_failed and on_abort; actions.rs, apply;
\* group.rs, leave).
THEOREM SuppressionsAreUndone == Dependable => (Spec => []RestoredUnlessTaken)
<1> SUFFICES ASSUME Dependable
             PROVE  Spec => []RestoredUnlessTaken
  OBVIOUS
<1>1. Init => MuteInv
  <2> SUFFICES ASSUME Init
               PROVE  MuteInv
    OBVIOUS
  <2>1. ASSUME NEW h \in Host
        PROVE  MutePlans(h)
    <3>1. op[h].suppressed = {} /\ work[h].queue = <<>>
      BY DEF Init, NoWork
    <3>2. phase(h).kind = "Idle"
      BY DEF Init, update_control_capability, NewMachine, Idle, phase
    <3> QED BY <3>1, <3>2 DEF MutePlans, MutePlan, AskedPlan, CalmPlan, Calm
  <2> QED BY <2>1, ProvenanceInit, ReleaseInit DEF MuteInv
<1>2. MuteInv /\ [Next]_vars => MuteInv'
  <2> SUFFICES ASSUME MuteInv, [Next]_vars
               PROVE  MuteInv'
    OBVIOUS
  <2>1. ProvenanceInv' /\ ReleaseInv'
    BY ProvenanceNext, ReleaseNext DEF MuteInv
  <2>2. \A h \in Host : MutePlans(h)'
    BY MuteStep
  <2> QED BY <2>1, <2>2 DEF MuteInv
<1>3. MuteInv => RestoredUnlessTaken
  <2>1. ASSUME MuteInv, NEW h \in Host, LockFree(h), phase(h).kind = "Idle",
               NEW hp \in op[h].suppressed
        PROVE  TakenOver(h, hp)
    BY <2>1, RestingMutes DEF MuteInv, MutePlans
  <2> QED BY <2>1 DEF RestoredUnlessTaken
<1> QED BY <1>1, <1>2, <1>3, PTL DEF Spec
=============================================================================
