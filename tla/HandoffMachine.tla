--------------------------- MODULE HandoffMachine ---------------------------
(***************************************************************************)
(* The handoff state machine of one host                                   *)
(* (crates/edifier-group/src/handoff.rs).                                  *)
(*                                                                         *)
(* The machine is a pure value: every method takes the machine and its     *)
(* input and returns a step, the next machine together with the list of    *)
(* actions its owner has to execute.  GroupHub owns one machine per host.  *)
(* Addresses and nonces are opaque values, so the parsing branches of the  *)
(* source (an address or a nonce that does not parse) have no counterpart. *)
(***************************************************************************)
EXTENDS Integers, Sequences

CONSTANTS
  Headset,          \* Bluetooth addresses of the headsets
  NoHeadset,        \* "no address": an Option that is None
  Nonce,            \* identities of handoffs, one per claim
  NoNonce,
  HandoffDeadline,  \* HANDOFF_DEADLINE_MS, in clock units
  ConnectGap,       \* AUDIO_CONNECT_GAP_MS, in clock units
  MaxClock          \* the largest clock value (u64::MAX milliseconds)

ASSUME HeadsetAssumption == NoHeadset \notin Headset
ASSUME NonceAssumption == NoNonce \notin Nonce
ASSUME ClockAssumption ==
  /\ MaxClock \in Nat
  /\ HandoffDeadline \in Nat
  /\ ConnectGap \in Nat

Time == 0 .. MaxClock

\* Mutant: plain addition.
wrapping_add(a, b) == a + b

\* u64::saturating_add on clock values.
saturating_add(a, b) == IF a + b > MaxClock THEN MaxClock ELSE a + b

-----------------------------------------------------------------------------
(* Phases, messages, actions *)

Idle == [kind |-> "Idle", nonce |-> NoNonce, headphone |-> NoHeadset, at |-> 0]

\* `at` is the deadline of WaitingRelease and Releasing and the ready time of
\* WaitingFallbackGap; ConnectingAudio carries no time.
HandoffKind == {"WaitingRelease", "WaitingFallbackGap", "ConnectingAudio", "Releasing"}
Handoff == [kind : HandoffKind, nonce : Nonce, headphone : Headset, at : Time]
Phase == {Idle} \cup Handoff

WaitingRelease(n, hp, deadline) ==
  [kind |-> "WaitingRelease", nonce |-> n, headphone |-> hp, at |-> deadline]
WaitingFallbackGap(n, hp, ready) ==
  [kind |-> "WaitingFallbackGap", nonce |-> n, headphone |-> hp, at |-> ready]
ConnectingAudio(n, hp) ==
  [kind |-> "ConnectingAudio", nonce |-> n, headphone |-> hp, at |-> 0]
Releasing(n, hp, deadline) ==
  [kind |-> "Releasing", nonce |-> n, headphone |-> hp, at |-> deadline]

ReplyKind == {"HasAudio", "NoAudio", "Released", "Taken", "Abort", "Busy"}

\* Uniform message records: only a request carries a headset and a deadline.
Message ==
       [kind : {"Request"}, nonce : Nonce, headphone : Headset, deadline : Time]
  \cup [kind : ReplyKind, nonce : Nonce, headphone : {NoHeadset}, deadline : {0}]

HandoffRequest(n, hp, deadline) ==
  [kind |-> "Request", nonce |-> n, headphone |-> hp, deadline |-> deadline]
Reply(kind, n) ==
  [kind |-> kind, nonce |-> n, headphone |-> NoHeadset, deadline |-> 0]

\* The reports that end a handoff without success.  The others (Requesting,
\* WaitingPeer, Releasing, Connecting, FallbackCd, Done) only feed the user
\* interface and are left out.
Progress == {"Failed", "Busy"}

Send(msg)           == [do |-> "Send", msg |-> msg]
ConnectAudio(hp)    == [do |-> "ConnectAudio", mac |-> hp]
DisconnectAudio(hp) == [do |-> "DisconnectAudio", mac |-> hp]
Suppress(hp)        == [do |-> "Suppress", mac |-> hp]
Restore(hp)         == [do |-> "Restore", mac |-> hp]
SendHeadsetDisconnect == [do |-> "SendHeadsetDisconnect"]
Report(progress)    == [do |-> "Report", progress |-> progress]

Action ==
       [do : {"Send"}, msg : Message]
  \cup [do : {"ConnectAudio", "DisconnectAudio", "Suppress", "Restore"}, mac : Headset]
  \cup {SendHeadsetDisconnect}
  \cup [do : {"Report"}, progress : Progress]

-----------------------------------------------------------------------------
(* The machine *)

Machine == [phase : Phase, hasAudio : BOOLEAN, canControlHeadset : BOOLEAN,
            peerHasAudio : BOOLEAN, peerHasNoAudio : BOOLEAN]

NewMachine == [phase |-> Idle, hasAudio |-> FALSE, canControlHeadset |-> FALSE,
               peerHasAudio |-> FALSE, peerHasNoAudio |-> FALSE]

\* The result of a method: the machine it leaves and the actions it returns.
Step(m, acts) == [m |-> m, acts |-> acts]
Ignored(m) == Step(m, <<>>)
Enter(m, phase) == [m EXCEPT !.phase = phase]

\* Mutant: whatever handoff is in progress.
any_matches(m, n) == m.phase.kind # "Idle"

nonce_matches(m, n) == m.phase.kind # "Idle" /\ m.phase.nonce = n

\* The common tail of on_released, tick and fallback_or_connect.
StartConnecting(m) ==
  Step(Enter(m, ConnectingAudio(m.phase.nonce, m.phase.headphone)),
       <<ConnectAudio(m.phase.headphone)>>)

claim(m, hp, n, t) ==
  IF m.phase.kind # "Idle"
  THEN Step(m, <<Report("Busy")>>)
  ELSE LET deadline == saturating_add(t, HandoffDeadline)
       IN Step([m EXCEPT !.phase = WaitingRelease(n, hp, deadline),
                         !.peerHasAudio = FALSE, !.peerHasNoAudio = FALSE],
               <<Send(HandoffRequest(n, hp, deadline))>>)

on_audio_disconnected(m) ==
  IF m.phase.kind = "Releasing"
  THEN Step([m EXCEPT !.hasAudio = FALSE], <<Send(Reply("Released", m.phase.nonce))>>)
  ELSE Ignored(m)

\* Mutant: the phase is not reset.
on_audio_connected_open(m) ==
  IF m.phase.kind = "ConnectingAudio"
  THEN Step([m EXCEPT !.hasAudio = TRUE], <<Send(Reply("Taken", m.phase.nonce))>>)
  ELSE Ignored(m)

on_audio_connected(m) ==
  IF m.phase.kind = "ConnectingAudio"
  THEN Step([m EXCEPT !.phase = Idle, !.hasAudio = TRUE],
            <<Send(Reply("Taken", m.phase.nonce))>>)
  ELSE Ignored(m)

\* Mutants: the suppression is not lifted; ConnectingAudio is not handled.
on_audio_failed_muted(m) ==
  IF m.phase.kind = "Idle"
  THEN Ignored(m)
  ELSE Step(Enter(m, Idle), <<Send(Reply("Abort", m.phase.nonce)), Report("Failed")>>)

on_audio_failed_partial(m) ==
  IF m.phase.kind \in {"Idle", "ConnectingAudio"}
  THEN Ignored(m)
  ELSE Step(Enter(m, Idle),
            <<Send(Reply("Abort", m.phase.nonce)), Restore(m.phase.headphone),
              Report("Failed")>>)

on_audio_failed(m) ==
  IF m.phase.kind = "Idle"
  THEN Ignored(m)
  ELSE Step(Enter(m, Idle),
            <<Send(Reply("Abort", m.phase.nonce)), Restore(m.phase.headphone),
              Report("Failed")>>)

\* Mutant: the claimant's clock alone decides.
claimed_deadline(msg, t) == msg.deadline

\* The holder's own clock caps the deadline it was sent.
release_deadline(msg, t) ==
  LET cap == saturating_add(t, HandoffDeadline)
  IN IF msg.deadline < cap THEN msg.deadline ELSE cap

\* Mutant: disconnect first.
release_unmuted(msg) ==
  <<Send(Reply("HasAudio", msg.nonce)), DisconnectAudio(msg.headphone),
    Suppress(msg.headphone)>>

release_actions(msg) ==
  <<Send(Reply("HasAudio", msg.nonce)), Suppress(msg.headphone),
    DisconnectAudio(msg.headphone)>>

\* GroupHub has already dropped expired requests and those for a headset the
\* host does not hold; the machine checks again.
on_request(m, msg, t) ==
  CASE msg.deadline <= t -> Ignored(m)
    [] msg.deadline > t /\ m.phase.kind # "Idle" ->
         Step(m, <<Send(Reply("Busy", msg.nonce))>>)
    [] msg.deadline > t /\ m.phase.kind = "Idle" /\ ~m.hasAudio ->
         Step(m, <<Send(Reply("NoAudio", msg.nonce))>>)
    [] OTHER ->
         Step(Enter(m, Releasing(msg.nonce, msg.headphone, release_deadline(msg, t))),
              release_actions(msg))

on_peer_has_audio(m, n) ==
  IF nonce_matches(m, n) /\ m.phase.kind = "WaitingRelease"
  THEN Step([m EXCEPT !.peerHasAudio = TRUE], <<>>)
  ELSE Ignored(m)

on_no_audio(m, n) ==
  IF nonce_matches(m, n) /\ m.phase.kind = "WaitingRelease"
  THEN Step([m EXCEPT !.peerHasNoAudio = TRUE], <<>>)
  ELSE Ignored(m)

on_released(m, n) ==
  IF nonce_matches(m, n) /\ m.phase.kind = "WaitingRelease"
  THEN StartConnecting(m)
  ELSE Ignored(m)

on_taken(m, n) ==
  IF nonce_matches(m, n) /\ m.phase.kind = "Releasing"
  THEN Step([m EXCEPT !.phase = Idle, !.hasAudio = FALSE], <<>>)
  ELSE Ignored(m)

on_abort(m, n) ==
  IF nonce_matches(m, n)
  THEN Step(Enter(m, Idle), <<Report("Failed"), Restore(m.phase.headphone)>>)
  ELSE Ignored(m)

on_busy(m, n) ==
  IF nonce_matches(m, n) /\ m.phase.kind = "WaitingRelease"
  THEN Step(Enter(m, Idle), <<Report("Busy")>>)
  ELSE Ignored(m)

on_message(m, msg, t) ==
  CASE msg.kind = "Request"  -> on_request(m, msg, t)
    [] msg.kind = "HasAudio" -> on_peer_has_audio(m, msg.nonce)
    [] msg.kind = "Released" -> on_released(m, msg.nonce)
    [] msg.kind = "Taken"    -> on_taken(m, msg.nonce)
    [] msg.kind = "Abort"    -> on_abort(m, msg.nonce)
    [] msg.kind = "Busy"     -> on_busy(m, msg.nonce)
    [] msg.kind = "NoAudio"  -> on_no_audio(m, msg.nonce)

\* Mutant: without control the claim keeps waiting.
fallback_or_wait(m, t) ==
  IF m.canControlHeadset
  THEN Step(Enter(m, WaitingFallbackGap(m.phase.nonce, m.phase.headphone,
                                        saturating_add(t, ConnectGap))),
            <<SendHeadsetDisconnect>>)
  ELSE Ignored(m)

fallback_or_fail(m, t) ==
  IF m.canControlHeadset
  THEN Step(Enter(m, WaitingFallbackGap(m.phase.nonce, m.phase.headphone,
                                        saturating_add(t, ConnectGap))),
            <<SendHeadsetDisconnect>>)
  ELSE Step(Enter(m, Idle), <<Report("Failed")>>)

\* Mutant: a NoAudio outweighs a HasAudio.
somebody_has_none(m) == m.peerHasNoAudio

nobody_holds(m) == m.peerHasNoAudio /\ ~m.peerHasAudio

tick(m, t) ==
  CASE m.phase.kind \notin {"Idle", "ConnectingAudio"} /\ t < m.phase.at -> Ignored(m)
    [] m.phase.kind = "WaitingRelease" /\ t >= m.phase.at ->
         IF nobody_holds(m) THEN StartConnecting(m) ELSE fallback_or_fail(m, t)
    [] m.phase.kind = "WaitingFallbackGap" /\ t >= m.phase.at -> StartConnecting(m)
    [] m.phase.kind = "Releasing" /\ t >= m.phase.at -> on_audio_failed(m)
    [] m.phase.kind \in {"Idle", "ConnectingAudio"} -> Ignored(m)
=============================================================================
