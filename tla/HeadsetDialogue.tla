-------------------------- MODULE HeadsetDialogue ---------------------------
(***************************************************************************)
(* A user, the protocol and a headset: commands written in JSON become     *)
(* frames, the headset executes them and answers, the answers travel as a  *)
(* stream of bytes in pieces of any size, and what the decoder and the     *)
(* parser make of them is shown, by a session or by a frontend that keeps  *)
(* its own transport and calls the C interface (abi.rs).                   *)
(*                                                                         *)
(* The headset is external.  It keeps, for every query, the body it        *)
(* answers with, and executes the commands the protocol document names.    *)
(***************************************************************************)
EXTENDS FrameDecoder, Commands

CONSTANTS
    Requests,     \* commands in JSON a user may write, with what they ask for
    Files,        \* files a user may import, with the commands they ask for
    Profiles,     \* profiles a readout may be made for
    Pieces,       \* sizes of the pieces the stream is delivered in
    MaxRequests,  \* requests and imports of a run
    MaxReadouts,  \* readouts of a run
    MaxFaults,    \* bytes that may get lost or appear, and links that break
    MaxAir        \* bytes that may be under way when the next command is sent

\* A command in JSON as serde reads it: a name, the fields of the name, and any word.
Flag == {0, 1}
Fields(op) ==
    CASE op = "SetAmbientVolume" -> {<<v>> : v \in -128..127}
      [] op = "SetControlSettings" -> Flag \X Flag \X Flag
      [] op \in {"SetGameMode", "SetAutoPowerOff"} -> {<<on>> : on \in Flag}
      [] op \in {"SetPromptVolume", "SetShutdownTimer"} -> {<<v>> : v \in Byte}
      [] op = "SetName" -> Seq(Byte)
      [] op = "Raw" -> Seq(Character)
      [] OTHER -> {<<>>}
IsCommandJson(json) == json.op \in DOMAIN Opcode /\ json.arg \in Fields(json.op)

\* What a command can hold: a position in an enumeration, the bytes of a raw body,
\* or the fields of the JSON.
Held(op) ==
    IF op \in DOMAIN Words THEN {<<i>> : i \in 0..(Len(Words[op]) - 1)}
    ELSE IF op = "Raw" THEN Seq(Byte)
    ELSE Fields(op)
IsCommand(c) ==
    /\ c = [op |-> c.op, arg |-> c.arg]
    /\ c.op \in DOMAIN Opcode /\ c.arg \in Held(c.op)

\* What a user can ask for: a command by its name that has a frame, and a name of
\* a headset that is text.
IsWish(c) ==
    /\ IsCommand(c) /\ Encodable(c) /\ c.op # "Raw"
    /\ c.op = "SetName" => Lossy(c.arg) = c.arg

\* The JSON asks for that: it is spelled like it, or gives the body.
Writes(json, c) ==
    \/ /\ json.op = c.op /\ json.arg = from_command(c).arg
       /\ Spelled(json) = from_command(c).word
    \/ json.op = "Raw" /\ parse_hex(json.arg) = to_body(c)

\* A file that is read at all: items of hexadecimal text and a priority of one byte.
IsSettingsFile(file) ==
    "commands" \in DOMAIN file =>
        file.commands \in Seq([cmd : Seq(Character), priority : 0..255])

\* It asks for those commands: it was exported with them, in whatever version.
IsExport(file, cmds) ==
    /\ cmds \in Seq([op : DOMAIN Opcode, arg : Seq(Int)])
    /\ \A i \in DOMAIN cmds : IsWish(cmds[i])
    /\ file.commands = from_commands(cmds).commands

ASSUME RequestAssumption == \A r \in Requests : IsCommandJson(r.json)
ASSUME FileAssumption == \A f \in Files : IsSettingsFile(f.file)
ASSUME ProfileAssumption == Profiles \subseteq Profile
ASSUME WishAssumption ==
    \A r \in Requests : Readable(r.json) /\ Encodable(to_command(r.json)) =>
        IsWish(r.asks) /\ Writes(r.json, r.asks)
ASSUME ExportAssumption == \A f \in Files : Importable(f.file) => IsExport(f.file, f.asks)
ASSUME PieceAssumption == Pieces \subseteq Nat \ {0}

VARIABLES
    device,    \* what the headset answers to each query
    plan,      \* commands the host still has to send
    air,       \* bytes on their way to the host
    shown,     \* the last notification of each kind, in JSON
    handed,    \* the same, as the C decoder hands it out
    seen,      \* how many items of the decoder were passed on
    meant,     \* what the user last asked for, by kind (history)
    read,      \* the profile of the last readout, if nothing was asked since (history)
    requests,  \* requests made
    readouts,  \* readouts begun
    faults,    \* faults so far
    damaged,   \* whether this link lost or invented a byte
    truth      \* the undamaged frames and where they lie in the stream (history)

user == <<meant, read, requests, readouts>>
views == <<shown, handed, seen>>
dialogue == <<decoder, device, plan, air, views, user, faults, damaged, truth>>

\* What a new headset answers, and what it means.
Queried ==
    {<<204>>, <<201>>, <<213>>, <<8>>, <<240, 10>>, <<72>>, <<5>>, <<211>>, <<215>>,
     <<208>>, <<200>>, <<198>>}
NewDevice ==
    [ask \in Queried |->
        CASE ask = <<204>> -> <<204, 1, 6>>
          [] ask = <<201>> -> <<201, 194, 187, 2>>
          [] ask = <<240, 10>> -> <<240, 10, 7>>
          [] ask = <<5>> -> <<5, 9>>
          [] ask = <<215>> -> <<215, 1>>
          [] ask = <<208>> -> <<208, 77>>
          [] ask = <<200>> -> <<200, 1, 2, 3, 4, 5, 6>>
          [] ask = <<198>> -> <<198, 3, 0, 2>>
          [] OTHER -> <<ask[1], 0>>]

NewMeaning ==
    [Noise |-> <<0, 0>>, Name |-> <<194, 187, 2>>, SoundEffect |-> <<0>>, GameMode |-> <<0>>,
     ControlSettings |-> <<1, 1, 1>>, Ldac |-> <<0>>, PromptVolume |-> <<9>>,
     ShutdownTimerEnabled |-> <<0>>, AutoPowerOff |-> <<1>>]

\* The feature that shows a kind of notification.
FeatureOf ==
    [Noise |-> "noise", Name |-> "name", SoundEffect |-> "sound_effect",
     GameMode |-> "game_mode", ControlSettings |-> "control_settings", Ldac |-> "ldac",
     PromptVolume |-> "prompt_volume", ShutdownTimerEnabled |-> "shutdown_timer",
     ShutdownTimer |-> "shutdown_timer", AutoPowerOff |-> "auto_power_off"]

DialogueInit ==
    /\ Init
    /\ device = NewDevice /\ meant = NewMeaning
    /\ plan = <<>> /\ air = <<>> /\ shown = <<>> /\ handed = <<>> /\ seen = 0
    /\ read = "none" /\ requests = 0 /\ readouts = 0 /\ faults = 0 /\ damaged = FALSE /\ truth = {}

-----------------------------------------------------------------------------
(* The headset *)

\* What it remembers of a body.
Executed(d, body) ==
    LET is(first, n) == body[1] = first /\ Len(body) = n
    IN  CASE is(193, 2) -> [d EXCEPT ![<<204>>] = <<204, body[2], @[3]>>]
          [] is(193, 3) -> [d EXCEPT ![<<204>>] = <<204, body[2], body[3]>>]
          [] is(196, 2) -> [d EXCEPT ![<<213>>] = <<213, body[2]>>]
          [] is(241, 3) -> [d EXCEPT ![<<240, 10>>] = <<240, 10, body[3]>>]
          [] is(73, 2) -> [d EXCEPT ![<<72>>] = <<72, body[2]>>]
          [] is(9, 2) -> [d EXCEPT ![<<8>>] = <<8, body[2]>>]
          [] is(6, 2) -> [d EXCEPT ![<<5>>] = <<5, body[2]>>]
          [] is(209, 3) -> [d EXCEPT ![<<211>>] = <<211, 0, body[3]>>]
          [] is(210, 1) -> [d EXCEPT ![<<211>>] = <<211, 0>>]
          [] is(214, 2) -> [d EXCEPT ![<<215>>] = <<215, body[2]>>]
          [] body[1] = 202 -> [d EXCEPT ![<<201>>] = <<201>> \o Tail(body)]
          [] OTHER -> d

\* Its answer: a report to a query, an acknowledgement of anything else.
Answer(d, body) ==
    append_checksum(IF body \in DOMAIN d
                    THEN <<RX_HEAD_BB, Len(d[body])>> \o d[body]
                    ELSE <<RX_HEAD_CC, 1, body[1]>>)

\* It takes whole frames with a checksum only, and something in them.
Accepts(frame) ==
    /\ frame[1] = TX_HEAD /\ frame[2] > 0 /\ Len(frame) = frame[2] + Overhead
    /\ verify_checksum(frame)

-----------------------------------------------------------------------------
(* The user *)

\* The kind of notification that tells what a command set.
KindSet ==
    [SetSoundEffect |-> "SoundEffect", SetControlSettings |-> "ControlSettings",
     SetLdac |-> "Ldac", SetGameMode |-> "GameMode", SetPromptVolume |-> "PromptVolume",
     SetName |-> "Name", SetAutoPowerOff |-> "AutoPowerOff"]

\* What a command asks for, by the kind of notification that tells.
Asked(m, c) ==
    CASE c.op = "SetNoiseMode" -> [m EXCEPT !.Noise[1] = c.arg[1]]
      [] c.op = "SetAmbientVolume" -> [m EXCEPT !.Noise = <<Ambient, c.arg[1]>>]
      [] c.op = "SetShutdownTimer" ->
             [k \in (DOMAIN m \ {"ShutdownTimerEnabled"}) \union {"ShutdownTimer"} |->
                 IF k = "ShutdownTimer" THEN c.arg ELSE m[k]]
      [] c.op = "DisableShutdownTimer" ->
             [k \in (DOMAIN m \ {"ShutdownTimer"}) \union {"ShutdownTimerEnabled"} |->
                 IF k = "ShutdownTimerEnabled" THEN <<0>> ELSE m[k]]
      [] c.op \in DOMAIN KindSet -> [m EXCEPT ![KindSet[c.op]] = c.arg]
      [] OTHER -> m

AskedAll(m, cmds) ==
    LET asked[i \in 0..Len(cmds)] ==
            IF i = 0 THEN m ELSE Asked(asked[i - 1], cmds[i])
    IN  asked[Len(cmds)]

Quiet == plan = <<>> /\ UNCHANGED <<decoder, device, air, views, faults, damaged, truth>>

\* A command in JSON that to_command and to_body accept.
Request(r) ==
    /\ Quiet /\ requests < MaxRequests
    /\ Readable(r.json) /\ Encodable(to_command(r.json))
    /\ plan' = <<to_command(r.json)>>
    /\ meant' = Asked(meant, r.asks)
    /\ read' = "none" /\ requests' = requests + 1 /\ UNCHANGED readouts

\* A file of settings that can be read, by the session's plan or from the bodies
\* the C interface hands out.
Import(f) ==
    /\ Quiet /\ requests < MaxRequests
    /\ Importable(f.file)
    /\ plan' \in {import_plan(f.file),
                 [i \in DOMAIN settings_parse(f.file) |->
                    to_command([op |-> "Raw", word |-> "", arg |-> settings_parse(f.file)[i]])]}
    /\ meant' = AskedAll(meant, f.asks)
    /\ read' = "none" /\ requests' = requests + 1 /\ UNCHANGED readouts

\* A readout by profile, by the session's plan or by that of the C interface.
Readout(profile) ==
    /\ Quiet /\ read = "none" /\ readouts < MaxReadouts
    /\ plan' \in {readout_plan(profile),
                 [i \in DOMAIN readout_json(profile) |-> to_command(readout_json(profile)[i].op)]}
    /\ read' = profile /\ readouts' = readouts + 1
    /\ UNCHANGED <<meant, requests>>

-----------------------------------------------------------------------------
(* The stream *)

\* A new link: what is under way on the old one is lost, and so are the queries
\* that were not sent yet.
Reconnect ==
    /\ damaged \/ faults < MaxFaults
    /\ plan = <<>> \/ read # "none"
    /\ Renew
    /\ plan' = <<>> /\ air' = <<>> /\ read' = "none" /\ seen' = 0
    /\ faults' = IF damaged THEN faults ELSE faults + 1
    /\ damaged' = FALSE /\ truth' = {}
    /\ UNCHANGED <<device, shown, handed, meant, requests, readouts>>

\* The next command goes out, unless it has no frame, and the headset answers.
Send ==
    /\ plan # <<>> /\ Len(air) <= MaxAir
    /\ plan' = Tail(plan)
    /\ LET body == to_body(Head(plan))
           heard == Encodable(Head(plan)) /\ Accepts(encode_tx(body))
           answer == IF heard THEN Answer(device, body) ELSE <<>>
           at == Len(received) + Len(air)
           frame == [from |-> at, to |-> at + Len(answer)]
       IN  /\ device' = IF heard THEN Executed(device, body) ELSE device
           /\ air' = air \o answer
           /\ truth' = IF heard THEN truth \union {frame} ELSE truth
    /\ UNCHANGED <<decoder, views, user, faults, damaged>>

\* The first byte under way is lost; the frames behind it move up.
LoseByte ==
    /\ air # <<>> /\ faults < MaxFaults
    /\ air' = Tail(air)
    /\ faults' = faults + 1 /\ damaged' = TRUE
    /\ LET p == Len(received)
       IN  truth' = {t \in truth : t.to <= p}
               \union {[from |-> t.from - 1, to |-> t.to - 1] : t \in {t \in truth : t.from > p}}
    /\ UNCHANGED <<decoder, device, plan, views, user>>

\* A byte arrives that belongs to nothing and looks like the head of a frame.
StrayHead ==
    /\ air # <<>> /\ faults < MaxFaults
    /\ air' = <<RX_HEAD_BB>> \o air
    /\ faults' = faults + 1 /\ damaged' = TRUE
    /\ LET p == Len(received)
       IN  truth' = {t \in truth : t.to <= p}
               \union {[from |-> t.from + 1, to |-> t.to + 1] : t \in {t \in truth : t.from >= p}}
    /\ UNCHANGED <<decoder, device, plan, views, user>>

\* The next n bytes, or what is left of them.
Arrive(n) ==
    LET m == IF n <= Len(air) THEN n ELSE Len(air)
    IN  /\ air # <<>>
        /\ Push(SubSeq(air, 1, m))
        /\ air' = SubSeq(air, m + 1, Len(air))
        /\ UNCHANGED <<device, plan, views, user, faults, damaged, truth>>

Body(item) == SubSeq(received, item.from + 3, item.to - 2)

Told(item) == parse_notification(received[item.from + 1], Body(item))

\* push_bytes: the good frames of a push are parsed and passed on in order, so the
\* last one of a kind stays; the bad ones are logged.
PassOn(known, new) ==
    LET frames == {i \in DOMAIN new : new[i].kind = "frame"}
        telling(k) == {i \in frames : Told(new[i]).kind = k}
    IN  [k \in DOMAIN known \union {Told(new[i]).kind : i \in frames} |->
            IF telling(k) = {} THEN known[k]
            ELSE from_notification(Told(new[Max(telling(k))]))]

\* decoder_push_hex: one bad item, and all that came with it is withheld.
HandOut(known, new) ==
    IF \A i \in DOMAIN new : new[i].kind = "frame" THEN PassOn(known, new) ELSE known

Decode ==
    /\ Extract
    /\ LET new == SubSeq(items, seen + 1, Len(items))
       IN  IF draining' THEN UNCHANGED views
           ELSE /\ shown' = PassOn(shown, new) /\ handed' = HandOut(handed, new)
                /\ seen' = Len(items)
    /\ UNCHANGED <<device, plan, air, user, faults, damaged, truth>>

DialogueNext ==
    \/ \E r \in Requests : Request(r)
    \/ \E f \in Files : Import(f)
    \/ \E profile \in Profiles : Readout(profile)
    \/ Send \/ LoseByte \/ StrayHead \/ Reconnect
    \/ \E n \in Pieces : Arrive(n)
    \/ Decode

DialogueSpec == DialogueInit /\ [][DialogueNext]_dialogue

-----------------------------------------------------------------------------
(* Properties *)

\* Every answer whose bytes are past the decoder was cut out as the frame it is,
\* or the stream was damaged and a false frame that began before it swallowed
\* its beginning (packet.rs:142).
FramesArrive ==
    \A t \in truth : t.to <= consumed =>
        \/ [kind |-> "frame", from |-> t.from, to |-> t.to] \in ToSet(items)
        \/ damaged /\ \E i \in DOMAIN items :
               /\ items[i].kind # "unexpected_head"
               /\ items[i].from < t.from /\ t.from < items[i].to

\* The profile shows a kind of notification; noise is read for either feature.
Visible(kind, profile) ==
    \/ supports(profile, FeatureOf[kind])
    \/ kind = "Noise" /\ supports(profile, "ambient_sound")

\* What would be set if what is shown were written in a command again.
Again(kind, json) ==
    LET op == [Noise |-> "SetNoiseMode", SoundEffect |-> "SetSoundEffect", Ldac |-> "SetLdac"]
        again == [op |-> op[kind], word |-> json.word, arg |-> <<>>]
    IN  IF kind \notin DOMAIN op THEN json.value
        ELSE IF Readable(again) THEN to_command(again).arg \o json.value ELSE <<>>

\* After a readout over an undamaged link, whatever the profile shows is what was
\* last asked for, and may be written again as it is shown: JSON, body, frame,
\* answer, stream, notification and JSON agree with one another, in the session
\* and through the C interface, and neither the order and the version of an
\* imported file nor a damaged or broken link before leaves a trace
\* (notification.rs:85, notify_json.rs:43).
ShownIsMeant ==
    read # "none" /\ plan = <<>> /\ air = <<>> /\ ~draining /\ ~damaged =>
        \A k \in DOMAIN meant : Visible(k, read) =>
            \A view \in {shown, handed} : k \in DOMAIN view /\ Again(k, view[k]) = meant[k]
=============================================================================
