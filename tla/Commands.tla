------------------------------ MODULE Commands ------------------------------
(***************************************************************************)
(* What is said to a headset and what it says: commands and their bodies   *)
(* (command.rs), the JSON the frontends write them in (command_json.rs),   *)
(* notifications (notification.rs), what a model of headset can do and     *)
(* what is read out of it (profile.rs, readout.rs), and files of settings  *)
(* (settings.rs).  Pure operators.                                         *)
(*                                                                         *)
(* A command is its name and the sequence of its arguments.  An argument   *)
(* of an enumeration is its position in the enumeration, a flag is 0 or 1, *)
(* a name or a raw body is its bytes.                                      *)
(***************************************************************************)
EXTENDS Integers, Sequences, SequencesExt, FiniteSets

AMBIENT_VOLUME_OFFSET == 6

\* Enumerations, in the spelling of the JSON of commands.
NoiseMode == <<"normal", "reduction", "ambient">>
SoundEffect == <<"normal", "pop", "classical", "rock">>
LdacMode == <<"off", "rate48k", "rate96k">>
Playback == <<"play", "pause", "volume_up", "volume_down", "next", "previous">>
Reduction == 1
Ambient == 2

Cmd(op, arg) == [op |-> op, arg |-> arg]

\* Flags as the bits of a mask, and back.
mask(flags) == flags[1] + 2 * flags[2] + 4 * flags[3]
from_mask(v) == <<v % 2, (v \div 2) % 2, (v \div 4) % 2>>

-----------------------------------------------------------------------------
(* Commands *)

\* The bytes every body of a command starts with.
Opcode ==
    [SetNoiseMode |-> <<193>>, SetAmbientVolume |-> <<193, 3>>, SetSoundEffect |-> <<196>>,
     SetControlSettings |-> <<241, 10>>, SetLdac |-> <<73>>, SetGameMode |-> <<9>>,
     SetPromptVolume |-> <<6>>, DisableShutdownTimer |-> <<210>>,
     SetShutdownTimer |-> <<209, 0>>, PowerOff |-> <<206>>, DisconnectHost |-> <<205>>,
     RePair |-> <<207>>, FactoryReset |-> <<7>>, SetName |-> <<202>>, Playback |-> <<194>>,
     SetAutoPowerOff |-> <<214>>, QueryBattery |-> <<208>>, QueryMac |-> <<200>>,
     QueryFirmware |-> <<198>>, QueryNoise |-> <<204>>, QueryName |-> <<201>>,
     QuerySoundEffect |-> <<213>>, QueryGameMode |-> <<8>>, QueryControlSettings |-> <<240, 10>>,
     QueryLdac |-> <<72>>, QueryPromptVolume |-> <<5>>, QueryShutdownTimer |-> <<211>>,
     QueryAutoPowerOff |-> <<215>>, QueryFingerprint |-> <<216>>, QueryPlayback |-> <<195>>,
     Raw |-> <<>>]

\* Mutant: the volume is not offset, and a negative one is no byte.
ArgumentPlain(c) ==
    CASE c.op = "SetNoiseMode" -> <<c.arg[1] + 1>>
      [] c.op = "SetControlSettings" -> <<mask(c.arg)>>
      [] OTHER -> c.arg

\* The rest of the body: noise modes count from 1, volumes from -6.
Argument(c) ==
    CASE c.op = "SetNoiseMode" -> <<c.arg[1] + 1>>
      [] c.op = "SetAmbientVolume" -> <<AMBIENT_VOLUME_OFFSET + c.arg[1]>>
      [] c.op = "SetControlSettings" -> <<mask(c.arg)>>
      [] OTHER -> c.arg

to_body(c) == Opcode[c.op] \o Argument(c)

\* A command to_body or encode_tx refuses has no frame.
Encodable(c) ==
    /\ c.op = "SetAmbientVolume" => c.arg[1] \in -3..3
    /\ Len(to_body(c)) <= 255

\* Mutant: the ambient volume goes out before the noise mode.
export_priority_split(c) ==
    CASE c.op \in {"SetNoiseMode", "DisableShutdownTimer", "SetShutdownTimer"} -> 1
      [] c.op = "SetLdac" -> 2
      [] OTHER -> 0

export_priority(c) ==
    CASE c.op \in {"SetNoiseMode", "SetAmbientVolume",
                   "DisableShutdownTimer", "SetShutdownTimer"} -> 1
      [] c.op = "SetLdac" -> 2
      [] OTHER -> 0

-----------------------------------------------------------------------------
(***************************************************************************)
(* Hexadecimal text: the values 0..15 stand for digits, Space for blanks,  *)
(* colons and dashes, and Letter for everything else.                      *)
(***************************************************************************)

Space == 16
Letter == 17
Character == 0..Letter

\* The elements of s that are in S, in their order: SelectSeq, in a form that can
\* be reasoned about.
Kept(s, S) ==
    LET kept[i \in 0..Len(s)] ==
            IF i = 0 THEN <<>>
            ELSE IF s[i] \in S THEN Append(kept[i - 1], s[i]) ELSE kept[i - 1]
    IN  kept[Len(s)]

to_hex(bytes) ==
    [i \in 1..(2 * Len(bytes)) |->
        LET b == bytes[(i + 1) \div 2] IN IF i % 2 = 1 THEN b \div 16 ELSE b % 16]

Digits(text) == Kept(text, Character \ {Space})
IsHex(text) == Len(Digits(text)) % 2 = 0 /\ Letter \notin ToSet(text)
parse_hex(text) ==
    LET d == Digits(text)
    IN  [i \in 1..(Len(d) \div 2) |-> 16 * d[2 * i - 1] + d[2 * i]]

-----------------------------------------------------------------------------
(* Commands in JSON *)

\* Spellings of the arguments that are written as words.
Words ==
    [SetNoiseMode |-> NoiseMode, SetSoundEffect |-> SoundEffect,
     SetLdac |-> LdacMode, Playback |-> Playback]

\* Other spellings of LDAC rates.
Alias(word) ==
    CASE word = "48k" -> "rate48k" [] word = "96k" -> "rate96k" [] OTHER -> word

from_command(c) ==
    IF c.op \in DOMAIN Words THEN [op |-> c.op, word |-> Words[c.op][c.arg[1] + 1], arg |-> <<>>]
    ELSE [op |-> c.op, word |-> "", arg |-> IF c.op = "Raw" THEN to_hex(c.arg) ELSE c.arg]

Spelled(json) == IF json.op = "SetLdac" THEN Alias(json.word) ELSE json.word

\* A word that is none of the enumeration is an error, and so is bad hexadecimal.
Readable(json) ==
    /\ json.op \in DOMAIN Words => Spelled(json) \in ToSet(Words[json.op])
    /\ json.op = "Raw" => IsHex(json.arg)

to_command(json) ==
    IF json.op \in DOMAIN Words
    THEN LET words == Words[json.op]
             position == CHOOSE i \in DOMAIN words : words[i] = Spelled(json)
         IN  Cmd(json.op, <<position - 1>>)
    ELSE Cmd(json.op, IF json.op = "Raw" THEN parse_hex(json.arg) ELSE json.arg)

-----------------------------------------------------------------------------
(* Notifications *)

Note(kind, value) == [kind |-> kind, value |-> value]

\* Reports with one byte of value, by their first byte.
OneByteReport ==
    [cmd \in {213, 8, 208, 72, 5, 211, 215} |->
        CASE cmd = 213 -> "SoundEffect" [] cmd = 8 -> "GameMode" [] cmd = 208 -> "Battery"
          [] cmd = 72 -> "Ldac" [] cmd = 5 -> "PromptVolume"
          [] cmd = 211 -> "ShutdownTimerEnabled" [] cmd = 215 -> "AutoPowerOff"]

\* The value of such a report, and whether an enumeration has it.
OneByteValue(kind, b) ==
    CASE kind \in {"GameMode", "AutoPowerOff"} -> IF b = 1 THEN 1 ELSE 0
      [] kind = "ShutdownTimerEnabled" -> IF b # 0 THEN 1 ELSE 0
      [] OTHER -> b
InRange(kind, b) ==
    /\ kind = "SoundEffect" => b < Len(SoundEffect)
    /\ kind = "Ldac" => b < Len(LdacMode)

\* The volume of an i8 byte, which wraps around below -128.
AmbientVolume(b) ==
    LET v == (b - AMBIENT_VOLUME_OFFSET) % 256 IN IF v < 128 THEN v ELSE v - 256

\* The bytes s are one character of UTF-8.
Following == 128..191
IsCharacter(s) ==
    /\ \A i \in 2..Len(s) : s[i] \in Following
    /\ \/ Len(s) = 1 /\ s[1] < 128
       \/ Len(s) = 2 /\ s[1] \in 194..223
       \/ Len(s) = 3 /\ s[1] \in 224..239
             /\ (s[1] = 224 => s[2] >= 160) /\ (s[1] = 237 => s[2] < 160)
       \/ Len(s) = 4 /\ s[1] \in 240..244
             /\ (s[1] = 240 => s[2] >= 144) /\ (s[1] = 244 => s[2] < 144)

\* Names are text; a byte that is no part of a character is replaced.  (Of a
\* character that breaks off, one mark stands for all its bytes.)
Lossy(bytes) ==
    [i \in DOMAIN bytes |->
        IF \E first \in 1..i, last \in i..Len(bytes) :
              last - first < 4 /\ IsCharacter(SubSeq(bytes, first, last))
        THEN bytes[i] ELSE 65533]

\* What a response says, by its first byte and its length.
Response(body) ==
    LET cmd == body[1]
        n == Len(body)
    IN  CASE n = 2 /\ cmd \in DOMAIN OneByteReport /\ InRange(OneByteReport[cmd], body[2]) ->
                 Note(OneByteReport[cmd], <<OneByteValue(OneByteReport[cmd], body[2])>>)
          [] cmd = 211 /\ n = 3 -> Note("ShutdownTimer", <<body[3]>>)
          [] cmd = 200 /\ n = 7 -> Note("Mac", Tail(body))
          [] cmd = 198 /\ n = 4 -> Note("Firmware", Tail(body))
          [] cmd = 204 /\ n = 3 /\ body[2] \in 1..Len(NoiseMode) ->
                 Note("Noise", <<body[2] - 1, AmbientVolume(body[3])>>)
          [] cmd = 201 -> Note("Name", Lossy(Tail(body)))
          [] cmd = 240 /\ n = 3 /\ body[2] = 10 -> Note("ControlSettings", from_mask(body[3]))
          [] OTHER -> Note("Unknown", body)

\* head is BB or CC: the decoder passes no other.
parse_notification(head, body) ==
    CASE body = <<>> -> Note("Unknown", body)
      [] body # <<>> /\ head = 204 -> Note("Ack", body)
      [] OTHER -> Response(body)

(***************************************************************************)
(* Notifications in JSON (notify_json.rs).  Values of enumerations are the *)
(* names of their variants in lower case, which nothing but the choice of  *)
(* names makes a spelling a command can be written in.                     *)
(***************************************************************************)

VariantNames ==
    [Noise |-> NoiseMode, SoundEffect |-> SoundEffect, Ldac |-> <<"off", "rate48k", "rate96k">>]

from_notification(note) ==
    CASE note.kind \in DOMAIN VariantNames ->
             [word |-> VariantNames[note.kind][note.value[1] + 1], value |-> Tail(note.value)]
      [] note.kind \in {"Mac", "Firmware", "Ack", "Unknown"} ->
             [word |-> "", value |-> to_hex(note.value)]
      [] OTHER -> [word |-> "", value |-> note.value]

-----------------------------------------------------------------------------
(* Profiles and readout *)

Hidden ==
    [basedevice |-> {},
     w820nb |-> {"sound_effect", "control_settings"},
     w820nbdoublegold |-> {"auto_power_off"},
     w200btplus |-> {"noise", "ambient_sound", "control_settings", "ldac", "game_mode"}]

Profile == DOMAIN Hidden
supports(profile, feature) == feature \notin Hidden[profile]

\* What is asked in this order, if one of the features is visible.
ReadoutStep ==
    << <<"QueryNoise", {"ambient_sound", "noise"}>>, <<"QueryName", {"name"}>>,
       <<"QuerySoundEffect", {"sound_effect"}>>, <<"QueryGameMode", {"game_mode"}>>,
       <<"QueryControlSettings", {"control_settings"}>>, <<"QueryLdac", {"ldac"}>>,
       <<"QueryPromptVolume", {"prompt_volume"}>>, <<"QueryShutdownTimer", {"shutdown_timer"}>>,
       <<"QueryAutoPowerOff", {"auto_power_off"}>> >>

readout_plan(profile) ==
    LET visible == Kept(ReadoutStep,
            {s \in ToSet(ReadoutStep) : \E f \in s[2] : supports(profile, f)})
    IN  [i \in 1..(3 + Len(visible)) |->
            IF i <= 3 THEN Cmd(<<"QueryBattery", "QueryMac", "QueryFirmware">>[i], <<>>)
            ELSE Cmd(visible[i - 3][1], <<>>)]

\* The same plan as it is handed to a frontend, which writes the commands back.
readout_json(profile) ==
    LET plan == readout_plan(profile)
    IN  [i \in DOMAIN plan |-> [body |-> to_hex(to_body(plan[i])), op |-> from_command(plan[i])]]

-----------------------------------------------------------------------------
(* Files of settings *)

\* Versions are numbers of 64 bits, here <<high word, low word>>.
SETTINGS_FORMAT_VERSION == 1

\* SettingsFile::from_commands, for commands that have a body.
from_commands(cmds) ==
    [version |-> <<0, SETTINGS_FORMAT_VERSION>>,
     commands |-> [i \in DOMAIN cmds |->
        [cmd |-> to_hex(to_body(cmds[i])), priority |-> export_priority(cmds[i])]]]

\* Whether migrate takes a file: of the version it looks at the low word.
migrate(file) ==
    /\ file.version[2] <= SETTINGS_FORMAT_VERSION
    /\ "commands" \in DOMAIN file

\* The three groups; whatever is above the last one belongs to it.
Bucket(p) == IF p > 2 THEN 2 ELSE p

\* Whether command_bodies succeeds, and its result: group by group, in the order
\* of the file, without the empty ones.
Importable(file) == migrate(file) /\ \A i \in DOMAIN file.commands : IsHex(file.commands[i].cmd)

command_bodies(file) ==
    LET group(p) ==
          Kept(file.commands,
               {it \in ToSet(file.commands) : Bucket(it.priority) = p /\ it.cmd # <<>>})
        ordered == group(0) \o group(1) \o group(2)
    IN  [i \in DOMAIN ordered |-> parse_hex(ordered[i].cmd)]

\* settings_parse_json: the bodies as they are handed to a frontend.
settings_parse(file) ==
    LET bodies == command_bodies(file) IN [i \in DOMAIN bodies |-> to_hex(bodies[i])]

\* import_plan: the commands that restore a file.
import_plan(file) ==
    LET bodies == command_bodies(file) IN [i \in DOMAIN bodies |-> Cmd("Raw", bodies[i])]
=============================================================================
