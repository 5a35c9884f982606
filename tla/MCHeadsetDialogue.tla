-------------------------- MODULE MCHeadsetDialogue --------------------------
(* Instance of HeadsetDialogue for TLC. *)
EXTENDS HeadsetDialogue

MCChunk == {}
\* Between them they show every feature and hide six.
MCProfiles == {"w820nbdoublegold", "w200btplus"}
MCPieces == {2, 20}

Asks(c) == [json |-> from_command(c), asks |-> c]
Refused(json) == [json |-> json, asks |-> Cmd("QueryMac", <<>>)]

\* Settings as the frontends write them, a rate by its other name, a raw body
\* with a blank in it, and three commands that are refused.
MCRequests ==
    {Asks(Cmd("SetAmbientVolume", <<-3>>)),
     [json |-> [op |-> "SetLdac", word |-> "48k", arg |-> <<>>], asks |-> Cmd("SetLdac", <<1>>)],
     [json |-> [op |-> "Raw", word |-> "", arg |-> <<12, 4, Space, 0, 1>>],
      asks |-> Cmd("SetSoundEffect", <<1>>)],
     Refused([op |-> "SetNoiseMode", word |-> "off", arg |-> <<>>]),
     Refused([op |-> "Raw", word |-> "", arg |-> <<12, Letter>>]),
     Refused(from_command(Cmd("SetAmbientVolume", <<4>>)))}

\* Between them every other setting; the second one turns the timer off again,
\* and is of version 2^32, which is taken for version 0.  A later version, and a
\* file without commands, are refused.
First == <<Cmd("SetLdac", <<2>>), Cmd("SetShutdownTimer", <<60>>),
           Cmd("SetGameMode", <<1>>), Cmd("SetName", <<228, 189, 160>>)>>
Second == <<Cmd("SetControlSettings", <<1, 0, 1>>), Cmd("SetShutdownTimer", <<9>>),
            Cmd("SetNoiseMode", <<Reduction>>), Cmd("SetAmbientVolume", <<2>>),
            Cmd("DisableShutdownTimer", <<>>), Cmd("SetPromptVolume", <<15>>),
            Cmd("SetSoundEffect", <<3>>), Cmd("SetAutoPowerOff", <<0>>)>>
MCFiles ==
    {[file |-> from_commands(First), asks |-> First],
     [file |-> [from_commands(Second) EXCEPT !.version = <<1, 0>>], asks |-> Second],
     [file |-> [from_commands(First) EXCEPT !.version = <<0, 2>>], asks |-> <<>>],
     [file |-> [version |-> <<0, 1>>], asks |-> <<>>]}
=============================================================================
