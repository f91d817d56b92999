------------------------------- MODULE MCDesk -------------------------------
(***************************************************************************)
(* The constants of Desk for TLC.  Channel 0 is set directly, channels 1   *)
(* to 3 are one LED fixture, a program drives channels 0 and 1.  The MIDI  *)
(* and the widget reader share the inputs, so that both kinds of mutex and *)
(* both readers meet on each of them.                                      *)
(***************************************************************************)
EXTENDS Desk, Colors

MCConvertColor == [c \in Byte |-> convert_color(c)]

Patched(action, channel, other) ==
    [action |-> "HANDLE_" \o action, channel |-> channel, other |-> other]

AllHandlers ==
    [led    |-> Patched("LED_2CH_INTENSITY", 1, "color"),
     color  |-> Patched("LED_2CH_COLOR", 1, "led"),
     raw    |-> Patched("RAW_VALUE", 0, "raw"),
     laser  |-> Patched("LASER", 0, "laser"),
     master |-> Patched("MASTER", 0, "master"),
     black  |-> Patched("BLACKOUT", 0, "black"),
     chase  |-> Patched("CHASE", 0, "chase"),
     run    |-> Patched("RUN", 0, "run"),
     bpm    |-> Patched("BPM", 0, "bpm"),
     tap    |-> Patched("TAPSYNC", 0, "tap"),
     spare  |-> Patched("NONE", 0, "spare")]

\* 60 is a button released, 255 the end of a fader, 27 red
AllLevels ==
    [led |-> {0}, color |-> {27, 255}, raw |-> {0}, laser |-> {60, 255},
     master |-> {100}, black |-> {60, 255}, chase |-> {0, 255}, run |-> {60, 255},
     bpm |-> {255}, tap |-> {255}, spare |-> {255}]

OnMidi == {"led", "color", "black", "run", "tap"}

\* the faders of the fixture, the masters and a channel set directly
StageInputs == {"led", "color", "master", "black", "raw"}
\* the inputs that steer the program, a laser, a fixture to take from the program
ShowInputs == {"chase", "run", "bpm", "tap", "laser", "spare", "led", "color"}

ThreadOf(inputs) == [i \in inputs |-> IF i \in OnMidi THEN "midi" ELSE "dmx"]
Only(inputs, f) == [i \in inputs |-> f[i]]

StageHandlers == Only(StageInputs, AllHandlers)
StageThread == ThreadOf(StageInputs)
StageLevels == [Only(StageInputs, AllLevels) EXCEPT !["black"] = {255}]
ShowHandlers == Only(ShowInputs, AllHandlers)
ShowThread == ThreadOf(ShowInputs)
ShowLevels == [Only(ShowInputs, AllLevels) EXCEPT !["led"] = {255}, !["run"] = {255}]

\* few inputs, for the liveness properties
LiveInputs == {"master", "black"}
LiveHandlers == Only(LiveInputs, AllHandlers)
LiveThread == ThreadOf(LiveInputs)
LiveLevels == Only(LiveInputs, AllLevels)

LongProgram ==
    [steps |-> 2, channels |-> 2, rows |-> [s \in 0..1 |-> [c \in 0..1 |-> 255 * s]]]
ShortProgram ==
    [steps |-> 1, channels |-> 1, rows |-> [s \in {0} |-> [c \in {0} |-> 100]]]

NoPrograms == {}
TwoPrograms == {LongProgram, ShortProgram}
NoChannels == {}
DirectChannels == {0}
BadChannel == -1
AnyChannels == {0, BadChannel}
DirectLevels == {255}

=============================================================================
