-------------------------------- MODULE Desk --------------------------------
(***************************************************************************)
(* The light desk of dmxd: the frame of DMX levels, the faders and buttons *)
(* that shape it, and the threads that share it.                           *)
(*                                                                         *)
(* Threads: the program thread (prog_runner), the reader of the MIDI       *)
(* desk, the reader of the DMX widget and the network thread.  Two mutexes *)
(* divide the state.  stepmtx is held by the program thread at all times   *)
(* except while it sleeps in pthread_cond_timedwait, so "stepmtx is free"  *)
(* is a fact about where the program thread is.  dmxout_sendbuf_mtx is     *)
(* held for one loop over the frame or one send at a time, never across a  *)
(* wait; each of its critical sections is one action.                      *)
(*                                                                         *)
(* Left to other modules: the clock behind nextstep, the patch commands    *)
(* that change `handlers' during a show, the LEDs of the MIDI desk and the *)
(* unlocked send of main() before the threads settle.                      *)
(***************************************************************************)
EXTENDS Integers, FiniteSets

CONSTANTS
    DMX_CHANNELS,   \* number of DMX channels (512 in the code)
    Inputs,         \* faders and buttons, the indices of inputbuf
    Handlers,       \* the patch: what each input does
    InputThread,    \* the reader that delivers each input: "midi" or "dmx"
    Levels,         \* the levels each input can be moved to
    Programs,       \* the programs a client may activate
    NetChannels,    \* the channels network clients set with 'V'
    NoChannel,      \* stands for channel 0 or one above DMX_CHANNELS there
    NetLevels,      \* the levels network clients set with 'V'
    ConvertColor,   \* convert_color of colors.c, as a function of the fader
    NoInput,        \* no input is being handled
    Blank,          \* the widget outputs nothing
    WidgetFails     \* whether the widget, or a write to it, may fail

Byte == 0..255
Channels == 0..(DMX_CHANNELS - 1)
Frames == [Channels -> Byte]
InputThreads == {"midi", "dmx"}

LedActions == {"HANDLE_LED_2CH_INTENSITY", "HANDLE_LED_2CH_COLOR"}
RawActions == {"HANDLE_RAW_VALUE", "HANDLE_LASER"}
HandleActions == LedActions \cup RawActions \cup
    {"HANDLE_NONE", "HANDLE_MASTER", "HANDLE_BPM", "HANDLE_CHASE",
     "HANDLE_RUN", "HANDLE_BLACKOUT", "HANDLE_TAPSYNC"}

Flags == {"IGNORE_MASTER", "OVERRIDE_PROGRAMMA"}

RowsOf(p) == [0..(p.steps - 1) -> [0..(p.channels - 1) -> Byte]]
IsProgram(p) == /\ p.steps \in Nat \ {0}
                /\ p.channels \in Nat
                /\ p.rows \in RowsOf(p)

\* programma == NULL: one step that drives no channel
NoProgram == [steps |-> 1, channels |-> 0, rows |-> [s \in {0} |-> [c \in {} |-> 0]]]

Fixture(i) == Handlers[i].channel .. (Handlers[i].channel + 2)
LedInputs == {i \in Inputs : Handlers[i].action \in LedActions}
RawChannels ==
    (NetChannels \ {NoChannel}) \cup
    {Handlers[i].channel : i \in {j \in Inputs : Handlers[j].action \in RawActions}}

ASSUME DeskAssumption ==
    /\ DMX_CHANNELS \in Nat \ {0}
    /\ Handlers \in [Inputs -> [action: HandleActions, channel: Channels, other: Inputs]]
    /\ InputThread \in [Inputs -> InputThreads]
    /\ Levels \in [Inputs -> SUBSET Byte]
    /\ \A p \in Programs : IsProgram(p)
    /\ NetChannels \subseteq Channels \cup {NoChannel} /\ NetLevels \subseteq Byte
    /\ NoChannel \notin Channels
    /\ ConvertColor \in [Byte -> [1..3 -> Byte]]
    /\ NoInput \notin Inputs
    /\ Blank \notin Frames
    /\ WidgetFails \in BOOLEAN

(***************************************************************************)
(* The patch is the kind the shipped config-in-*.sh scripts make: the two  *)
(* faders of an LED fixture name each other and arrive on one reader,      *)
(* fixtures do not overlap, and no channel of a fixture is set directly.   *)
(***************************************************************************)
ASSUME PatchAssumption ==
    /\ \A i \in LedInputs :
        LET o == Handlers[i].other IN
        /\ o \in LedInputs
        /\ Handlers[o].action # Handlers[i].action
        /\ Handlers[o].channel = Handlers[i].channel
        /\ Handlers[o].other = i
        /\ InputThread[o] = InputThread[i]
        /\ Fixture(i) \subseteq Channels
        /\ Fixture(i) \cap RawChannels = {}
        /\ \A j \in LedInputs \ {i, o} : Fixture(i) \cap Fixture(j) = {}

-----------------------------------------------------------------------------
VARIABLES
    inputbuf,           \* last level of each input
    channel_flags,      \* which channels ignore the master, override the program
    channel_overrides,  \* level of a channel that overrides the program
    channel_intensity,  \* intensity fader of each channel
    master_blackout,    \* -1, or the master level to return to
    master_intensity,
    program_intensity,
    program_running,
    programma,          \* the active program
    step,               \* its current step, local to prog_runner
    dmxout_sendbuf,     \* the frame being composed
    dmxout_dirty,       \* it changed outside the program thread
    receiving_changes,  \* a reader is in the middle of a batch of changes
    mk2c_lost,          \* the widget's reader gave up
    wire,               \* the frame the widget puts out
    unsent,             \* the last write failed, and an older frame stays out
    woken,              \* stepcond was signalled since prog_runner last ran
    pc,                 \* where each thread is
    cur                 \* the input each reader is handling

faders == <<channel_flags, channel_overrides, channel_intensity>>
masters == <<master_blackout, master_intensity, program_intensity, program_running>>
show == <<programma, step>>
output == <<dmxout_sendbuf, dmxout_dirty, wire, unsent>>
reception == <<inputbuf, receiving_changes, cur>>
vars == <<faders, masters, show, output, reception, mk2c_lost, woken, pc>>

Threads == InputThreads \cup {"prog", "net"}

ProgLabels == {"start", "render", "reconnect", "restore", "wait"}
NetLabels == {"idle", "check", "flush", "aborted"}
ReaderLabels == {"idle", "batch", "apply", "flush"}
WidgetLabels == ReaderLabels \cup {"error", "dead"}

PcOK ==
    /\ pc \in [Threads -> ProgLabels \cup NetLabels \cup WidgetLabels]
    /\ pc["prog"] \in ProgLabels
    /\ pc["net"] \in NetLabels
    /\ pc["midi"] \in ReaderLabels
    /\ pc["dmx"] \in WidgetLabels

TypeOK ==
    /\ inputbuf \in [Inputs -> Byte]
    /\ channel_flags \in [Channels -> SUBSET Flags]
    /\ channel_overrides \in Frames
    /\ channel_intensity \in Frames
    /\ master_blackout \in Byte \cup {-1}
    /\ master_intensity \in Byte
    /\ program_intensity \in Byte
    /\ program_running \in BOOLEAN
    /\ programma \in Programs \cup {NoProgram}
    /\ step \in Nat
    /\ dmxout_sendbuf \in Frames
    /\ dmxout_dirty \in BOOLEAN
    /\ receiving_changes \in BOOLEAN
    /\ mk2c_lost \in BOOLEAN
    /\ wire \in Frames \cup {Blank}
    /\ unsent \in BOOLEAN
    /\ woken \in BOOLEAN
    /\ PcOK
    /\ cur \in [InputThreads -> Inputs \cup {NoInput}]

-----------------------------------------------------------------------------
\* seeded error: the sleep does not release stepmtx
StepMtxFree_HeldAsleep == pc["prog"] = "start"

\* prog_runner holds stepmtx except before its first lock and while it sleeps
StepMtxFree == pc["prog"] \in {"start", "wait"}

\* pthread_cond_signal(&stepcond): lost unless prog_runner is sleeping
Signalled == woken \/ pc["prog"] = "wait"
Signal == woken' = Signalled

Goto(t, label) == pc' = [pc EXCEPT ![t] = label]

\* seeded error: a scale of 100 steps
apply_intensity_Percent(in, intensity) == (in * intensity) \div 100

apply_intensity(in, intensity) == (in * intensity) \div 255

Scale(level, ch) ==
    LET faded == apply_intensity(level, channel_intensity[ch]) IN
    IF "IGNORE_MASTER" \in channel_flags[ch]
    THEN faded
    ELSE apply_intensity(faded, master_intensity)

SourceAt(ch, s) ==
    IF "OVERRIDE_PROGRAMMA" \in channel_flags[ch] \/ ch >= programma.channels
    THEN channel_overrides[ch]
    ELSE apply_intensity(programma.rows[s][ch], program_intensity)
Source(ch) == SourceAt(ch, step)

\* the frame prog_runner composes from the present state
Rendered == [ch \in Channels |-> Scale(Source(ch), ch)]

\* mk2c is usable: no reader has failed since the last connection
WidgetUp == pc["dmx"] \notin {"error", "dead"}

\* send_dmx: without a widget the frame goes nowhere, with one the write may
\* still fail, and nobody is told
send_dmx(frame) ==
    \/ /\ WidgetUp
       /\ wire' = frame
       /\ unsent' = FALSE
    \/ /\ WidgetFails \/ ~WidgetUp
       /\ unsent' = (wire # Blank)
       /\ UNCHANGED wire

flush_dmxout_sendbuf ==
    /\ \/ dmxout_dirty /\ send_dmx(dmxout_sendbuf)
       \/ ~dmxout_dirty /\ UNCHANGED <<wire, unsent>>
    /\ dmxout_dirty' = FALSE
    /\ UNCHANGED dmxout_sendbuf

\* seeded error: the level is not kept for the next frame
SetRaw_NotKept(ch, level) ==
    /\ channel_flags' = [channel_flags EXCEPT ![ch] = Flags]
    /\ dmxout_sendbuf' = [dmxout_sendbuf EXCEPT ![ch] = level]
    /\ dmxout_dirty' = TRUE
    /\ UNCHANGED <<channel_overrides, channel_intensity, wire, unsent>>

\* one channel set directly, under dmxout_sendbuf_mtx
SetRaw(ch, level) ==
    /\ channel_flags' = [channel_flags EXCEPT ![ch] = Flags]
    /\ channel_overrides' = [channel_overrides EXCEPT ![ch] = level]
    /\ dmxout_sendbuf' = [dmxout_sendbuf EXCEPT ![ch] = level]
    /\ dmxout_dirty' = TRUE
    /\ UNCHANGED <<channel_intensity, wire, unsent>>

-----------------------------------------------------------------------------
\* after reset_vars, the configuration files and init_communications
Init ==
    /\ inputbuf = [i \in Inputs |-> 255]
    /\ channel_flags = [ch \in Channels |-> {}]
    /\ channel_overrides = [ch \in Channels |-> 0]
    /\ channel_intensity = [ch \in Channels |-> 255]
    /\ master_blackout = -1
    /\ master_intensity = 255
    /\ program_intensity = 255
    /\ program_running = TRUE
    /\ programma \in Programs \cup {NoProgram}
    /\ step = 0
    /\ dmxout_sendbuf = [ch \in Channels |-> 0]
    /\ dmxout_dirty = TRUE
    /\ receiving_changes = FALSE
    /\ mk2c_lost = FALSE
    /\ wire = Blank
    /\ unsent = FALSE
    /\ woken = FALSE
    /\ pc = [t \in Threads |-> IF t = "prog" THEN "start" ELSE "idle"]
    /\ cur = [t \in InputThreads |-> NoInput]

-----------------------------------------------------------------------------
(* The readers.  A batch is what one read of the MIDI device or one DMX    *)
(* frame brought; it may change any number of inputs, also none.           *)

BeginBatch(t) ==
    /\ pc[t] = "idle"
    /\ Goto(t, "batch")
    /\ UNCHANGED <<faders, masters, show, output, reception, mk2c_lost, woken>>

\* midi_changed, dmx_changed and the first line of update_input
TakeInput(t) ==
    /\ pc[t] = "batch"
    /\ \E i \in Inputs : \E new \in Levels[i] :
        /\ InputThread[i] = t
        /\ inputbuf' = [inputbuf EXCEPT ![i] = new]
        /\ cur' = [cur EXCEPT ![t] = i]
    /\ receiving_changes' = TRUE
    /\ Goto(t, "apply")
    /\ UNCHANGED <<faders, masters, show, output, mk2c_lost, woken>>

\* midi_input_completed, dmx_input_completed: the flag, then the flush
Complete(t) ==
    /\ pc[t] = "batch"
    /\ receiving_changes' = FALSE
    /\ Goto(t, "flush")
    /\ UNCHANGED <<faders, masters, show, output, inputbuf, cur, mk2c_lost, woken>>

Flush(t) ==
    /\ pc[t] = "flush"
    /\ flush_dmxout_sendbuf
    /\ Goto(t, "idle")
    /\ UNCHANGED <<faders, masters, show, reception, mk2c_lost, woken>>

\* update_input reaches the handler of one of these actions
Handling(t, actions) == pc[t] = "apply" /\ Handlers[cur[t]].action \in actions
Handled(t) ==
    /\ Goto(t, "batch")
    /\ cur' = [cur EXCEPT ![t] = NoInput]
    /\ UNCHANGED <<inputbuf, receiving_changes>>

Level(t) == inputbuf[cur[t]]
Pressed(t) == Level(t) >= 64

RawValue(t) ==
    /\ Handling(t, {"HANDLE_RAW_VALUE"})
    /\ SetRaw(Handlers[cur[t]].channel, Level(t))
    /\ Handled(t)
    /\ UNCHANGED <<masters, show, mk2c_lost, woken>>

\* a laser toggles between off and its sound mode
Laser(t) ==
    /\ Handling(t, {"HANDLE_LASER"}) /\ Pressed(t)
    /\ LET ch == Handlers[cur[t]].channel IN
       SetRaw(ch, IF channel_overrides[ch] = 100 THEN 0 ELSE 100)
    /\ Handled(t)
    /\ UNCHANGED <<masters, show, mk2c_lost, woken>>

\* seeded error: the level just received is taken for the partner's
Color_Own(i) == inputbuf[i]

Intensity(i) ==
    inputbuf[IF Handlers[i].action = "HANDLE_LED_2CH_INTENSITY" THEN i ELSE Handlers[i].other]
Color(i) ==
    inputbuf[IF Handlers[i].action = "HANDLE_LED_2CH_COLOR" THEN i ELSE Handlers[i].other]

\* the top of the colour fader gives the fixture back to the program
LedMoved(t) ==
    /\ Handling(t, LedActions) /\ StepMtxFree
    /\ LET i == cur[t]
           base == Handlers[i].channel IN
       /\ channel_intensity' = [ch \in Channels |->
            IF ch \in Fixture(i) THEN Intensity(i) ELSE channel_intensity[ch]]
       /\ channel_flags' = [ch \in Channels |->
            IF ch \notin Fixture(i) THEN channel_flags[ch]
            ELSE IF Color(i) >= 252 THEN channel_flags[ch] \ {"OVERRIDE_PROGRAMMA"}
            ELSE channel_flags[ch] \cup {"OVERRIDE_PROGRAMMA"}]
       /\ channel_overrides' = [ch \in Channels |->
            IF ch \in Fixture(i) /\ Color(i) < 252
            THEN ConvertColor[Color(i)][ch - base + 1]
            ELSE channel_overrides[ch]]
    /\ Signal
    /\ Handled(t)
    /\ UNCHANGED <<masters, show, output, mk2c_lost>>

\* seeded errors: the blackout is not looked at; the level to return to is not
\* stored
MasterMoved_InTheDark(t) ==
    /\ Handling(t, {"HANDLE_MASTER"}) /\ StepMtxFree
    /\ master_intensity' = Level(t)
    /\ Signal
    /\ Handled(t)
    /\ UNCHANGED <<faders, master_blackout, program_intensity, program_running,
                   show, output, mk2c_lost>>
MasterMoved_Forgotten(t) ==
    /\ Handling(t, {"HANDLE_MASTER"}) /\ StepMtxFree
    /\ master_intensity' = IF master_blackout = -1 THEN Level(t) ELSE master_intensity
    /\ Signal
    /\ Handled(t)
    /\ UNCHANGED <<faders, master_blackout, program_intensity, program_running,
                   show, output, mk2c_lost>>

\* during a blackout the master fader moves the level to return to
MasterMoved(t) ==
    /\ Handling(t, {"HANDLE_MASTER"}) /\ StepMtxFree
    /\ \/ /\ master_blackout = -1
          /\ master_intensity' = Level(t)
          /\ Signal
          /\ UNCHANGED master_blackout
       \/ /\ master_blackout # -1
          /\ master_blackout' = Level(t)
          /\ UNCHANGED <<master_intensity, woken>>
    /\ Handled(t)
    /\ UNCHANGED <<faders, program_intensity, program_running, show, output, mk2c_lost>>

Blackout(t) ==
    /\ Handling(t, {"HANDLE_BLACKOUT"}) /\ Pressed(t) /\ StepMtxFree
    /\ \/ /\ master_blackout = -1
          /\ master_blackout' = master_intensity
          /\ master_intensity' = 0
       \/ /\ master_blackout # -1
          /\ master_intensity' = master_blackout
          /\ master_blackout' = -1
    /\ Signal
    /\ Handled(t)
    /\ UNCHANGED <<faders, program_intensity, program_running, show, output, mk2c_lost>>

\* seeded error: prog_runner is not signalled
Chase_Unsignalled(t) ==
    /\ Handling(t, {"HANDLE_CHASE"}) /\ StepMtxFree
    /\ program_intensity' = Level(t)
    /\ Handled(t)
    /\ UNCHANGED <<faders, master_blackout, master_intensity, program_running,
                   show, output, mk2c_lost, woken>>

Chase(t) ==
    /\ Handling(t, {"HANDLE_CHASE"}) /\ StepMtxFree
    /\ program_intensity' = Level(t)
    /\ Signal
    /\ Handled(t)
    /\ UNCHANGED <<faders, master_blackout, master_intensity, program_running,
                   show, output, mk2c_lost>>

Run(t) ==
    /\ Handling(t, {"HANDLE_RUN"}) /\ Pressed(t) /\ StepMtxFree
    /\ program_running' = ~program_running
    /\ Signal
    /\ Handled(t)
    /\ UNCHANGED <<faders, master_blackout, master_intensity, program_intensity,
                   show, output, mk2c_lost>>

\* HANDLE_BPM always signals, a tap only when it fits the taps before it
Retime(t) ==
    /\ \/ Handling(t, {"HANDLE_BPM"}) /\ StepMtxFree /\ Signal
       \/ Handling(t, {"HANDLE_TAPSYNC"}) /\ StepMtxFree /\ Signal
       \/ Handling(t, {"HANDLE_TAPSYNC"}) /\ UNCHANGED woken
    /\ Handled(t)
    /\ UNCHANGED <<faders, masters, show, output, mk2c_lost>>

NoEffect(t) ==
    /\ \/ Handling(t, {"HANDLE_NONE"})
       \/ Handling(t, {"HANDLE_BLACKOUT", "HANDLE_RUN", "HANDLE_LASER"}) /\ ~Pressed(t)
    /\ Handled(t)
    /\ UNCHANGED <<faders, masters, show, output, mk2c_lost, woken>>

update_input(t) ==
    \/ RawValue(t) \/ Laser(t) \/ LedMoved(t) \/ MasterMoved(t) \/ Blackout(t)
    \/ Chase(t) \/ Run(t) \/ Retime(t) \/ NoEffect(t)

-----------------------------------------------------------------------------
(* The network thread: the commands of handle_data.                        *)

NetCommand == pc["net"] = "idle" /\ Goto("net", "check")

\* 'V': a client sets a channel
NetSetChannel ==
    /\ NetCommand
    /\ \E ch \in NetChannels \ {NoChannel} : \E level \in NetLevels : SetRaw(ch, level)
    /\ UNCHANGED <<masters, show, reception, mk2c_lost, woken>>

\* 'V' with a channel that is none: the assertion ends the program
NetNoChannel ==
    /\ pc["net"] = "idle" /\ NoChannel \in NetChannels
    /\ Goto("net", "aborted")
    /\ UNCHANGED <<faders, masters, show, output, reception, mk2c_lost, woken>>

\* any other command that is not refused: nothing of the desk changes
NetOther ==
    /\ NetCommand
    /\ UNCHANGED <<faders, masters, show, output, reception, mk2c_lost, woken>>

\* 'S': a client starts the next step now
NetStep ==
    /\ NetCommand /\ StepMtxFree
    /\ Signal
    /\ UNCHANGED <<faders, masters, show, output, reception, mk2c_lost>>

\* 'PA': the program uploaded before becomes the active one
NetActivate ==
    /\ NetCommand /\ StepMtxFree
    /\ programma' \in Programs
    /\ Signal
    /\ UNCHANGED <<faders, masters, step, output, reception, mk2c_lost>>

\* seeded error: the network thread leaves the flush to the readers
NetCheck_Never ==
    /\ pc["net"] = "check"
    /\ Goto("net", "idle")
    /\ UNCHANGED <<faders, masters, show, output, reception, mk2c_lost, woken>>

\* the end of handle_data: flush, unless a reader's batch will
NetCheck ==
    /\ pc["net"] = "check"
    /\ Goto("net", IF receiving_changes THEN "idle" ELSE "flush")
    /\ UNCHANGED <<faders, masters, show, output, reception, mk2c_lost, woken>>

-----------------------------------------------------------------------------
(* The program thread.                                                     *)

\* seeded error: no bound
NextRow_Unbounded(s) == s

\* the condition of the inner loop of prog_runner, then of the outer one
NextRow(s) == IF s < programma.steps THEN s ELSE 0

Start ==
    /\ pc["prog"] = "start"
    /\ Goto("prog", "render")
    /\ UNCHANGED <<faders, masters, show, output, reception, mk2c_lost, woken>>

\* seeded error: a frame that no other thread touched is not sent
Render_WhenDirty ==
    /\ pc["prog"] = "render"
    /\ ~mk2c_lost
    /\ dmxout_sendbuf' = Rendered
    /\ \/ dmxout_dirty /\ send_dmx(Rendered)
       \/ ~dmxout_dirty /\ UNCHANGED <<wire, unsent>>
    /\ Goto("prog", "wait")
    /\ UNCHANGED <<faders, masters, show, dmxout_dirty, reception, mk2c_lost, woken>>

Render ==
    /\ pc["prog"] = "render"
    /\ dmxout_sendbuf' = Rendered
    /\ \/ /\ mk2c_lost
          /\ dmxout_dirty' = TRUE
          /\ Goto("prog", "reconnect")
          /\ UNCHANGED <<wire, unsent>>
       \/ /\ ~mk2c_lost
          /\ send_dmx(Rendered)
          /\ Goto("prog", "wait")
          /\ UNCHANGED dmxout_dirty
    /\ UNCHANGED <<faders, masters, show, reception, mk2c_lost, woken>>

\* seeded error: the reader is not joined
Reconnect_Unjoined ==
    /\ pc["prog"] = "reconnect"
    /\ \/ pc' = [pc EXCEPT !["prog"] = "restore", !["dmx"] = "idle"]
       \/ Goto("prog", "wait")
    /\ UNCHANGED <<faders, masters, show, output, reception, mk2c_lost, woken>>

(***************************************************************************)
(* reconnect_if_needed joins the failed reader and opens the widget again. *)
(* The join returns only once that reader is dead, with stepmtx held here. *)
(***************************************************************************)
Reconnect ==
    /\ pc["prog"] = "reconnect"
    /\ pc["dmx"] = "dead"
    /\ \/ pc' = [pc EXCEPT !["prog"] = "restore", !["dmx"] = "idle"]
       \/ Goto("prog", "wait")
    /\ UNCHANGED <<faders, masters, show, output, reception, mk2c_lost, woken>>

Restore ==
    /\ pc["prog"] = "restore"
    /\ mk2c_lost' = FALSE
    /\ flush_dmxout_sendbuf
    /\ Goto("prog", "wait")
    /\ UNCHANGED <<faders, masters, show, reception, woken>>

\* pthread_cond_timedwait returns 0: signalled, or for no reason
Wake ==
    /\ pc["prog"] = "wait"
    /\ step' = NextRow(step)
    /\ woken' = FALSE
    /\ Goto("prog", "render")
    /\ UNCHANGED <<faders, masters, programma, output, reception, mk2c_lost>>

\* pthread_cond_timedwait returns ETIMEDOUT
TimedOut ==
    /\ pc["prog"] = "wait"
    /\ step' = NextRow(IF program_running THEN step + 1 ELSE step)
    /\ woken' = FALSE
    /\ Goto("prog", "render")
    /\ UNCHANGED <<faders, masters, programma, output, reception, mk2c_lost>>

prog_runner == Start \/ Render \/ Reconnect \/ Restore \/ Wake \/ TimedOut

-----------------------------------------------------------------------------
(* The widget.  It goes dark when it fails; its reader notices between two *)
(* DMX frames, sets mk2c_lost, and needs stepmtx before it can die.        *)

WidgetError ==
    /\ WidgetFails
    /\ pc["dmx"] = "idle"
    /\ mk2c_lost' = TRUE
    /\ wire' = Blank
    /\ unsent' = FALSE
    /\ Goto("dmx", "error")
    /\ UNCHANGED <<faders, masters, show, dmxout_sendbuf, dmxout_dirty, reception, woken>>

error_step ==
    /\ pc["dmx"] = "error" /\ StepMtxFree
    /\ Signal
    /\ Goto("dmx", "dead")
    /\ UNCHANGED <<faders, masters, show, output, reception, mk2c_lost>>

-----------------------------------------------------------------------------
Reader(t) == BeginBatch(t) \/ TakeInput(t) \/ update_input(t) \/ Complete(t) \/ Flush(t)
Net ==
    \/ NetSetChannel \/ NetNoChannel \/ NetStep \/ NetActivate \/ NetOther
    \/ NetCheck \/ Flush("net")

Aborted == pc["net"] = "aborted"

Next ==
    /\ ~Aborted
    /\ \/ \E t \in InputThreads : Reader(t)
       \/ Net
       \/ prog_runner
       \/ WidgetError
       \/ error_step

Spec == Init /\ [][Next]_vars

-----------------------------------------------------------------------------
(* Properties.                                                             *)

\* the program thread sleeps and nothing has asked it to look again
Settled == pc["prog"] = "wait" /\ ~woken

(***************************************************************************)
(* The desk implements Stage.  What is wanted is the frame that would be   *)
(* rendered now; while prog_runner sleeps on a step that a shorter program *)
(* does not have, that is the step it will wake to.                        *)
(***************************************************************************)
Wanted == [ch \in Channels |-> Scale(SourceAt(ch, NextRow(step)), ch)]
Lights == IF wire = Blank THEN [ch \in Channels |-> 0] ELSE wire

Onstage == INSTANCE Stage WITH
    Levels <- Byte, wanted <- Wanted, composed <- dmxout_sendbuf, lights <- Lights

\* only whole frames go out, and each level in them was wanted when it was taken
ImplementsStage == Onstage!Spec

\* nobody is in the middle of anything
Quiescent ==
    /\ Settled
    /\ \A t \in InputThreads : pc[t] \in {"idle", "dead"}
    /\ pc["net"] = "idle"

Pending(i) == cur[InputThread[i]] = i

(***************************************************************************)
(* Once every thread has finished what it was doing, the widget puts out   *)
(* exactly what the faders, the masters and the program ask for, or it is  *)
(* dark because it was lost, or the very last write to it failed.  The     *)
(* readers and the network thread hand the duty to send to each other      *)
(* through receiving_changes, and each handler must signal stepcond or     *)
(* leave a dirty frame: one that did neither, or a flush skipped by both   *)
(* sides, would leave an old frame on stage.                               *)
(***************************************************************************)
StageUpToDate == Quiescent /\ ~unsent => wire \in {Blank, Rendered}

(***************************************************************************)
(* In a blackout no channel that obeys the master shows light, whatever    *)
(* was changed during the blackout and whichever thread sent last, unless  *)
(* its write failed: not only between batches but in the middle of one.    *)
(***************************************************************************)
DarkInBlackout ==
    Settled /\ master_blackout # -1 /\ wire # Blank /\ ~unsent =>
        \A ch \in Channels : "IGNORE_MASTER" \in channel_flags[ch] \/ wire[ch] = 0

(***************************************************************************)
(* An LED fixture is where its two faders are.  Each handler writes six    *)
(* or nine bytes from its own level and the last level of the partner, so  *)
(* the fixture depends on which of the two was handled last.               *)
(***************************************************************************)
LedFollowsFaders ==
    \A i \in Inputs :
        LET o == Handlers[i].other IN
        Handlers[i].action = "HANDLE_LED_2CH_INTENSITY" /\ ~Pending(i) /\ ~Pending(o) =>
            \A ch \in Fixture(i) :
                /\ channel_intensity[ch] = inputbuf[i]
                /\ "OVERRIDE_PROGRAMMA" \in channel_flags[ch] <=> inputbuf[o] < 252
                /\ inputbuf[o] < 252 => channel_overrides[ch] =
                        ConvertColor[inputbuf[o]][ch - Handlers[i].channel + 1]

(***************************************************************************)
(* The master level is where the master fader is; during a blackout the    *)
(* level to return to is.  So a fader moved in the dark takes effect when  *)
(* the blackout ends, and no sequence of presses loses it.                 *)
(***************************************************************************)
MasterInputs == {i \in Inputs : Handlers[i].action = "HANDLE_MASTER"}
MasterFollowsFader ==
    \A m \in MasterInputs : MasterInputs = {m} /\ ~Pending(m) =>
        \/ master_blackout = -1 /\ master_intensity = inputbuf[m]
        \/ master_blackout = inputbuf[m] /\ master_intensity = 0

(***************************************************************************)
(* prog_runner never reads past the rows of the active program, although a *)
(* client may activate a shorter one while it sleeps on a later step.      *)
(***************************************************************************)
RowInProgram == pc["prog"] = "render" => step < programma.steps

(***************************************************************************)
(* The reconnect and the reader's end keep to Link, as those of Widget do. *)
(***************************************************************************)
ReaderIs ==
    CASE pc["dmx"] = "error" -> "failed"
      [] pc["dmx"] = "dead" -> "dead"
      [] OTHER -> "runs"
ProgIs ==
    CASE pc["prog"] \in {"start", "wait"} -> "sleeps"
      [] pc["prog"] = "render" -> "renders"
      [] pc["prog"] = "reconnect" -> "reconnects"
      [] pc["prog"] = "restore" -> "restores"

TheLink == INSTANCE Link WITH reader <- ReaderIs, lost <- mk2c_lost, prog <- ProgIs

ImplementsLink == TheLink!Spec

-----------------------------------------------------------------------------
(***************************************************************************)
(* Fairness.  A thread that can run runs, and so a sleep of prog_runner    *)
(* ends, by a signal or at nextstep; a thread that waits for stepmtx gets  *)
(* it, as prog_runner gives it up at every sleep; a batch is as long as    *)
(* one read, so its end comes.  All of it as long as no client sets a      *)
(* channel that is none: the liveness properties are checked for           *)
(* NetChannels without NoChannel.                                          *)
(***************************************************************************)
Fairness ==
    /\ WF_vars(prog_runner)
    /\ \A t \in InputThreads : /\ SF_vars(update_input(t))
                               /\ SF_vars(Complete(t))
                               /\ WF_vars(Flush(t))
    /\ WF_vars(NetCheck) /\ WF_vars(Flush("net"))
    /\ SF_vars(error_step)

FairSpec == Spec /\ Fairness

\* a blackout is ended or the stage goes dark (with a widget that works)
Dark == wire # Blank /\ \A ch \in Channels :
                            "IGNORE_MASTER" \in channel_flags[ch] \/ wire[ch] = 0
BlackoutReachesStage == master_blackout # -1 ~> master_blackout = -1 \/ Dark

\* what a reader took is handled: no handler waits for stepmtx for ever
InputHandled == \A t \in InputThreads : pc[t] = "apply" ~> pc[t] = "batch"

=============================================================================
