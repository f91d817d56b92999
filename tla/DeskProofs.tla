----------------------------- MODULE DeskProofs -----------------------------
(***************************************************************************)
(* Theorems of Desk, for every patch, every set of programs and every      *)
(* number of channels that the assumptions of Desk admit, and that Desk    *)
(* implements Stage and Link.                                              *)
(***************************************************************************)
EXTENDS Desk, TLAPS

-----------------------------------------------------------------------------
(* The arithmetic of apply_intensity.                                      *)

\* two bytes scale to a byte
LEMMA ScaledByte ==
    ASSUME NEW in \in Byte, NEW intensity \in Byte
    PROVE  apply_intensity(in, intensity) \in Byte
<1>1. in * intensity \in Nat /\ in * intensity <= 255 * intensity
    BY SMT DEF Byte
<1>2. 255 * intensity <= 255 * 255
    BY DEF Byte
<1> DEFINE product == in * intensity
<1>3. product \in Nat /\ product <= 255 * 255
    BY <1>1, <1>2 DEF Byte
<1> HIDE DEF product
<1>4. product \div 255 \in 0..255
    BY <1>3
<1> QED
    BY <1>4 DEF product, apply_intensity, Byte

\* at full intensity a level is unchanged
LEMMA ScaledByFull ==
    ASSUME NEW in \in Byte
    PROVE  apply_intensity(in, 255) = in
BY DEF apply_intensity, Byte

\* at intensity 0 there is no light
LEMMA ScaledByZero ==
    ASSUME NEW in \in Byte
    PROVE  apply_intensity(in, 0) = 0
BY DEF apply_intensity, Byte

-----------------------------------------------------------------------------
(* Types.  The frame prog_runner composes is a frame only if the step it   *)
(* reads exists, so types need the bound on the step, and a handler needs  *)
(* to have an input.                                                       *)

\* a reader has an input exactly while it handles one, and it is its own
CurOK ==
    \A t \in InputThreads :
        IF pc[t] = "apply" THEN cur[t] \in Inputs /\ InputThread[cur[t]] = t
                           ELSE cur[t] = NoInput

TypeInv ==
    /\ TypeOK
    /\ CurOK
    /\ RowInProgram
    /\ pc["prog"] = "start" => step = 0

LEMMA SourceIsByte ==
    ASSUME TypeOK, step < programma.steps, NEW ch \in Channels
    PROVE  Source(ch) \in Byte
<1>1. CASE "OVERRIDE_PROGRAMMA" \in channel_flags[ch] \/ ch >= programma.channels
    BY <1>1 DEF TypeOK, Source, SourceAt, Frames
<1>2. CASE ~("OVERRIDE_PROGRAMMA" \in channel_flags[ch] \/ ch >= programma.channels)
    <2>1. programma \in Programs
        BY <1>2 DEF TypeOK, NoProgram, Channels
    <2>2. IsProgram(programma)
        BY <2>1, DeskAssumption
    <2>3. step \in 0..(programma.steps - 1) /\ ch \in 0..(programma.channels - 1)
        BY <1>2, <2>2, DeskAssumption DEF IsProgram, TypeOK, Channels
    <2>4. programma.rows[step][ch] \in Byte
        BY <2>2, <2>3 DEF IsProgram, RowsOf
    <2>5. program_intensity \in Byte
        BY DEF TypeOK
    <2> QED
        BY <1>2, <2>4, <2>5, ScaledByte DEF Source, SourceAt
<1> QED
    BY <1>1, <1>2

LEMMA RenderedIsFrame ==
    ASSUME TypeOK, step < programma.steps
    PROVE  Rendered \in Frames
<1> SUFFICES ASSUME NEW ch \in Channels
             PROVE  Scale(Source(ch), ch) \in Byte
    BY DEF Rendered, Frames
<1>1. Source(ch) \in Byte
    BY SourceIsByte
<1>2. channel_intensity[ch] \in Byte /\ master_intensity \in Byte
    BY DEF TypeOK, Frames
<1>3. apply_intensity(Source(ch), channel_intensity[ch]) \in Byte
    BY <1>1, <1>2, ScaledByte
<1>4. apply_intensity(apply_intensity(Source(ch), channel_intensity[ch]), master_intensity) \in Byte
    BY <1>2, <1>3, ScaledByte
<1> QED
    BY <1>3, <1>4 DEF Scale

\* what setting one channel, and a flush, do to the frame
LEMMA SetRawTypes ==
    ASSUME TypeOK, NEW ch \in Channels, NEW level \in Byte, SetRaw(ch, level)
    PROVE  /\ channel_flags' \in [Channels -> SUBSET Flags]
           /\ channel_overrides' \in Frames
           /\ channel_intensity' \in Frames
           /\ dmxout_sendbuf' \in Frames
           /\ dmxout_dirty' \in BOOLEAN
           /\ wire' \in Frames \cup {Blank} /\ unsent' \in BOOLEAN
BY DEF TypeOK, SetRaw, Frames

LEMMA FlushTypes ==
    ASSUME TypeOK, flush_dmxout_sendbuf
    PROVE  /\ dmxout_sendbuf' \in Frames
           /\ dmxout_dirty' \in BOOLEAN
           /\ wire' \in Frames \cup {Blank} /\ unsent' \in BOOLEAN
BY DEF TypeOK, flush_dmxout_sendbuf, send_dmx


LEMMA InitTypes == Init => TypeInv
<1> SUFFICES ASSUME Init PROVE TypeInv
    OBVIOUS
<1>1. PcOK
    BY DEF Init, PcOK, Threads, InputThreads, ProgLabels, NetLabels, ReaderLabels, WidgetLabels
<1>2. /\ inputbuf \in [Inputs -> Byte]
      /\ channel_flags \in [Channels -> SUBSET Flags]
      /\ channel_overrides \in Frames /\ channel_intensity \in Frames
      /\ dmxout_sendbuf \in Frames
    BY DEF Init, Frames, Byte
<1>3. /\ master_blackout \in Byte \cup {-1}
      /\ master_intensity \in Byte /\ program_intensity \in Byte
    BY DEF Init, Byte
<1>4. cur \in [InputThreads -> Inputs \cup {NoInput}]
    BY DEF Init
<1>5. TypeOK
    BY <1>1, <1>2, <1>3, <1>4 DEF Init, TypeOK
<1>6. CurOK
    BY DEF Init, CurOK, Threads, InputThreads
<1>7. RowInProgram /\ (pc["prog"] = "start" => step = 0)
    BY DEF Init, RowInProgram, Threads
<1> QED
    BY <1>5, <1>6, <1>7 DEF TypeInv

\* where the threads are after one reader moved
LEMMA ReaderMoves ==
    ASSUME PcOK, NEW t \in InputThreads, NEW label \in ReaderLabels, Goto(t, label)
    PROVE  /\ PcOK'
           /\ pc'["prog"] = pc["prog"] /\ pc'["net"] = pc["net"]
           /\ pc'[t] = label
           /\ \A u \in InputThreads \ {t} : pc'[u] = pc[u]
<1>1. pc' = [pc EXCEPT ![t] = label] /\ t \in {"midi", "dmx"} /\ t \in Threads
    BY DEF Goto, InputThreads, Threads
<1>2. /\ pc' \in [Threads -> ProgLabels \cup NetLabels \cup WidgetLabels]
      /\ pc'[t] = label
      /\ \A u \in Threads \ {t} : pc'[u] = pc[u]
    BY <1>1 DEF PcOK, WidgetLabels
<1>3. /\ pc'["prog"] = pc["prog"] /\ pc'["net"] = pc["net"]
      /\ \A u \in InputThreads \ {t} : pc'[u] = pc[u]
    BY <1>1, <1>2 DEF Threads, InputThreads
<1>4. CASE t = "midi"
    BY <1>2, <1>3, <1>4 DEF PcOK, InputThreads
<1>5. CASE t = "dmx"
    BY <1>2, <1>3, <1>5 DEF PcOK, InputThreads, WidgetLabels
<1> QED
    BY <1>1, <1>4, <1>5, <1>2, <1>3

-----------------------------------------------------------------------------
(* One lemma for each group of actions.                                    *)

LEMMA BatchTypes ==
    ASSUME TypeInv, NEW t \in InputThreads,
           \/ BeginBatch(t) \/ TakeInput(t) \/ Complete(t) \/ Flush(t)
    PROVE  TypeInv'
<1>1. PICK label \in ReaderLabels : Goto(t, label) /\ UNCHANGED show
    BY DEF BeginBatch, TakeInput, Complete, Flush, ReaderLabels, show
<1>2. /\ PcOK'
      /\ pc'["prog"] = pc["prog"]
      /\ pc'[t] = label
      /\ \A u \in InputThreads \ {t} : pc'[u] = pc[u]
    BY <1>1, ReaderMoves DEF TypeInv, TypeOK
<1>3. RowInProgram' /\ (pc'["prog"] = "start" => step' = 0)
    BY <1>1, <1>2 DEF TypeInv, RowInProgram, show
<1>4. CASE BeginBatch(t)
    <2>1. label = "batch" /\ pc[t] = "idle"
        BY <1>2, <1>4 DEF BeginBatch, Goto, TypeInv, TypeOK, PcOK, Threads
    <2>2. TypeOK'
        BY <1>2, <1>4 DEF BeginBatch, TypeInv, TypeOK, faders, masters, show, output, reception
    <2>3. CurOK'
        BY <1>2, <1>4, <2>1 DEF BeginBatch, TypeInv, CurOK, reception
    <2> QED
        BY <1>3, <2>2, <2>3 DEF TypeInv
<1>5. CASE TakeInput(t)
    <2>1. label = "apply"
        BY <1>2, <1>5 DEF TakeInput, Goto, TypeInv, TypeOK, PcOK, Threads
    <2>2. PICK i \in Inputs : \E new \in Levels[i] :
            /\ InputThread[i] = t
            /\ inputbuf' = [inputbuf EXCEPT ![i] = new]
            /\ cur' = [cur EXCEPT ![t] = i]
        BY <1>5 DEF TakeInput
    <2>3. /\ inputbuf' \in [Inputs -> Byte]
          /\ cur' \in [InputThreads -> Inputs \cup {NoInput}]
        <3>1. Levels[i] \in SUBSET Byte
            BY DeskAssumption
        <3> QED
            BY <2>2, <3>1 DEF TypeInv, TypeOK
    <2>4. TypeOK'
        BY <1>2, <1>5, <2>3 DEF TakeInput, TypeInv, TypeOK, faders, masters, show, output
    <2>5. CurOK'
        BY <1>2, <2>1, <2>2 DEF TypeInv, TypeOK, CurOK
    <2> QED
        BY <1>3, <2>4, <2>5 DEF TypeInv
<1>6. CASE Complete(t)
    <2>1. label = "flush" /\ pc[t] = "batch"
        BY <1>2, <1>6 DEF Complete, Goto, TypeInv, TypeOK, PcOK, Threads
    <2>2. TypeOK'
        BY <1>2, <1>6 DEF Complete, TypeInv, TypeOK, faders, masters, show, output
    <2>3. CurOK'
        BY <1>2, <1>6, <2>1 DEF Complete, TypeInv, CurOK
    <2> QED
        BY <1>3, <2>2, <2>3 DEF TypeInv
<1>7. CASE Flush(t)
    <2>1. label = "idle" /\ pc[t] = "flush"
        BY <1>2, <1>7 DEF Flush, Goto, TypeInv, TypeOK, PcOK, Threads
    <2>2. /\ dmxout_sendbuf' \in Frames
          /\ dmxout_dirty' \in BOOLEAN
          /\ wire' \in Frames \cup {Blank} /\ unsent' \in BOOLEAN
        BY <1>7, FlushTypes DEF Flush, TypeInv
    <2>3. TypeOK'
        BY <1>2, <1>7, <2>2 DEF Flush, TypeInv, TypeOK, faders, masters, show, reception
    <2>4. CurOK'
        BY <1>2, <1>7, <2>1 DEF Flush, TypeInv, CurOK, reception
    <2> QED
        BY <1>3, <2>3, <2>4 DEF TypeInv
<1> QED
    BY <1>4, <1>5, <1>6, <1>7

\* a handler has an input of its reader, and leaves the program where it was
LEMMA HandlerInput ==
    ASSUME TypeInv, NEW t \in InputThreads, pc[t] = "apply"
    PROVE  /\ cur[t] \in Inputs
           /\ InputThread[cur[t]] = t
           /\ Handlers[cur[t]].channel \in Channels
           /\ Handlers[cur[t]].other \in Inputs
           /\ inputbuf[cur[t]] \in Byte
BY DeskAssumption DEF TypeInv, TypeOK, CurOK

LEMMA HandledTypes ==
    ASSUME TypeInv, NEW t \in InputThreads, pc[t] = "apply", Handled(t), UNCHANGED show
    PROVE  /\ CurOK' /\ RowInProgram' /\ (pc'["prog"] = "start" => step' = 0)
           /\ PcOK'
           /\ inputbuf' \in [Inputs -> Byte]
           /\ receiving_changes' \in BOOLEAN
           /\ programma' \in Programs \cup {NoProgram}
           /\ step' \in Nat
           /\ cur' \in [InputThreads -> Inputs \cup {NoInput}]
<1>1. Goto(t, "batch") /\ UNCHANGED <<inputbuf, receiving_changes>>
    BY DEF Handled
<1>2. /\ PcOK'
      /\ pc'["prog"] = pc["prog"]
      /\ pc'[t] = "batch"
      /\ \A u \in InputThreads \ {t} : pc'[u] = pc[u]
    BY <1>1, ReaderMoves DEF TypeInv, TypeOK, ReaderLabels
<1>3. cur' = [cur EXCEPT ![t] = NoInput]
    BY DEF Handled
<1>4. CurOK'
    BY <1>2, <1>3 DEF TypeInv, TypeOK, CurOK
<1>5. RowInProgram' /\ (pc'["prog"] = "start" => step' = 0)
    BY <1>2 DEF TypeInv, RowInProgram, show
<1>6. cur' \in [InputThreads -> Inputs \cup {NoInput}]
    BY <1>3 DEF TypeInv, TypeOK
<1> QED
    BY <1>1, <1>2, <1>4, <1>5, <1>6 DEF TypeInv, TypeOK, show

\* a laser's channel is set to one of two levels
LEMMA LaserSets ==
    ASSUME NEW t, Laser(t)
    PROVE  \E level \in Byte : SetRaw(Handlers[cur[t]].channel, level)
<1> DEFINE ch == Handlers[cur[t]].channel
           level == IF channel_overrides[ch] = 100 THEN 0 ELSE 100
<1>1. SetRaw(ch, level)
    BY DEF Laser
<1>2. level \in Byte
    BY DEF Byte
<1> HIDE DEF level
<1> QED
    BY <1>1, <1>2

LEMMA RawTypes ==
    ASSUME TypeInv, NEW t \in InputThreads, RawValue(t) \/ Laser(t)
    PROVE  TypeInv'
<1>1. PICK level \in Byte : SetRaw(Handlers[cur[t]].channel, level)
    <2>1. CASE RawValue(t)
        BY <2>1, HandlerInput DEF RawValue, Handling, Level
    <2>2. CASE Laser(t)
        BY <2>2, LaserSets
    <2> QED
        BY <2>1, <2>2
<1>2. pc[t] = "apply" /\ Handled(t) /\ UNCHANGED <<masters, show, mk2c_lost, woken>>
    BY DEF RawValue, Laser, Handling
<1>3. Handlers[cur[t]].channel \in Channels
    BY <1>2, HandlerInput
<1>4. /\ channel_flags' \in [Channels -> SUBSET Flags]
      /\ channel_overrides' \in Frames
      /\ channel_intensity' \in Frames
      /\ dmxout_sendbuf' \in Frames
      /\ dmxout_dirty' \in BOOLEAN
      /\ wire' \in Frames \cup {Blank} /\ unsent' \in BOOLEAN
    BY <1>1, <1>3, SetRawTypes DEF TypeInv
<1> QED
    BY <1>2, <1>4, HandledTypes DEF TypeInv, TypeOK, masters, show

LEMMA ColorsAreBytes ==
    ASSUME NEW c \in Byte, NEW k \in 1..3
    PROVE  ConvertColor[c][k] \in Byte
<1>1. ConvertColor \in [Byte -> [1..3 -> Byte]]
    BY DeskAssumption
<1>2. ConvertColor[c] \in [1..3 -> Byte]
    BY <1>1
<1> QED
    BY <1>2

LEMMA LedTypes ==
    ASSUME TypeInv, NEW t \in InputThreads, LedMoved(t)
    PROVE  TypeInv'
<1> DEFINE i == cur[t]
<1>1. /\ pc[t] = "apply" /\ Handled(t) /\ UNCHANGED <<masters, show, output, mk2c_lost>>
      /\ i \in LedInputs
    BY HandlerInput DEF LedMoved, Handling, LedInputs
<1>2. Intensity(i) \in Byte /\ Color(i) \in Byte
    BY <1>1, HandlerInput DEF Intensity, Color, TypeInv, TypeOK
<1>3. /\ channel_intensity' \in Frames
      /\ channel_flags' \in [Channels -> SUBSET Flags]
    BY <1>2 DEF LedMoved, TypeInv, TypeOK, Frames, Flags
<1>4. channel_overrides' \in Frames
    <2>1. ASSUME NEW ch \in Channels, ch \in Fixture(i)
          PROVE  ConvertColor[Color(i)][ch - Handlers[i].channel + 1] \in Byte
        <3>1. ch - Handlers[i].channel + 1 \in 1..3
            <4>1. Handlers[i].channel \in Channels
                BY <1>1, HandlerInput
            <4>2. DMX_CHANNELS \in Nat
                BY DeskAssumption
            <4> QED
                BY <2>1, <4>1, <4>2 DEF Fixture, Channels
        <3> QED
            BY <1>2, <3>1, ColorsAreBytes
    <2> QED
        BY <2>1 DEF LedMoved, TypeInv, TypeOK, Frames
<1>5. woken' \in BOOLEAN
    BY DEF LedMoved, Signal, Signalled, TypeInv, TypeOK
<1> QED
    BY <1>1, <1>3, <1>4, <1>5, HandledTypes DEF TypeInv, TypeOK, masters, show, output

\* the handlers that move masters, or nothing
LEMMA MasterTypes ==
    ASSUME TypeInv, NEW t \in InputThreads,
           \/ MasterMoved(t) \/ Blackout(t) \/ Chase(t) \/ Run(t)
           \/ Retime(t) \/ NoEffect(t)
    PROVE  TypeInv'
<1>1. /\ pc[t] = "apply" /\ Handled(t)
      /\ UNCHANGED <<faders, show, output, mk2c_lost>>
    BY DEF MasterMoved, Blackout, Chase, Run, Retime, NoEffect, Handling, masters
<1>2. Level(t) \in Byte
    BY <1>1, HandlerInput DEF Level
<1>3. /\ master_blackout' \in Byte \cup {-1}
      /\ master_intensity' \in Byte
      /\ program_intensity' \in Byte
      /\ program_running' \in BOOLEAN
    <2>1. CASE MasterMoved(t)
        BY <1>2, <2>1 DEF MasterMoved, TypeInv, TypeOK
    <2>2. CASE Blackout(t)
        <3>1. 0 \in Byte
            BY DEF Byte
        <3> QED
            BY <2>2, <3>1 DEF Blackout, TypeInv, TypeOK
    <2>3. CASE Chase(t)
        BY <1>2, <2>3 DEF Chase, TypeInv, TypeOK
    <2>4. CASE Run(t)
        BY <2>4 DEF Run, TypeInv, TypeOK
    <2>5. CASE Retime(t) \/ NoEffect(t)
        BY <2>5 DEF Retime, NoEffect, masters, TypeInv, TypeOK
    <2> QED
        BY <2>1, <2>2, <2>3, <2>4, <2>5
<1>4. woken' \in BOOLEAN
    BY DEF MasterMoved, Blackout, Chase, Run, Retime, NoEffect, Signal, Signalled,
           TypeInv, TypeOK
<1> QED
    BY <1>1, <1>3, <1>4, HandledTypes DEF TypeInv, TypeOK, faders, show, output

LEMMA NetMoves ==
    ASSUME PcOK, NEW label \in NetLabels, Goto("net", label)
    PROVE  /\ PcOK'
           /\ pc'["net"] = label
           /\ \A u \in Threads \ {"net"} : pc'[u] = pc[u]
<1>1. pc' \in [Threads -> ProgLabels \cup NetLabels \cup WidgetLabels]
    BY DEF PcOK, Goto
<1>2. pc'["net"] = label /\ \A u \in Threads \ {"net"} : pc'[u] = pc[u]
    BY DEF PcOK, Goto, Threads
<1>3. {"prog", "midi", "dmx"} \subseteq Threads \ {"net"}
    BY DEF Threads, InputThreads
<1> QED
    BY <1>1, <1>2, <1>3 DEF PcOK

LEMMA ProgMoves ==
    ASSUME PcOK, NEW label \in ProgLabels, Goto("prog", label)
    PROVE  /\ PcOK'
           /\ pc'["prog"] = label
           /\ \A u \in Threads \ {"prog"} : pc'[u] = pc[u]
<1>1. pc' \in [Threads -> ProgLabels \cup NetLabels \cup WidgetLabels]
    BY DEF PcOK, Goto
<1>2. pc'["prog"] = label /\ \A u \in Threads \ {"prog"} : pc'[u] = pc[u]
    BY DEF PcOK, Goto, Threads
<1>3. {"net", "midi", "dmx"} \subseteq Threads \ {"prog"}
    BY DEF Threads, InputThreads
<1> QED
    BY <1>1, <1>2, <1>3 DEF PcOK

\* the readers are where they were and have the inputs they had
LEMMA OthersKeepInputs ==
    ASSUME TypeInv, NEW v \in {"net", "prog"}, \A u \in Threads \ {v} : pc'[u] = pc[u],
           UNCHANGED cur
    PROVE  CurOK'
<1>1. \A u \in InputThreads : pc'[u] = pc[u]
    BY DEF Threads, InputThreads
<1> QED
    BY <1>1 DEF TypeInv, CurOK

LEMMA NetTypes ==
    ASSUME TypeInv, Net
    PROVE  TypeInv'
<1>1. PICK label \in NetLabels : Goto("net", label) /\ UNCHANGED <<reception, step, mk2c_lost>>
    BY DEF Net, NetSetChannel, NetNoChannel, NetStep, NetActivate, NetOther, NetCheck, Flush,
           NetCommand, NetLabels, show
<1>2. /\ PcOK'
      /\ \A u \in Threads \ {"net"} : pc'[u] = pc[u]
    BY <1>1, NetMoves DEF TypeInv, TypeOK
<1>3. pc'["prog"] = pc["prog"]
    BY <1>2 DEF Threads
<1>4. CurOK'
    BY <1>1, <1>2, OthersKeepInputs DEF reception
<1>5. /\ programma' \in Programs \cup {NoProgram}
      /\ RowInProgram' /\ (pc'["prog"] = "start" => step' = 0)
    <2>1. CASE NetActivate
        BY <1>1, <1>3, <2>1 DEF NetActivate, NetCommand, StepMtxFree, TypeInv, TypeOK, RowInProgram
    <2>2. CASE ~NetActivate
        <3>1. UNCHANGED show
            BY <2>2 DEF Net, NetSetChannel, NetNoChannel, NetStep, NetOther, NetCheck, Flush
        <3> QED
            BY <1>3, <3>1 DEF TypeInv, TypeOK, RowInProgram, show
    <2> QED
        BY <2>1, <2>2
<1>6. /\ channel_flags' \in [Channels -> SUBSET Flags]
      /\ channel_overrides' \in Frames
      /\ channel_intensity' \in Frames
      /\ dmxout_sendbuf' \in Frames
      /\ dmxout_dirty' \in BOOLEAN
      /\ wire' \in Frames \cup {Blank} /\ unsent' \in BOOLEAN
    <2>1. CASE NetSetChannel
        <3>1. PICK ch \in NetChannels \ {NoChannel}, level \in NetLevels : SetRaw(ch, level)
            BY <2>1 DEF NetSetChannel
        <3>2. ch \in Channels /\ level \in Byte
            BY DeskAssumption
        <3> QED
            BY <3>1, <3>2, SetRawTypes DEF TypeInv
    <2>2. CASE Flush("net")
        BY <2>2, FlushTypes DEF Flush, faders, TypeInv, TypeOK
    <2>3. CASE NetNoChannel \/ NetStep \/ NetActivate \/ NetOther \/ NetCheck
        BY <2>3 DEF NetNoChannel, NetStep, NetActivate, NetOther, NetCheck, faders, output,
                    TypeInv, TypeOK
    <2> QED
        BY <2>1, <2>2, <2>3 DEF Net
<1>7. UNCHANGED masters
    BY DEF Net, NetSetChannel, NetNoChannel, NetStep, NetActivate, NetOther, NetCheck, Flush
<1>8. woken' \in BOOLEAN
    BY DEF Net, NetSetChannel, NetNoChannel, NetStep, NetActivate, NetOther, NetCheck, Flush,
           Signal, Signalled,
           TypeInv, TypeOK
<1>9. TypeOK'
    BY <1>1, <1>2, <1>5, <1>6, <1>7, <1>8 DEF TypeInv, TypeOK, masters, reception
<1> QED
    BY <1>4, <1>5, <1>9 DEF TypeInv

\* a step that NextRow gives is a step of the program
LEMMA RowExists ==
    ASSUME TypeOK, NEW s \in Nat
    PROVE  NextRow(s) \in Nat /\ NextRow(s) < programma.steps
<1>1. programma.steps \in Nat \ {0}
    BY DeskAssumption DEF TypeOK, IsProgram, NoProgram
<1> QED
    BY <1>1 DEF NextRow

LEMMA ProgTypes ==
    ASSUME TypeInv, prog_runner
    PROVE  TypeInv'
<1>1. CASE Reconnect
    <2>1. PcOK' /\ pc["dmx"] = "dead" /\ pc["prog"] = "reconnect" /\ pc'["midi"] = pc["midi"]
          /\ pc'["prog"] \in {"restore", "wait"} /\ pc'["dmx"] \in {"idle", "dead"}
        BY <1>1 DEF Reconnect, Goto, TypeInv, TypeOK, PcOK, Threads, InputThreads,
                    ProgLabels, ReaderLabels, WidgetLabels
    <2>2. TypeOK'
        BY <1>1, <2>1 DEF Reconnect, TypeInv, TypeOK, faders, masters, show, output, reception
    <2>3. CurOK'
        BY <1>1, <2>1 DEF Reconnect, TypeInv, CurOK, InputThreads, reception
    <2> QED
        BY <1>1, <2>1, <2>2, <2>3 DEF TypeInv, RowInProgram
<1>2. CASE ~Reconnect
    <2>1. PICK label \in ProgLabels : Goto("prog", label) /\ UNCHANGED <<faders, masters, reception, programma>>
        BY <1>2 DEF prog_runner, Start, Render, Restore, Wake, TimedOut, ProgLabels, show
    <2>2. /\ PcOK' /\ pc'["prog"] = label
          /\ \A u \in Threads \ {"prog"} : pc'[u] = pc[u]
        BY <2>1, ProgMoves DEF TypeInv, TypeOK
    <2>3. CurOK'
        BY <2>1, <2>2, OthersKeepInputs DEF reception
    <2>4. /\ dmxout_sendbuf' \in Frames
          /\ dmxout_dirty' \in BOOLEAN
          /\ wire' \in Frames \cup {Blank} /\ unsent' \in BOOLEAN
        <3>1. CASE Render
            <4>1. Rendered \in Frames
                BY <3>1, RenderedIsFrame DEF Render, TypeInv, RowInProgram
            <4> QED
                BY <3>1, <4>1 DEF Render, send_dmx, TypeInv, TypeOK
        <3>2. CASE Restore
            BY <3>2, FlushTypes DEF Restore, TypeInv
        <3>3. CASE Start \/ Wake \/ TimedOut
            BY <3>3 DEF Start, Wake, TimedOut, output, TypeInv, TypeOK
        <3> QED
            BY <1>2, <3>1, <3>2, <3>3 DEF prog_runner
    <2>5. /\ step' \in Nat
          /\ RowInProgram' /\ (pc'["prog"] = "start" => step' = 0)
        <3>1. CASE Wake \/ TimedOut
            <4>1. PICK s \in Nat : step' = NextRow(s)
                BY <3>1 DEF Wake, TimedOut, TypeInv, TypeOK
            <4>2. step' \in Nat /\ step' < programma.steps
                BY <4>1, RowExists DEF TypeInv
            <4>3. pc'["prog"] = "render"
                BY <3>1, <2>2 DEF Wake, TimedOut, Goto, TypeInv, TypeOK, PcOK, Threads
            <4> QED
                BY <2>1, <4>2, <4>3 DEF RowInProgram
        <3>2. CASE Start
            <4>1. step = 0 /\ step < programma.steps
                <5>1. programma.steps \in Nat \ {0}
                    BY DeskAssumption DEF TypeInv, TypeOK, IsProgram, NoProgram
                <5> QED
                    BY <3>2, <5>1 DEF Start, TypeInv
            <4> QED
                BY <3>2, <4>1 DEF Start, RowInProgram, show
        <3>3. CASE Render \/ Restore
            <4>1. pc'["prog"] \in {"reconnect", "wait"} /\ UNCHANGED show
                BY <3>3, <2>2 DEF Render, Restore, Goto, TypeInv, TypeOK, PcOK, Threads
            <4> QED
                BY <4>1 DEF RowInProgram, show, TypeInv, TypeOK
        <3> QED
            BY <1>2, <3>1, <3>2, <3>3 DEF prog_runner
    <2>6. woken' \in BOOLEAN /\ mk2c_lost' \in BOOLEAN
        BY <1>2 DEF prog_runner, Start, Render, Restore, Wake, TimedOut, TypeInv, TypeOK
    <2>7. TypeOK'
        BY <2>1, <2>2, <2>4, <2>5, <2>6 DEF TypeInv, TypeOK, faders, masters, reception
    <2> QED
        BY <2>3, <2>5, <2>7 DEF TypeInv
<1> QED
    BY <1>1, <1>2

LEMMA WidgetTypes ==
    ASSUME TypeInv, WidgetError \/ error_step
    PROVE  TypeInv'
<1>1. PICK label \in {"error", "dead"} :
        /\ Goto("dmx", label) /\ pc["dmx"] \in {"idle", "error"}
        /\ UNCHANGED <<faders, masters, show, reception>>
    BY DEF WidgetError, error_step
<1>2. PcOK' /\ pc'["prog"] = pc["prog"] /\ pc'["midi"] = pc["midi"] /\ pc'["dmx"] = label
    BY <1>1 DEF Goto, TypeInv, TypeOK, PcOK, Threads, InputThreads, WidgetLabels
<1>3. CurOK'
    BY <1>1, <1>2 DEF TypeInv, CurOK, InputThreads, reception
<1>4. RowInProgram' /\ (pc'["prog"] = "start" => step' = 0)
    BY <1>1, <1>2 DEF TypeInv, RowInProgram, show
<1>5. TypeOK'
    BY <1>1, <1>2 DEF WidgetError, error_step, Signal, Signalled, TypeInv, TypeOK,
                      faders, masters, show, output, reception
<1> QED
    BY <1>3, <1>4, <1>5 DEF TypeInv

LEMMA TypeStep == TypeInv /\ [Next]_vars => TypeInv'
<1> SUFFICES ASSUME TypeInv, [Next]_vars PROVE TypeInv'
    OBVIOUS
<1>1. ASSUME NEW t \in InputThreads, Reader(t) PROVE TypeInv'
    BY <1>1, BatchTypes, RawTypes, LedTypes, MasterTypes DEF Reader, update_input
<1>2. CASE Net
    BY <1>2, NetTypes
<1>3. CASE prog_runner
    BY <1>3, ProgTypes
<1>4. CASE WidgetError \/ error_step
    BY <1>4, WidgetTypes
<1>5. CASE UNCHANGED vars
    BY <1>5 DEF vars, faders, masters, show, output, reception,
                TypeInv, TypeOK, PcOK, CurOK, RowInProgram
<1> QED
    BY <1>1, <1>2, <1>3, <1>4, <1>5 DEF Next

(***************************************************************************)
(* Every variable of the desk keeps its type: levels stay bytes whatever   *)
(* is multiplied, and prog_runner only reads rows the program has.         *)
(***************************************************************************)
THEOREM TypeCorrect == Spec => []TypeInv
BY InitTypes, TypeStep, PTL DEF Spec

THEOREM TypesHold == Spec => []TypeOK
BY TypeCorrect, PTL DEF TypeInv

(***************************************************************************)
(* prog_runner never reads past the rows of the active program.            *)
(***************************************************************************)
THEOREM RowsHold == Spec => []RowInProgram
BY TypeCorrect, PTL DEF TypeInv

-----------------------------------------------------------------------------
(* The stage.  StageUpToDate speaks of a moment when nobody is active; the *)
(* invariant says what holds until then: whether the composed frame is     *)
(* the one wanted, and who still owes a flush for what the widget misses.  *)

\* unless prog_runner is to look again, the composed frame is the one wanted
FrameCurrent ==
    Settled \/ pc["prog"] \in {"reconnect", "restore"} =>
        dmxout_sendbuf = Rendered /\ step < programma.steps

WokenAsleep == woken => pc["prog"] = "wait"

\* a channel set directly is not faded
RawFull == \A ch \in RawChannels : channel_intensity[ch] = 255

DarkWhenDown == ~WidgetUp => wire = Blank
LostMeansDown == mk2c_lost /\ pc["prog"] # "restore" => ~WidgetUp

\* receiving_changes promises that a reader will flush
BatchOpen == receiving_changes => \E t \in InputThreads : pc[t] \in {"apply", "batch"}

\* somebody is on the way to send what the widget misses, or a write failed
FlushOwed ==
    ~unsent /\ wire \notin {Blank, dmxout_sendbuf} =>
        /\ dmxout_dirty
        /\ \/ \E t \in InputThreads : pc[t] \in {"apply", "batch", "flush"}
           \/ pc["net"] \in {"check", "flush"}

BlackoutIsDark == master_blackout # -1 => master_intensity = 0

\* what the widget misses is only channels set directly
ObeysMaster ==
    ~unsent /\ wire # Blank => \A ch \in Channels :
        "IGNORE_MASTER" \in channel_flags[ch] \/ wire[ch] = dmxout_sendbuf[ch]

StageInv ==
    /\ FrameCurrent /\ WokenAsleep /\ RawFull
    /\ DarkWhenDown /\ LostMeansDown
    /\ BatchOpen /\ FlushOwed
    /\ BlackoutIsDark /\ ObeysMaster

LEMMA InitStage == Init => StageInv
<1> SUFFICES ASSUME Init PROVE StageInv
    OBVIOUS
<1>1. pc["prog"] = "start" /\ pc["dmx"] = "idle"
    BY DEF Init, Threads, InputThreads
<1>2. RawChannels \subseteq Channels
    BY DeskAssumption DEF RawChannels
<1>3. RawFull
    BY <1>2 DEF Init, RawFull
<1> QED
    BY <1>1, <1>3 DEF Init, StageInv, FrameCurrent, Settled, WokenAsleep, DarkWhenDown, WidgetUp,
        LostMeansDown, BatchOpen, FlushOwed, BlackoutIsDark, ObeysMaster

\* a reader that moves among its own labels keeps the widget up
LEMMA ReaderKeepsWidget ==
    ASSUME TypeInv, NEW t \in InputThreads, pc[t] \in ReaderLabels,
           NEW label \in ReaderLabels, Goto(t, label)
    PROVE  /\ WidgetUp' = WidgetUp
           /\ pc'["prog"] = pc["prog"] /\ pc'["net"] = pc["net"]
           /\ pc'[t] = label
           /\ \A u \in InputThreads \ {t} : pc'[u] = pc[u]
<1>1. /\ pc'["prog"] = pc["prog"] /\ pc'["net"] = pc["net"]
      /\ pc'[t] = label
      /\ \A u \in InputThreads \ {t} : pc'[u] = pc[u]
    BY ReaderMoves DEF TypeInv, TypeOK
<1>2. CASE t = "dmx"
    BY <1>1, <1>2 DEF WidgetUp, ReaderLabels
<1>3. CASE t # "dmx"
    BY <1>1, <1>3 DEF WidgetUp, InputThreads
<1> QED
    BY <1>1, <1>2, <1>3

LEMMA SameRendered ==
    ASSUME UNCHANGED <<faders, show, master_intensity, program_intensity>>
    PROVE  Rendered' = Rendered
BY DEF Rendered, Scale, Source, SourceAt, faders, show

\* a channel set directly is in the frame as prog_runner would compose it
LEMMA RawKeepsFrame ==
    ASSUME TypeInv, RawFull, NEW ch \in RawChannels, NEW level \in Byte, SetRaw(ch, level),
           UNCHANGED <<masters, show>>, dmxout_sendbuf = Rendered
    PROVE  dmxout_sendbuf' = Rendered'
<1>1. ch \in Channels /\ channel_intensity[ch] = 255
    BY DeskAssumption DEF RawChannels, RawFull
<1>2. dmxout_sendbuf' = [c \in Channels |-> IF c = ch THEN level ELSE Rendered[c]]
    BY DEF SetRaw, TypeInv, TypeOK, Frames, Rendered
<1>3. ASSUME NEW c \in Channels, c # ch
      PROVE  Scale(Source(c), c)' = Scale(Source(c), c)
    <2>1. channel_flags'[c] = channel_flags[c] /\ channel_overrides'[c] = channel_overrides[c]
        BY <1>3 DEF SetRaw, TypeInv, TypeOK, Frames
    <2> QED
        BY <2>1 DEF Scale, Source, SourceAt, SetRaw, masters, show
<1>4. Scale(Source(ch), ch)' = level
    <2>1. channel_flags'[ch] = Flags /\ channel_overrides'[ch] = level
        BY <1>1 DEF SetRaw, TypeInv, TypeOK, Frames
    <2>2. Source(ch)' = level
        BY <2>1 DEF Source, SourceAt, Flags
    <2>3. Scale(Source(ch), ch)' = apply_intensity(level, 255)
        BY <1>1, <2>1, <2>2 DEF Scale, Flags, SetRaw
    <2> QED
        BY <2>3, ScaledByFull
<1>5. Rendered' = [c \in Channels |-> IF c = ch THEN level ELSE Scale(Source(c), c)]
    BY <1>3, <1>4 DEF Rendered
<1> QED
    BY <1>2, <1>5 DEF Rendered

\* setting a channel: what it needs of its thread is to stay on the way to a flush
LEMMA RawStage ==
    ASSUME TypeInv, StageInv, NEW ch \in RawChannels, NEW level \in Byte, SetRaw(ch, level),
           UNCHANGED <<masters, show, mk2c_lost, woken>>,
           pc'["prog"] = pc["prog"], WidgetUp' = WidgetUp
    PROVE  /\ FrameCurrent' /\ WokenAsleep' /\ RawFull'
           /\ DarkWhenDown' /\ LostMeansDown'
           /\ BlackoutIsDark' /\ ObeysMaster'
           /\ dmxout_dirty'
<1>1. FrameCurrent'
    BY RawKeepsFrame DEF StageInv, FrameCurrent, Settled, show
<1>2. ch \in Channels
    BY DeskAssumption DEF RawChannels
<1>3. ObeysMaster'
    <2>1. channel_flags'[ch] = Flags
        BY <1>2 DEF SetRaw, TypeInv, TypeOK
    <2>2. \A c \in Channels \ {ch} : /\ channel_flags'[c] = channel_flags[c]
                                     /\ dmxout_sendbuf'[c] = dmxout_sendbuf[c]
        BY <1>2 DEF SetRaw, TypeInv, TypeOK, Frames
    <2> QED
        BY <2>1, <2>2 DEF StageInv, ObeysMaster, SetRaw, Flags
<1> QED
    BY <1>1, <1>3 DEF StageInv, WokenAsleep, RawFull, DarkWhenDown, LostMeansDown, BlackoutIsDark,
                      SetRaw, masters

\* a flush by any thread
LEMMA FlushStage ==
    ASSUME TypeInv, StageInv, flush_dmxout_sendbuf, UNCHANGED <<faders, masters, show>>
    PROVE  /\ unsent' \/ wire' \in {Blank, dmxout_sendbuf'}
           /\ ~WidgetUp => wire' = Blank
           /\ UNCHANGED dmxout_sendbuf
           /\ Rendered' = Rendered
           /\ RawFull' /\ BlackoutIsDark' /\ ObeysMaster'
<1>1. (unsent' \/ wire' \in {Blank, dmxout_sendbuf}) /\ (~WidgetUp => wire' = Blank)
    BY DEF StageInv, FlushOwed, DarkWhenDown, flush_dmxout_sendbuf, send_dmx
<1> QED
    BY <1>1, SameRendered DEF StageInv, RawFull, BlackoutIsDark, ObeysMaster,
        flush_dmxout_sendbuf, faders, masters

-----------------------------------------------------------------------------
(* One lemma for each group of actions, as for the types.                  *)

LEMMA BatchStage ==
    ASSUME TypeInv, StageInv, NEW t \in InputThreads,
           \/ BeginBatch(t) \/ TakeInput(t) \/ Complete(t) \/ Flush(t)
    PROVE  StageInv'
<1>1. PICK label \in ReaderLabels :
        /\ Goto(t, label) /\ pc[t] \in ReaderLabels
        /\ UNCHANGED <<faders, masters, show, mk2c_lost, woken>>
    BY DEF BeginBatch, TakeInput, Complete, Flush, ReaderLabels
<1>2. /\ WidgetUp' = WidgetUp
      /\ pc'["prog"] = pc["prog"] /\ pc'["net"] = pc["net"]
      /\ pc'[t] = label
      /\ \A u \in InputThreads \ {t} : pc'[u] = pc[u]
    BY <1>1, ReaderKeepsWidget
<1>3. t \in Threads
    BY DEF Threads
<1>4. Rendered' = Rendered
    BY <1>1, SameRendered DEF masters
<1>5. WokenAsleep' /\ LostMeansDown'
    BY <1>1, <1>2 DEF StageInv, WokenAsleep, LostMeansDown
<1>6. CASE BeginBatch(t) \/ TakeInput(t) \/ Complete(t)
    <2>1. UNCHANGED output
        BY <1>6 DEF BeginBatch, TakeInput, Complete
    <2>2. FrameCurrent' /\ RawFull' /\ DarkWhenDown' /\ BlackoutIsDark' /\ ObeysMaster'
        BY <1>1, <1>2, <1>4, <2>1 DEF StageInv, FrameCurrent, Settled, RawFull, DarkWhenDown,
            BlackoutIsDark, ObeysMaster, faders, masters, show, output
    <2>3. CASE BeginBatch(t)
        <3>1. label = "batch" /\ pc[t] = "idle" /\ UNCHANGED reception
            BY <1>1, <1>2, <1>3, <2>3 DEF BeginBatch, Goto, TypeInv, TypeOK, PcOK
        <3>2. BatchOpen'
            BY <1>2, <3>1 DEF StageInv, BatchOpen, reception
        <3>3. FlushOwed'
            BY <1>2, <2>1, <3>1 DEF StageInv, FlushOwed, output
        <3> QED
            BY <1>5, <2>2, <3>2, <3>3 DEF StageInv
    <2>4. CASE TakeInput(t)
        <3>1. label = "apply"
            BY <1>1, <1>2, <1>3, <2>4 DEF TakeInput, Goto, TypeInv, TypeOK, PcOK
        <3>2. BatchOpen'
            BY <1>2, <3>1 DEF BatchOpen
        <3>3. FlushOwed'
            BY <1>2, <2>1, <3>1 DEF StageInv, FlushOwed, output
        <3> QED
            BY <1>5, <2>2, <3>2, <3>3 DEF StageInv
    <2>5. CASE Complete(t)
        <3>1. label = "flush" /\ ~receiving_changes'
            BY <1>1, <1>2, <1>3, <2>5 DEF Complete, Goto, TypeInv, TypeOK, PcOK
        <3>2. BatchOpen'
            BY <3>1 DEF BatchOpen
        <3>3. FlushOwed'
            BY <1>2, <2>1, <3>1 DEF StageInv, FlushOwed, output
        <3> QED
            BY <1>5, <2>2, <3>2, <3>3 DEF StageInv
    <2> QED
        BY <1>6, <2>3, <2>4, <2>5
<1>7. CASE Flush(t)
    <2>1. flush_dmxout_sendbuf /\ UNCHANGED reception /\ pc[t] = "flush"
        BY <1>7 DEF Flush
    <2>2. /\ unsent' \/ wire' \in {Blank, dmxout_sendbuf'}
          /\ ~WidgetUp => wire' = Blank
          /\ UNCHANGED dmxout_sendbuf
          /\ RawFull' /\ BlackoutIsDark' /\ ObeysMaster'
        BY <1>1, <2>1, FlushStage
    <2>3. FrameCurrent'
        BY <1>1, <1>2, <1>4, <2>2 DEF StageInv, FrameCurrent, Settled, show
    <2>4. BatchOpen'
        BY <1>2, <2>1 DEF StageInv, BatchOpen, reception
    <2>5. FlushOwed' /\ DarkWhenDown'
        BY <1>2, <2>2 DEF FlushOwed, DarkWhenDown
    <2> QED
        BY <1>5, <2>2, <2>3, <2>4, <2>5 DEF StageInv
<1> QED
    BY <1>6, <1>7

\* after a handler its thread is in the batch again, and owes the flush
LEMMA HandledStage ==
    ASSUME TypeInv, StageInv, NEW t \in InputThreads, pc[t] = "apply", Handled(t)
    PROVE  /\ pc'["prog"] = pc["prog"] /\ WidgetUp' = WidgetUp
           /\ BatchOpen'
           /\ dmxout_dirty' \/ UNCHANGED output => FlushOwed'
<1>1. Goto(t, "batch") /\ UNCHANGED receiving_changes
    BY DEF Handled
<1>2. /\ WidgetUp' = WidgetUp
      /\ pc'["prog"] = pc["prog"] /\ pc'["net"] = pc["net"]
      /\ pc'[t] = "batch"
      /\ \A u \in InputThreads \ {t} : pc'[u] = pc[u]
    BY <1>1, ReaderKeepsWidget DEF ReaderLabels
<1>3. BatchOpen'
    BY <1>2 DEF BatchOpen
<1>4. dmxout_dirty' \/ UNCHANGED output => FlushOwed'
    BY <1>2 DEF StageInv, FlushOwed, output
<1> QED
    BY <1>2, <1>3, <1>4

LEMMA RawInputStage ==
    ASSUME TypeInv, StageInv, NEW t \in InputThreads, RawValue(t) \/ Laser(t)
    PROVE  StageInv'
<1>1. PICK level \in Byte : SetRaw(Handlers[cur[t]].channel, level)
    <2>1. CASE RawValue(t)
        BY <2>1, HandlerInput DEF RawValue, Handling, Level
    <2>2. CASE Laser(t)
        BY <2>2, LaserSets
    <2> QED
        BY <2>1, <2>2
<1>2. /\ pc[t] = "apply" /\ Handled(t) /\ UNCHANGED <<masters, show, mk2c_lost, woken>>
      /\ Handlers[cur[t]].action \in RawActions
    BY DEF RawValue, Laser, Handling, RawActions
<1>3. Handlers[cur[t]].channel \in RawChannels
    BY <1>2, HandlerInput DEF RawChannels
<1>4. pc'["prog"] = pc["prog"] /\ WidgetUp' = WidgetUp
    BY <1>2, HandledStage
<1>5. /\ FrameCurrent' /\ WokenAsleep' /\ RawFull'
      /\ DarkWhenDown' /\ LostMeansDown'
      /\ BlackoutIsDark' /\ ObeysMaster'
      /\ dmxout_dirty'
    BY <1>1, <1>2, <1>3, <1>4, RawStage
<1>6. BatchOpen' /\ FlushOwed'
    BY <1>2, <1>5, HandledStage
<1> QED
    BY <1>5, <1>6 DEF StageInv

LEMMA LedStage ==
    ASSUME TypeInv, StageInv, NEW t \in InputThreads, LedMoved(t)
    PROVE  StageInv'
<1>1. /\ pc[t] = "apply" /\ Handled(t) /\ StepMtxFree /\ Signal
      /\ UNCHANGED <<masters, show, output, mk2c_lost>>
      /\ Handlers[cur[t]].action \in LedActions
    BY DEF LedMoved, Handling
<1>2. pc'["prog"] = pc["prog"] /\ WidgetUp' = WidgetUp /\ BatchOpen' /\ FlushOwed'
    BY <1>1, HandledStage
<1>3. FrameCurrent' /\ WokenAsleep'
    BY <1>1, <1>2 DEF FrameCurrent, Settled, WokenAsleep, Signal, Signalled, StepMtxFree,
                      StageInv
<1>4. RawFull'
    <2>1. cur[t] \in LedInputs
        BY <1>1, HandlerInput DEF LedInputs
    <2>2. Fixture(cur[t]) \cap RawChannels = {}
        BY <2>1, PatchAssumption
    <2>3. RawChannels \subseteq Channels
        BY DeskAssumption DEF RawChannels
    <2> QED
        BY <2>2, <2>3 DEF LedMoved, RawFull, StageInv
<1>5. ObeysMaster'
    <2>1. ASSUME NEW ch \in Channels, "IGNORE_MASTER" \in channel_flags[ch]
          PROVE  "IGNORE_MASTER" \in channel_flags'[ch]
        BY <2>1 DEF LedMoved
    <2> QED
        BY <1>1, <2>1 DEF ObeysMaster, StageInv, output
<1>6. DarkWhenDown' /\ LostMeansDown' /\ BlackoutIsDark'
    BY <1>1, <1>2 DEF DarkWhenDown, LostMeansDown, BlackoutIsDark, StageInv, masters, output
<1> QED
    BY <1>2, <1>3, <1>4, <1>5, <1>6 DEF StageInv

LEMMA MasterStage ==
    ASSUME TypeInv, StageInv, NEW t \in InputThreads,
           \/ MasterMoved(t) \/ Blackout(t) \/ Chase(t) \/ Run(t)
           \/ Retime(t) \/ NoEffect(t)
    PROVE  StageInv'
<1>1. /\ pc[t] = "apply" /\ Handled(t)
      /\ UNCHANGED <<faders, show, output, mk2c_lost>>
    BY DEF MasterMoved, Blackout, Chase, Run, Retime, NoEffect, Handling
<1>2. pc'["prog"] = pc["prog"] /\ WidgetUp' = WidgetUp /\ BatchOpen' /\ FlushOwed'
    BY <1>1, HandledStage
<1>3. \/ Signal /\ StepMtxFree
      \/ UNCHANGED <<master_intensity, program_intensity, woken>>
    BY DEF MasterMoved, Blackout, Chase, Run, Retime, NoEffect, masters
<1>4. FrameCurrent' /\ WokenAsleep'
    <2>1. CASE Signal /\ StepMtxFree
        BY <1>2, <2>1 DEF FrameCurrent, Settled, WokenAsleep, Signal, Signalled, StepMtxFree,
                          StageInv
    <2>2. CASE UNCHANGED <<master_intensity, program_intensity, woken>>
        <3>1. Rendered' = Rendered
            BY <1>1, <2>2, SameRendered
        <3> QED
            BY <1>1, <1>2, <2>2, <3>1 DEF FrameCurrent, Settled, WokenAsleep, StageInv,
                                          show, output
    <2> QED
        BY <1>3, <2>1, <2>2
<1>5. BlackoutIsDark'
    BY DEF MasterMoved, Blackout, Chase, Run, Retime, NoEffect, masters, BlackoutIsDark, StageInv
<1>6. RawFull' /\ DarkWhenDown' /\ LostMeansDown' /\ ObeysMaster'
    BY <1>1, <1>2 DEF RawFull, DarkWhenDown, LostMeansDown, ObeysMaster, StageInv, faders, output
<1> QED
    BY <1>2, <1>4, <1>5, <1>6 DEF StageInv

LEMMA NetStage ==
    ASSUME TypeInv, StageInv, Net
    PROVE  StageInv'
<1>1. PICK label \in NetLabels : Goto("net", label) /\ UNCHANGED <<masters, reception, step, mk2c_lost>>
    BY DEF Net, NetSetChannel, NetNoChannel, NetStep, NetActivate, NetOther, NetCheck, Flush,
           NetCommand, NetLabels, show
<1>2. /\ pc'["net"] = label
      /\ \A u \in Threads \ {"net"} : pc'[u] = pc[u]
    BY <1>1, NetMoves DEF TypeInv, TypeOK
<1>3. pc'["prog"] = pc["prog"] /\ WidgetUp' = WidgetUp
      /\ \A u \in InputThreads : pc'[u] = pc[u]
    BY <1>2 DEF Threads, InputThreads, WidgetUp
<1>4. BatchOpen'
    BY <1>1, <1>3 DEF StageInv, BatchOpen, reception
<1>5. LostMeansDown' /\ BlackoutIsDark'
    BY <1>1, <1>3 DEF StageInv, LostMeansDown, BlackoutIsDark, masters
<1>6. CASE NetSetChannel
    <2>1. PICK ch \in NetChannels \ {NoChannel}, level \in NetLevels : SetRaw(ch, level)
        BY <1>6 DEF NetSetChannel
    <2>2. ch \in RawChannels /\ level \in Byte /\ UNCHANGED <<show, woken>>
        BY <1>6, DeskAssumption DEF RawChannels, NetSetChannel
    <2>3. /\ FrameCurrent' /\ WokenAsleep' /\ RawFull'
          /\ DarkWhenDown' /\ ObeysMaster'
          /\ dmxout_dirty'
        BY <1>1, <1>3, <2>1, <2>2, RawStage
    <2>4. label = "check"
        BY <1>1, <1>2, <1>6 DEF NetSetChannel, NetCommand, Goto, TypeInv, TypeOK, PcOK, Threads
    <2>5. FlushOwed'
        BY <1>2, <2>3, <2>4 DEF FlushOwed
    <2> QED
        BY <1>4, <1>5, <2>3, <2>5 DEF StageInv
<1>7. CASE NetStep \/ NetActivate
    <2>1. StepMtxFree /\ Signal /\ UNCHANGED <<faders, output>>
        BY <1>7 DEF NetStep, NetActivate
    <2>2. FrameCurrent' /\ WokenAsleep'
        BY <1>3, <2>1 DEF FrameCurrent, Settled, WokenAsleep, Signal, Signalled, StepMtxFree,
                          StageInv
    <2>3. label = "check"
        BY <1>1, <1>2, <1>7 DEF NetStep, NetActivate, NetCommand, Goto, TypeInv, TypeOK,
                                PcOK, Threads
    <2>4. FlushOwed'
        BY <1>2, <2>1, <2>3 DEF FlushOwed, StageInv, output
    <2>5. RawFull' /\ DarkWhenDown' /\ ObeysMaster'
        BY <1>3, <2>1 DEF RawFull, DarkWhenDown, ObeysMaster, StageInv, faders, output
    <2> QED
        BY <1>4, <1>5, <2>2, <2>4, <2>5 DEF StageInv
<1>8. CASE NetCheck
    <2>1. UNCHANGED <<faders, show, output, woken>>
        BY <1>8 DEF NetCheck
    <2>2. Rendered' = Rendered
        BY <1>1, <2>1, SameRendered DEF masters
    <2>3. FrameCurrent' /\ WokenAsleep'
        BY <1>3, <2>1, <2>2 DEF FrameCurrent, Settled, WokenAsleep, StageInv, show, output
    <2>4. FlushOwed'
        <3>1. CASE receiving_changes
            BY <1>3, <2>1, <3>1 DEF StageInv, BatchOpen, FlushOwed, output
        <3>2. CASE ~receiving_changes
            <4>1. label = "flush"
                BY <1>1, <1>2, <1>8, <3>2 DEF NetCheck, Goto, TypeInv, TypeOK, PcOK, Threads
            <4> QED
                BY <1>2, <2>1, <4>1 DEF StageInv, FlushOwed, output
        <3> QED
            BY <3>1, <3>2
    <2>5. RawFull' /\ DarkWhenDown' /\ ObeysMaster'
        BY <1>3, <2>1 DEF RawFull, DarkWhenDown, ObeysMaster, StageInv, faders, output
    <2> QED
        BY <1>4, <1>5, <2>3, <2>4, <2>5 DEF StageInv
<1>9. CASE NetOther \/ NetNoChannel
    <2>1. UNCHANGED <<faders, show, output, woken>> /\ pc["net"] = "idle"
        BY <1>9 DEF NetOther, NetNoChannel, NetCommand
    <2>2. Rendered' = Rendered
        BY <1>1, <2>1, SameRendered DEF masters
    <2>3. FrameCurrent' /\ WokenAsleep'
        BY <1>3, <2>1, <2>2 DEF FrameCurrent, Settled, WokenAsleep, StageInv, show, output
    <2>4. FlushOwed'
        BY <1>3, <2>1 DEF StageInv, FlushOwed, output
    <2>5. RawFull' /\ DarkWhenDown' /\ ObeysMaster'
        BY <1>3, <2>1 DEF RawFull, DarkWhenDown, ObeysMaster, StageInv, faders, output
    <2> QED
        BY <1>4, <1>5, <2>3, <2>4, <2>5 DEF StageInv
<1>10. CASE Flush("net")
    <2>1. flush_dmxout_sendbuf /\ UNCHANGED <<faders, show, woken>>
        BY <1>10 DEF Flush
    <2>2. /\ unsent' \/ wire' \in {Blank, dmxout_sendbuf'}
          /\ ~WidgetUp => wire' = Blank
          /\ UNCHANGED dmxout_sendbuf
          /\ Rendered' = Rendered
          /\ RawFull' /\ ObeysMaster'
        BY <1>1, <2>1, FlushStage
    <2>3. FrameCurrent' /\ WokenAsleep'
        BY <1>3, <2>1, <2>2 DEF FrameCurrent, Settled, WokenAsleep, StageInv, show
    <2>4. FlushOwed' /\ DarkWhenDown'
        BY <1>3, <2>2 DEF FlushOwed, DarkWhenDown
    <2> QED
        BY <1>4, <1>5, <2>2, <2>3, <2>4 DEF StageInv
<1> QED
    BY <1>6, <1>7, <1>8, <1>9, <1>10 DEF Net

LEMMA ProgStage ==
    ASSUME TypeInv, StageInv, prog_runner
    PROVE  StageInv'
<1>1. UNCHANGED <<faders, masters, reception>>
    BY DEF prog_runner, Start, Render, Reconnect, Restore, Wake, TimedOut
<1>2. RawFull' /\ BlackoutIsDark'
    BY <1>1 DEF StageInv, RawFull, BlackoutIsDark, faders, masters
<1>3. CASE Reconnect
    <2>1. /\ pc["dmx"] = "dead" /\ pc["prog"] = "reconnect" /\ UNCHANGED <<show, output, mk2c_lost, woken>>
          /\ \/ pc' = [pc EXCEPT !["prog"] = "restore", !["dmx"] = "idle"]
             \/ pc' = [pc EXCEPT !["prog"] = "wait"]
        BY <1>3 DEF Reconnect, Goto
    <2>2. /\ \/ pc'["prog"] = "restore" /\ pc'["dmx"] = "idle"
             \/ pc'["prog"] = "wait" /\ pc'["dmx"] = "dead"
          /\ pc'["midi"] = pc["midi"] /\ pc'["net"] = pc["net"]
        BY <2>1 DEF TypeInv, TypeOK, PcOK, Threads, InputThreads
    <2>3. wire = Blank /\ wire' = Blank
        BY <2>1 DEF StageInv, DarkWhenDown, WidgetUp, output
    <2>4. Rendered' = Rendered
        BY <1>1, <2>1, SameRendered DEF masters
    <2>5. FrameCurrent' /\ WokenAsleep'
        BY <2>1, <2>2, <2>4 DEF StageInv, FrameCurrent, WokenAsleep, show, output
    <2>6. LostMeansDown' /\ DarkWhenDown' /\ FlushOwed' /\ ObeysMaster'
        BY <2>2, <2>3 DEF LostMeansDown, WidgetUp, DarkWhenDown, FlushOwed, ObeysMaster
    <2>7. BatchOpen'
        BY <1>1, <2>1, <2>2 DEF StageInv, BatchOpen, InputThreads, reception
    <2> QED
        BY <1>2, <2>5, <2>6, <2>7 DEF StageInv
<1>4. CASE ~Reconnect
    <2>1. PICK label \in ProgLabels : Goto("prog", label)
        BY <1>4 DEF prog_runner, Start, Render, Restore, Wake, TimedOut, ProgLabels
    <2>2. /\ pc'["prog"] = label
          /\ \A u \in Threads \ {"prog"} : pc'[u] = pc[u]
        BY <2>1, ProgMoves DEF TypeInv, TypeOK
    <2>3. /\ pc'["net"] = pc["net"] /\ WidgetUp' = WidgetUp
          /\ \A u \in InputThreads : pc'[u] = pc[u]
        BY <2>2 DEF Threads, InputThreads, WidgetUp
    <2>4. BatchOpen'
        BY <1>1, <2>3 DEF StageInv, BatchOpen, reception
    <2>5. CASE Start \/ Wake \/ TimedOut
        <3>1. label = "render" /\ pc["prog"] \in {"start", "wait"} /\ UNCHANGED <<output, mk2c_lost>>
            BY <2>1, <2>2, <2>5 DEF Start, Wake, TimedOut, Goto, TypeInv, TypeOK, PcOK, Threads
        <3>2. FrameCurrent'
            BY <2>2, <3>1 DEF FrameCurrent, Settled
        <3>3. WokenAsleep'
            BY <2>2, <2>5, <3>1 DEF WokenAsleep, Start, Wake, TimedOut, StageInv
        <3>4. LostMeansDown' /\ DarkWhenDown' /\ FlushOwed' /\ ObeysMaster'
            BY <1>1, <2>2, <2>3, <3>1 DEF StageInv, LostMeansDown, DarkWhenDown, FlushOwed,
                                          ObeysMaster, faders, output
        <3> QED
            BY <1>2, <2>4, <3>2, <3>3, <3>4 DEF StageInv
    <2>6. CASE Render
        <3>1. /\ pc["prog"] = "render" /\ dmxout_sendbuf' = Rendered
              /\ UNCHANGED <<show, mk2c_lost, woken>>
            BY <2>6 DEF Render
        <3>2. Rendered' = Rendered
            BY <1>1, <3>1, SameRendered DEF masters
        <3>3. step < programma.steps /\ ~woken
            BY <3>1 DEF TypeInv, RowInProgram, StageInv, WokenAsleep
        <3>4. FrameCurrent' /\ WokenAsleep'
            BY <3>1, <3>2, <3>3 DEF FrameCurrent, WokenAsleep, show
        <3>5. LostMeansDown'
            BY <2>2, <2>3, <3>1 DEF StageInv, LostMeansDown
        <3>6. (unsent' \/ wire' \in {Blank, dmxout_sendbuf'}) /\ (~WidgetUp => wire' = Blank)
            BY <2>6, <3>1 DEF Render, send_dmx, StageInv, LostMeansDown, DarkWhenDown
        <3>7. DarkWhenDown' /\ FlushOwed' /\ ObeysMaster'
            BY <2>3, <3>6 DEF DarkWhenDown, FlushOwed, ObeysMaster
        <3> QED
            BY <1>2, <2>4, <3>4, <3>5, <3>7 DEF StageInv
    <2>7. CASE Restore
        <3>1. /\ pc["prog"] = "restore" /\ flush_dmxout_sendbuf /\ ~mk2c_lost'
              /\ UNCHANGED <<show, woken>>
            BY <2>7 DEF Restore
        <3>2. /\ unsent' \/ wire' \in {Blank, dmxout_sendbuf'}
              /\ ~WidgetUp => wire' = Blank
              /\ UNCHANGED dmxout_sendbuf
              /\ Rendered' = Rendered
              /\ ObeysMaster'
            BY <1>1, <3>1, FlushStage
        <3>3. FrameCurrent' /\ WokenAsleep'
            BY <3>1, <3>2 DEF StageInv, FrameCurrent, WokenAsleep, show
        <3>4. LostMeansDown' /\ DarkWhenDown' /\ FlushOwed'
            BY <2>3, <3>1, <3>2 DEF LostMeansDown, DarkWhenDown, FlushOwed
        <3> QED
            BY <1>2, <2>4, <3>2, <3>3, <3>4 DEF StageInv
    <2> QED
        BY <1>4, <2>5, <2>6, <2>7 DEF prog_runner
<1> QED
    BY <1>3, <1>4

LEMMA WidgetStage ==
    ASSUME TypeInv, StageInv, WidgetError \/ error_step
    PROVE  StageInv'
<1>1. PICK label \in {"error", "dead"} :
        /\ Goto("dmx", label) /\ pc["dmx"] \in {"idle", "error"}
        /\ UNCHANGED <<faders, masters, show, dmxout_sendbuf, dmxout_dirty, reception>>
    BY DEF WidgetError, error_step, output
<1>2. /\ pc'["prog"] = pc["prog"] /\ pc'["midi"] = pc["midi"] /\ pc'["net"] = pc["net"]
      /\ ~WidgetUp'
    BY <1>1 DEF Goto, TypeInv, TypeOK, PcOK, Threads, InputThreads, WidgetUp
<1>3. wire' = Blank
    BY DEF WidgetError, error_step, output, StageInv, DarkWhenDown, WidgetUp
<1>4. Rendered' = Rendered
    BY <1>1, SameRendered DEF masters
<1>5. FrameCurrent' /\ WokenAsleep'
    <2>1. CASE UNCHANGED woken
        BY <1>1, <1>2, <1>4, <2>1 DEF StageInv, FrameCurrent, Settled, WokenAsleep, show
    <2>2. CASE Signal /\ StepMtxFree
        BY <1>2, <2>2 DEF StageInv, FrameCurrent, Settled, WokenAsleep, Signal, Signalled,
                          StepMtxFree
    <2> QED
        BY <2>1, <2>2 DEF WidgetError, error_step
<1>6. LostMeansDown' /\ DarkWhenDown' /\ FlushOwed' /\ ObeysMaster'
    BY <1>2, <1>3 DEF LostMeansDown, DarkWhenDown, FlushOwed, ObeysMaster
<1>7. BatchOpen'
    BY <1>1, <1>2 DEF StageInv, BatchOpen, InputThreads, reception
<1>8. RawFull' /\ BlackoutIsDark'
    BY <1>1 DEF StageInv, RawFull, BlackoutIsDark, faders, masters
<1> QED
    BY <1>5, <1>6, <1>7, <1>8 DEF StageInv

LEMMA StageStep == TypeInv /\ StageInv /\ [Next]_vars => StageInv'
<1> SUFFICES ASSUME TypeInv, StageInv, [Next]_vars PROVE StageInv'
    OBVIOUS
<1>1. ASSUME NEW t \in InputThreads, Reader(t) PROVE StageInv'
    BY <1>1, BatchStage, RawInputStage, LedStage, MasterStage DEF Reader, update_input
<1>2. CASE Net
    BY <1>2, NetStage
<1>3. CASE prog_runner
    BY <1>3, ProgStage
<1>4. CASE WidgetError \/ error_step
    BY <1>4, WidgetStage
<1>5. CASE UNCHANGED vars
    <2>1. Rendered' = Rendered
        BY <1>5, SameRendered DEF vars, masters
    <2> QED
        BY <1>5, <2>1 DEF vars, faders, masters, show, output, reception, StageInv, FrameCurrent,
            Settled, WokenAsleep, RawFull, DarkWhenDown, WidgetUp, LostMeansDown, BatchOpen,
            FlushOwed, BlackoutIsDark, ObeysMaster
<1> QED
    BY <1>1, <1>2, <1>3, <1>4, <1>5 DEF Next

THEOREM StageInvariant == Spec => []StageInv
BY TypeCorrect, InitStage, StageStep, PTL DEF Spec

(***************************************************************************)
(* When every thread has finished, the stage shows what the faders, the    *)
(* masters and the program ask for, or nothing.                            *)
(***************************************************************************)
THEOREM StageHolds == Spec => []StageUpToDate
<1>1. StageInv => StageUpToDate
    BY DEF StageInv, FrameCurrent, FlushOwed, StageUpToDate, Quiescent, InputThreads
<1> QED
    BY <1>1, StageInvariant, PTL

(***************************************************************************)
(* In a blackout every channel that obeys the master is dark.              *)
(***************************************************************************)
THEOREM DarkHolds == Spec => []DarkInBlackout
<1>1. TypeInv /\ StageInv => DarkInBlackout
    <2> SUFFICES ASSUME TypeInv, StageInv, Settled, master_blackout # -1, wire # Blank,
                        ~unsent, NEW ch \in Channels, "IGNORE_MASTER" \notin channel_flags[ch]
                 PROVE  wire[ch] = 0
        BY DEF DarkInBlackout
    <2>1. wire[ch] = Rendered[ch] /\ step < programma.steps
        BY DEF StageInv, ObeysMaster, FrameCurrent
    <2>2. master_intensity = 0
        BY DEF StageInv, BlackoutIsDark
    <2>3. Source(ch) \in Byte
        BY <2>1, SourceIsByte DEF TypeInv
    <2>4. channel_intensity[ch] \in Byte
        BY DEF TypeInv, TypeOK, Frames
    <2>5. Rendered[ch] = apply_intensity(apply_intensity(Source(ch), channel_intensity[ch]), 0)
        BY <2>2 DEF Rendered, Scale
    <2> QED
        BY <2>1, <2>3, <2>4, <2>5, ScaledByte, ScaledByZero
<1> QED
    BY <1>1, TypeCorrect, StageInvariant, PTL

-----------------------------------------------------------------------------
(* The faders.  While a fader's move is being handled nothing is said of   *)
(* what it controls; so a step must be looked at only if it is the handler *)
(* of that move, or leaves the fader and what it controls alone.           *)

\* the moves that are being handled before and after a step of some handler
LEMMA HandlerPending ==
    ASSUME TypeInv, NEW t \in InputThreads, pc[t] = "apply", Handled(t),
           NEW i \in Inputs, i # cur[t]
    PROVE  Pending(i)' = Pending(i) /\ inputbuf'[i] = inputbuf[i]
<1>1. InputThread[i] \in InputThreads
    BY DeskAssumption
<1>2. cur' = [cur EXCEPT ![t] = NoInput] /\ cur \in [InputThreads -> Inputs \cup {NoInput}]
    BY DEF Handled, TypeInv, TypeOK
<1>3. CASE InputThread[i] = t
    <2>1. NoInput # i
        BY DeskAssumption
    <2> QED
        BY <1>1, <1>2, <1>3, <2>1 DEF Handled, Pending
<1>4. CASE InputThread[i] # t
    BY <1>1, <1>2, <1>4 DEF Handled, Pending
<1> QED
    BY <1>3, <1>4

\* a reader that takes a move of another input
LEMMA TakePending ==
    ASSUME TypeInv, NEW t \in InputThreads, TakeInput(t), NEW i \in Inputs, ~Pending(i)'
    PROVE  ~Pending(i) /\ inputbuf'[i] = inputbuf[i]
<1>1. PICK j \in Inputs : \E new \in Levels[j] :
        /\ InputThread[j] = t
        /\ inputbuf' = [inputbuf EXCEPT ![j] = new]
        /\ cur' = [cur EXCEPT ![t] = j]
    BY DEF TakeInput
<1>2. cur[t] = NoInput /\ NoInput # i
    BY DeskAssumption DEF TakeInput, TypeInv, CurOK
<1>3. InputThread[i] \in InputThreads /\ cur \in [InputThreads -> Inputs \cup {NoInput}]
    BY DeskAssumption DEF TypeInv, TypeOK
<1>4. j # i
    BY <1>1, <1>3 DEF Pending
<1>5. inputbuf'[i] = inputbuf[i]
    BY <1>1, <1>4 DEF TypeInv, TypeOK
<1>6. ~Pending(i)
    BY <1>1, <1>2, <1>3 DEF Pending
<1> QED
    BY <1>5, <1>6

MasterAt(m) ==
    \/ master_blackout = -1 /\ master_intensity = inputbuf[m]
    \/ master_blackout = inputbuf[m] /\ master_intensity = 0

LEMMA MasterFaderStep ==
    ASSUME TypeInv, StageInv, MasterFollowsFader, [Next]_vars
    PROVE  MasterFollowsFader'
<1> SUFFICES ASSUME NEW m \in MasterInputs, MasterInputs = {m}, ~Pending(m)'
             PROVE  MasterAt(m)'
    BY DEF MasterFollowsFader, MasterAt, MasterInputs
<1>1. m \in Inputs /\ Handlers[m].action = "HANDLE_MASTER"
    BY DEF MasterInputs
<1>2. ~Pending(m) => MasterAt(m)
    BY DEF MasterFollowsFader, MasterAt
<1>3. inputbuf[m] \in Byte
    BY <1>1 DEF TypeInv, TypeOK
<1>4. ASSUME NEW t \in InputThreads, TakeInput(t) PROVE MasterAt(m)'
    <2>1. ~Pending(m) /\ inputbuf'[m] = inputbuf[m]
        BY <1>1, <1>4, TakePending
    <2> QED
        BY <1>2, <1>4, <2>1 DEF TakeInput, MasterAt, masters
<1>5. ASSUME NEW t \in InputThreads, update_input(t) PROVE MasterAt(m)'
    <2>1. pc[t] = "apply" /\ Handled(t)
        BY <1>5 DEF update_input, RawValue, Laser, LedMoved, MasterMoved, Blackout, Chase, Run,
                    Retime, NoEffect, Handling
    <2>2. CASE MasterMoved(t)
        <3>1. cur[t] = m
            BY <2>1, <2>2, HandlerInput DEF MasterMoved, Handling, MasterInputs
        <3>2. master_blackout # -1 => master_intensity = 0
            BY DEF StageInv, BlackoutIsDark
        <3> QED
            BY <2>2, <3>1, <3>2 DEF MasterMoved, Level, Handled, MasterAt
    <2>3. CASE ~MasterMoved(t)
        <3>1. cur[t] # m
            BY <1>1, <1>5, <2>3 DEF update_input, RawValue, Laser, LedMoved, Blackout, Chase,
                Run, Retime, NoEffect, Handling, LedActions
        <3>2. MasterAt(m) /\ inputbuf'[m] = inputbuf[m]
            BY <1>1, <1>2, <2>1, <3>1, HandlerPending
        <3>3. CASE Blackout(t)
            BY <1>3, <3>2, <3>3 DEF Blackout, MasterAt, Byte
        <3>4. CASE ~Blackout(t)
            BY <1>5, <2>3, <3>2, <3>4 DEF update_input, RawValue, Laser, LedMoved, Chase,
                Run, Retime, NoEffect, masters, MasterAt
        <3> QED
            BY <3>3, <3>4
    <2> QED
        BY <2>2, <2>3
<1>6. CASE UNCHANGED <<inputbuf, cur, master_blackout, master_intensity>>
    BY <1>2, <1>6 DEF MasterAt, Pending
<1>7. ASSUME NEW t \in InputThreads, BeginBatch(t) \/ Complete(t) \/ Flush(t) PROVE MasterAt(m)'
    BY <1>6, <1>7 DEF BeginBatch, Complete, Flush, reception, masters
<1>8. CASE Net \/ prog_runner \/ WidgetError \/ error_step
    BY <1>6, <1>8 DEF Net, NetSetChannel, NetNoChannel, NetStep, NetActivate, NetOther, NetCheck,
        Flush, prog_runner, Start, Render, Reconnect, Restore, Wake, TimedOut,
        WidgetError, error_step, reception, masters
<1>9. CASE UNCHANGED vars
    BY <1>6, <1>9 DEF vars, reception, masters
<1> QED
    BY <1>4, <1>5, <1>7, <1>8, <1>9 DEF Next, Reader

(***************************************************************************)
(* The master level, or during a blackout the level to return to, is where *)
(* the master fader is.                                                    *)
(***************************************************************************)
THEOREM MasterHolds == Spec => []MasterFollowsFader
<1>1. Init => MasterFollowsFader
    BY DEF Init, MasterFollowsFader, MasterInputs
<1> QED
    BY <1>1, MasterFaderStep, TypeCorrect, StageInvariant, PTL DEF Spec

\* the fixture of the intensity fader i is where its faders are
LedAt(i) ==
    \A ch \in Fixture(i) :
        /\ channel_intensity[ch] = inputbuf[i]
        /\ "OVERRIDE_PROGRAMMA" \in channel_flags[ch] <=> inputbuf[Handlers[i].other] < 252
        /\ inputbuf[Handlers[i].other] < 252 => channel_overrides[ch] =
            ConvertColor[inputbuf[Handlers[i].other]][ch - Handlers[i].channel + 1]

LEMMA LedFaderStep ==
    ASSUME TypeInv, LedFollowsFaders, [Next]_vars
    PROVE  LedFollowsFaders'
<1> SUFFICES ASSUME NEW i \in Inputs, Handlers[i].action = "HANDLE_LED_2CH_INTENSITY",
                    ~Pending(i)', ~Pending(Handlers[i].other)'
             PROVE  LedAt(i)'
    BY DEF LedFollowsFaders, LedAt
<1> DEFINE o == Handlers[i].other
<1>1. /\ i \in LedInputs /\ o \in LedInputs /\ o \in Inputs
      /\ Handlers[o].action = "HANDLE_LED_2CH_COLOR"
      /\ Handlers[o].channel = Handlers[i].channel /\ Handlers[o].other = i
      /\ Fixture(i) \subseteq Channels /\ Fixture(i) \cap RawChannels = {}
      /\ \A j \in LedInputs \ {i, o} : Fixture(i) \cap Fixture(j) = {}
    <2>1. i \in LedInputs
        BY DEF LedInputs, LedActions
    <2> QED
        BY <2>1, PatchAssumption DEF LedInputs, LedActions
<1>2. ~Pending(i) /\ ~Pending(o) => LedAt(i)
    BY DEF LedFollowsFaders, LedAt
<1>3. CASE /\ ~Pending(i) /\ ~Pending(o)
           /\ inputbuf'[i] = inputbuf[i] /\ inputbuf'[o] = inputbuf[o]
           /\ \A ch \in Fixture(i) : /\ channel_intensity'[ch] = channel_intensity[ch]
                                     /\ channel_flags'[ch] = channel_flags[ch]
                                     /\ channel_overrides'[ch] = channel_overrides[ch]
    BY <1>2, <1>3 DEF LedAt
<1>4. ASSUME NEW t \in InputThreads, TakeInput(t) PROVE LedAt(i)'
    <2>1. ~Pending(i) /\ inputbuf'[i] = inputbuf[i]
        BY <1>4, TakePending
    <2>2. ~Pending(o) /\ inputbuf'[o] = inputbuf[o]
        BY <1>1, <1>4, TakePending
    <2> QED
        BY <1>3, <1>4, <2>1, <2>2 DEF TakeInput, faders
<1>5. ASSUME NEW ch \in RawChannels, NEW level \in Byte, SetRaw(ch, level)
      PROVE  \A c \in Fixture(i) : /\ channel_intensity'[c] = channel_intensity[c]
                                   /\ channel_flags'[c] = channel_flags[c]
                                   /\ channel_overrides'[c] = channel_overrides[c]
    BY <1>1, <1>5 DEF SetRaw, TypeInv, TypeOK, Frames
<1>6. ASSUME NEW t \in InputThreads, update_input(t) PROVE LedAt(i)'
    <2>1. pc[t] = "apply" /\ Handled(t) /\ cur[t] \in Inputs
        BY <1>6, HandlerInput DEF update_input, RawValue, Laser, LedMoved, MasterMoved, Blackout,
            Chase, Run, Retime, NoEffect, Handling
    <2>2. CASE LedMoved(t) /\ cur[t] \in {i, o}
        <3>1. Intensity(cur[t]) = inputbuf[i] /\ Color(cur[t]) = inputbuf[o]
              /\ Handlers[cur[t]].channel = Handlers[i].channel /\ Fixture(cur[t]) = Fixture(i)
            BY <1>1, <2>2 DEF Intensity, Color, Fixture
        <3>2. UNCHANGED inputbuf
            BY <2>1 DEF Handled
        <3>3. \A ch \in Fixture(i) : ch \in Channels
            BY <1>1
        <3>4. ASSUME NEW ch \in Fixture(i)
              PROVE  /\ channel_intensity'[ch] = inputbuf[i]
                     /\ channel_flags'[ch] = IF inputbuf[o] >= 252
                            THEN channel_flags[ch] \ {"OVERRIDE_PROGRAMMA"}
                            ELSE channel_flags[ch] \cup {"OVERRIDE_PROGRAMMA"}
                     /\ inputbuf[o] < 252 => channel_overrides'[ch] =
                            ConvertColor[inputbuf[o]][ch - Handlers[i].channel + 1]
            BY <2>2, <3>1, <3>3, <3>4 DEF LedMoved
        <3>5. inputbuf[o] \in Byte
            BY <1>1 DEF TypeInv, TypeOK
        <3>6. inputbuf[o] < 252 <=> ~(inputbuf[o] >= 252)
            BY <3>5 DEF Byte
        <3> QED
            BY <3>2, <3>4, <3>6 DEF LedAt
    <2>3. CASE LedMoved(t) /\ cur[t] \notin {i, o}
        <3>1. cur[t] \in LedInputs
            BY <2>1, <2>3 DEF LedMoved, Handling, LedInputs
        <3>2. Fixture(i) \cap Fixture(cur[t]) = {}
            BY <1>1, <2>3, <3>1
        <3>3. \A ch \in Fixture(i) : /\ channel_intensity'[ch] = channel_intensity[ch]
                                     /\ channel_flags'[ch] = channel_flags[ch]
                                     /\ channel_overrides'[ch] = channel_overrides[ch]
            BY <1>1, <2>3, <3>2 DEF LedMoved
        <3>4. Pending(i)' = Pending(i) /\ inputbuf'[i] = inputbuf[i]
            BY <2>1, <2>3, HandlerPending
        <3>5. Pending(o)' = Pending(o) /\ inputbuf'[o] = inputbuf[o]
            BY <1>1, <2>1, <2>3, HandlerPending
        <3> QED
            BY <1>3, <3>3, <3>4, <3>5
    <2>4. CASE ~LedMoved(t)
        <3>1. cur[t] \notin {i, o}
            BY <1>1, <1>6, <2>4 DEF update_input, RawValue, Laser, MasterMoved, Blackout, Chase,
                Run, Retime, NoEffect, Handling
        <3>2. Pending(i)' = Pending(i) /\ inputbuf'[i] = inputbuf[i]
            BY <2>1, <3>1, HandlerPending
        <3>3. Pending(o)' = Pending(o) /\ inputbuf'[o] = inputbuf[o]
            BY <1>1, <2>1, <3>1, HandlerPending
        <3>4. CASE RawValue(t) \/ Laser(t)
            <4>1. Handlers[cur[t]].channel \in RawChannels
                BY <2>1, <3>4 DEF RawValue, Laser, Handling, RawActions, RawChannels
            <4>2. PICK level \in Byte : SetRaw(Handlers[cur[t]].channel, level)
                <5>1. CASE RawValue(t)
                    BY <2>1, <5>1, HandlerInput DEF RawValue, Level
                <5>2. CASE Laser(t)
                    BY <5>2, LaserSets
                <5> QED
                    BY <3>4, <5>1, <5>2
            <4> QED
                BY <1>3, <1>5, <3>2, <3>3, <4>1, <4>2
        <3>5. CASE ~(RawValue(t) \/ Laser(t))
            <4>1. UNCHANGED faders
                BY <1>6, <2>4, <3>5 DEF update_input, MasterMoved, Blackout, Chase, Run, Retime,
                                        NoEffect
            <4> QED
                BY <1>3, <3>2, <3>3, <4>1 DEF faders
        <3> QED
            BY <3>4, <3>5
    <2> QED
        BY <2>2, <2>3, <2>4
<1>7. CASE NetSetChannel
    <2>1. PICK ch \in NetChannels \ {NoChannel}, level \in NetLevels : SetRaw(ch, level)
        BY <1>7 DEF NetSetChannel
    <2>2. ch \in RawChannels /\ level \in Byte
        BY DeskAssumption DEF RawChannels
    <2>3. UNCHANGED <<cur, inputbuf>>
        BY <1>7 DEF NetSetChannel, reception
    <2>4. ~Pending(i) /\ ~Pending(o)
        BY <2>3 DEF Pending
    <2> QED
        BY <1>3, <1>5, <2>1, <2>2, <2>3, <2>4
<1>8. CASE UNCHANGED <<inputbuf, cur, faders>>
    <2>1. ~Pending(i) /\ ~Pending(o)
        BY <1>8 DEF Pending
    <2> QED
        BY <1>3, <1>8, <2>1 DEF faders
<1>9. ASSUME NEW t \in InputThreads, BeginBatch(t) \/ Complete(t) \/ Flush(t) PROVE LedAt(i)'
    BY <1>8, <1>9 DEF BeginBatch, Complete, Flush, reception
<1>10. CASE \/ NetNoChannel \/ NetStep \/ NetActivate \/ NetOther \/ NetCheck \/ Flush("net")
            \/ prog_runner \/ WidgetError \/ error_step
    BY <1>8, <1>10 DEF NetNoChannel, NetStep, NetActivate, NetOther, NetCheck, Flush,
        prog_runner, Start, Render, Reconnect, Restore, Wake, TimedOut, WidgetError,
        error_step, reception
<1>11. CASE UNCHANGED vars
    BY <1>8, <1>11 DEF vars, reception
<1> QED
    BY <1>4, <1>6, <1>7, <1>9, <1>10, <1>11 DEF Next, Reader, Net

(***************************************************************************)
(* An LED fixture is where its two faders are, whichever moved last.       *)
(***************************************************************************)
THEOREM LedHolds == Spec => []LedFollowsFaders
<1>1. Init => LedFollowsFaders
    <2> SUFFICES ASSUME Init, NEW i \in Inputs, Handlers[i].action = "HANDLE_LED_2CH_INTENSITY"
                 PROVE  LedAt(i)
        BY DEF LedFollowsFaders, LedAt
    <2>1. i \in LedInputs
        BY DEF LedInputs, LedActions
    <2>2. Fixture(i) \subseteq Channels /\ Handlers[i].other \in Inputs
        BY <2>1, PatchAssumption DEF LedInputs
    <2> QED
        BY <2>2 DEF Init, LedAt
<1> QED
    BY <1>1, LedFaderStep, TypeCorrect, PTL DEF Spec

-----------------------------------------------------------------------------
(* Desk implements Stage: every step of any thread composes, shows, asks   *)
(* or fails as Stage allows, or is a stutter of it.                        *)

\* the step prog_runner renders or wakes to is a row of the program
LEMMA NextRowExists ==
    ASSUME TypeOK
    PROVE  NextRow(step) \in Nat /\ NextRow(step) < programma.steps
<1>1. programma.steps \in Nat \ {0}
    BY DeskAssumption DEF TypeOK, IsProgram, NoProgram
<1> QED
    BY <1>1 DEF TypeOK, NextRow

LEMMA WantedIsFrame ==
    ASSUME TypeOK
    PROVE  Wanted \in Frames
<1> SUFFICES ASSUME NEW ch \in Channels
             PROVE  Scale(SourceAt(ch, NextRow(step)), ch) \in Byte
    BY DEF Wanted, Frames
<1> DEFINE row == NextRow(step)
<1>1. SourceAt(ch, row) \in Byte
    <2>1. CASE "OVERRIDE_PROGRAMMA" \in channel_flags[ch] \/ ch >= programma.channels
        BY <2>1 DEF TypeOK, SourceAt, Frames
    <2>2. CASE ~("OVERRIDE_PROGRAMMA" \in channel_flags[ch] \/ ch >= programma.channels)
        <3>1. IsProgram(programma)
            <4>1. CASE programma = NoProgram
                BY <4>1, <2>2 DEF NoProgram, Channels
            <4> QED
                BY <4>1, DeskAssumption DEF TypeOK
        <3>2. row \in 0..(programma.steps - 1)
            BY NextRowExists, <3>1 DEF IsProgram
        <3>3. ch \in 0..(programma.channels - 1)
            BY <2>2, <3>1 DEF IsProgram, Channels
        <3>4. programma.rows[row][ch] \in Byte
            BY <3>1, <3>2, <3>3 DEF IsProgram, RowsOf
        <3> QED
            BY <2>2, <3>4, ScaledByte DEF SourceAt, TypeOK
    <2> QED
        BY <2>1, <2>2
<1> HIDE DEF row
<1>2. apply_intensity(SourceAt(ch, row), channel_intensity[ch]) \in Byte
    BY <1>1, ScaledByte DEF TypeOK, Frames
<1>3. apply_intensity(apply_intensity(SourceAt(ch, row), channel_intensity[ch]), master_intensity) \in Byte
    BY <1>2, ScaledByte DEF TypeOK
<1> QED
    BY <1>2, <1>3 DEF Scale, row

\* the same of the next state
LEMMA WantedTyped == TypeOK => Wanted \in Frames
BY WantedIsFrame
LEMMA WantedStaysFrame == (TypeOK => Wanted \in Frames)'
BY WantedTyped, PTL

\* where prog_runner renders, what it composes is what is wanted
LEMMA WantedIsRendered ==
    ASSUME TypeOK, step < programma.steps
    PROVE  Wanted = Rendered
BY DEF Wanted, Rendered, NextRow, Source

\* nothing that the wanted frame depends on changes
LEMMA SameWanted ==
    ASSUME UNCHANGED <<faders, show, master_intensity, program_intensity>>
    PROVE  Wanted' = Wanted
BY DEF Wanted, Scale, SourceAt, NextRow, faders, show

LEMMA InitImplements == Init => Onstage!Init
<1> SUFFICES ASSUME Init PROVE Onstage!Init
    OBVIOUS
<1>1. Wanted \in [Channels -> Byte]
    BY InitTypes, WantedIsFrame DEF TypeInv, Frames
<1> QED
    BY <1>1 DEF Init, Onstage!Init, Onstage!Dark, Onstage!Frames, Lights

(***************************************************************************)
(* The kinds of step.                                                      *)
(***************************************************************************)

\* the desk is operated: nothing composed, nothing sent
LEMMA AskStep ==
    ASSUME TypeOK', UNCHANGED <<dmxout_sendbuf, wire>>
    PROVE  Onstage!Next
<1>1. Wanted' \in [Channels -> Byte]
    BY WantedStaysFrame DEF Frames
<1>2. dmxout_sendbuf' \in [Channels -> Byte]
    BY DEF TypeOK, Frames
<1> QED
    BY <1>1, <1>2 DEF Onstage!Next, Onstage!Ask, Onstage!Compose, Onstage!Frames, Lights

\* one channel is set, in the desk and in the composed frame alike
LEMMA RawImplements ==
    ASSUME TypeInv, TypeOK', StageInv, NEW ch \in RawChannels, NEW level \in Byte, SetRaw(ch, level)
    PROVE  Onstage!Next
<1>1. ch \in Channels /\ channel_intensity'[ch] = 255
    BY DeskAssumption DEF RawChannels, RawFull, StageInv, SetRaw
<1>2. channel_flags'[ch] = Flags /\ channel_overrides'[ch] = level
    BY <1>1 DEF SetRaw, TypeInv, TypeOK, Frames
<1>3. Wanted'[ch] = level
    <2>1. SourceAt(ch, NextRow(step))' = level
        BY <1>2 DEF SourceAt, Flags
    <2>2. Scale(SourceAt(ch, NextRow(step)), ch)' = apply_intensity(level, 255)
        BY <1>1, <1>2, <2>1 DEF Scale, Flags
    <2> QED
        BY <1>1, <2>2, ScaledByFull DEF Wanted
<1>4. \A c \in Channels : dmxout_sendbuf'[c] \in {dmxout_sendbuf[c], Wanted'[c]}
    BY <1>1, <1>3 DEF SetRaw, TypeInv, TypeOK, Frames
<1>5. Wanted' \in [Channels -> Byte] /\ dmxout_sendbuf' \in [Channels -> Byte]
    BY WantedStaysFrame DEF TypeOK, Frames
<1> QED
    BY <1>4, <1>5 DEF SetRaw, Onstage!Next, Onstage!Ask, Onstage!Compose, Onstage!Frames, Lights

\* a flush shows the composed frame, or nothing happens on stage
LEMMA FlushImplements ==
    ASSUME TypeInv, flush_dmxout_sendbuf, UNCHANGED <<faders, masters, show>>
    PROVE  [Onstage!Next]_(Onstage!stage)
<1>1. Wanted' = Wanted
    BY SameWanted DEF masters
<1>2. UNCHANGED dmxout_sendbuf /\ wire' \in {wire, dmxout_sendbuf}
    BY DEF flush_dmxout_sendbuf, send_dmx
<1>3. CASE wire' = wire
    BY <1>1, <1>2, <1>3 DEF Onstage!stage, Lights
<1>4. CASE wire' = dmxout_sendbuf
    <2>1. Lights' = dmxout_sendbuf' /\ dmxout_sendbuf' \in [Channels -> Byte]
        BY <1>2, <1>4, DeskAssumption DEF Lights, TypeInv, TypeOK, Frames
    <2> QED
        BY <1>1, <1>2, <2>1 DEF Onstage!Next, Onstage!Show, Onstage!Compose, Onstage!Frames
<1> QED
    BY <1>2, <1>3, <1>4

\* prog_runner composes the wanted frame and sends it if it can
LEMMA RenderImplements ==
    ASSUME TypeInv, TypeOK', Render
    PROVE  Onstage!Next
<1>1. dmxout_sendbuf' = Wanted /\ Wanted' = Wanted
    BY WantedIsRendered, SameWanted DEF Render, TypeInv, RowInProgram, masters
<1>2. Wanted \in [Channels -> Byte]
    BY WantedIsFrame DEF TypeInv, Frames
<1>3. Onstage!Compose
    BY <1>1, <1>2 DEF Onstage!Compose, Onstage!Frames
<1>4. CASE wire' = wire
    BY <1>1, <1>2, <1>3, <1>4 DEF Onstage!Next, Onstage!Ask, Onstage!Frames, Lights
<1>5. CASE wire' = Rendered
    <2>1. wire' = Wanted /\ wire' # Blank
        BY <1>2, <1>5, WantedIsRendered, DeskAssumption DEF Render, TypeInv, RowInProgram, Frames
    <2> QED
        BY <1>1, <1>3, <2>1 DEF Onstage!Next, Onstage!Show, Lights
<1> QED
    BY <1>4, <1>5 DEF Render, send_dmx

-----------------------------------------------------------------------------
LEMMA StepImplements ==
    TypeInv /\ TypeInv' /\ StageInv /\ [Next]_vars => [Onstage!Next]_(Onstage!stage)
<1> SUFFICES ASSUME TypeInv, TypeInv', StageInv, [Next]_vars
             PROVE  [Onstage!Next]_(Onstage!stage)
    OBVIOUS
<1> USE DEF TypeInv
<1>1. ASSUME NEW t \in InputThreads, Reader(t) PROVE [Onstage!Next]_(Onstage!stage)
    <2>1. CASE BeginBatch(t) \/ TakeInput(t) \/ Complete(t)
        BY <2>1, AskStep DEF BeginBatch, TakeInput, Complete, output
    <2>2. CASE Flush(t)
        BY <2>2, FlushImplements DEF Flush
    <2>3. CASE RawValue(t) \/ Laser(t)
        <3>1. /\ cur[t] \in Inputs
              /\ Handlers[cur[t]].channel \in RawChannels
            BY <2>3, HandlerInput DEF RawValue, Laser, Handling, RawChannels, RawActions
        <3>2. \E level \in Byte : SetRaw(Handlers[cur[t]].channel, level)
            <4>1. CASE RawValue(t)
                BY <3>1, <4>1 DEF RawValue, Level, TypeOK
            <4>2. CASE Laser(t)
                BY <4>2, LaserSets
            <4> QED
                BY <2>3, <4>1, <4>2
        <3> QED
            BY <3>1, <3>2, RawImplements
    <2>4. CASE LedMoved(t) \/ MasterMoved(t) \/ Blackout(t) \/ Chase(t) \/ Run(t)
                    \/ Retime(t) \/ NoEffect(t)
        BY <2>4, AskStep DEF LedMoved, MasterMoved, Blackout, Chase, Run, Retime, NoEffect, output
    <2> QED
        BY <1>1, <2>1, <2>2, <2>3, <2>4 DEF Reader, update_input
<1>2. CASE Net
    <2>1. CASE NetSetChannel
        <3>1. \E ch \in RawChannels : \E level \in Byte : SetRaw(ch, level)
            BY <2>1, DeskAssumption DEF NetSetChannel, RawChannels
        <3> QED
            BY <3>1, RawImplements
    <2>2. CASE NetNoChannel \/ NetStep \/ NetActivate \/ NetOther \/ NetCheck
        BY <2>2, AskStep DEF NetNoChannel, NetStep, NetActivate, NetOther, NetCheck, output
    <2>3. CASE Flush("net")
        BY <2>3, FlushImplements DEF Flush
    <2> QED
        BY <1>2, <2>1, <2>2, <2>3 DEF Net
<1>3. CASE prog_runner
    <2>1. CASE Start \/ Reconnect \/ Wake \/ TimedOut
        BY <2>1, AskStep DEF Start, Reconnect, Wake, TimedOut, output
    <2>2. CASE Render
        BY <2>2, RenderImplements
    <2>3. CASE Restore
        BY <2>3, FlushImplements DEF Restore
    <2> QED
        BY <1>3, <2>1, <2>2, <2>3 DEF prog_runner
<1>4. CASE WidgetError
    <2>1. Wanted' = Wanted /\ UNCHANGED dmxout_sendbuf
        BY <1>4, SameWanted DEF WidgetError, masters
    <2>2. Lights' = [ch \in Channels |-> 0]
        BY <1>4 DEF WidgetError, Lights
    <2> QED
        BY <2>1, <2>2 DEF Onstage!Next, Onstage!Fail, Onstage!Dark
<1>5. CASE error_step
    BY <1>5, AskStep DEF error_step, output
<1>6. CASE UNCHANGED vars
    BY <1>6, AskStep DEF vars, output
<1> QED
    BY <1>1, <1>2, <1>3, <1>4, <1>5, <1>6 DEF Next

(***************************************************************************)
(* The desk implements Stage, for every patch and every program: whichever *)
(* thread sends, whole composed frames go out, and a level in them was     *)
(* wanted when it was taken.                                               *)
(***************************************************************************)
THEOREM DeskImplementsStage == Spec => ImplementsStage
BY InitImplements, StepImplements, TypeCorrect, StageInvariant, PTL
    DEF Spec, ImplementsStage, Onstage!Spec

-----------------------------------------------------------------------------
(* Desk implements Link: only the program thread, the widget's failure and *)
(* error_step touch what Link speaks of.                                   *)

\* a step of a reader's batch or of the network thread is none of Link's business
LEMMA OthersLeaveLink ==
    ASSUME PcOK, NEW t \in InputThreads \cup {"net"},
           NEW label \in ReaderLabels \cup NetLabels, Goto(t, label),
           t \in InputThreads => pc[t] \in ReaderLabels /\ label \in ReaderLabels,
           UNCHANGED mk2c_lost
    PROVE  UNCHANGED TheLink!link
<1>1. t \in Threads \ {"prog"}
    BY DEF Threads, InputThreads
<1>2. pc'["prog"] = pc["prog"] /\ \A u \in Threads \ {t} : pc'[u] = pc[u]
    BY <1>1 DEF Goto, PcOK, Threads
<1>3. pc'[t] = label
    BY <1>1 DEF Goto, PcOK
<1>4. CASE t = "dmx"
    <2>1. ReaderIs = "runs" /\ ReaderIs' = "runs"
        BY <1>3, <1>4 DEF ReaderIs, ReaderLabels, InputThreads
    <2> QED
        BY <1>2, <2>1 DEF ProgIs, TheLink!link
<1>5. CASE t # "dmx"
    <2>1. pc'["dmx"] = pc["dmx"]
        BY <1>2, <1>5 DEF Threads, InputThreads
    <2> QED
        BY <1>2, <2>1 DEF ProgIs, ReaderIs, TheLink!link
<1> QED
    BY <1>4, <1>5

LEMMA LinkStep ==
    TypeInv /\ [Next]_vars => [TheLink!Next]_(TheLink!link)
<1> SUFFICES ASSUME TypeInv, [Next]_vars
             PROVE  [TheLink!Next]_(TheLink!link)
    OBVIOUS
<1> PcOK
    BY DEF TypeInv, TypeOK
<1>1. ASSUME NEW t \in InputThreads, Reader(t) PROVE UNCHANGED TheLink!link
    <2>1. PICK label \in ReaderLabels :
            Goto(t, label) /\ pc[t] \in ReaderLabels /\ UNCHANGED mk2c_lost
        BY <1>1 DEF Reader, BeginBatch, TakeInput, Complete, Flush, update_input, RawValue, Laser,
            LedMoved, MasterMoved, Blackout, Chase, Run, Retime, NoEffect, Handling, Handled,
            ReaderLabels
    <2> QED
        BY <2>1, OthersLeaveLink
<1>2. CASE Net
    <2>1. PICK label \in NetLabels : Goto("net", label) /\ UNCHANGED mk2c_lost
        BY <1>2 DEF Net, NetSetChannel, NetNoChannel, NetStep, NetActivate, NetOther, NetCheck,
            Flush, NetCommand, NetLabels
    <2>2. "net" \notin InputThreads
        BY DEF InputThreads
    <2> QED
        BY <2>1, <2>2, OthersLeaveLink
<1>3. CASE Reconnect
    <2>1. /\ pc["prog"] = "reconnect" /\ pc["dmx"] = "dead" /\ UNCHANGED mk2c_lost
          /\ \/ pc'["prog"] = "restore" /\ pc'["dmx"] = "idle"
             \/ pc'["prog"] = "wait" /\ pc'["dmx"] = "dead"
        BY <1>3 DEF Reconnect, Goto, PcOK, Threads, InputThreads
    <2> QED
        BY <2>1 DEF ProgIs, ReaderIs, TheLink!Next, TheLink!Connect
<1>4. CASE Start \/ Render \/ Restore \/ Wake \/ TimedOut
    <2>1. PICK label \in ProgLabels : Goto("prog", label)
        BY <1>4 DEF Start, Render, Restore, Wake, TimedOut, ProgLabels
    <2>2. pc'["prog"] = label /\ pc'["dmx"] = pc["dmx"]
        BY <2>1, ProgMoves DEF Threads, InputThreads
    <2>3. ReaderIs' = ReaderIs
        BY <2>2 DEF ReaderIs
    <2>4. CASE Start \/ Wake \/ TimedOut
        <3>1. pc["prog"] \in {"start", "wait"} /\ pc'["prog"] = "render" /\ UNCHANGED mk2c_lost
            BY <2>4 DEF Start, Wake, TimedOut, Goto, PcOK, Threads
        <3> QED
            BY <2>3, <3>1 DEF ProgIs, TheLink!Next, TheLink!Wake
    <2>5. CASE Render
        <3>1. /\ pc["prog"] = "render" /\ UNCHANGED mk2c_lost
              /\ \/ mk2c_lost /\ pc'["prog"] = "reconnect"
                 \/ pc'["prog"] = "wait"
            BY <2>5 DEF Render, Goto, PcOK, Threads
        <3> QED
            BY <2>3, <3>1 DEF ProgIs, TheLink!Next, TheLink!Notice, TheLink!Sleep
    <2>6. CASE Restore
        <3>1. pc["prog"] = "restore" /\ pc'["prog"] = "wait" /\ mk2c_lost' = FALSE
            BY <2>6 DEF Restore, Goto, PcOK, Threads
        <3> QED
            BY <2>3, <3>1 DEF ProgIs, TheLink!Next, TheLink!Restore
    <2> QED
        BY <1>4, <2>4, <2>5, <2>6
<1>5. CASE WidgetError
    <2>1. /\ pc["dmx"] = "idle" /\ pc'["dmx"] = "error" /\ pc'["prog"] = pc["prog"]
          /\ mk2c_lost' = TRUE
        BY <1>5 DEF WidgetError, Goto, PcOK, Threads, InputThreads
    <2> QED
        BY <2>1 DEF ProgIs, ReaderIs, TheLink!Next, TheLink!Fail
<1>6. CASE error_step
    <2>1. /\ pc["dmx"] = "error" /\ pc'["dmx"] = "dead" /\ pc'["prog"] = pc["prog"]
          /\ pc["prog"] \in {"start", "wait"} /\ UNCHANGED mk2c_lost
        BY <1>6 DEF error_step, StepMtxFree, Goto, PcOK, Threads, InputThreads
    <2> QED
        BY <2>1 DEF ProgIs, ReaderIs, TheLink!Next, TheLink!Die
<1>7. CASE UNCHANGED vars
    BY <1>7 DEF vars, ProgIs, ReaderIs, TheLink!link
<1> QED
    BY <1>1, <1>2, <1>3, <1>4, <1>5, <1>6, <1>7 DEF Next, prog_runner

(***************************************************************************)
(* The widget's failure, the reconnect and the clearing of mk2c_lost keep  *)
(* to the order that Link lays down, whatever the other threads do.        *)
(***************************************************************************)
THEOREM DeskImplementsLink == Spec => ImplementsLink
<1>1. Init => TheLink!Init
    BY DEF Init, Threads, InputThreads, TheLink!Init, ReaderIs, ProgIs
<1> QED
    BY <1>1, LinkStep, TypeCorrect, PTL DEF Spec, ImplementsLink, TheLink!Spec

=============================================================================
