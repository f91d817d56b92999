-------------------------------- MODULE Tempo --------------------------------
(***************************************************************************)
(* The beat: how long a step of the program takes, and when the next one   *)
(* is due.  prog_runner adds programma_wait to nextstep whenever a step is *)
(* over; a BPM fader, taps, the commands 'B', 'S' and a play button change *)
(* one or both, some of them without stepmtx.                              *)
(*                                                                         *)
(* Times are microseconds.  nextstep and the taps are kept relative to the *)
(* real-time clock that they are compared with, which may also be set.     *)
(* Each step taken under stepmtx is one step here.                         *)
(***************************************************************************)
EXTENDS Integers, Sequences

CONSTANTS
    Tick,                   \* how far the clock moves at a time
    Jumps,                  \* by how much it may be set
    BpmLevels,              \* levels of a BPM fader
    BeatsPerMinute,         \* the byte of 'B'
    Sheets,                 \* steps per beat that csv-parser.php is given
    Tappers,                \* threads that call tapsync_tap
    TAPSYNC_REMEMBER_TAPS,
    TAPSYNC_MIN_INTERVALS,
    LongAgo,                \* taps further apart are alike
    MaxLate, MaxAhead       \* bounds of the time to the next step

ASSUME TempoAssumption ==
    /\ {Tick, LongAgo} \subseteq Nat \ {0} /\ {MaxLate, MaxAhead} \subseteq Nat
    /\ Jumps \subseteq Int
    /\ BpmLevels \subseteq 0 .. 255 /\ BeatsPerMinute \subseteq 0 .. 255
    \* what format_steps_per_beat asserts
    /\ Sheets \subseteq (-254 .. 255) \ {0}
    /\ TAPSYNC_REMEMBER_TAPS \in Nat /\ TAPSYNC_MIN_INTERVALS \in 2 .. TAPSYNC_REMEMBER_TAPS
    /\ "net" \in Tappers

VARIABLES
    next_in,            \* nextstep, from now
    programma_wait,
    programma_spb,
    asked,              \* the steps per beat in the sheet of the program
    program_running,
    since,              \* time since the last tap, tapsync[0]
    gaps,               \* times between one tap and the one before
    tapped,             \* a beat that a thread has tapped and waits to set
    beating,            \* the network thread is between two steps of 'B'
    ahead,              \* the wait was cut, or the clock set back, before this step is over
    hasty,              \* ghost: a beat was tapped that is too short to be scaled twice
    crashed

taps == <<since, gaps, tapped, hasty>>
vars == <<next_in, programma_wait, programma_spb, asked, program_running, taps, beating,
          ahead, crashed>>

\* The last tap was in 1970; prog_runner's first step is due at once.
Init ==
    /\ next_in = 0
    /\ programma_wait = 1000000
    /\ programma_spb = 1
    /\ asked = 1
    /\ program_running = TRUE
    /\ since = LongAgo
    /\ gaps = [i \in 1 .. TAPSYNC_REMEMBER_TAPS |-> 0]
    /\ tapped = [t \in Tappers |-> 0]
    /\ beating = FALSE
    /\ ahead = FALSE
    /\ hasty = FALSE
    /\ crashed = FALSE

-----------------------------------------------------------------------------
(* Conversions.                                                            *)

\* csv-parser.php, format_steps_per_beat: chr takes the low byte
Encoded(spb) == (IF spb >= 1 THEN spb ELSE spb + 128) % 256
\* handle_data, PN
Decoded(byte) == IF byte < 128 THEN byte ELSE byte - 128 - 2
MaxStepsPerBeat == 127

\* (seeded error) one step per beat is taken for beats per step
Scaled_Strict(beat) ==
    IF programma_spb > 1 THEN beat \div programma_spb ELSE beat * (-programma_spb)

\* several steps per beat, or several beats per step
Scaled(beat) ==
    IF programma_spb >= 1 THEN beat \div programma_spb ELSE beat * (-programma_spb)

BpmWait(level) == 60000000 \div (30 + (150 * level) \div 255)

Abs(n) == IF n < 0 THEN -n ELSE n
Capped(time) == IF time > LongAgo THEN LongAgo ELSE IF time < -LongAgo THEN -LongAgo ELSE time

\* the average of the first gaps of a sequence, rounded with each gap
Averages(g) ==
    LET average[i \in 1 .. Len(g)] ==
            IF i = 1 THEN g[1] ELSE (average[i - 1] * (i - 1) + g[i]) \div i
    IN average

\* The beat of a sequence of gaps, 0 if they are too irregular: their average,
\* as far back as they deviate no more than a tenth from it.
Beat(g) ==
    LET average == Averages(g)
        deviates(i) == 10 * Abs(average[i - 1] - g[i]) > average[i - 1]
        regular == {i \in 1 .. Len(g) : \A j \in 2 .. i : ~deviates(j)}
        last == CHOOSE i \in regular : \A j \in regular : j <= i
    IN IF last < TAPSYNC_MIN_INTERVALS \/ average[last] <= 0 THEN 0 ELSE average[last]

-----------------------------------------------------------------------------
(* Time.  How late prog_runner can be, and how far away a step, is bounded *)
(* in what makes it later or further: only MaxLate stands for the time it  *)
(* takes prog_runner to get stepmtx.                                       *)

NotTooLate == next_in' >= -MaxLate
NotTooFar == next_in' <= MaxAhead

Passes(time) ==
    /\ next_in' = next_in - time
    /\ NotTooLate /\ NotTooFar
    /\ since' = Capped(since + time)
    /\ UNCHANGED <<programma_wait, programma_spb, asked, program_running, gaps, tapped,
                   hasty, beating, crashed>>

TimePasses == ~crashed /\ Passes(Tick) /\ UNCHANGED ahead

ClockSet == ~crashed /\ \E jump \in Jumps : Passes(jump) /\ ahead' = (ahead \/ jump < 0)

-----------------------------------------------------------------------------
(* prog_runner: pthread_cond_timedwait has timed out.                      *)

StepOver ==
    /\ ~crashed /\ next_in <= 0
    /\ crashed' = (programma_wait <= 0)     \* assert(add > 0)
    /\ next_in' = next_in + programma_wait
    /\ ahead' = FALSE
    /\ UNCHANGED <<programma_wait, programma_spb, asked, program_running, taps, beating>>

-----------------------------------------------------------------------------
(* The inputs: update_input.                                               *)

\* (seeded error) nextstep stays where it is
Bpm_StepKept(level) ==
    /\ programma_wait' = Scaled(BpmWait(level))
    /\ UNCHANGED next_in

Bpm(level) ==
    LET new_wait == Scaled(BpmWait(level)) IN
    /\ programma_wait' = new_wait
    /\ next_in' = IF programma_wait > new_wait THEN next_in - (programma_wait - new_wait)
                  ELSE next_in

BpmMoved ==
    /\ ~crashed
    /\ \E level \in BpmLevels : Bpm(level)
    /\ NotTooLate
    /\ UNCHANGED <<programma_spb, asked, program_running, taps, beating, ahead, crashed>>

RunPressed ==
    /\ ~crashed
    /\ program_running' = ~program_running
    /\ \/ program_running' /\ next_in' = 0 /\ ahead' = FALSE
       \/ ~program_running' /\ UNCHANGED <<next_in, ahead>>
    /\ UNCHANGED <<programma_wait, programma_spb, asked, taps, beating, crashed>>

-----------------------------------------------------------------------------
(* tapsync_tap: the taps are no mutex's; then the beat, under stepmtx.     *)

\* The oldest gap ends at tapsync[TAPSYNC_REMEMBER_TAPS], which is past the
\* array: what was put there may have been overwritten by then.
Tap(t) ==
    /\ ~crashed /\ tapped[t] = 0
    /\ t = "net" => ~beating
    /\ \E stray \in {gaps[TAPSYNC_REMEMBER_TAPS - 1], LongAgo} :
        gaps' = [i \in DOMAIN gaps |->
            IF i = 1 THEN since
            ELSE IF i = TAPSYNC_REMEMBER_TAPS THEN stray ELSE gaps[i - 1]]
    /\ since' = 0
    /\ tapped' = [tapped EXCEPT ![t] = Beat(gaps')]
    /\ hasty' = (hasty \/ Beat(gaps') \in 1 .. MaxStepsPerBeat * MaxStepsPerBeat - 1)
    /\ UNCHANGED <<next_in, programma_wait, programma_spb, asked, program_running, beating,
                   ahead, crashed>>

\* (seeded error) the step that is due counts from where it was
Due_FromOldStep(diff) ==
    IF next_in + since > programma_wait \div 2 THEN next_in + diff ELSE -since

\* too late for the last step, or too early for the next one
Due(diff) ==
    IF next_in + since > programma_wait \div 2 THEN diff - since ELSE -since

SetBeat(t) ==
    LET diff == Scaled(tapped[t])
        late == next_in + since > programma_wait \div 2
    IN
    /\ ~crashed /\ tapped[t] # 0
    /\ crashed' = (late /\ diff <= 0)     \* assert(add > 0)
    /\ next_in' = Due(diff)
    /\ programma_wait' = diff
    /\ tapped' = [tapped EXCEPT ![t] = 0]
    /\ ahead' = (since < 0)     \* the clock was set back after the tap
    /\ UNCHANGED <<programma_spb, asked, program_running, since, gaps, hasty, beating>>

-----------------------------------------------------------------------------
(* handle_data: 'B', 'S' and the part of PN and PA that is about the beat. *)

NetIdle == ~crashed /\ ~beating /\ tapped["net"] = 0

SetWait ==
    /\ NetIdle
    /\ \E bpm \in BeatsPerMinute :
        \/ /\ bpm = 0
           /\ crashed' = TRUE
           /\ UNCHANGED <<programma_wait, beating, ahead>>
        \/ /\ bpm > 0
           /\ programma_wait' = 60000000 \div bpm
           /\ beating' = TRUE
           /\ ahead' = TRUE
           /\ UNCHANGED crashed
    /\ UNCHANGED <<next_in, programma_spb, asked, program_running, taps>>

ScaleWait ==
    /\ ~crashed /\ beating
    /\ programma_wait' = Scaled(programma_wait)
    /\ beating' = FALSE
    /\ ahead' = TRUE
    /\ UNCHANGED <<next_in, programma_spb, asked, program_running, taps, crashed>>

StepNow ==
    /\ NetIdle
    /\ next_in' = 0
    /\ ahead' = FALSE
    /\ UNCHANGED <<programma_wait, programma_spb, asked, program_running, taps, beating, crashed>>

\* the wait stays that of the old program until somebody sets the beat
Activate ==
    /\ NetIdle
    /\ \E spb \in Sheets :
        /\ asked' = spb
        /\ programma_spb' = Decoded(Encoded(spb))
    /\ UNCHANGED <<next_in, programma_wait, program_running, taps, beating, ahead, crashed>>

Next ==
    \/ TimePasses
    \/ ClockSet
    \/ StepOver
    \/ BpmMoved
    \/ RunPressed
    \/ \E t \in Tappers : Tap(t) \/ SetBeat(t)
    \/ SetWait
    \/ ScaleWait
    \/ StepNow
    \/ Activate

Spec == Init /\ [][Next]_vars

-----------------------------------------------------------------------------
(* What must hold.                                                         *)

\* The stage waits no longer for a step than a step takes, however the tempo
\* is changed: by a BPM fader, by taps, by the play button, by 'S'.  Only 'B',
\* which leaves nextstep alone, and a clock that is set back can delay it, and
\* only until the next step.
NextStepWithinWait == ahead \/ next_in <= programma_wait

\* Unless a beat shorter than some 16 ms is tapped, the wait vanishes, and the
\* assertion of increment_timespec fails, only because the program has no steps
\* per beat: not by the rounding of the divisions, not even of two when a fader,
\* or a tap, comes between the two steps of 'B'.
WaitVanishes ==
    [][programma_wait' <= 0 => programma_wait <= 0 \/ programma_spb = 0 \/ hasty]_vars

\* A program plays with the steps per beat of its sheet, csv-parser.php's !spb.
StepsPerBeatKept == programma_spb = asked

=============================================================================
