------------------------------- MODULE MCTempo -------------------------------
\* The constants of Tempo for TLC.  Times are multiples of a quarter of a
\* second, or of an eighth: level 0 is 30 beats per minute, 51 is 60, 153 is 120.
EXTENDS Tempo

MCJumps == {-500000}
MCBpmLevels == {51, 153}
MCBeatsPerMinute == {0, 60}
\* 130 steps per beat are decoded as none
MCSheets == {2, 130}
\* a step every two beats
SlowSheets == {-2}
MCTappers == {"net", "midi"}

=============================================================================
