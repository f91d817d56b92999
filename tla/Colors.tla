------------------------------- MODULE Colors -------------------------------
(***************************************************************************)
(* colors.c: the colour fader of an LED fixture selects one of a table of  *)
(* colours, the last whose `from' does not exceed the fader.               *)
(***************************************************************************)
EXTENDS Integers, Sequences

\* from, red, green, blue
mapping == <<
    <<  0, 220, 200, 100>>, <<  9, 255, 200, 150>>, << 18, 255, 255, 255>>,
    << 27, 255,   0,   0>>, << 36, 255,  50,   0>>, << 45, 255, 150,   0>>,
    << 54, 255, 255,   0>>, << 63, 200, 255,   0>>, << 72, 100, 255,   0>>,
    << 81,  40, 255,   0>>, << 90,   0, 255,   0>>, << 99,   0, 255,  50>>,
    <<108,   0, 255, 150>>, <<135,   0, 255, 255>>, <<126,   0, 150, 255>>,
    <<135,   0,  50, 255>>, <<144,   0,   0, 255>>, <<153,  50,   0, 255>>,
    <<162, 150,   0, 255>>, <<171, 255,   0, 255>>, <<180, 220,   0,  50>>,
    <<189, 150,  50, 100>>, <<198,  50, 180, 220>>, <<207,  50, 220, 100>>,
    <<216, 150, 220,   0>>, <<225, 150,   0, 220>>, <<234,   0, 180, 220>>,
    <<243,   0, 220,  50>>, <<252,   0,   0,   0>> >>

\* the entry the loop from the end of the table stops at
EntryOf(input) ==
    CHOOSE i \in DOMAIN mapping :
        /\ input >= mapping[i][1]
        /\ \A j \in DOMAIN mapping : j > i => input < mapping[j][1]

convert_color(input) == Tail(mapping[EntryOf(input)])

=============================================================================
