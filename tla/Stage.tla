-------------------------------- MODULE Stage --------------------------------
(***************************************************************************)
(* What the desk promises to the stage, whatever threads it is made of.    *)
(* At each moment the faders, the masters and the program want one frame.  *)
(* A frame is composed from it, some channels sooner than others, but      *)
(* never with a level that was not wanted when it was taken.  The stage    *)
(* shows composed frames only, whole, or is dark when the widget is lost.  *)
(***************************************************************************)
EXTENDS Integers

CONSTANTS
    Channels,
    Levels

VARIABLES
    wanted,     \* the frame that faders, masters and program ask for
    composed,   \* the frame ready to be sent
    lights      \* the frame on stage

stage == <<wanted, composed, lights>>
Frames == [Channels -> Levels]
Dark == [ch \in Channels |-> 0]

Init ==
    /\ wanted \in Frames
    /\ composed = Dark
    /\ lights = Dark

\* some of the channels, or all of them, become what is wanted
Compose ==
    /\ composed' \in Frames
    /\ \A ch \in Channels : composed'[ch] \in {composed[ch], wanted'[ch]}

\* somebody moves a fader or presses a button, the program takes a step
Ask ==
    /\ wanted' \in Frames
    /\ Compose
    /\ UNCHANGED lights

Show ==
    /\ Compose
    /\ lights' = composed'
    /\ UNCHANGED wanted

Fail ==
    /\ lights' = Dark
    /\ UNCHANGED <<wanted, composed>>

Next == Ask \/ Show \/ Fail

Spec == Init /\ [][Next]_stage

=============================================================================
