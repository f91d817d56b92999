-------------------------------- MODULE Patch --------------------------------
(***************************************************************************)
(* The patch: handlers[], which says what each input does.  The network    *)
(* thread rewrites it with one unlocked store after another, while a       *)
(* reader looks up the input it delivers.  The data of a handler is a      *)
(* union, so raw_value.channel, led_2ch.other_input, laser.base_channel    *)
(* and tapsync.rising_edge are one word; led_2ch.base_channel is a second. *)
(*                                                                         *)
(* What an input then does, and the settings dump, are not in this module. *)
(***************************************************************************)
EXTENDS Integers, Sequences

CONSTANTS
    INPUT_CHANNELS,
    DMX_CHANNELS,
    Kinds,          \* of the patch commands: HANDLE_ actions, "DEFAULT", "UNKNOWN"
    Targets,        \* channels that the commands name; 0 is none, and not refused
    NoInput

Inputs == 0 .. INPUT_CHANNELS - 1
NONE == "HANDLE_NONE"
LedActions == {"HANDLE_LED_2CH_INTENSITY", "HANDLE_LED_2CH_COLOR"}
RouteActions == {"HANDLE_RAW_VALUE", "HANDLE_LASER"}

ASSUME PatchAssumption ==
    /\ INPUT_CHANNELS \in Nat \ {0} /\ DMX_CHANNELS \in Nat \ {0}
    /\ Targets \subseteq 0 .. DMX_CHANNELS
    /\ NoInput \notin Inputs

VARIABLES
    handlers,
    todo,       \* the stores that the command under way has still to do
    reading,    \* the input that the reader looks up
    action,     \* the action it found
    torn,       \* a command was rewriting its handler when it did, or has begun to since
    aborted,    \* dmx_channel_to_dmxindex refused the channel
    named,      \* the channel that the last command to rewrite an input named
    widowed     \* LED inputs that commands have left without their partner

net == <<handlers, todo, named, widowed>>
reader == <<reading, action, torn, aborted>>
vars == <<net, reader>>

\* HANDLE_BPM stands for the actions that have no data
Actions == {NONE, "HANDLE_TAPSYNC", "HANDLE_BPM"} \cup LedActions \cup RouteActions
\* a channel, an input or a Boolean
Words == 0 .. INPUT_CHANNELS + DMX_CHANNELS

TypeOK ==
    /\ handlers \in [Inputs -> [action : Actions, word : Words, base : Words]]
    /\ \A k \in DOMAIN todo :
        /\ todo[k].input \in Inputs
        /\ todo[k].field \in {"action", "word", "base"}
        /\ todo[k].value \in IF todo[k].field = "action" THEN Actions ELSE Words
    /\ reading \in Inputs \cup {NoInput}
    /\ action \in Actions
    /\ torn \in BOOLEAN /\ aborted \in BOOLEAN
    /\ named \in [Inputs -> 0 .. DMX_CHANNELS]
    /\ widowed \subseteq Inputs

IsLed(i) == handlers[i].action \in LedActions

Init ==
    /\ handlers = [i \in Inputs |-> [action |-> NONE, word |-> 0, base |-> 0]]
    /\ todo = <<>>
    /\ reading = NoInput
    /\ action = NONE
    /\ torn = FALSE
    /\ aborted = FALSE
    /\ named = [i \in Inputs |-> 0]
    /\ widowed = {}

-----------------------------------------------------------------------------
(* The network thread: handle_data on 'D', 'M' and 'R'.                    *)

Store(i, field, value) == [input |-> i, field |-> field, value |-> value]

\* before anything else the partner of an LED input is switched off
Unlink(i) ==
    IF IsLed(i) THEN <<Store(handlers[i].word, "action", NONE)>> ELSE <<>>

\* (seeded error) the channel of a laser is not stored
Route_LaserForgets(i, kind, channel) ==
    IF kind = "HANDLE_LASER" THEN <<Store(i, "action", kind)>>
    ELSE << Store(i, "action", kind), Store(i, "word", channel) >>

\* (seeded error) only the intensity input learns the channels
Pair_OneBase(i, other, channel) ==
    << Store(i, "action", "HANDLE_LED_2CH_INTENSITY"),
       Store(i, "word", other),
       Store(i, "base", channel),
       Store(other, "action", "HANDLE_LED_2CH_COLOR"),
       Store(other, "word", i) >>

\* (seeded error) the action is looked for in a word the union does not have
Route_WrongWord(i, kind, channel) ==
    << Store(i, "action", kind), Store(i, "word", channel + INPUT_CHANNELS + DMX_CHANNELS) >>

\* an LED input and its partner point at each other
Pair(i, other, channel) ==
    << Store(i, "action", "HANDLE_LED_2CH_INTENSITY"),
       Store(i, "word", other),
       Store(i, "base", channel),
       Store(other, "action", "HANDLE_LED_2CH_COLOR"),
       Store(other, "word", i),
       Store(other, "base", channel) >>

\* raw_value.channel, laser.base_channel
Route(i, kind, channel) == << Store(i, "action", kind), Store(i, "word", channel) >>

Settings(i, kind, channel) ==
    CASE kind = "DEFAULT" -> {<<Store(i, "action", NONE)>>}
      [] kind = "HANDLE_LED_2CH_INTENSITY" -> {Pair(i, other, channel) : other \in Inputs}
      [] kind \in RouteActions -> {Route(i, kind, channel)}
      [] kind = "HANDLE_TAPSYNC" ->
            {Route(i, kind, rising_edge) : rising_edge \in {0, 1}}
      [] kind = "HANDLE_BPM" -> {<<Store(i, "action", kind)>>}
      [] OTHER -> {<<>>}    \* the letter is unknown, or a byte is missing yet

\* the channels that a command of this kind may name: any byte, not checked
ChannelsOf(kind) == IF kind \in LedActions \cup RouteActions THEN Targets ELSE {0}

Written(stores) == {stores[k].input : k \in DOMAIN stores}

\* A command widows the LED inputs that point at an input it rewrites and are
\* not rewritten themselves: the old partner of an input that gets a new one,
\* and an input whose partner is switched off before its own bytes are there.
Widowed(stores) ==
    {j \in Inputs \ Written(stores) :
        j \in widowed \/ (IsLed(j) /\ handlers[j].word \in Written(stores))}

Begin(stores, channel) ==
    /\ todo = <<>> /\ ~aborted
    /\ todo' = stores
    /\ named' = [j \in Inputs |-> IF j \in Written(stores) THEN channel ELSE named[j]]
    /\ widowed' = Widowed(stores)
    /\ torn' = (torn \/ reading \in Written(stores))
    /\ UNCHANGED <<handlers, reading, action, aborted>>

PatchCommand ==
    \E i \in Inputs, kind \in Kinds : \E channel \in ChannelsOf(kind) :
        \E stores \in Settings(i, kind, channel) : Begin(Unlink(i) \o stores, channel)

\* 'R' takes every patch away
ResetCommand == Begin([k \in 1 .. INPUT_CHANNELS |-> Store(k - 1, "action", NONE)], 0)

NextStore ==
    /\ todo # <<>> /\ ~aborted
    /\ LET s == Head(todo) IN handlers' = [handlers EXCEPT ![s.input][s.field] = s.value]
    /\ todo' = Tail(todo)
    /\ UNCHANGED <<named, widowed, reader>>

-----------------------------------------------------------------------------
(* A reader: the switch of update_input, then the data of that case.       *)

LookUp(i) ==
    /\ reading = NoInput /\ ~aborted
    /\ handlers[i].action \in LedActions \cup RouteActions
    /\ reading' = i
    /\ action' = handlers[i].action
    /\ torn' = (i \in Written(todo))
    /\ UNCHANGED <<net, aborted>>

Channel == IF action \in LedActions THEN handlers[reading].base ELSE handlers[reading].word

\* the assertion of dmx_channel_to_dmxindex ends the program in the handler
Apply ==
    /\ reading # NoInput /\ ~aborted
    /\ \/ /\ Channel \notin 1 .. DMX_CHANNELS
          /\ aborted' = TRUE
          /\ UNCHANGED <<reading, action, torn>>
       \/ /\ Channel \in 1 .. DMX_CHANNELS
          /\ reading' = NoInput /\ action' = NONE /\ torn' = FALSE
          /\ UNCHANGED aborted
    /\ UNCHANGED net

Next ==
    \/ PatchCommand
    \/ ResetCommand
    \/ NextStore
    \/ \E i \in Inputs : LookUp(i)
    \/ Apply

Spec == Init /\ [][Next]_vars

-----------------------------------------------------------------------------
(* What must hold.                                                         *)

\* A reader steers the channel that a client named last for its input, whatever
\* commands came before, in any order, unless the input is being patched at that
\* moment.  So the assertion on the channel, dmxd.c:140, fails for a handler at
\* rest only where the client named channel 0, which handle_data stores.
RightChannel ==
    reading # NoInput /\ ~torn =>
        /\ Channel = named[reading]
        /\ aborted => named[reading] = 0

\* Between commands both inputs of an LED fixture name each other, one as the
\* intensity and one as the colour, and steer the same three channels.  Only
\* an input that a command has widowed is an exception, and one that a command
\* has paired with itself.
PairsMutual ==
    todo = <<>> =>
        \A i \in Inputs \ widowed :
            IsLed(i) =>
                \E p \in Inputs :
                    /\ handlers[i].word = p /\ handlers[p].word = i
                    /\ handlers[i].base = handlers[p].base
                    /\ i # p => {handlers[i].action, handlers[p].action} = LedActions

=============================================================================
