----------------------------- MODULE PatchProofs -----------------------------
(***************************************************************************)
(* Proofs about Patch, for any numbers of inputs and channels.             *)
(*                                                                         *)
(* Between two stores of a command handlers[] is neither the old nor the   *)
(* new patch.  The invariant is about the patch it is on its way to:       *)
(* `final', what handlers[] is once the stores in todo are done.  A store  *)
(* does not change it, a command replaces it in one step.                  *)
(***************************************************************************)
EXTENDS Patch, TLAPS

Fields == {"action", "word", "base"}
Handler == [action : Actions, word : Words, base : Words]
Patches == [Inputs -> Handler]
Stores == {s \in [input : Inputs, field : Fields, value : Actions \cup Words] :
              s.value \in IF s.field = "action" THEN Actions ELSE Words}

\* the stores of a list that go to one field of one input
Writes(list, i, f) == {k \in 1 .. Len(list) : list[k].input = i /\ list[k].field = f}

\* the stores of list lead from patch h to patch final: the last one counts
Leads(h, list, final) ==
    \A i \in Inputs, f \in Fields :
        \/ Writes(list, i, f) = {} /\ final[i][f] = h[i][f]
        \/ \E k \in Writes(list, i, f) :
            /\ final[i][f] = list[k].value
            /\ \A l \in Writes(list, i, f) : l <= k

\* The channel that a command named is in the word that the handler's action
\* looks at, and the partner of an LED input is an input.
Sound(handler, channel) ==
    /\ handler.action \in RouteActions => handler.word = channel
    /\ handler.action \in LedActions => handler.base = channel /\ handler.word \in Inputs

Mutual(patch) ==
    \A i \in Inputs \ widowed :
        patch[i].action \in LedActions =>
            \E p \in Inputs :
                /\ patch[i].word = p /\ patch[p].word = i
                /\ patch[i].base = patch[p].base
                /\ i # p => {patch[i].action, patch[p].action} = LedActions

OnTheWay ==
    \E final \in Patches :
        /\ Leads(handlers, todo, final)
        /\ \A i \in Inputs : Sound(final[i], named[i])
        /\ Mutual(final)

\* A reader whose input no command is rewriting looks at a sound handler, and
\* the assertion has failed on the channel that it found there.
ReaderSafe ==
    /\ reading = NoInput \/ action \in LedActions \cup RouteActions
    /\ reading # NoInput /\ ~torn =>
        /\ action = handlers[reading].action
        /\ Sound(handlers[reading], named[reading])
        /\ reading \notin Written(todo)
    /\ aborted => Channel \notin 1 .. DMX_CHANNELS

Types ==
    /\ handlers \in Patches
    /\ todo \in Seq(Stores)
    /\ reading \in Inputs \cup {NoInput} /\ action \in Actions
    /\ torn \in BOOLEAN /\ aborted \in BOOLEAN
    /\ named \in [Inputs -> 0 .. DMX_CHANNELS]
    /\ widowed \subseteq Inputs

IInv == Types /\ OnTheWay /\ ReaderSafe

-----------------------------------------------------------------------------
(* Lists of stores.                                                        *)

\* with no store left the patch is the one it leads to
LEMMA LeadsEmpty ==
    ASSUME NEW h \in Patches, NEW final \in Patches, Leads(h, <<>>, final)
    PROVE  h = final
<1>1. ASSUME NEW i \in Inputs, NEW f \in Fields PROVE h[i][f] = final[i][f]
    BY DEF Leads, Writes
<1>2. ASSUME NEW i \in Inputs PROVE h[i] = final[i]
    <2>1. h[i] \in Handler /\ final[i] \in Handler
        BY DEF Patches
    <2>2. h[i].action = final[i].action /\ h[i].word = final[i].word /\ h[i].base = final[i].base
        BY <1>1 DEF Fields
    <2> QED
        BY <2>1, <2>2 DEF Handler
<1> QED
    BY <1>2 DEF Patches

\* the first store of a list leaves the patch that the list leads to
LEMMA LeadsStep ==
    ASSUME NEW h \in Patches, NEW list \in Seq(Stores), list # <<>>, NEW final \in Patches,
           Leads(h, list, final)
    PROVE  Leads([h EXCEPT ![Head(list).input][Head(list).field] = Head(list).value],
                 Tail(list), final)
<1> DEFINE s == Head(list)
           g == [h EXCEPT ![s.input][s.field] = s.value]
<1>1. /\ s = list[1] /\ s \in Stores /\ Len(list) \in Nat /\ Len(list) >= 1
      /\ Len(Tail(list)) = Len(list) - 1
      /\ \A k \in 1 .. Len(Tail(list)) : Tail(list)[k] = list[k + 1]
    OBVIOUS
<1>2. ASSUME NEW i \in Inputs, NEW f \in Fields
      PROVE  \/ Writes(Tail(list), i, f) = {} /\ final[i][f] = g[i][f]
             \/ \E k \in Writes(Tail(list), i, f) :
                    /\ final[i][f] = Tail(list)[k].value
                    /\ \A l \in Writes(Tail(list), i, f) : l <= k
    <2>1. \A k \in 1 .. Len(list) :
            k \in Writes(list, i, f) /\ k # 1 <=> k - 1 \in Writes(Tail(list), i, f)
        BY <1>1 DEF Writes
    <2>2. \A k \in Writes(Tail(list), i, f) : k + 1 \in Writes(list, i, f)
        BY <1>1 DEF Writes
    <2>3. h[i] \in Handler /\ h \in [Inputs -> Handler]
        BY DEF Patches
    <2>4. g[i][f] = IF s.input = i /\ s.field = f THEN s.value ELSE h[i][f]
        BY <1>1, <2>3 DEF Stores, Handler, Fields
    <2>5. CASE Writes(list, i, f) = {}
        <3>1. final[i][f] = h[i][f]
            BY <2>5 DEF Leads
        <3>2. ~(s.input = i /\ s.field = f)
            BY <1>1, <2>5 DEF Writes
        <3> QED
            BY <2>2, <2>4, <2>5, <3>1, <3>2
    <2>6. CASE Writes(list, i, f) # {}
        <3>1. PICK k \in Writes(list, i, f) :
                final[i][f] = list[k].value /\ \A l \in Writes(list, i, f) : l <= k
            BY <2>6 DEF Leads
        <3>2. k \in 1 .. Len(list)
            BY DEF Writes
        <3>3. CASE k = 1
            <4>1. Writes(Tail(list), i, f) = {}
                BY <1>1, <2>2, <3>1, <3>3 DEF Writes
            <4>2. s.input = i /\ s.field = f /\ final[i][f] = s.value
                BY <1>1, <3>1, <3>3 DEF Writes
            <4> QED
                BY <2>4, <4>1, <4>2
        <3>4. CASE k # 1
            <4>1. k - 1 \in Writes(Tail(list), i, f) /\ Tail(list)[k - 1].value = list[k].value
                BY <1>1, <2>1, <3>2, <3>4 DEF Writes
            <4>2. \A l \in Writes(Tail(list), i, f) : l <= k - 1
                BY <2>2, <3>1, <3>2 DEF Writes
            <4> QED
                BY <3>1, <4>1, <4>2
        <3> QED
            BY <3>3, <3>4
    <2> QED
        BY <2>5, <2>6
<1> QED
    BY <1>2 DEF Leads

\* one store after a list
LEMMA LeadsAppend ==
    ASSUME NEW h \in Patches, NEW list \in Seq(Stores), NEW mid \in Patches,
           Leads(h, list, mid), NEW s \in Stores
    PROVE  /\ Append(list, s) \in Seq(Stores)
           /\ [mid EXCEPT ![s.input][s.field] = s.value] \in Patches
           /\ Leads(h, Append(list, s), [mid EXCEPT ![s.input][s.field] = s.value])
<1> DEFINE g == [mid EXCEPT ![s.input][s.field] = s.value]
           longer == Append(list, s)
<1>1. /\ Len(list) \in Nat /\ Len(longer) = Len(list) + 1
      /\ longer[Len(list) + 1] = s
      /\ \A k \in 1 .. Len(list) : longer[k] = list[k]
    OBVIOUS
<1>2. s.input \in Inputs /\ s.field \in Fields
      /\ s.value \in IF s.field = "action" THEN Actions ELSE Words
    BY DEF Stores
<1>3. g \in Patches
    <2>1. ASSUME NEW i \in Inputs PROVE g[i] \in Handler
        <3>1. mid[i] \in Handler /\ mid \in [Inputs -> Handler]
            BY DEF Patches
        <3>2. CASE s.field = "action"
            BY <1>2, <3>1, <3>2 DEF Handler
        <3>3. CASE s.field = "word"
            BY <1>2, <3>1, <3>3 DEF Handler
        <3>4. CASE s.field = "base"
            BY <1>2, <3>1, <3>4 DEF Handler
        <3> QED
            BY <1>2, <3>2, <3>3, <3>4 DEF Fields
    <2> QED
        BY <2>1 DEF Patches
<1>4. ASSUME NEW i \in Inputs, NEW f \in Fields
      PROVE  \/ Writes(longer, i, f) = {} /\ g[i][f] = h[i][f]
             \/ \E k \in Writes(longer, i, f) :
                    /\ g[i][f] = longer[k].value
                    /\ \A l \in Writes(longer, i, f) : l <= k
    <2>1. mid[i] \in Handler /\ mid \in [Inputs -> Handler]
        BY DEF Patches
    <2>2. g[i][f] = IF s.input = i /\ s.field = f THEN s.value ELSE mid[i][f]
        BY <1>2, <2>1 DEF Handler, Fields
    <2>3. Writes(longer, i, f) =
            Writes(list, i, f) \cup (IF s.input = i /\ s.field = f THEN {Len(list) + 1} ELSE {})
        BY <1>1 DEF Writes
    <2>4. \A k \in Writes(list, i, f) : k \in 1 .. Len(list)
        BY DEF Writes
    <2>5. CASE s.input = i /\ s.field = f
        BY <1>1, <2>2, <2>3, <2>4, <2>5
    <2>6. CASE ~(s.input = i /\ s.field = f)
        BY <1>1, <2>2, <2>3, <2>4, <2>6 DEF Leads
    <2> QED
        BY <2>5, <2>6
<1>5. longer \in Seq(Stores)
    OBVIOUS
<1> QED
    BY <1>3, <1>4, <1>5 DEF Leads

\* an empty list leads nowhere
LEMMA LeadsNowhere ==
    ASSUME NEW h \in Patches
    PROVE  Leads(h, <<>>, h)
BY DEF Leads, Writes

-----------------------------------------------------------------------------
(* The commands.                                                           *)

\* the patch with one field of one input changed
Set(patch, i, field, value) == [patch EXCEPT ![i][field] = value]

\* one field is changed, of one input
LEMMA SetField ==
    ASSUME NEW patch \in Patches, NEW i \in Inputs, NEW field \in Fields,
           NEW value \in IF field = "action" THEN Actions ELSE Words
    PROVE  /\ Set(patch, i, field, value) \in Patches
           /\ \A j \in Inputs, f \in Fields :
                Set(patch, i, field, value)[j][f] = IF i = j /\ f = field THEN value ELSE patch[j][f]
<1>1. patch[i] \in Handler /\ patch \in [Inputs -> Handler]
    BY DEF Patches
<1>2. ASSUME NEW j \in Inputs PROVE Set(patch, i, field, value)[j] \in Handler
    <2>1. patch[j] \in Handler
        BY DEF Patches
    <2>2. CASE field = "action"
        BY <1>1, <2>1, <2>2 DEF Handler, Set
    <2>3. CASE field = "word"
        BY <1>1, <2>1, <2>3 DEF Handler, Set
    <2>4. CASE field = "base"
        BY <1>1, <2>1, <2>4 DEF Handler, Set
    <2> QED
        BY <2>2, <2>3, <2>4 DEF Fields
<1>3. \A j \in Inputs, f \in Fields :
        Set(patch, i, field, value)[j][f] = IF i = j /\ f = field THEN value ELSE patch[j][f]
    BY <1>1 DEF Handler, Fields, Set, Patches
<1> QED
    BY <1>1, <1>2, <1>3 DEF Patches, Set

\* what is read of it, whatever the value
LEMMA SetReads ==
    ASSUME NEW patch \in Patches, NEW i \in Inputs, NEW field \in Fields, NEW value,
           NEW j \in Inputs, NEW f \in Fields
    PROVE  Set(patch, i, field, value)[j][f] = IF i = j /\ f = field THEN value ELSE patch[j][f]
<1>1. patch[i] \in Handler /\ patch \in [Inputs -> Handler]
    BY DEF Patches
<1> QED
    BY <1>1 DEF Handler, Fields, Set, Patches

\* a store behind a list sets that field
LEMMA LeadsSet ==
    ASSUME NEW h \in Patches, NEW list \in Seq(Stores), NEW mid \in Patches,
           Leads(h, list, mid),
           NEW i \in Inputs, NEW field \in Fields,
           NEW value \in IF field = "action" THEN Actions ELSE Words
    PROVE  /\ Append(list, Store(i, field, value)) \in Seq(Stores)
           /\ Set(mid, i, field, value) \in Patches
           /\ Leads(h, Append(list, Store(i, field, value)), Set(mid, i, field, value))
<1>1. Store(i, field, value) \in Stores
    BY DEF Stores, Store, Fields
<1>2. /\ Store(i, field, value).input = i /\ Store(i, field, value).field = field
      /\ Store(i, field, value).value = value
    BY DEF Store
<1> QED
    BY <1>1, <1>2, LeadsAppend DEF Set

\* one more store writes one more input
LEMMA WrittenAppend ==
    ASSUME NEW list \in Seq(Stores), NEW s \in Stores
    PROVE  Written(Append(list, s)) = Written(list) \cup {s.input}
<1> DEFINE longer == Append(list, s)
<1>1. /\ Len(list) \in Nat /\ DOMAIN list = 1 .. Len(list) /\ DOMAIN longer = 1 .. Len(list) + 1
      /\ longer[Len(list) + 1] = s
      /\ \A k \in 1 .. Len(list) : longer[k] = list[k]
    OBVIOUS
<1> QED
    BY <1>1 DEF Written

\* What a list of stores does, in one fact: where it leads, what it writes, and
\* that the rest of the patch stays.
Does(list, final, written) ==
    /\ list \in Seq(Stores)
    /\ final \in Patches
    /\ Leads(handlers, list, final)
    /\ Written(list) = written /\ written \subseteq Inputs
    /\ \A j \in Inputs \ written : final[j] = handlers[j]

\* one more store
LEMMA DoesSet ==
    ASSUME handlers \in Patches, NEW list, NEW mid, NEW written, Does(list, mid, written),
           NEW i \in Inputs, NEW field \in Fields,
           NEW value \in IF field = "action" THEN Actions ELSE Words
    PROVE  Does(Append(list, Store(i, field, value)), Set(mid, i, field, value), written \cup {i})
<1>1. /\ Append(list, Store(i, field, value)) \in Seq(Stores)
      /\ Set(mid, i, field, value) \in Patches
      /\ Leads(handlers, Append(list, Store(i, field, value)), Set(mid, i, field, value))
    BY LeadsSet DEF Does
<1>2. Store(i, field, value) \in Stores /\ Store(i, field, value).input = i
    BY DEF Stores, Store, Fields
<1>3. Written(Append(list, Store(i, field, value))) = written \cup {i}
    BY <1>2, WrittenAppend DEF Does
<1>4. \A j \in Inputs \ (written \cup {i}) : Set(mid, i, field, value)[j] = handlers[j]
    BY DEF Set, Does, Patches
<1> QED
    BY <1>1, <1>3, <1>4 DEF Does

\* before its own stores a command switches the partner off
Partner(i) == IF IsLed(i) THEN {handlers[i].word} ELSE {}
Parted(i) == IF IsLed(i) THEN Set(handlers, handlers[i].word, "action", NONE) ELSE handlers

LEMMA Unlinked ==
    ASSUME NEW i \in Inputs, handlers \in Patches, \A j \in Inputs : Sound(handlers[j], named[j])
    PROVE  Does(Unlink(i), Parted(i), Partner(i))
<1>1. Does(<<>>, handlers, {})
    BY LeadsNowhere DEF Does, Written
<1>2. CASE IsLed(i)
    <2>1. handlers[i].word \in Inputs
        BY <1>2 DEF IsLed, Sound
    <2>2. Unlink(i) = Append(<<>>, Store(handlers[i].word, "action", NONE))
        BY <1>2 DEF Unlink
    <2>3. "action" \in Fields /\ NONE \in IF "action" = "action" THEN Actions ELSE Words
        BY DEF Actions, Fields
    <2>4. Does(Append(<<>>, Store(handlers[i].word, "action", NONE)),
               Set(handlers, handlers[i].word, "action", NONE), {} \cup {handlers[i].word})
        BY <1>1, <2>1, <2>3, DoesSet
    <2> QED
        BY <1>2, <2>2, <2>4 DEF Partner, Parted
<1>3. CASE ~IsLed(i)
    BY <1>1, <1>3 DEF Unlink, Partner, Parted
<1> QED
    BY <1>2, <1>3

\* an input that is one of a pair, or alone with itself
Paired(patch, i) ==
    \E p \in Inputs :
        /\ patch[i].word = p /\ patch[p].word = i
        /\ patch[i].base = patch[p].base
        /\ i # p => {patch[i].action, patch[p].action} = LedActions

\* A command keeps the invariant if the inputs it writes are sound and paired:
\* those that it does not write are as before or widowed.
LEMMA CommandKeeps ==
    ASSUME IInv, NEW list, NEW final, NEW written, Does(list, final, written),
           NEW channel \in 0 .. DMX_CHANNELS,
           \A j \in written : /\ Sound(final[j], channel)
                              /\ final[j].action \in LedActions => Paired(final, j),
           Begin(list, channel)
    PROVE  IInv'
<1>0. /\ todo = <<>> /\ ~aborted /\ todo' = list
      /\ named' = [j \in Inputs |-> IF j \in written THEN channel ELSE named[j]]
      /\ widowed' = {j \in Inputs \ written :
                        j \in widowed \/ (IsLed(j) /\ handlers[j].word \in written)}
      /\ torn' = (torn \/ reading \in written)
      /\ handlers' = handlers /\ reading' = reading /\ action' = action /\ aborted' = aborted
      /\ Written(list) = written /\ written \subseteq Inputs
    BY DEF Begin, Widowed, Does
<1>1. PICK old \in Patches : /\ Leads(handlers, <<>>, old)
                             /\ \A i \in Inputs : Sound(old[i], named[i])
                             /\ Mutual(old)
    BY <1>0 DEF IInv, OnTheWay
<1>2. handlers \in Patches
    BY DEF IInv, Types
<1>3. handlers = old
    BY <1>1, <1>2, LeadsEmpty
<1>4. ASSUME NEW j \in written
      PROVE  Sound(final[j], channel) /\ (final[j].action \in LedActions => Paired(final, j))
    OBVIOUS
<1>5. ASSUME NEW j \in Inputs, j \notin written PROVE final[j] = handlers[j]
    BY <1>5 DEF Does
<1>6. ASSUME NEW i \in Inputs PROVE Sound(final[i], named'[i])
    <2>1. CASE i \in written
        BY <1>0, <1>4, <2>1
    <2>2. CASE i \notin written
        BY <1>0, <1>1, <1>3, <1>5, <2>2
    <2> QED
        BY <2>1, <2>2
<1>8. ASSUME NEW i \in Inputs \ widowed', final[i].action \in LedActions
      PROVE  Paired(final, i)
    <2>1. CASE i \in written
        BY <1>4, <1>8, <2>1
    <2>2. CASE i \notin written
        <3>1. final[i] = handlers[i] /\ i \notin widowed /\ handlers[i].word \notin written
            BY <1>0, <1>8, <1>5, <2>2 DEF IsLed
        <3>2. PICK p \in Inputs : /\ handlers[i].word = p /\ handlers[p].word = i
                                  /\ handlers[i].base = handlers[p].base
                                  /\ i # p => {handlers[i].action, handlers[p].action} = LedActions
            BY <1>1, <1>3, <1>8, <3>1 DEF Mutual
        <3>3. final[p] = handlers[p]
            BY <1>5, <3>1, <3>2
        <3> QED
            BY <3>1, <3>2, <3>3 DEF Paired
    <2> QED
        BY <2>1, <2>2
<1>9. Mutual(final)'
    BY <1>8 DEF Mutual, Paired
<1>10. OnTheWay'
    <2>1. final \in Patches /\ Leads(handlers', todo', final)
        BY <1>0 DEF Does
    <2> QED
        BY <1>6, <1>9, <2>1 DEF OnTheWay
<1>11. Types'
    <2>1. named' \in [Inputs -> 0 .. DMX_CHANNELS]
        BY <1>0 DEF IInv, Types
    <2> QED
        BY <1>0, <2>1 DEF IInv, Types, Does
<1>12. ReaderSafe'
    <2>1. reading' = NoInput \/ action' \in LedActions \cup RouteActions
        BY <1>0 DEF IInv, ReaderSafe
    <2>2. ASSUME reading' # NoInput, ~torn'
          PROVE  /\ action' = handlers'[reading'] .action
                 /\ Sound(handlers'[reading'], named'[reading'])
                 /\ reading' \notin Written(todo')
        <3>1. reading # NoInput /\ ~torn /\ reading \notin written /\ reading \in Inputs
            BY <1>0, <2>2 DEF IInv, Types
        <3>2. named'[reading] = named[reading]
            BY <1>0, <3>1
        <3> QED
            BY <1>0, <3>1, <3>2 DEF IInv, ReaderSafe
    <2> QED
        BY <1>0, <2>1, <2>2 DEF ReaderSafe
<1> QED
    BY <1>10, <1>11, <1>12 DEF IInv

\* channels and inputs are words
LEMMA WordsHold ==
    /\ Inputs \subseteq Words /\ Targets \subseteq Words /\ {0, 1} \subseteq Words
    /\ Targets \subseteq 0 .. DMX_CHANNELS /\ 0 \in 0 .. DMX_CHANNELS
BY PatchAssumption DEF Inputs, Words

\* between commands every handler is sound
LEMMA AtRest ==
    ASSUME IInv, todo = <<>>
    PROVE  handlers \in Patches /\ \A j \in Inputs : Sound(handlers[j], named[j])
BY LeadsEmpty DEF IInv, Types, OnTheWay

\* an input whose action has no data is sound
LEMMA PlainSound ==
    ASSUME NEW h, NEW channel, h.action \notin LedActions \cup RouteActions
    PROVE  Sound(h, channel)
BY DEF Sound

\* the partner that a command leaves behind does nothing
LEMMA PartnerOff ==
    ASSUME handlers \in Patches, \A j \in Inputs : Sound(handlers[j], named[j]), NEW i \in Inputs
    PROVE  /\ Parted(i) \in Patches
           /\ Partner(i) \subseteq Inputs
           /\ \A j \in Partner(i) : Parted(i)[j].action = NONE
<1>1. Does(Unlink(i), Parted(i), Partner(i))
    BY Unlinked
<1>2. ASSUME NEW j \in Partner(i) PROVE Parted(i)[j].action = NONE
    <2>1. IsLed(i) /\ j = handlers[i].word /\ j \in Inputs
        BY <1>1 DEF Partner, Does
    <2>2. handlers[j] \in Handler /\ handlers \in [Inputs -> Handler]
        BY <2>1 DEF Patches
    <2> QED
        BY <2>1, <2>2 DEF Parted, Set, Handler
<1> QED
    BY <1>1, <1>2 DEF Does

\* a command that only gives the input an action without data
LEMMA PlainCommand ==
    ASSUME IInv, todo = <<>>, NEW i \in Inputs, NEW kind \in {NONE, "HANDLE_BPM"},
           NEW list, list = Unlink(i) \o <<Store(i, "action", kind)>>,
           NEW channel \in 0 .. DMX_CHANNELS, Begin(list, channel)
    PROVE  IInv'
<1> DEFINE final == Set(Parted(i), i, "action", kind)
           written == Partner(i) \cup {i}
<1>1. handlers \in Patches /\ \A j \in Inputs : Sound(handlers[j], named[j])
    BY AtRest
<1>2. Does(Unlink(i), Parted(i), Partner(i))
    BY <1>1, Unlinked
<1>3. kind \in IF "action" = "action" THEN Actions ELSE Words
    BY DEF Actions
<1>4. Unlink(i) \in Seq(Stores) /\ Store(i, "action", kind) \in Stores
    BY <1>2, <1>3 DEF Does, Stores, Store, Fields
<1>5. list = Append(Unlink(i), Store(i, "action", kind))
    BY <1>4
<1>6. Does(list, final, written)
    <2>1. Does(Append(Unlink(i), Store(i, "action", kind)), final, written)
        BY <1>1, <1>2, <1>3, DoesSet DEF Fields
    <2> QED
        BY <1>5, <2>1
<1>7. ASSUME NEW j \in written
      PROVE  /\ Sound(final[j], channel)
             /\ final[j].action \in LedActions => Paired(final, j)
    <2>1. final[j].action = IF j = i THEN kind ELSE Parted(i)[j].action
        BY <1>1, <1>3, PartnerOff, SetField DEF Fields
    <2>2. final[j].action \in {NONE, "HANDLE_BPM"}
        BY <1>1, <2>1, PartnerOff
    <2> QED
        BY <2>2, PlainSound DEF NONE, LedActions, RouteActions
<1> HIDE DEF final, written
<1> QED
    BY <1>6, <1>7, CommandKeeps

\* a command that also gives it one word
LEMMA RouteCommand ==
    ASSUME IInv, todo = <<>>, NEW i \in Inputs, NEW word \in Words,
           NEW kind \in RouteActions \cup {"HANDLE_TAPSYNC"},
           NEW channel \in 0 .. DMX_CHANNELS, kind \in RouteActions => word = channel,
           NEW list, list = Unlink(i) \o Route(i, kind, word), Begin(list, channel)
    PROVE  IInv'
<1> DEFINE acted == Set(Parted(i), i, "action", kind)
           final == Set(acted, i, "word", word)
           first == Store(i, "action", kind)
           second == Store(i, "word", word)
           written == Partner(i) \cup {i}
<1>1. handlers \in Patches /\ \A j \in Inputs : Sound(handlers[j], named[j])
    BY AtRest
<1>2. Does(Unlink(i), Parted(i), Partner(i))
    BY <1>1, Unlinked
<1>3. kind \in IF "action" = "action" THEN Actions ELSE Words
    BY DEF Actions, RouteActions
<1>4. word \in IF "word" = "action" THEN Actions ELSE Words
    BY WordsHold
<1>5. Unlink(i) \in Seq(Stores) /\ first \in Stores /\ second \in Stores
    BY <1>2, <1>3, <1>4 DEF Does, Stores, Store, Fields
<1>6. list = Append(Append(Unlink(i), first), second)
    <2>1. ASSUME NEW a \in Stores, NEW b \in Stores, NEW u \in Seq(Stores)
          PROVE  u \o <<a, b>> = Append(Append(u, a), b)
        OBVIOUS
    <2> QED
        BY <1>5, <2>1 DEF Route
<1>7. Does(Append(Unlink(i), first), acted, written)
    BY <1>1, <1>2, <1>3, DoesSet DEF Fields
<1>8. Does(list, final, written)
    <2>1. Does(Append(Append(Unlink(i), first), second), final, written \cup {i})
        <3> HIDE DEF acted, written, first
        <3> QED
            BY <1>1, <1>4, <1>7, DoesSet DEF Fields
    <2>2. written \cup {i} = written
        OBVIOUS
    <2> QED
        BY <1>6, <2>1, <2>2
<1>9. ASSUME NEW j \in written
      PROVE  /\ Sound(final[j], channel)
             /\ final[j].action \in LedActions => Paired(final, j)
    <2>1. Parted(i) \in Patches /\ j \in Inputs
        BY <1>1, PartnerOff
    <2>2. /\ acted \in Patches
          /\ acted[j].action = IF j = i THEN kind ELSE Parted(i)[j].action
        BY <1>3, <1>7, <2>1, SetReads DEF Fields, Does
    <2>3. /\ final[j].action = acted[j].action
          /\ j = i => final[j].word = word
        <3> HIDE DEF acted
        <3> QED
            BY <1>4, <2>1, <2>2, SetField DEF Fields
    <2>4. CASE j = i
        BY <2>2, <2>3, <2>4, WordsHold DEF Sound, LedActions, RouteActions
    <2>5. CASE j # i
        <3>1. final[j].action = NONE
            BY <1>1, <2>2, <2>3, <2>5, PartnerOff
        <3> QED
            BY <3>1, PlainSound DEF NONE, LedActions, RouteActions
    <2> QED
        BY <2>4, <2>5
<1> HIDE DEF final, written
<1> QED
    BY <1>8, <1>9, CommandKeeps

\* both inputs of a fixture as a pair of commands leaves them
Coupled(patch, i, other, channel) ==
    Set(Set(Set(Set(Set(Set(patch, i, "action", "HANDLE_LED_2CH_INTENSITY"),
                        i, "word", other),
                    i, "base", channel),
                other, "action", "HANDLE_LED_2CH_COLOR"),
            other, "word", i),
        other, "base", channel)

\* what the six stores of a pair do, after another list
LEMMA PairDoes ==
    ASSUME handlers \in Patches, NEW u, NEW mid, NEW before, Does(u, mid, before),
           NEW i \in Inputs, NEW other \in Inputs, NEW channel \in Targets
    PROVE  /\ Does(u \o Pair(i, other, channel), Coupled(mid, i, other, channel),
                   before \cup {i, other})
           /\ \A j \in Inputs, f \in Fields :
                Coupled(mid, i, other, channel)[j][f] =
                    CASE j = other -> IF f = "action" THEN "HANDLE_LED_2CH_COLOR"
                                      ELSE IF f = "word" THEN i ELSE channel
                      [] j = i /\ j # other -> IF f = "action" THEN "HANDLE_LED_2CH_INTENSITY"
                                  ELSE IF f = "word" THEN other ELSE channel
                      [] OTHER -> mid[j][f]
<1> DEFINE a == Store(i, "action", "HANDLE_LED_2CH_INTENSITY")
           b == Store(i, "word", other)
           c == Store(i, "base", channel)
           d == Store(other, "action", "HANDLE_LED_2CH_COLOR")
           e == Store(other, "word", i)
           f0 == Store(other, "base", channel)
           ua == Append(u, a)
           ub == Append(ua, b)
           uc == Append(ub, c)
           ud == Append(uc, d)
           ue == Append(ud, e)
           uf == Append(ue, f0)
           ma == Set(mid, i, "action", "HANDLE_LED_2CH_INTENSITY")
           mb == Set(ma, i, "word", other)
           mc == Set(mb, i, "base", channel)
           md == Set(mc, other, "action", "HANDLE_LED_2CH_COLOR")
           me == Set(md, other, "word", i)
           mf == Set(me, other, "base", channel)
<1>1. /\ "HANDLE_LED_2CH_INTENSITY" \in IF "action" = "action" THEN Actions ELSE Words
      /\ "HANDLE_LED_2CH_COLOR" \in IF "action" = "action" THEN Actions ELSE Words
      /\ other \in IF "word" = "action" THEN Actions ELSE Words
      /\ i \in IF "word" = "action" THEN Actions ELSE Words
      /\ channel \in IF "base" = "action" THEN Actions ELSE Words
      /\ {"action", "word", "base"} \subseteq Fields
    BY WordsHold DEF Actions, LedActions, Fields
<1>2. Does(ua, ma, before \cup {i})
    BY <1>1, DoesSet
<1>3. Does(ub, mb, before \cup {i} \cup {i})
    <2> HIDE DEF ua, ma
    <2> QED
        BY <1>1, <1>2, DoesSet
<1>4. Does(uc, mc, before \cup {i} \cup {i} \cup {i})
    <2> HIDE DEF ub, mb
    <2> QED
        BY <1>1, <1>3, DoesSet
<1>5. Does(ud, md, before \cup {i} \cup {i} \cup {i} \cup {other})
    <2> HIDE DEF uc, mc
    <2> QED
        BY <1>1, <1>4, DoesSet
<1>6. Does(ue, me, before \cup {i} \cup {i} \cup {i} \cup {other} \cup {other})
    <2> HIDE DEF ud, md
    <2> QED
        BY <1>1, <1>5, DoesSet
<1>7. Does(uf, mf, before \cup {i} \cup {i} \cup {i} \cup {other} \cup {other} \cup {other})
    <2> HIDE DEF ue, me
    <2> QED
        BY <1>1, <1>6, DoesSet
<1>8. before \cup {i} \cup {i} \cup {i} \cup {other} \cup {other} \cup {other}
        = before \cup {i, other}
    OBVIOUS
<1>9. uf = u \o Pair(i, other, channel)
    <2>1. u \in Seq(Stores)
        BY DEF Does
    <2>2. {a, b, c, d, e, f0} \subseteq Stores
        BY <1>1 DEF Stores, Store
    <2>3. ASSUME NEW s \in Seq(Stores), NEW x \in Stores, NEW y \in Stores, NEW z \in Stores
          PROVE  s \o <<x, y, z>> = Append(Append(Append(s, x), y), z)
        OBVIOUS
    <2>4. uc = u \o <<a, b, c>> /\ uc \in Seq(Stores)
        <3> HIDE DEF a, b, c
        <3> QED
            BY <2>1, <2>2, <2>3
    <2>5. uf = uc \o <<d, e, f0>>
        <3> HIDE DEF uc, d, e, f0
        <3> QED
            BY <2>2, <2>3, <2>4
    <2>6. uf = (u \o <<a, b, c>>) \o <<d, e, f0>>
        BY <2>4, <2>5
    <2>7. (u \o <<a, b, c>>) \o <<d, e, f0>> = u \o <<a, b, c, d, e, f0>>
        <3> HIDE DEF a, b, c, d, e, f0
        <3> QED
            BY <2>1, <2>2
    <2> QED
        BY <2>6, <2>7 DEF Pair
<1>10. /\ mid \in Patches /\ ma \in Patches /\ mb \in Patches /\ mc \in Patches
       /\ md \in Patches /\ me \in Patches /\ mf \in Patches
    BY <1>2, <1>3, <1>4, <1>5, <1>6, <1>7 DEF Does
<1>11. ASSUME NEW j \in Inputs, NEW f \in Fields
       PROVE  mf[j][f] =
                    CASE j = other -> IF f = "action" THEN "HANDLE_LED_2CH_COLOR"
                                      ELSE IF f = "word" THEN i ELSE channel
                      [] j = i /\ j # other -> IF f = "action" THEN "HANDLE_LED_2CH_INTENSITY"
                                  ELSE IF f = "word" THEN other ELSE channel
                      [] OTHER -> mid[j][f]
    <2>1. ma[j][f] = IF i = j /\ f = "action" THEN "HANDLE_LED_2CH_INTENSITY" ELSE mid[j][f]
        BY <1>1, <1>10, SetReads
    <2>2. mb[j][f] = IF i = j /\ f = "word" THEN other ELSE ma[j][f]
        <3> HIDE DEF ma
        <3> QED
            BY <1>1, <1>10, SetReads
    <2>3. mc[j][f] = IF i = j /\ f = "base" THEN channel ELSE mb[j][f]
        <3> HIDE DEF mb
        <3> QED
            BY <1>1, <1>10, SetReads
    <2>4. md[j][f] = IF other = j /\ f = "action" THEN "HANDLE_LED_2CH_COLOR" ELSE mc[j][f]
        <3> HIDE DEF mc
        <3> QED
            BY <1>1, <1>10, SetReads
    <2>5. me[j][f] = IF other = j /\ f = "word" THEN i ELSE md[j][f]
        <3> HIDE DEF md
        <3> QED
            BY <1>1, <1>10, SetReads
    <2>6. mf[j][f] = IF other = j /\ f = "base" THEN channel ELSE me[j][f]
        <3> HIDE DEF me
        <3> QED
            BY <1>1, <1>10, SetReads
    <2> HIDE DEF ma, mb, mc, md, me, mf
    <2> QED
        BY <2>1, <2>2, <2>3, <2>4, <2>5, <2>6 DEF Fields
<1>12. mf = Coupled(mid, i, other, channel)
    BY DEF Coupled
<1> HIDE DEF uf, mf
<1> QED
    BY <1>7, <1>8, <1>9, <1>11, <1>12

\* a command that makes two inputs a fixture
LEMMA PairCommand ==
    ASSUME IInv, todo = <<>>, NEW i \in Inputs, NEW other \in Inputs, NEW channel \in Targets,
           NEW list, list = Unlink(i) \o Pair(i, other, channel), Begin(list, channel)
    PROVE  IInv'
<1> DEFINE final == Coupled(Parted(i), i, other, channel)
           written == Partner(i) \cup {i, other}
<1>1. handlers \in Patches /\ \A j \in Inputs : Sound(handlers[j], named[j])
    BY AtRest
<1>2. Does(Unlink(i), Parted(i), Partner(i))
    BY <1>1, Unlinked
<1>3. Does(list, final, written)
    <2>1. Does(Unlink(i) \o Pair(i, other, channel), final, written)
        BY <1>1, <1>2, PairDoes
    <2> HIDE DEF final, written
    <2> QED
        BY <2>1
<1>4. ASSUME NEW j \in Inputs, NEW f \in Fields
      PROVE  final[j][f] =
                CASE j = other -> IF f = "action" THEN "HANDLE_LED_2CH_COLOR"
                                  ELSE IF f = "word" THEN i ELSE channel
                  [] j = i /\ j # other -> IF f = "action" THEN "HANDLE_LED_2CH_INTENSITY"
                              ELSE IF f = "word" THEN other ELSE channel
                  [] OTHER -> Parted(i)[j][f]
    <2>1. /\ Does(list, final, written)
          /\ \A k \in Inputs, g \in Fields :
                final[k][g] =
                    CASE k = other -> IF g = "action" THEN "HANDLE_LED_2CH_COLOR"
                                      ELSE IF g = "word" THEN i ELSE channel
                      [] k = i /\ k # other -> IF g = "action" THEN "HANDLE_LED_2CH_INTENSITY"
                                  ELSE IF g = "word" THEN other ELSE channel
                      [] OTHER -> Parted(i)[k][g]
        BY <1>1, <1>2, PairDoes
    <2> HIDE DEF final
    <2> QED
        BY <2>1
<1>5. ASSUME NEW j \in Inputs
      PROVE  /\ j = other => /\ final[j].action = "HANDLE_LED_2CH_COLOR"
                             /\ final[j].word = i /\ final[j].base = channel
             /\ j = i /\ j # other => /\ final[j].action = "HANDLE_LED_2CH_INTENSITY"
                                     /\ final[j].word = other /\ final[j].base = channel
             /\ j # i /\ j # other => final[j].action = Parted(i)[j].action
    <2> HIDE DEF final
    <2>1. "action" \in Fields /\ "word" \in Fields /\ "base" \in Fields
        BY DEF Fields
    <2>2. CASE j = other
        BY <1>4, <2>1, <2>2
    <2>3. CASE j = i /\ j # other
        BY <1>4, <2>1, <2>3
    <2>4. CASE j # i /\ j # other
        BY <1>4, <2>1, <2>4
    <2> QED
        BY <2>2, <2>3, <2>4
<1>6. ASSUME NEW j \in written
      PROVE  /\ Sound(final[j], channel)
             /\ final[j].action \in LedActions => Paired(final, j)
    <2> HIDE DEF final
    <2>1. j \in Inputs
        BY <1>1, PartnerOff
    <2>2. CASE j \in {i, other}
        <3>1. Sound(final[j], channel)
            BY <1>5, <2>2, WordsHold DEF Sound, RouteActions
        <3>2. Paired(final, j)
            BY <1>5, <2>2 DEF Paired, LedActions
        <3> QED
            BY <3>1, <3>2
    <2>3. CASE j \notin {i, other}
        <3>1. final[j].action = NONE
            BY <1>1, <1>5, <2>1, <2>3, PartnerOff
        <3> QED
            BY <3>1, PlainSound DEF NONE, LedActions, RouteActions
    <2> QED
        BY <2>2, <2>3
<1>7. channel \in 0 .. DMX_CHANNELS
    BY WordsHold
<1> HIDE DEF final, written
<1> QED
    BY <1>3, <1>6, <1>7, CommandKeeps

\* the command that takes every patch away
LEMMA ResetKeeps ==
    ASSUME IInv, ResetCommand
    PROVE  IInv'
<1> DEFINE list == [k \in 1 .. INPUT_CHANNELS |-> Store(k - 1, "action", NONE)]
           final == [i \in Inputs |-> [handlers[i] EXCEPT !.action = NONE]]
<1>1. INPUT_CHANNELS \in Nat /\ \A k \in 1 .. INPUT_CHANNELS : k - 1 \in Inputs
    BY PatchAssumption DEF Inputs
<1>2. handlers \in Patches /\ \A i \in Inputs : handlers[i] \in Handler
    BY DEF IInv, Types, Patches
<1>3. \A k \in 1 .. INPUT_CHANNELS : list[k] \in Stores
    BY <1>1 DEF Stores, Store, Fields, Actions
<1>4. list \in Seq(Stores) /\ Len(list) = INPUT_CHANNELS /\ DOMAIN list = 1 .. INPUT_CHANNELS
    BY <1>1, <1>3
<1>5. ASSUME NEW i \in Inputs PROVE final[i] \in Handler /\ final[i].action = NONE
    BY <1>2 DEF Handler, Actions
<1>6. final \in Patches
    BY <1>5 DEF Patches
<1>7. ASSUME NEW i \in Inputs, NEW f \in Fields
      PROVE  \/ Writes(list, i, f) = {} /\ final[i][f] = handlers[i][f]
             \/ \E k \in Writes(list, i, f) :
                    /\ final[i][f] = list[k].value
                    /\ \A l \in Writes(list, i, f) : l <= k
    <2>1. i \in Int /\ i + 1 \in 1 .. INPUT_CHANNELS
        BY <1>1 DEF Inputs
    <2>2. CASE f = "action"
        <3>0. \A k \in 1 .. INPUT_CHANNELS :
                list[k].input = k - 1 /\ list[k].field = "action"
            BY DEF Store
        <3>1. Writes(list, i, f) = {i + 1}
            <4> HIDE DEF list
            <4> QED
                BY <1>1, <1>4, <2>1, <2>2, <3>0 DEF Writes
        <3>2. list[i + 1].value = NONE /\ final[i][f] = NONE
            BY <1>5, <2>1, <2>2 DEF Store
        <3> HIDE DEF list, final
        <3> QED
            BY <2>1, <3>1, <3>2
    <2>3. CASE f # "action"
        <3>1. Writes(list, i, f) = {}
            BY <1>4, <2>3 DEF Writes, Store
        <3>2. final[i][f] = handlers[i][f]
            BY <1>2, <2>3 DEF Handler, Fields
        <3> QED
            BY <3>1, <3>2
    <2> QED
        BY <2>2, <2>3
<1>8. Written(list) = Inputs
    <2>1. \A k \in 1 .. INPUT_CHANNELS : list[k].input = k - 1
        BY DEF Store
    <2>2. \A i \in Inputs : i + 1 \in 1 .. INPUT_CHANNELS /\ (i + 1) - 1 = i
        BY <1>1 DEF Inputs
    <2> HIDE DEF list
    <2> QED
        BY <1>1, <1>4, <2>1, <2>2 DEF Written
<1>9. Does(list, final, Inputs)
    <2> HIDE DEF list, final
    <2> QED
        BY <1>4, <1>6, <1>7, <1>8 DEF Does, Leads
<1>10. \A j \in Inputs : /\ Sound(final[j], 0)
                         /\ final[j].action \in LedActions => Paired(final, j)
    <2>1. ASSUME NEW j \in Inputs PROVE final[j].action \notin LedActions \cup RouteActions
        BY <1>5 DEF NONE, LedActions, RouteActions
    <2> HIDE DEF final
    <2> QED
        BY <2>1, PlainSound
<1>11. Begin(list, 0)
    BY DEF ResetCommand
<1> HIDE DEF list, final
<1> QED
    BY <1>9, <1>10, <1>11, WordsHold, CommandKeeps

\* any other command: what it stores depends on its kind
LEMMA PatchKeeps ==
    ASSUME IInv, PatchCommand
    PROVE  IInv'
<1>0. PICK i \in Inputs, kind \in Kinds :
        \E channel \in ChannelsOf(kind) :
            \E stores \in Settings(i, kind, channel) : Begin(Unlink(i) \o stores, channel)
    BY DEF PatchCommand
<1>1. PICK channel \in ChannelsOf(kind) :
        \E stores \in Settings(i, kind, channel) : Begin(Unlink(i) \o stores, channel)
    BY <1>0
<1>2. PICK stores \in Settings(i, kind, channel) : Begin(Unlink(i) \o stores, channel)
    BY <1>1
<1>3. PICK list : list = Unlink(i) \o stores
    OBVIOUS
<1>4. Begin(list, channel) /\ todo = <<>>
    BY <1>2, <1>3 DEF Begin
<1>5. channel \in 0 .. DMX_CHANNELS
    BY WordsHold DEF ChannelsOf
<1>6. CASE kind = "DEFAULT"
    <2>1. stores = <<Store(i, "action", NONE)>>
        BY <1>6 DEF Settings, RouteActions
    <2> QED
        BY <1>3, <1>4, <1>5, <2>1, PlainCommand
<1>7. CASE kind = "HANDLE_LED_2CH_INTENSITY"
    <2>1. PICK other \in Inputs : stores = Pair(i, other, channel)
        BY <1>7 DEF Settings, RouteActions
    <2>2. channel \in Targets
        BY <1>7 DEF ChannelsOf, LedActions
    <2> QED
        BY <1>3, <1>4, <1>5, <2>1, <2>2, PairCommand
<1>8. CASE kind \in RouteActions
    <2>1. stores = Route(i, kind, channel)
        BY <1>8 DEF Settings, RouteActions
    <2>2. channel \in Words
        BY <1>8, WordsHold DEF ChannelsOf
    <2> QED
        BY <1>3, <1>4, <1>5, <1>8, <2>1, <2>2, RouteCommand
<1>9. CASE kind = "HANDLE_TAPSYNC"
    <2>1. PICK rising_edge \in {0, 1} : stores = Route(i, kind, rising_edge)
        BY <1>9 DEF Settings, RouteActions
    <2>2. list = Unlink(i) \o Route(i, kind, rising_edge)
        BY <1>3, <2>1
    <2>3. rising_edge \in Words
        BY WordsHold
    <2>4. kind \in RouteActions \cup {"HANDLE_TAPSYNC"}
        BY <1>9
    <2>5. kind \in RouteActions => rising_edge = channel
        BY <1>9 DEF RouteActions
    <2> QED
        BY <1>4, <1>5, <2>2, <2>3, <2>4, <2>5, RouteCommand
<1>10. CASE kind = "HANDLE_BPM"
    <2>1. stores = <<Store(i, "action", kind)>>
        BY <1>10 DEF Settings, RouteActions
    <2> QED
        BY <1>3, <1>4, <1>5, <1>10, <2>1, PlainCommand
<1>11. CASE /\ kind \notin RouteActions
            /\ kind \notin {"DEFAULT", "HANDLE_LED_2CH_INTENSITY", "HANDLE_TAPSYNC", "HANDLE_BPM"}
    <2>1. stores = <<>>
        BY <1>11 DEF Settings
    <2>2. handlers \in Patches /\ \A j \in Inputs : Sound(handlers[j], named[j])
        BY <1>4, AtRest
    <2>3. Does(Unlink(i), Parted(i), Partner(i))
        BY <2>2, Unlinked
    <2>4. list = Unlink(i)
        BY <1>3, <2>1, <2>3 DEF Does
    <2>5. \A j \in Partner(i) : /\ Sound(Parted(i)[j], channel)
                                /\ Parted(i)[j].action \in LedActions => Paired(Parted(i), j)
        BY <2>2, PartnerOff, PlainSound DEF NONE, LedActions, RouteActions
    <2> QED
        BY <1>4, <1>5, <2>3, <2>4, <2>5, CommandKeeps
<1> QED
    BY <1>6, <1>7, <1>8, <1>9, <1>10, <1>11

-----------------------------------------------------------------------------
(* The invariant.                                                          *)

\* the first patch is empty
LEMMA InitIInv == Init => IInv
<1> SUFFICES ASSUME Init PROVE IInv
    OBVIOUS
<1>1. Types
    <2>1. 0 \in Words
        BY PatchAssumption DEF Words
    <2>2. [action |-> NONE, word |-> 0, base |-> 0] \in Handler /\ NONE \in Actions
        BY <2>1 DEF Handler, Actions
    <2>3. handlers \in Patches
        BY <2>2 DEF Init, Patches
    <2>4. todo \in Seq(Stores)
        BY DEF Init
    <2>5. named \in [Inputs -> 0 .. DMX_CHANNELS]
        BY WordsHold DEF Init
    <2> QED
        BY <2>2, <2>3, <2>4, <2>5 DEF Init, Types
<1>2. \A i \in Inputs : handlers[i].action = NONE
    BY DEF Init
<1>3. OnTheWay
    <2>1. handlers \in Patches /\ Leads(handlers, todo, handlers)
        BY <1>1, LeadsNowhere DEF Types, Init
    <2>2. \A i \in Inputs : handlers[i].action \notin LedActions \cup RouteActions
        BY <1>2 DEF NONE, LedActions, RouteActions
    <2>3. \A i \in Inputs : Sound(handlers[i], named[i])
        BY <2>2, PlainSound
    <2>4. Mutual(handlers)
        BY <2>2 DEF Mutual
    <2> QED
        BY <2>1, <2>3, <2>4 DEF OnTheWay
<1>4. ReaderSafe
    BY DEF Init, ReaderSafe
<1> QED
    BY <1>1, <1>3, <1>4 DEF IInv

\* A store brings handlers[] nearer to the patch it is on the way to; a safe
\* reader's input is not among the inputs it is for.
LEMMA StoreKeeps ==
    ASSUME IInv, NextStore
    PROVE  IInv'
<1> DEFINE s == Head(todo)
           after == Set(handlers, s.input, s.field, s.value)
<1>1. /\ todo \in Seq(Stores) /\ todo # <<>> /\ s \in Stores /\ Tail(todo) \in Seq(Stores)
      /\ handlers \in Patches
    BY DEF IInv, Types, NextStore
<1>2. /\ handlers' = after /\ todo' = Tail(todo)
      /\ UNCHANGED <<named, widowed, reading, action, torn, aborted>> /\ ~aborted
    BY DEF NextStore, Set, reader
<1>3. /\ s.input \in Inputs /\ s.field \in Fields
      /\ s.value \in IF s.field = "action" THEN Actions ELSE Words
    BY <1>1 DEF Stores
<1>4. after \in Patches /\ \A j \in Inputs : j # s.input => after[j] = handlers[j]
    <2>1. after \in Patches
        BY <1>1, <1>3, SetField
    <2>2. ASSUME NEW j \in Inputs, j # s.input PROVE after[j] = handlers[j]
        BY <1>1, <2>2 DEF Set, Patches
    <2> QED
        BY <2>1, <2>2
<1>5. Types'
    <2> HIDE DEF s, after
    <2> QED
        BY <1>1, <1>2, <1>4 DEF IInv, Types
<1>6. OnTheWay'
    <2>1. PICK final \in Patches : /\ Leads(handlers, todo, final)
                                  /\ \A i \in Inputs : Sound(final[i], named[i])
                                  /\ Mutual(final)
        BY DEF IInv, OnTheWay
    <2>2. Leads(after, Tail(todo), final)
        BY <1>1, <2>1, LeadsStep DEF Set
    <2>3. Leads(handlers', todo', final)
        BY <1>2, <2>2
    <2>4. Mutual(final)'
        BY <1>2, <2>1 DEF Mutual
    <2>5. \A i \in Inputs : Sound(final[i], named'[i])
        BY <1>2, <2>1
    <2> QED
        BY <2>3, <2>4, <2>5 DEF OnTheWay
<1>7. ReaderSafe'
    <2>1. s.input \in Written(todo) /\ Written(Tail(todo)) \subseteq Written(todo)
        <3>1. /\ s = todo[1] /\ 1 \in DOMAIN todo
              /\ \A k \in DOMAIN Tail(todo) : k + 1 \in DOMAIN todo /\ Tail(todo)[k] = todo[k + 1]
            BY <1>1
        <3> HIDE DEF s
        <3> QED
            BY <3>1 DEF Written
    <2>2. ASSUME reading # NoInput, ~torn
          PROVE  /\ handlers'[reading] = handlers[reading]
                 /\ reading \notin Written(Tail(todo))
        <3>1. reading \in Inputs /\ reading \notin Written(todo)
            BY <2>2 DEF IInv, Types, ReaderSafe
        <3> QED
            BY <1>2, <1>4, <2>1, <3>1
    <2> HIDE DEF s, after
    <2> QED
        BY <1>2, <2>2 DEF IInv, ReaderSafe
<1> QED
    BY <1>5, <1>6, <1>7 DEF IInv

\* what a reader finds is sound unless the input has a store to come
LEMMA LookUpKeeps ==
    ASSUME IInv, NEW i \in Inputs, LookUp(i)
    PROVE  IInv'
<1>1. /\ reading' = i /\ action' = handlers[i].action
      /\ torn' = (i \in Written(todo))
      /\ handlers[i].action \in LedActions \cup RouteActions
      /\ ~aborted /\ aborted' = aborted
      /\ handlers' = handlers /\ todo' = todo /\ named' = named /\ widowed' = widowed
    BY DEF LookUp, net
<1>2. handlers \in Patches /\ handlers[i] \in Handler
    BY DEF IInv, Types, Patches
<1>3. ASSUME ~torn' PROVE Sound(handlers[i], named[i])
    <2>1. PICK final \in Patches : Leads(handlers, todo, final) /\ Sound(final[i], named[i])
        BY DEF IInv, OnTheWay
    <2>2. \A f \in Fields : Writes(todo, i, f) = {}
        <3>1. todo \in Seq(Stores) /\ DOMAIN todo = 1 .. Len(todo)
            BY DEF IInv, Types
        <3> QED
            BY <1>1, <1>3, <3>1 DEF Writes, Written
    <2>3. \A f \in Fields : final[i][f] = handlers[i][f]
        BY <2>1, <2>2 DEF Leads
    <2>4. /\ final[i].action = handlers[i].action /\ final[i].word = handlers[i].word
          /\ final[i].base = handlers[i].base
        BY <2>3 DEF Fields
    <2> QED
        BY <2>1, <2>4 DEF Sound
<1>4. Types'
    BY <1>1, <1>2 DEF IInv, Types, Handler
<1>5. OnTheWay'
    BY <1>1 DEF IInv, OnTheWay, Mutual
<1>6. ReaderSafe'
    BY <1>1, <1>3 DEF ReaderSafe
<1> QED
    BY <1>4, <1>5, <1>6 DEF IInv

\* the assertion fails on the channel that the reader has found
LEMMA ApplyKeeps ==
    ASSUME IInv, Apply
    PROVE  IInv'
<1>1. /\ handlers' = handlers /\ todo' = todo /\ named' = named /\ widowed' = widowed
      /\ ~aborted
      /\ \/ /\ Channel \notin 1 .. DMX_CHANNELS /\ aborted' = TRUE
            /\ reading' = reading /\ action' = action /\ torn' = torn
         \/ /\ reading' = NoInput /\ action' = NONE /\ torn' = FALSE /\ aborted' = aborted
    BY DEF Apply, net
<1>2. Types'
    BY <1>1 DEF IInv, Types, Actions
<1>3. OnTheWay'
    BY <1>1 DEF IInv, OnTheWay, Mutual
<1>4. ReaderSafe'
    BY <1>1 DEF IInv, ReaderSafe, Channel
<1> QED
    BY <1>2, <1>3, <1>4 DEF IInv

\* no step breaks the invariant
LEMMA NextIInv == IInv /\ [Next]_vars => IInv'
<1> SUFFICES ASSUME IInv, [Next]_vars PROVE IInv'
    OBVIOUS
<1>1. CASE PatchCommand
    BY <1>1, PatchKeeps
<1>2. CASE ResetCommand
    BY <1>2, ResetKeeps
<1>3. CASE NextStore
    BY <1>3, StoreKeeps
<1>4. ASSUME NEW i \in Inputs, LookUp(i) PROVE IInv'
    BY <1>4, LookUpKeeps
<1>5. CASE Apply
    BY <1>5, ApplyKeeps
<1>6. CASE UNCHANGED vars
    BY <1>6 DEF vars, net, reader, IInv, Types, OnTheWay, Mutual, ReaderSafe, Channel
<1> QED
    BY <1>1, <1>2, <1>3, <1>4, <1>5, <1>6 DEF Next

\* the invariant holds in every reachable state
LEMMA Invariance == Spec => []IInv
BY InitIInv, NextIInv, PTL DEF Spec

-----------------------------------------------------------------------------
(* What is proved of the specification.                                    *)

\* a handler always holds an action and two words, never anything wider
THEOREM TypeCorrect == Spec => []TypeOK
<1>1. IInv => TypeOK
    <2> SUFFICES ASSUME IInv PROVE TypeOK
        OBVIOUS
    <2>1. \A k \in DOMAIN todo : todo[k] \in Stores
        BY DEF IInv, Types
    <2>2. \A k \in DOMAIN todo :
            /\ todo[k].input \in Inputs
            /\ todo[k].field \in {"action", "word", "base"}
            /\ todo[k].value \in IF todo[k].field = "action" THEN Actions ELSE Words
        BY <2>1 DEF Stores, Fields
    <2> QED
        BY <2>2 DEF IInv, Types, TypeOK, Patches, Handler
<1> QED
    BY <1>1, Invariance, PTL

\* A reader of an input that is not being patched steers the channel named last
\* for it, and the assertion on it fails only where that is channel 0.
THEOREM ChannelsHold == Spec => []RightChannel
<1>1. IInv => RightChannel
    <2> SUFFICES ASSUME IInv, reading # NoInput, ~torn
                 PROVE  Channel = named[reading] /\ (aborted => named[reading] = 0)
        BY DEF RightChannel
    <2>1. Channel = named[reading]
        BY DEF IInv, ReaderSafe, Sound, Channel
    <2>2. named[reading] \in 0 .. DMX_CHANNELS /\ DMX_CHANNELS \in Nat
        BY PatchAssumption DEF IInv, Types
    <2> QED
        BY <2>1, <2>2 DEF IInv, ReaderSafe
<1> QED
    BY <1>1, Invariance, PTL

\* between commands the inputs of an LED fixture name each other
THEOREM PairsHold == Spec => []PairsMutual
<1>1. IInv => PairsMutual
    <2> SUFFICES ASSUME IInv, todo = <<>> PROVE PairsMutual
        BY DEF PairsMutual
    <2>1. PICK final \in Patches : Leads(handlers, <<>>, final) /\ Mutual(final)
        BY DEF IInv, OnTheWay
    <2>2. handlers = final
        BY <2>1, LeadsEmpty DEF IInv, Types
    <2> QED
        BY <2>1, <2>2 DEF Mutual, PairsMutual, IsLed
<1> QED
    BY <1>1, Invariance, PTL

=============================================================================
