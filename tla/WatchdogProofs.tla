--------------------------- MODULE WatchdogProofs ---------------------------
(***************************************************************************)
(* Proofs about Watchdog, for any threads, any lengths of the sleep, the   *)
(* window and the start that WatchdogAssumption admits, and any number of  *)
(* failures.                                                               *)
(***************************************************************************)
EXTENDS Watchdog, TLAPS

Types ==
    /\ child \in {"none", "starting", "running", "dead"}
    /\ started \in Nat /\ left \in Nat
    /\ ok \in BOOLEAN /\ doomed \in BOOLEAN /\ pid \in BOOLEAN /\ got_sigwinch \in BOOLEAN
    /\ pc \in {"top", "forked", "reap", "sleep", "term", "reboot", "gone"}
    /\ failures \in Nat /\ last_fail \in Nat /\ streak \in Nat

\* When dmxdog sleeps there is a child, and it knows its pid.  What is left of the sleep is enough
\* for the rest of its start and a round after that; and as long as a running
\* child has not given its sign, no round of it has ended in this sleep.
SleepCovers ==
    /\ child = "none" => ~pid /\ pc \in {"top", "reboot", "gone"}
    /\ child = "starting" => started <= MaxStart
    /\ pc = "sleep" /\ child = "starting" => started + left >= SleepRounds
    /\ pc = "sleep" /\ child = "running" /\ ok /\ ~got_sigwinch => left >= 1

\* a child is sent SIGTERM for cause, unless dmxdog itself was
DoomedForCause ==
    /\ doomed /\ pc # "gone" => child \in {"none", "dead"} \/ ~ok
    /\ child = "none" \/ pid \/ pc \in {"forked", "gone"}

\* Failures that still count belong to the streak; from the test on the window
\* to the next failure no time passes.
FailuresCount ==
    /\ last_fail <= FailWindow => failures <= streak
    /\ pc \in {"forked", "reap"} /\ last_fail > FailWindow => failures = 0

IInv == Types /\ SleepCovers /\ DoomedForCause /\ FailuresCount /\ KilledForCause /\ RebootForCause

-----------------------------------------------------------------------------
\* at the start nothing runs and nothing has failed
LEMMA InitIInv == Init => IInv
<1> SUFFICES ASSUME Init PROVE IInv
    OBVIOUS
<1>1. Types
    <2>1. started \in Nat /\ left \in Nat /\ failures \in Nat /\ last_fail \in Nat /\ streak \in Nat
        BY WatchdogAssumption DEF Init
    <2> QED
        BY <2>1 DEF Init, Types
<1>2. SleepCovers /\ DoomedForCause /\ KilledForCause /\ RebootForCause
    BY DEF Init, SleepCovers, DoomedForCause, KilledForCause, RebootForCause
<1>3. FailuresCount
    BY WatchdogAssumption DEF Init, FailuresCount
<1> QED
    BY <1>1, <1>2, <1>3 DEF IInv

\* the child's own steps
LEMMA ChildKeeps ==
    ASSUME IInv, StartDone \/ Dies \/ \E t \in Watched : Pong(t)
    PROVE  IInv'
<1>1. CASE StartDone
    BY <1>1, WatchdogAssumption
       DEF StartDone, dmxdog, counts, IInv, Types, SleepCovers, DoomedForCause, FailuresCount,
           KilledForCause, RebootForCause
<1>2. CASE Dies
    BY <1>2
       DEF Dies, dmxdog, counts, IInv, Types, SleepCovers, DoomedForCause, FailuresCount,
           KilledForCause, RebootForCause
<1>3. CASE \E t \in Watched : Pong(t)
    BY <1>3
       DEF Pong, dmxdog, counts, IInv, Types, SleepCovers, DoomedForCause, FailuresCount,
           KilledForCause, RebootForCause
<1> QED
    BY <1>1, <1>2, <1>3

\* Time passes: a running child that is still ok gives its sign.
LEMMA TickKeeps ==
    ASSUME IInv, Tick
    PROVE  IInv'
<1>1. /\ pc \in {"top", "sleep", "term"} /\ pc' = pc /\ child' = child /\ doomed' = doomed
      /\ pid' = pid /\ failures' = failures /\ streak' = streak
      /\ left \in Nat \ {0} /\ left' = left - 1
    BY DEF Tick, IInv, Types
<1>2. ok' \in BOOLEAN /\ got_sigwinch' \in BOOLEAN /\ (ok' => ok)
    BY DEF Tick, Round, IInv, Types
<1>3. last_fail' \in Nat /\ (last_fail' <= FailWindow => last_fail <= FailWindow)
    BY WatchdogAssumption DEF Tick, Least, IInv, Types
<1>4. /\ started' \in Nat
      /\ child = "starting" => started' = started + 1 /\ started' <= MaxStart
    BY WatchdogAssumption DEF Tick, IInv, Types, SleepCovers
<1>5. child = "running" /\ ok' /\ ~doomed => got_sigwinch'
    BY DEF Tick, Round
<1>6. Types' /\ FailuresCount' /\ RebootForCause'
    BY <1>1, <1>2, <1>3, <1>4 DEF IInv, Types, FailuresCount, RebootForCause
<1>7. DoomedForCause' /\ KilledForCause'
    BY <1>1, <1>2 DEF IInv, DoomedForCause, KilledForCause
<1>8. SleepCovers'
    BY <1>1, <1>2, <1>4, <1>5 DEF IInv, Types, SleepCovers, DoomedForCause
<1> QED
    BY <1>6, <1>7, <1>8 DEF IInv

\* a failure is added to those that count
LEMMA FailedKeeps ==
    ASSUME IInv, NEW before \in Nat, Failed(before),
           last_fail <= FailWindow => before <= streak,
           last_fail > FailWindow => before = 0
    PROVE  /\ failures' \in Nat /\ last_fail' \in Nat /\ streak' \in Nat
           /\ failures' <= streak' /\ last_fail' = 0
BY WatchdogAssumption DEF Failed, IInv, Types

\* the steps of dmxdog
LEMMA DogKeeps ==
    ASSUME IInv, Dog \/ Terminated
    PROVE  IInv'
<1>1. Counted \in Nat /\ (last_fail <= FailWindow => Counted <= streak)
      /\ (last_fail > FailWindow => Counted = 0)
    BY WatchdogAssumption DEF Counted, IInv, Types, FailuresCount
<1>2. CASE Top
    <2>1. /\ pc = "top" /\ pid' = pid /\ got_sigwinch' = got_sigwinch /\ left' = left
        BY <1>2 DEF Top
    <2>2. CASE /\ Counted >= MaxFailures /\ pc' = "reboot" /\ failures' = Counted
               /\ UNCHANGED <<dmxmain, last_fail, streak>>
        BY <1>1, <2>1, <2>2, WatchdogAssumption
           DEF dmxmain, IInv, Types, SleepCovers, DoomedForCause, FailuresCount,
               KilledForCause, RebootForCause
    <2>3. CASE /\ ~pid /\ Fork
        <3>1. child = "none"
            BY <2>1, <2>3 DEF IInv, DoomedForCause
        <3>2. CASE /\ child' = "starting" /\ started' = 0 /\ signed' = {} /\ ok' = TRUE
                   /\ doomed' = FALSE /\ pc' = "forked" /\ failures' = Counted
                   /\ UNCHANGED <<last_fail, streak>>
            <4>1. Types'
                BY <1>1, <2>1, <3>2 DEF IInv, Types
            <4>2. SleepCovers'
                BY <3>2, WatchdogAssumption DEF SleepCovers
            <4>3. FailuresCount'
                BY <1>1, <3>2 DEF FailuresCount
            <4>4. DoomedForCause' /\ KilledForCause' /\ RebootForCause'
                BY <3>2 DEF DoomedForCause, KilledForCause, RebootForCause
            <4> QED
                BY <4>1, <4>2, <4>3, <4>4 DEF IInv
        <3>3. CASE Failed(Counted) /\ UNCHANGED <<dmxmain, pc>>
            <4>1. /\ failures' \in Nat /\ last_fail' \in Nat /\ streak' \in Nat
                  /\ failures' <= streak' /\ last_fail' = 0
                BY <1>1, <3>3, FailedKeeps
            <4> QED
                BY <2>1, <3>1, <3>3, <4>1
                   DEF dmxmain, IInv, Types, SleepCovers, DoomedForCause, FailuresCount,
                       KilledForCause, RebootForCause
        <3> QED
            BY <2>3, <3>2, <3>3 DEF Fork
    <2>4. CASE /\ pid /\ pc' = "reap" /\ failures' = Counted
               /\ UNCHANGED <<dmxmain, last_fail, streak>>
        BY <1>1, <2>1, <2>4
           DEF dmxmain, IInv, Types, SleepCovers, DoomedForCause, FailuresCount,
               KilledForCause, RebootForCause
    <2> QED
        BY <1>2, <2>2, <2>3, <2>4 DEF Top
<1>3. CASE Forked
    <2>1. /\ pc = "forked" /\ pc' = "reap" /\ pid' = TRUE
          /\ child' = child /\ started' = started /\ ok' = ok /\ doomed' = doomed
          /\ got_sigwinch' = got_sigwinch /\ left' = left
          /\ failures' = failures /\ last_fail' = last_fail /\ streak' = streak
        BY <1>3 DEF Forked, dmxmain, counts
    <2>2. Types' /\ SleepCovers'
        BY <2>1 DEF IInv, Types, SleepCovers
    <2>3. DoomedForCause' /\ FailuresCount' /\ KilledForCause' /\ RebootForCause'
        BY <2>1 DEF IInv, DoomedForCause, FailuresCount, KilledForCause, RebootForCause
    <2> QED
        BY <2>2, <2>3 DEF IInv
<1>4. CASE Reap
    <2>1. /\ pc = "reap" /\ started' = started /\ ok' = ok /\ doomed' = doomed
          /\ child # "none"
        BY <1>4 DEF Reap, IInv, SleepCovers
    <2>4. CASE WaitFails
        <3>1. /\ failures' \in Nat /\ last_fail' \in Nat /\ streak' \in Nat
              /\ failures' <= streak' /\ last_fail' = 0
            BY <2>1, <2>4, FailedKeeps DEF WaitFails, IInv, Types, FailuresCount
        <3> QED
            BY <2>1, <2>4, <3>1
               DEF WaitFails, IInv, Types, SleepCovers, DoomedForCause, FailuresCount,
                   KilledForCause, RebootForCause
    <2>2. CASE child = "dead" /\ ~WaitFails
        <3>1. child' = "none" /\ pid' = FALSE /\ pc' = "top" /\ Failed(failures)
              /\ UNCHANGED <<got_sigwinch, left>>
            BY <1>4, <2>2 DEF Reap
        <3>2. /\ failures' \in Nat /\ last_fail' \in Nat /\ streak' \in Nat
              /\ failures' <= streak' /\ last_fail' = 0
            BY <2>1, <3>1, FailedKeeps DEF IInv, Types, FailuresCount
        <3> QED
            BY <2>1, <3>1, <3>2
               DEF IInv, Types, SleepCovers, DoomedForCause, FailuresCount,
                   KilledForCause, RebootForCause
    <2>3. CASE child # "dead" /\ ~WaitFails
        <3>1. /\ pc' = "sleep" /\ got_sigwinch' = FALSE /\ left' = SleepRounds
              /\ child' = child /\ pid' = pid
              /\ failures' = failures /\ last_fail' = last_fail /\ streak' = streak
            BY <1>4, <2>3 DEF Reap, Sleep, counts
        <3>2. Types'
            <4>1. left' \in Nat
                BY <3>1, WatchdogAssumption
            <4> QED
                BY <2>1, <3>1, <4>1 DEF IInv, Types
        <3>4. SleepCovers'
            BY <2>1, <3>1, WatchdogAssumption DEF IInv, Types, SleepCovers
        <3>3. DoomedForCause' /\ FailuresCount' /\ KilledForCause' /\ RebootForCause'
            BY <2>1, <3>1
               DEF IInv, DoomedForCause, FailuresCount, KilledForCause, RebootForCause
        <3> QED
            BY <3>2, <3>3, <3>4 DEF IInv
    <2> QED
        BY <2>2, <2>3, <2>4
<1>5. CASE Awake
    <2>1. CASE got_sigwinch
        BY <1>5, <2>1
           DEF Awake, counts, IInv, Types, SleepCovers, DoomedForCause, FailuresCount,
               KilledForCause, RebootForCause
    <2>2. CASE ~got_sigwinch
        <3>1. /\ pc = "sleep" /\ left = 0 /\ pc' = "term" /\ left' \in {0, 1}
              /\ UNCHANGED <<child, started, signed, ok, pid, got_sigwinch, counts>>
            BY <1>5, <2>2 DEF Awake
        <3>2. child = "dead" \/ ~ok
            BY <2>2, <3>1, WatchdogAssumption DEF IInv, Types, SleepCovers
        <3> QED
            BY <1>5, <3>1, <3>2
               DEF Awake, counts, IInv, Types, SleepCovers, DoomedForCause, FailuresCount,
                   KilledForCause, RebootForCause
    <2> QED
        BY <2>1, <2>2 DEF IInv, Types
<1>6. CASE Kill
    BY <1>6
       DEF Kill, dmxmain, counts, IInv, Types, SleepCovers, DoomedForCause, FailuresCount,
           KilledForCause, RebootForCause
<1>7. CASE Terminated
    BY <1>7
       DEF Terminated, counts, IInv, Types, SleepCovers, DoomedForCause, FailuresCount,
           KilledForCause, RebootForCause
<1> QED
    BY <1>2, <1>3, <1>4, <1>5, <1>6, <1>7 DEF Dog

\* no step breaks the invariant
LEMMA NextIInv == IInv /\ [Next]_vars => IInv'
<1> SUFFICES ASSUME IInv, [Next]_vars PROVE IInv'
    OBVIOUS
<1>1. CASE StartDone \/ Dies \/ \E t \in Watched : Pong(t)
    BY <1>1, ChildKeeps
<1>2. CASE Tick
    BY <1>2, TickKeeps
<1>3. CASE Dog \/ Terminated
    BY <1>3, DogKeeps
<1>4. CASE UNCHANGED vars
    BY <1>4
       DEF vars, dmxmain, dmxdog, counts, IInv, Types, SleepCovers, DoomedForCause,
           FailuresCount, KilledForCause, RebootForCause
<1> QED
    BY <1>1, <1>2, <1>3, <1>4 DEF Next

\* the invariant holds in every reachable state
LEMMA Invariance == Spec => []IInv
BY InitIInv, NextIInv, PTL DEF Spec

-----------------------------------------------------------------------------
\* dmxmain is killed only when it is dead or one of its threads has missed a
\* round, as long as its start takes at least two rounds less than the sleep
THEOREM KillsHaveCause == Spec => []KilledForCause
<1>1. IInv => KilledForCause
    BY DEF IInv
<1> QED
    BY <1>1, Invariance, PTL

\* the machine is rebooted only after a streak of failures
THEOREM RebootsHaveCause == Spec => []RebootForCause
<1>1. IInv => RebootForCause
    BY DEF IInv
<1> QED
    BY <1>1, Invariance, PTL

=============================================================================
