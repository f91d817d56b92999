----------------------------- MODULE TempoProofs -----------------------------
(***************************************************************************)
(* Proofs about Tempo, for any taps, faders, commands and sheets: the      *)
(* stage never waits longer for a step than a step takes, and only taps    *)
(* too short for the program's steps per beat, or a program without, make  *)
(* the wait vanish.                                                        *)
(***************************************************************************)
EXTENDS Tempo, SequenceLemmas

-----------------------------------------------------------------------------
(* Arithmetic.                                                             *)

\* a quotient is a number, and at least m if the dividend is m divisors
LEMMA Quotient ==
    ASSUME NEW a \in Nat, NEW b \in Nat \ {0}
    PROVE  /\ a \div b \in Nat
           /\ a >= b => a \div b >= 1
           /\ a >= 127 * b => a \div b >= 127
<1> DEFINE q == a \div b
           r == a % b
<1>1. q \in Int /\ r \in 0 .. b - 1 /\ a = b * q + r
    OBVIOUS
<1> HIDE DEF q, r
<1>2. q >= 0
    <2>1. ASSUME q <= -1 PROVE FALSE
        <3>1. b * q <= -b
            BY <1>1, <2>1
        <3> QED
            BY <1>1, <3>1
    <2> QED
        BY <1>1, <2>1
<1>3. a >= b => q >= 1
    <2>1. q = 0 => b * q = 0
        OBVIOUS
    <2> QED
        BY <1>1, <1>2, <2>1
<1>4. a >= 127 * b => q >= 127
    <2>1. ASSUME q <= 126 PROVE a < 127 * b
        <3>1. b * q <= b * 126
            BY <1>1, <2>1
        <3> QED
            BY <1>1, <3>1
    <2> QED
        BY <1>1, <2>1
<1> QED
    BY <1>1, <1>2, <1>3, <1>4 DEF q

\* a product of numbers is a number, and no less than the first
LEMMA Product ==
    ASSUME NEW a \in Nat, NEW b \in Nat
    PROVE  a * b \in Nat /\ (b # 0 => a * b >= a)
OBVIOUS

\* the length of a beat of a fader
LEMMA BpmWaitType ==
    ASSUME NEW level \in 0 .. 255
    PROVE  BpmWait(level) \in Nat /\ BpmWait(level) >= 333333
<1> DEFINE up == (150 * level) \div 255
           bpm == 30 + up
<1>1. up \in 0 .. 150
    OBVIOUS
<1>2. bpm \in 30 .. 180
    BY <1>1
<1> HIDE DEF bpm
<1>3. 60000000 \div bpm >= 333333 /\ 60000000 \div bpm \in Int
    BY <1>2
<1> QED
    BY <1>3 DEF BpmWait, bpm

\* what is scaled stays a number, and does not vanish if it is long enough
LEMMA ScaledType ==
    ASSUME NEW beat \in Nat, programma_spb \in -2 .. MaxStepsPerBeat
    PROVE  /\ Scaled(beat) \in Nat
           /\ programma_spb # 0 /\ beat >= 127 => Scaled(beat) >= 1
           /\ programma_spb # 0 /\ beat >= 127 * 127 => Scaled(beat) >= 127
           /\ programma_spb = 0 => Scaled(beat) = 0
<1> DEFINE spb == programma_spb
<1>1. spb \in -2 .. 127
    BY DEF MaxStepsPerBeat
<1> HIDE DEF spb
<1>2. Scaled(beat) = IF spb >= 1 THEN beat \div spb ELSE beat * (-spb)
    BY DEF Scaled, spb
<1>3. CASE spb >= 1
    <2>1. spb \in Nat \ {0} /\ spb <= 127
        BY <1>1, <1>3
    <2>2. beat >= 127 => beat >= spb
        BY <2>1
    <2>3. beat >= 127 * 127 => beat >= 127 * spb
        BY <2>1
    <2>4. /\ beat \div spb \in Nat
          /\ beat >= spb => beat \div spb >= 1
          /\ beat >= 127 * spb => beat \div spb >= 127
        BY <2>1, Quotient
    <2>5. spb # 0
        BY <2>1
    <2> QED
        BY <1>2, <1>3, <2>2, <2>3, <2>4, <2>5 DEF spb
<1>4. CASE ~(spb >= 1)
    <2>1. -spb \in Nat /\ (spb = 0 <=> -spb = 0)
        BY <1>1, <1>4
    <2>2. beat * (-spb) \in Nat /\ (-spb # 0 => beat * (-spb) >= beat)
        BY <2>1, Product
    <2>3. Scaled(beat) = beat * (-spb)
        BY <1>2, <1>4
    <2>4. spb = 0 => beat * (-spb) = 0
        OBVIOUS
    <2> DEFINE product == beat * (-spb)
    <2>5. /\ product \in Nat /\ (spb # 0 => product >= beat) /\ (spb = 0 => product = 0)
        BY <2>1, <2>2, <2>4
    <2> HIDE DEF product
    <2>6. /\ spb # 0 /\ beat >= 127 => product >= 1
          /\ spb # 0 /\ beat >= 127 * 127 => product >= 127
        BY <2>5
    <2> QED
        BY <2>3, <2>5, <2>6 DEF spb, product
<1> QED
    BY <1>3, <1>4

-----------------------------------------------------------------------------
(* The beat that is tapped.                                                *)

\* the averages are numbers
LEMMA AveragesType ==
    ASSUME NEW g \in Seq(Int), g # <<>>
    PROVE  Averages(g) \in [1 .. Len(g) -> Int]
<1> DEFINE n == Len(g)
           Step(a) == [i \in 1 .. n |->
                        IF i = 1 THEN g[1] ELSE (a[i - 1] * (i - 1) + g[i]) \div i]
           by == [i \in 1 .. n |-> [x \in Int |->
                        IF i = 1 THEN g[1] ELSE (x * (i - 1) + g[i]) \div i]]
           chosen == CHOOSE a : a = Step(a)
<1>1. n \in Nat \ {0} /\ \A i \in 1 .. n : g[i] \in Int
    BY EmptySeq
<1>2. ASSUME NEW i \in 1 .. n, NEW x \in Int
      PROVE  (IF i = 1 THEN g[1] ELSE (x * (i - 1) + g[i]) \div i) \in Int
    <2>1. i \in Nat \ {0} /\ g[i] \in Int /\ g[1] \in Int
        BY <1>1
    <2>2. x * (i - 1) \in Int
        BY <2>1
    <2> DEFINE sum == x * (i - 1) + g[i]
    <2>3. sum \in Int
        BY <2>1, <2>2
    <2> HIDE DEF sum
    <2>4. sum \div i \in Int
        BY <2>1, <2>3
    <2> QED
        BY <2>1, <2>4 DEF sum
<1>3. by \in [1 .. n -> [Int -> Int]]
    BY <1>2
<1>4. PICK f \in [0 .. n -> Int] : Computed(f, n, 0, by)
    <2>1. 0 \in Int /\ n \in Nat
        BY <1>1
    <2> HIDE DEF n, by
    <2> QED
        BY <1>3, <2>1, Recursion
<1>5. \A i \in 1 .. n : f[i] = IF i = 1 THEN g[1] ELSE (f[i - 1] * (i - 1) + g[i]) \div i
    <2> SUFFICES ASSUME NEW i \in 1 .. n
                 PROVE  f[i] = IF i = 1 THEN g[1] ELSE (f[i - 1] * (i - 1) + g[i]) \div i
        OBVIOUS
    <2>1. i - 1 \in 0 .. n
        BY <1>1
    <2>2. f[i - 1] \in Int /\ f[i] = by[i][f[i - 1]]
        BY <1>4, <2>1 DEF Computed
    <2> QED
        BY <2>2
<1>6. \E a : a = Step(a)
    <2> DEFINE a == [i \in 1 .. n |-> f[i]]
    <2>1. \A i \in 1 .. n : a[i] = IF i = 1 THEN g[1] ELSE (a[i - 1] * (i - 1) + g[i]) \div i
        <3> SUFFICES ASSUME NEW i \in 1 .. n
                     PROVE  a[i] = IF i = 1 THEN g[1] ELSE (a[i - 1] * (i - 1) + g[i]) \div i
            OBVIOUS
        <3>1. a[i] = f[i] /\ (i # 1 => a[i - 1] = f[i - 1])
            OBVIOUS
        <3> HIDE DEF a
        <3> QED
            BY <1>5, <3>1
    <2>2. a = Step(a)
        BY <2>1
    <2> HIDE DEF a, Step
    <2> QED
        BY <2>2
<1>7. chosen = Step(chosen)
    <2> HIDE DEF Step
    <2> QED
        BY <1>6
<1> HIDE DEF chosen
<1>8. \A i \in 1 .. n :
        chosen[i] = IF i = 1 THEN g[1] ELSE (chosen[i - 1] * (i - 1) + g[i]) \div i
    BY <1>7
<1> DEFINE Typed == {k \in 0 .. n : k = 0 \/ chosen[k] \in Int}
<1>9. 0 \in Typed
    BY <1>1
<1>10. ASSUME NEW k \in 0 .. n - 1, k \in Typed PROVE k + 1 \in Typed
    <2>1. k + 1 \in 1 .. n /\ (k + 1) - 1 = k
        BY <1>1
    <2>2. chosen[k + 1] = IF k + 1 = 1 THEN g[1]
                          ELSE (chosen[(k + 1) - 1] * ((k + 1) - 1) + g[k + 1]) \div (k + 1)
        BY <1>8, <2>1
    <2>3. chosen[k + 1] = IF k + 1 = 1 THEN g[1]
                          ELSE (chosen[k] * ((k + 1) - 1) + g[k + 1]) \div (k + 1)
        BY <2>1, <2>2
    <2>4. CASE k = 0
        <3>1. k + 1 = 1 /\ g[1] \in Int
            BY <1>1, <2>4
        <3>2. chosen[k + 1] \in Int
            BY <2>3, <3>1
        <3> QED
            BY <2>1, <3>2
    <2>5. CASE k # 0
        <3>1. chosen[k] \in Int
            BY <1>10, <2>5
        <3>2. chosen[k + 1] \in Int
            <4> DEFINE x == chosen[k]
                       i == k + 1
            <4>1. x \in Int /\ i \in 1 .. n
                BY <2>1, <3>1
            <4>2. chosen[i] = IF i = 1 THEN g[1] ELSE (x * (i - 1) + g[i]) \div i
                BY <2>3
            <4> HIDE DEF x, i, n
            <4>3. (IF i = 1 THEN g[1] ELSE (x * (i - 1) + g[i]) \div i) \in Int
                BY <1>2, <4>1
            <4>4. chosen[i] \in Int
                BY <4>2, <4>3
            <4> QED
                BY <4>4 DEF i
        <3> QED
            BY <2>1, <3>2
    <2> QED
        BY <2>4, <2>5
<1>11. \A k \in 0 .. n : k \in Typed
    <2> HIDE DEF Typed, n
    <2> QED
        BY <1>1, <1>9, <1>10, InductionUpTo
<1>12. \A k \in 1 .. n : chosen[k] \in Int
    <2> SUFFICES ASSUME NEW k \in 1 .. n PROVE chosen[k] \in Int
        OBVIOUS
    <2>1. k \in Typed /\ k # 0
        BY <1>1, <1>11
    <2> QED
        BY <2>1
<1>13. chosen \in [1 .. n -> Int]
    BY <1>7, <1>12
<1> QED
    BY <1>13, Zenon DEF Averages, chosen

\* the beat of some gaps is a number
LEMMA BeatType ==
    ASSUME NEW g \in [1 .. TAPSYNC_REMEMBER_TAPS -> Int]
    PROVE  Beat(g) \in Nat
<1> DEFINE n == TAPSYNC_REMEMBER_TAPS
           average == Averages(g)
           deviates(i) == 10 * Abs(average[i - 1] - g[i]) > average[i - 1]
           regular == {i \in 1 .. Len(g) : \A j \in 2 .. i : ~deviates(j)}
           last == CHOOSE i \in regular : \A j \in regular : j <= i
<1>1. n \in Nat \ {0} /\ g \in Seq(Int) /\ Len(g) = n /\ g # <<>>
    <2>1. n \in Nat \ {0}
        BY TempoAssumption
    <2>2. g \in Seq(Int) /\ Len(g) = n
        BY <2>1
    <2> QED
        BY <2>1, <2>2, EmptySeq
<1>2. average \in [1 .. n -> Int]
    BY <1>1, AveragesType
<1>3. regular \in SUBSET (1 .. n) /\ 1 \in regular
    BY <1>1
<1>4. last \in regular
    <2>1. IsFiniteSet(regular)
        <3>1. IsFiniteSet(1 .. n)
            BY <1>1, FS_Interval
        <3> HIDE DEF regular
        <3> QED
            BY <1>3, <3>1, FS_Subset
    <2> HIDE DEF regular
    <2>2. regular \in SUBSET Nat /\ regular # {}
        BY <1>1, <1>3
    <2>3. \E x \in regular : \A y \in regular : x >= y
        BY <2>1, <2>2, FiniteHasMax
    <2>4. \E x \in regular : \A y \in regular : y <= x
        BY <2>2, <2>3
    <2> QED
        BY <2>4
<1>5. average[last] \in Int
    <2> HIDE DEF last, regular, average
    <2> QED
        BY <1>2, <1>3, <1>4
<1>6. Beat(g) = IF last < TAPSYNC_MIN_INTERVALS \/ average[last] <= 0 THEN 0 ELSE average[last]
    BY DEF Beat
<1> HIDE DEF last, average
<1> QED
    BY <1>5, <1>6

-----------------------------------------------------------------------------
(* The invariant.                                                          *)

Numbers ==
    /\ next_in \in Int /\ programma_wait \in Nat /\ programma_spb \in -2 .. MaxStepsPerBeat
    /\ since \in Int /\ gaps \in [1 .. TAPSYNC_REMEMBER_TAPS -> Int]
    /\ tapped \in [Tappers -> Nat]

\* As long as nobody was hasty, what waits to be scaled is long enough for it; what
\* the second step of 'B' scales may have been scaled already.
Enough ==
    ~hasty =>
        /\ \A t \in Tappers : tapped[t] = 0 \/ tapped[t] >= 127 * 127
        /\ beating => programma_wait = 0 \/ programma_wait >= 127

IInv == Numbers /\ Enough /\ NextStepWithinWait

LEMMA InitIInv == Init => IInv
<1> SUFFICES ASSUME Init PROVE IInv
    OBVIOUS
<1>1. Numbers
    <2>1. LongAgo \in Int /\ gaps \in [1 .. TAPSYNC_REMEMBER_TAPS -> Int]
        BY TempoAssumption DEF Init
    <2>2. tapped \in [Tappers -> Nat]
        BY DEF Init
    <2>3. 1 \in -2 .. MaxStepsPerBeat
        BY DEF MaxStepsPerBeat
    <2> QED
        BY <2>1, <2>2, <2>3 DEF Init, Numbers
<1>2. Enough /\ NextStepWithinWait
    BY DEF Init, Enough, NextStepWithinWait
<1> QED
    BY <1>1, <1>2 DEF IInv

\* time brings the next step nearer, unless the clock is set back
LEMMA TimeKeeps ==
    ASSUME IInv, TimePasses \/ ClockSet
    PROVE  IInv'
<1>1. PICK time \in Int : Passes(time) /\ (~ahead' => ~ahead /\ ~(time < 0))
    <2>1. CASE TimePasses
        <3>1. Tick \in Int /\ ~(Tick < 0)
            BY TempoAssumption
        <3>2. Passes(Tick) /\ ahead' = ahead
            BY <2>1 DEF TimePasses
        <3> QED
            BY <3>1, <3>2
    <2>2. CASE ClockSet
        BY <2>2, TempoAssumption DEF ClockSet
    <2> QED
        BY <2>1, <2>2
<1>2. /\ next_in' = next_in - time /\ since' = Capped(since + time)
      /\ UNCHANGED <<programma_wait, programma_spb, gaps, tapped, hasty, beating, crashed>>
    BY <1>1 DEF Passes
<1>3. /\ next_in \in Int /\ since \in Int /\ programma_wait \in Nat
    BY DEF IInv, Numbers
<1>4. next_in' \in Int /\ since' \in Int
    BY <1>1, <1>2, <1>3, TempoAssumption DEF Capped
<1>5. Numbers'
    BY <1>2, <1>4 DEF IInv, Numbers
<1>6. Enough'
    BY <1>2 DEF IInv, Enough
<1>7. ahead' \/ next_in' <= programma_wait'
    <2>1. CASE ahead'
        BY <2>1
    <2>2. CASE ~ahead'
        <3>1. ~ahead /\ ~(time < 0)
            BY <1>1, <2>2
        <3>2. next_in <= programma_wait
            BY <3>1 DEF IInv, NextStepWithinWait
        <3> QED
            BY <1>2, <1>3, <3>1, <3>2
    <2> QED
        BY <2>1, <2>2
<1> QED
    BY <1>5, <1>6, <1>7 DEF IInv, NextStepWithinWait

\* the next step is due a wait after one that was over
LEMMA StepOverKeeps ==
    ASSUME IInv, StepOver
    PROVE  IInv'
<1>1. /\ next_in <= 0 /\ next_in' = next_in + programma_wait
      /\ crashed' = (programma_wait <= 0) /\ ahead' = FALSE
      /\ UNCHANGED <<programma_wait, programma_spb, since, gaps, tapped, hasty, beating>>
    BY DEF StepOver, taps
<1>2. next_in \in Int /\ programma_wait \in Nat
    BY DEF IInv, Numbers
<1>3. Numbers'
    <2>1. next_in' \in Int
        BY <1>1, <1>2
    <2> QED
        BY <1>1, <2>1 DEF IInv, Numbers
<1>5. Enough'
    BY <1>1 DEF IInv, Enough
<1>4. next_in' <= programma_wait'
    BY <1>1, <1>2
<1> QED
    BY <1>3, <1>4, <1>5 DEF IInv, NextStepWithinWait

\* the step that a fader moves comes nearer with it
LEMMA BpmKeeps ==
    ASSUME IInv, BpmMoved
    PROVE  /\ IInv'
           /\ programma_spb # 0 => programma_wait' >= 1
<1>1. PICK level \in BpmLevels : Bpm(level)
    BY DEF BpmMoved
<1> DEFINE new_wait == Scaled(BpmWait(level))
<1>2. /\ programma_wait' = new_wait
      /\ next_in' = IF programma_wait > new_wait THEN next_in - (programma_wait - new_wait)
                    ELSE next_in
    BY <1>1 DEF Bpm
<1>3. UNCHANGED <<programma_spb, since, gaps, tapped, hasty, beating, ahead, crashed>>
    BY DEF BpmMoved, taps
<1>4. BpmWait(level) \in Nat /\ BpmWait(level) >= 333333
    BY BpmWaitType, TempoAssumption
<1>5. /\ new_wait \in Nat
      /\ programma_spb # 0 => new_wait >= 127
      /\ programma_spb = 0 => new_wait = 0
    <2> DEFINE beat == BpmWait(level)
    <2>1. beat \in Nat /\ beat >= 127 * 127
        BY <1>4
    <2>2. programma_spb \in -2 .. MaxStepsPerBeat
        BY DEF IInv, Numbers
    <2> HIDE DEF beat
    <2> QED
        BY <2>1, <2>2, ScaledType DEF beat
<1> HIDE DEF new_wait
<1>6. next_in \in Int /\ programma_wait \in Nat
    BY DEF IInv, Numbers
<1>7. Numbers'
    BY <1>2, <1>3, <1>5, <1>6 DEF IInv, Numbers
<1>8. Enough'
    BY <1>2, <1>3, <1>5 DEF IInv, Enough
<1>9. NextStepWithinWait'
    BY <1>2, <1>3, <1>5, <1>6 DEF IInv, NextStepWithinWait
<1> QED
    BY <1>2, <1>5, <1>7, <1>8, <1>9 DEF IInv

\* a step that is due now is within any wait
LEMMA DueNowKeeps ==
    ASSUME IInv, RunPressed \/ StepNow
    PROVE  IInv'
<1>1. /\ \/ next_in' = 0 /\ ahead' = FALSE
         \/ UNCHANGED <<next_in, ahead>>
      /\ UNCHANGED <<programma_wait, programma_spb, since, gaps, tapped, hasty, beating, crashed>>
    BY DEF RunPressed, StepNow, taps
<1>2. programma_wait \in Nat
    BY DEF IInv, Numbers
<1>3. Numbers'
    <2>1. next_in' \in Int
        BY <1>1 DEF IInv, Numbers
    <2> QED
        BY <1>1, <2>1 DEF IInv, Numbers
<1>5. Enough'
    BY <1>1 DEF IInv, Enough
<1>4. NextStepWithinWait'
    BY <1>1, <1>2 DEF IInv, NextStepWithinWait
<1> QED
    BY <1>3, <1>4, <1>5 DEF IInv

\* a tap only finds the beat
LEMMA TapKeeps ==
    ASSUME IInv, NEW t \in Tappers, Tap(t)
    PROVE  IInv'
<1>1. /\ since' = 0 /\ tapped' = [tapped EXCEPT ![t] = Beat(gaps')]
      /\ UNCHANGED <<next_in, programma_wait, programma_spb, beating, ahead, crashed>>
    BY DEF Tap
<1>2. gaps' \in [1 .. TAPSYNC_REMEMBER_TAPS -> Int]
    <2>1. PICK stray \in {gaps[TAPSYNC_REMEMBER_TAPS - 1], LongAgo} :
            gaps' = [i \in DOMAIN gaps |->
                IF i = 1 THEN since
                ELSE IF i = TAPSYNC_REMEMBER_TAPS THEN stray ELSE gaps[i - 1]]
        BY DEF Tap
    <2>2. /\ gaps \in [1 .. TAPSYNC_REMEMBER_TAPS -> Int] /\ since \in Int
          /\ TAPSYNC_REMEMBER_TAPS \in Nat /\ TAPSYNC_REMEMBER_TAPS >= 2 /\ LongAgo \in Int
        BY TempoAssumption DEF IInv, Numbers
    <2>3. stray \in Int
        <3>1. TAPSYNC_REMEMBER_TAPS - 1 \in 1 .. TAPSYNC_REMEMBER_TAPS
            BY <2>2
        <3> QED
            BY <2>2, <3>1
    <2> QED
        BY <2>1, <2>2, <2>3
<1> DEFINE beat == Beat(gaps')
<1>3. beat \in Nat
    BY <1>2, BeatType
<1>4. tapped' = [tapped EXCEPT ![t] = beat]
    BY <1>1
<1>8. ~hasty' => ~hasty /\ beat \notin 1 .. 127 * 127 - 1
    <2>1. hasty' = (hasty \/ beat \in 1 .. 127 * 127 - 1)
        BY Zenon DEF Tap, MaxStepsPerBeat
    <2> HIDE DEF beat
    <2> QED
        BY <2>1, Zenon
<1> HIDE DEF beat
<1>5. Numbers'
    <2>1. since' \in Int /\ tapped' \in [Tappers -> Nat]
        BY <1>1, <1>3, <1>4 DEF IInv, Numbers
    <2> QED
        BY <1>1, <1>2, <2>1 DEF IInv, Numbers
<1>6. Enough'
    <2> SUFFICES ASSUME ~hasty'
                 PROVE  /\ \A u \in Tappers : tapped'[u] = 0 \/ tapped'[u] >= 127 * 127
                        /\ beating' => programma_wait' = 0 \/ programma_wait' >= 127
        BY DEF Enough
    <2>1. ~hasty /\ (beat = 0 \/ beat >= 127 * 127)
        <3>1. ~hasty /\ beat \notin 1 .. 127 * 127 - 1
            BY <1>8
        <3> QED
            BY <1>3, <3>1
    <2>2. /\ \A u \in Tappers : tapped[u] = 0 \/ tapped[u] >= 127 * 127
          /\ beating => programma_wait = 0 \/ programma_wait >= 127
        BY <2>1 DEF IInv, Enough
    <2>3. tapped \in [Tappers -> Nat]
        BY DEF IInv, Numbers
    <2>4. ASSUME NEW u \in Tappers PROVE tapped'[u] = 0 \/ tapped'[u] >= 127 * 127
        BY <1>4, <2>1, <2>2, <2>3
    <2> QED
        BY <1>1, <2>2, <2>4
<1>7. NextStepWithinWait'
    BY <1>1 DEF IInv, NextStepWithinWait
<1> QED
    BY <1>5, <1>6, <1>7 DEF IInv

\* the beat is set: the step is due a wait after the tap, or was due with it
LEMMA SetBeatKeeps ==
    ASSUME IInv, NEW t \in Tappers, SetBeat(t)
    PROVE  /\ IInv'
           /\ programma_spb # 0 /\ ~hasty => programma_wait' >= 1
<1> DEFINE diff == Scaled(tapped[t])
           late == next_in + since > programma_wait \div 2
<1>1. /\ tapped[t] # 0 /\ next_in' = Due(diff) /\ programma_wait' = diff
      /\ tapped' = [tapped EXCEPT ![t] = 0] /\ ahead' = (since < 0)
      /\ crashed' = (late /\ diff <= 0)
      /\ UNCHANGED <<programma_spb, since, gaps, hasty, beating>>
    BY DEF SetBeat
<1>2. /\ tapped[t] \in Nat /\ since \in Int /\ next_in \in Int
      /\ programma_spb \in -2 .. MaxStepsPerBeat
    BY DEF IInv, Numbers
<1>3. /\ diff \in Nat
      /\ programma_spb # 0 /\ tapped[t] >= 127 * 127 => diff >= 127
      /\ programma_spb = 0 => diff = 0
    BY <1>2, ScaledType
<1>4. next_in' = IF late THEN diff - since ELSE -since
    BY <1>1 DEF Due
<1> HIDE DEF diff, late
<1>5. Numbers'
    <2>1. /\ next_in' \in Int /\ programma_wait' \in Nat /\ tapped' \in [Tappers -> Nat]
        <3>1. tapped' \in [Tappers -> Nat]
            BY <1>1 DEF IInv, Numbers
        <3> QED
            BY <1>1, <1>2, <1>3, <1>4, <3>1
    <2> QED
        BY <1>1, <2>1 DEF IInv, Numbers
<1>6. ~hasty => diff = 0 \/ diff >= 127
    BY <1>1, <1>3 DEF IInv, Enough
<1>7. Enough'
    <2> SUFFICES ASSUME ~hasty'
                 PROVE  /\ \A u \in Tappers : tapped'[u] = 0 \/ tapped'[u] >= 127 * 127
                        /\ beating' => programma_wait' = 0 \/ programma_wait' >= 127
        BY DEF Enough
    <2>1. \A u \in Tappers : tapped[u] = 0 \/ tapped[u] >= 127 * 127
        BY <1>1 DEF IInv, Enough
    <2> QED
        BY <1>1, <1>6, <2>1 DEF IInv, Numbers
<1>8. ahead' \/ next_in' <= programma_wait'
    <2>1. CASE since < 0
        BY <1>1, <2>1, Zenon
    <2>2. CASE ~(since < 0)
        BY <1>1, <1>2, <1>3, <1>4, <2>2
    <2> QED
        BY <2>1, <2>2
<1>9. programma_spb # 0 /\ ~hasty => diff >= 1
    BY <1>1, <1>3 DEF IInv, Enough
<1> QED
    BY <1>1, <1>5, <1>7, <1>8, <1>9 DEF IInv, NextStepWithinWait

\* 'B' leaves the next step where it is
LEMMA WaitSetKeeps ==
    ASSUME IInv, SetWait \/ ScaleWait
    PROVE  /\ IInv'
           /\ programma_spb # 0 /\ ~hasty /\ programma_wait > 0 => programma_wait' >= 1
<1>1. UNCHANGED <<next_in, programma_spb, since, gaps, tapped, hasty>>
    BY DEF SetWait, ScaleWait, taps
<1>2. /\ programma_wait \in Nat /\ programma_spb \in -2 .. MaxStepsPerBeat
    BY DEF IInv, Numbers
<1>3. CASE SetWait
    <2>1. PICK bpm \in BeatsPerMinute :
            \/ /\ bpm = 0 /\ crashed' = TRUE
               /\ UNCHANGED <<programma_wait, beating, ahead>>
            \/ /\ bpm > 0 /\ programma_wait' = 60000000 \div bpm
               /\ beating' = TRUE /\ ahead' = TRUE /\ UNCHANGED crashed
        BY <1>3 DEF SetWait
    <2>2. bpm \in 0 .. 255
        BY TempoAssumption
    <2>3. CASE bpm = 0
        <3>1. UNCHANGED <<programma_wait, beating, ahead>>
            BY <1>2, <2>1, <2>3
        <3>2. Numbers' /\ Enough' /\ NextStepWithinWait'
            BY <1>1, <3>1 DEF IInv, Numbers, Enough, NextStepWithinWait
        <3> QED
            BY <1>2, <3>1, <3>2 DEF IInv
    <2>4. CASE bpm # 0
        <3>1. /\ programma_wait' = 60000000 \div bpm /\ beating' = TRUE /\ ahead' = TRUE
              /\ crashed' = crashed
            BY <2>1, <2>4
        <3>2. programma_wait' \in Nat /\ programma_wait' >= 127
            BY <2>2, <2>4, <3>1
        <3>3. Numbers' /\ Enough' /\ NextStepWithinWait'
            BY <1>1, <3>1, <3>2 DEF IInv, Numbers, Enough, NextStepWithinWait
        <3> QED
            BY <3>2, <3>3 DEF IInv
    <2> QED
        BY <2>3, <2>4
<1>4. CASE ScaleWait
    <2>1. /\ beating /\ programma_wait' = Scaled(programma_wait) /\ beating' = FALSE
          /\ ahead' = TRUE /\ crashed' = crashed
        BY <1>4 DEF ScaleWait
    <2>2. /\ Scaled(programma_wait) \in Nat
          /\ programma_spb # 0 /\ programma_wait >= 127 => Scaled(programma_wait) >= 1
        BY <1>2, ScaledType
    <2>3. Numbers' /\ Enough' /\ NextStepWithinWait'
        BY <1>1, <2>1, <2>2 DEF IInv, Numbers, Enough, NextStepWithinWait
    <2>4. ~hasty => programma_wait = 0 \/ programma_wait >= 127
        BY <2>1 DEF IInv, Enough
    <2> QED
        BY <1>2, <2>1, <2>2, <2>3, <2>4 DEF IInv
<1> QED
    BY <1>3, <1>4

\* an active program changes how much the next beat is scaled
LEMMA ActivateKeeps ==
    ASSUME IInv, Activate
    PROVE  IInv'
<1>1. PICK spb \in Sheets : programma_spb' = Decoded(Encoded(spb))
    BY DEF Activate
<1>2. UNCHANGED <<next_in, programma_wait, since, gaps, tapped, hasty, beating, ahead, crashed>>
    BY DEF Activate, taps
<1>3. Encoded(spb) \in 0 .. 255
    BY TempoAssumption DEF Encoded
<1>4. programma_spb' \in -2 .. MaxStepsPerBeat
    BY <1>1, <1>3 DEF Decoded, MaxStepsPerBeat
<1>5. Numbers' /\ Enough' /\ NextStepWithinWait'
    BY <1>2, <1>4 DEF IInv, Numbers, Enough, NextStepWithinWait, MaxStepsPerBeat
<1> QED
    BY <1>5 DEF IInv

\* no step breaks the invariant, and how the wait can vanish
LEMMA NextIInv ==
    ASSUME IInv, [Next]_vars
    PROVE  /\ IInv'
           /\ programma_wait' <= 0 => programma_wait <= 0 \/ programma_spb = 0 \/ hasty
<1>1. programma_wait \in Nat
    BY DEF IInv, Numbers
<1>2. CASE TimePasses \/ ClockSet
    <2>1. programma_wait' = programma_wait
        BY <1>2 DEF TimePasses, ClockSet, Passes
    <2> QED
        BY <1>2, <2>1, TimeKeeps
<1>3. CASE StepOver
    <2>1. programma_wait' = programma_wait
        BY <1>3 DEF StepOver
    <2> QED
        BY <1>3, <2>1, StepOverKeeps
<1>4. CASE BpmMoved
    <2>1. programma_wait' \in Int
        BY <1>4, BpmKeeps DEF IInv, Numbers
    <2> QED
        BY <1>4, <2>1, BpmKeeps
<1>5. CASE RunPressed \/ StepNow
    <2>1. programma_wait' = programma_wait
        BY <1>5 DEF RunPressed, StepNow
    <2> QED
        BY <1>5, <2>1, DueNowKeeps
<1>6. ASSUME NEW t \in Tappers, Tap(t)
      PROVE  IInv' /\ programma_wait' = programma_wait
    BY <1>6, TapKeeps DEF Tap
<1>7. ASSUME NEW t \in Tappers, SetBeat(t)
      PROVE  /\ IInv'
             /\ programma_wait' <= 0 => programma_wait <= 0 \/ programma_spb = 0 \/ hasty
    <2>1. IInv' /\ (programma_spb # 0 /\ ~hasty => programma_wait' >= 1)
        BY <1>7, SetBeatKeeps
    <2>2. programma_wait' \in Int
        BY <2>1 DEF IInv, Numbers
    <2> QED
        BY <2>1, <2>2
<1>8. CASE SetWait \/ ScaleWait
    <2>1. /\ IInv'
          /\ programma_spb # 0 /\ ~hasty /\ programma_wait > 0 => programma_wait' >= 1
        BY <1>8, WaitSetKeeps
    <2>2. programma_wait' \in Int
        BY <2>1 DEF IInv, Numbers
    <2> QED
        BY <1>1, <2>1, <2>2
<1>9. CASE Activate
    <2>1. programma_wait' = programma_wait
        BY <1>9 DEF Activate
    <2> QED
        BY <1>9, <2>1, ActivateKeeps
<1>10. CASE UNCHANGED vars
    BY <1>10 DEF vars, taps, IInv, Numbers, Enough, NextStepWithinWait
<1> QED
    BY <1>2, <1>3, <1>4, <1>5, <1>6, <1>7, <1>8, <1>9, <1>10 DEF Next

\* the invariant holds in every reachable state
LEMMA Invariance == Spec => []IInv
<1>1. IInv /\ [Next]_vars => IInv'
    BY NextIInv
<1> QED
    BY <1>1, InitIInv, PTL DEF Spec

-----------------------------------------------------------------------------
\* The stage waits no longer for a step than a step takes, whatever changes the
\* tempo but 'B' and a clock that is set back.
THEOREM NextStepHolds == Spec => []NextStepWithinWait
<1>1. IInv => NextStepWithinWait
    BY DEF IInv
<1> QED
    BY <1>1, Invariance, PTL

\* The wait that increment_timespec is given vanishes only because the program has
\* no steps per beat or somebody taps too fast, whatever comes between the steps.
THEOREM WaitHolds == Spec => WaitVanishes
<1>1. IInv /\ [Next]_vars
        => [programma_wait' <= 0 => programma_wait <= 0 \/ programma_spb = 0 \/ hasty]_vars
    BY NextIInv
<1> QED
    BY <1>1, Invariance, PTL DEF Spec, WaitVanishes

=============================================================================
