--------------------------- MODULE ProgrammaProofs ---------------------------
(***************************************************************************)
(* Proofs about Programma: every block has one owner, memory is misused in *)
(* the three known ways only, and a running program does not change, for   *)
(* programs of every size and any number of uploads.                       *)
(***************************************************************************)
EXTENDS Programma, TLAPS

\* a program that is allocated has the size that goes with its pointer
Fits(p, steps, channels) ==
    p \in Allocated =>
        /\ steps >= 1
        /\ heap[p] \in Contents(steps, channels)

\* What a program without a block comes from, and where prog_runner reads.
Sizes_OK ==
    /\ Fits(new_programma, new_programma_steps, new_programma_channels)
    /\ Fits(programma, programma_steps, programma_channels)
    /\ new_programma = NULL /\ new_programma_steps >= 1 => starved
    /\ programma = NULL /\ programma_channels # 0 => starved
    /\ new_programma_steps >= 1 => new_programma_channels # -1
    /\ programma_steps >= 1
    /\ stepmtx => step < programma_steps
    /\ pc = "activate" => new_programma_steps >= 1 /\ programma \notin Allocated

IInv == TypeOK /\ BlocksOwned /\ FaultsKnown /\ Sizes_OK

-----------------------------------------------------------------------------
(* Blocks.                                                                 *)

\* freeing a block leaves the others as they are
LEMMA FreedKeeps ==
    ASSUME NEW b
    PROVE  /\ DOMAIN Freed(b) = Allocated \ {b}
           /\ \A a \in Allocated \ {b} : Freed(b)[a] = heap[a]
BY DEF Freed, Allocated

\* a size that is announced is made of a number of steps and a width
LEMMA SizeOK ==
    ASSUME NEW size \in Sizes
    PROVE  /\ size[1] \in Nat /\ size[2] \in Nat
           /\ size[1] \in Steps /\ size[2] \in Widths
BY ProgrammaAssumption DEF Steps, Widths

\* the numbers of both programs are numbers
LEMMA Numbers ==
    ASSUME TypeOK
    PROVE  /\ new_programma_steps \in Int /\ new_programma_channels \in Int
           /\ programma_steps \in Nat /\ programma_channels \in Nat
           /\ step \in Nat
<1>1. Steps \subseteq Nat /\ Widths \subseteq Nat
    BY ProgrammaAssumption DEF Steps, Widths
<1>2. -1 \in Int
    OBVIOUS
<1>3. new_programma_steps \in Steps \cup {-1, 0} /\ programma_steps \in Steps \cup {1}
    BY DEF TypeOK
<1>4. new_programma_channels \in Widths \cup {-1, 0} /\ programma_channels \in Widths \cup {0}
    BY DEF TypeOK
<1>5. step \in Nat
    BY DEF TypeOK
<1> QED
    BY <1>1, <1>2, <1>3, <1>4, <1>5

\* what calloc leaves is a program of that size
LEMMA ZeroesOK ==
    ASSUME NEW steps, NEW channels
    PROVE  [channels |-> channels, rows |-> [s \in 0 .. steps - 1 |-> Zero]]
                \in Contents(steps, channels)
BY ProgrammaAssumption DEF Contents

THEOREM InitIInv == Init => IInv
<1> SUFFICES ASSUME Init PROVE IInv
    OBVIOUS
<1>1. Allocated = {}
    BY DEF Init, Allocated
<1>2. TypeOK
    BY <1>1 DEF Init, TypeOK
<1> QED
    BY <1>1, <1>2 DEF Init, IInv, BlocksOwned, FaultsKnown, Sizes_OK, Fits, Valid

-----------------------------------------------------------------------------
(* The steps.                                                              *)

\* only the fault changes
LEMMA FaultKeeps ==
    ASSUME IInv, FaultsKnown',
           UNCHANGED <<next_program, program, heap, starved, stepmtx, step, pc>>
    PROVE  IInv'
<1>1. Allocated' = Allocated
    BY DEF Allocated
<1>2. \A b \in Allocated' : \E size \in Sizes : heap'[b] \in Contents(size[1], size[2])
    BY <1>1 DEF IInv, TypeOK
<1>3. fault' \in {"none", "double free", "wild store", "freed row", "no row", "wild row"}
    BY DEF FaultsKnown
<1>4. starved' \in BOOLEAN /\ stepmtx' \in BOOLEAN
    BY DEF IInv, TypeOK
<1>5. TypeOK'
    BY <1>1, <1>2, <1>3, <1>4 DEF IInv, TypeOK, next_program, program
<1>6. BlocksOwned'
    BY <1>1 DEF IInv, BlocksOwned, Valid, next_program, program
<1>7. Sizes_OK'
    BY <1>1 DEF IInv, Sizes_OK, Fits, next_program, program
<1> QED
    BY <1>5, <1>6, <1>7 DEF IInv

\* PN
LEMMA NewKeeps ==
    ASSUME IInv, NEW size \in Sizes, New(size[1], size[2])
    PROVE  IInv'
<1> DEFINE steps == size[1]
           channels == size[2]
           zeroes == [channels |-> channels, rows |-> [s \in 0 .. steps - 1 |-> Zero]]
<1>1. /\ steps \in Nat /\ channels \in Nat
      /\ steps \in Steps /\ channels \in Widths
      /\ zeroes \in Contents(steps, channels)
    BY SizeOK, ZeroesOK
<1>2. CASE new_programma \in Allocated \cup {NULL}
    <2> DEFINE kept == Freed(new_programma)
    <2>1. /\ Announce(steps, channels, kept)
          /\ UNCHANGED <<program, stepmtx, step, pc, fault>>
          /\ pc = "idle" /\ fault = "none"
        BY <1>2 DEF New, Running
    <2>2. /\ DOMAIN kept = Allocated \ {new_programma}
          /\ \A a \in DOMAIN kept : kept[a] = heap[a]
        BY FreedKeeps
    <2>3. DOMAIN kept \subseteq {programma} /\ new_programma \notin DOMAIN kept
        BY <2>2 DEF IInv, BlocksOwned
    <2>4. CASE steps < 1 /\ heap' = kept /\ UNCHANGED <<new_programma, starved>>
        <3>0. /\ new_programma_steps' = steps /\ new_programma_channels' = channels
            BY <2>1 DEF Announce
        <3>1. Allocated' = DOMAIN kept
            BY <2>4 DEF Allocated
        <3>2. TypeOK'
            BY <1>1, <2>1, <2>2, <2>4, <3>0, <3>1 DEF IInv, TypeOK, program
        <3>3. BlocksOwned'
            BY <1>1, <2>1, <2>2, <2>3, <2>4, <3>0, <3>1 DEF IInv, BlocksOwned, Valid, program
        <3>4. Sizes_OK'
            BY <1>1, <2>1, <2>2, <2>3, <2>4, <3>0, <3>1 DEF IInv, Sizes_OK, Fits, program
        <3> QED
            BY <2>1, <3>2, <3>3, <3>4 DEF IInv, FaultsKnown
    <2>5. ASSUME steps >= 1, NEW b \in Blocks \ DOMAIN kept, new_programma' = b,
                 heap' = [a \in DOMAIN kept \cup {b} |-> IF a = b THEN zeroes ELSE kept[a]],
                 UNCHANGED starved
          PROVE  IInv'
        <3>0. /\ new_programma_steps' = steps /\ new_programma_channels' = channels
            BY <2>1 DEF Announce
        <3>1. /\ Allocated' = DOMAIN kept \cup {b}
              /\ heap'[b] = zeroes
              /\ \A a \in DOMAIN kept : heap'[a] = heap[a]
            BY <2>2, <2>5 DEF Allocated
        <3>2. TypeOK'
            BY <1>1, <2>1, <2>2, <2>5, <3>0, <3>1 DEF IInv, TypeOK, program
        <3>3. BlocksOwned'
            BY <1>1, <2>1, <2>2, <2>3, <2>5, <3>0, <3>1, ProgrammaAssumption
            DEF IInv, BlocksOwned, Valid, program, Sizes_OK
        <3>4. Sizes_OK'
            BY <1>1, <2>1, <2>2, <2>3, <2>5, <3>0, <3>1, <3>3, ProgrammaAssumption
            DEF IInv, Sizes_OK, Fits, program, BlocksOwned
        <3> QED
            BY <2>1, <3>2, <3>3, <3>4 DEF IInv, FaultsKnown
    <2>6. CASE steps >= 1 /\ new_programma' = NULL /\ heap' = kept /\ starved' = TRUE
        <3>0. /\ new_programma_steps' = steps /\ new_programma_channels' = channels
            BY <2>1 DEF Announce
        <3>1. Allocated' = DOMAIN kept
            BY <2>6 DEF Allocated
        <3>2. TypeOK'
            BY <1>1, <2>1, <2>2, <2>6, <3>0, <3>1 DEF IInv, TypeOK, program
        <3>3. BlocksOwned'
            BY <1>1, <2>1, <2>2, <2>3, <2>6, <3>0, <3>1 DEF IInv, BlocksOwned, Valid, program
        <3>4. Sizes_OK'
            BY <1>1, <2>1, <2>2, <2>3, <2>6, <3>0, <3>1, ProgrammaAssumption
            DEF IInv, Sizes_OK, Fits, program, TypeOK
        <3> QED
            BY <2>1, <3>2, <3>3, <3>4 DEF IInv, FaultsKnown
    <2> QED
        BY <2>1, <2>4, <2>5, <2>6 DEF Announce
<1>3. CASE new_programma \notin Allocated \cup {NULL}
    <2>1. /\ fault' = "double free"
          /\ UNCHANGED <<next_program, heap, starved, program, stepmtx, step, pc>>
        BY <1>3 DEF New
    <2>2. new_programma_steps < 1
        BY <1>3 DEF IInv, BlocksOwned, Valid
    <2>3. FaultsKnown'
        BY <2>1, <2>2 DEF FaultsKnown, next_program
    <2> QED
        BY <2>1, <2>3, FaultKeeps
<1> QED
    BY <1>2, <1>3

\* a step is stored in a block that is there, and is the new program's
LEMMA StepKeeps ==
    ASSUME IInv, NEW s \in StepNumbers, NEW row \in Rows, Step(s, row)
    PROVE  IInv'
<1> DEFINE p == new_programma
<1>1. s \in Nat /\ s < new_programma_steps /\ p # NULL
    BY ProgrammaAssumption DEF Step, InProgram
<1>2. p \in Allocated
    BY <1>1, Numbers DEF IInv, BlocksOwned, Valid
<1>3. /\ new_programma_steps >= 1
      /\ heap[p] \in Contents(new_programma_steps, new_programma_channels)
    BY <1>2 DEF IInv, Sizes_OK, Fits
<1>4. s \in DOMAIN heap[p].rows
    <2>1. new_programma_steps \in Int
        BY Numbers DEF IInv
    <2>2. DOMAIN heap[p].rows = 0 .. new_programma_steps - 1
        BY <1>3 DEF Contents
    <2> QED
        BY <1>1, <2>1, <2>2
<1>5. heap' = [heap EXCEPT ![p].rows[s] = row] /\ UNCHANGED fault
    BY <1>2, <1>4 DEF Step
<1>6. Allocated' = Allocated /\ \A a \in Allocated \ {p} : heap'[a] = heap[a]
    BY <1>5 DEF Allocated
<1>7. heap'[p] = [heap[p] EXCEPT !.rows = [heap[p].rows EXCEPT ![s] = row]]
    BY <1>2, <1>5 DEF Allocated
<1>8. \A steps, channels :
        heap[p] \in Contents(steps, channels) => heap'[p] \in Contents(steps, channels)
    BY <1>7 DEF Contents
<1> UNCHANGED <<next_program, program, starved, stepmtx, step, pc>>
    BY DEF Step
<1>9. TypeOK'
    <2>1. ASSUME NEW b \in Allocated'
          PROVE  \E size \in Sizes : heap'[b] \in Contents(size[1], size[2])
        <3>1. PICK size \in Sizes : heap[b] \in Contents(size[1], size[2])
            BY <1>6, <2>1 DEF IInv, TypeOK
        <3>2. heap'[b] \in Contents(size[1], size[2])
            BY <1>6, <1>8, <2>1, <3>1
        <3> QED
            BY <3>2
    <2>2. Allocated' \subseteq Blocks
        BY <1>6 DEF IInv, TypeOK
    <2>3. UNCHANGED <<next_program, program, starved, stepmtx, step, pc, fault>>
        BY <1>5
    <2> QED
        BY <2>1, <2>2, <2>3 DEF IInv, TypeOK, next_program, program
<1>10. BlocksOwned'
    BY <1>6 DEF IInv, BlocksOwned, Valid, next_program, program
<1>11. Sizes_OK'
    BY <1>3, <1>6, <1>8 DEF IInv, Sizes_OK, Fits, next_program, program
<1> QED
    BY <1>5, <1>9, <1>10, <1>11 DEF IInv, FaultsKnown, next_program, program

LEMMA ActivateKeeps ==
    ASSUME IInv, Activate
    PROVE  IInv'
<1>1. DOMAIN Freed(programma) = Allocated \ {programma}
      /\ \A a \in Allocated \ {programma} : Freed(programma)[a] = heap[a]
    BY FreedKeeps
<1>2. Allocated' = Allocated \ {programma} /\ \A a \in Allocated' : heap'[a] = heap[a]
    BY <1>1 DEF Activate, Allocated
<1>3. TypeOK'
    <2>1. /\ Allocated' \subseteq Blocks
          /\ \A b \in Allocated' : \E size \in Sizes : heap'[b] \in Contents(size[1], size[2])
        BY <1>2 DEF IInv, TypeOK
    <2>2. pc' = "activate" /\ UNCHANGED <<next_program, program, starved, stepmtx, step, fault>>
        BY DEF Activate
    <2>3. starved' \in BOOLEAN /\ stepmtx' \in BOOLEAN
        BY Zenon, <2>2 DEF IInv, TypeOK
    <2>4. /\ new_programma' = new_programma /\ programma' = programma
          /\ new_programma_steps' = new_programma_steps
          /\ new_programma_channels' = new_programma_channels
          /\ programma_steps' = programma_steps /\ programma_channels' = programma_channels
          /\ step' = step /\ fault' = fault
        BY <2>2 DEF next_program, program
    <2> QED
        BY <2>1, <2>2, <2>3, <2>4 DEF IInv, TypeOK
<1>4. BlocksOwned'
    BY <1>2 DEF IInv, BlocksOwned, Valid, Activate, next_program, program, Sizes_OK, FaultsKnown, Running
<1>5. Sizes_OK'
    BY <1>2 DEF IInv, Sizes_OK, Fits, Activate, next_program, program
<1> QED
    BY <1>3, <1>4, <1>5 DEF IInv, FaultsKnown, Activate, Running

LEMMA SwapKeeps ==
    ASSUME IInv, Swap
    PROVE  IInv'
<1>1. Allocated' = Allocated
    BY DEF Swap, Allocated
<1>2. TypeOK'
    <2>1. new_programma_steps >= 1 /\ new_programma_channels # -1
        BY DEF IInv, Swap, Sizes_OK
    <2>2. new_programma_steps \in Steps \cup {-1, 0} /\ new_programma_channels \in Widths \cup {-1, 0}
        BY DEF IInv, TypeOK
    <2>3. new_programma_steps \in Steps /\ new_programma_channels \in Widths \cup {0}
        BY <2>1, <2>2
    <2> QED
        BY <1>1, <2>3 DEF IInv, TypeOK, Swap
<1>3. BlocksOwned'
    <2>1. Valid(new_programma) /\ new_programma_steps' < 1
        BY Numbers DEF IInv, BlocksOwned, Swap, Sizes_OK
    <2>2. Allocated \subseteq {new_programma}
        BY DEF IInv, BlocksOwned, Swap, Sizes_OK
    <2>3. NULL \notin Allocated
        BY ProgrammaAssumption DEF IInv, TypeOK
    <2> QED
        BY <1>1, <2>1, <2>2, <2>3 DEF BlocksOwned, Valid, Swap
<1>4. Sizes_OK'
    <2>1. /\ new_programma_steps >= 1 /\ NULL \notin Allocated
          /\ Fits(new_programma, new_programma_steps, new_programma_channels)
          /\ new_programma = NULL => starved
        BY ProgrammaAssumption DEF IInv, Sizes_OK, Swap, TypeOK
    <2>2. ~(-1 >= 1)
        OBVIOUS
    <2>3. /\ programma' = new_programma /\ programma_steps' = new_programma_steps
          /\ programma_channels' = new_programma_channels
          /\ new_programma' = NULL /\ new_programma_steps' = -1
          /\ UNCHANGED <<heap, starved>> /\ ~stepmtx' /\ pc' = "idle"
        BY DEF Swap
    <2> QED
        BY <1>1, <2>1, <2>2, <2>3 DEF Sizes_OK, Fits
<1> QED
    BY <1>2, <1>3, <1>4 DEF IInv, FaultsKnown, Swap, Running

LEMMA WakeKeeps ==
    ASSUME IInv, Wake
    PROVE  IInv'
<1>1. Allocated' = Allocated
    BY DEF Wake, Allocated
<1>2. step' \in Nat /\ step' < programma_steps
    BY Numbers DEF IInv, Sizes_OK, Wake
<1> QED
    BY <1>1, <1>2 DEF IInv, TypeOK, BlocksOwned, FaultsKnown, Sizes_OK, Fits, Valid, Wake,
        next_program, program, Running

\* a row that prog_runner reads is there, but for the known faults
LEMMA RenderKeeps ==
    ASSUME IInv, Render
    PROVE  IInv'
<1>1. Allocated' = Allocated
    BY DEF Render, Allocated
<1>2. ReadRow # "wild row"
    <2> SUFFICES ASSUME programma \in Allocated
                 PROVE  /\ step \in DOMAIN heap[programma].rows
                        /\ heap[programma].channels = programma_channels
        BY DEF ReadRow
    <2>1. heap[programma] \in Contents(programma_steps, programma_channels)
        BY DEF IInv, Sizes_OK, Fits
    <2>2. step \in Nat /\ step < programma_steps /\ programma_steps \in Nat
        BY Numbers DEF Render, IInv, Sizes_OK
    <2> QED
        BY <2>1, <2>2 DEF Contents
<1>3. /\ fault' \in {"none", "no row", "freed row"}
      /\ fault' = "no row" => programma = NULL /\ programma_channels # 0
      /\ fault' = "freed row" => programma \notin Allocated \cup {NULL}
    BY <1>2 DEF Render, ReadRow
<1> UNCHANGED <<next_program, program, heap, starved, step, pc>> /\ stepmtx' = FALSE
    BY DEF Render
<1>4. FaultsKnown'
    BY <1>3 DEF FaultsKnown, IInv, Sizes_OK, BlocksOwned, Valid, next_program, program
<1>5. TypeOK'
    BY <1>1, <1>3 DEF IInv, TypeOK, next_program, program
<1>6. BlocksOwned' /\ Sizes_OK'
    BY <1>1 DEF IInv, BlocksOwned, Valid, Sizes_OK, Fits, next_program, program
<1> QED
    BY <1>4, <1>5, <1>6 DEF IInv

\* the invariant is inductive
THEOREM NextIInv == IInv /\ [Next]_vars => IInv'
<1> SUFFICES ASSUME IInv, [Next]_vars PROVE IInv'
    OBVIOUS
<1>1. CASE UNCHANGED vars
    <2>1. UNCHANGED <<next_program, program, heap, starved, stepmtx, step, pc, fault>>
        BY <1>1 DEF vars
    <2>2. FaultsKnown'
        BY <2>1 DEF IInv, FaultsKnown, next_program, program
    <2> QED
        BY <2>1, <2>2, FaultKeeps
<1>2. CASE Next
    BY <1>2, NewKeeps, StepKeeps, ActivateKeeps, SwapKeeps, WakeKeeps, RenderKeeps DEF Next
<1> QED
    BY <1>1, <1>2

-----------------------------------------------------------------------------
(* The theorems.                                                           *)

\* every reachable state satisfies the inductive invariant
THEOREM Invariance == Spec => []IInv
BY InitIInv, NextIInv, PTL DEF Spec

\* the types of pointers, sizes and blocks, for programs of all sizes
THEOREM TypeCorrect == Spec => []TypeOK
BY Invariance, PTL DEF IInv

\* No upload leaks a block or lets the new program share the running one's,
\* whatever is uploaded in whatever order (PN, PS and PA of handle_data).
THEOREM EveryBlockOwned == Spec => []BlocksOwned
BY Invariance, PTL DEF IInv

\* Memory is misused in the three known ways only: no step is stored outside
\* its block and no row read outside, for programs of all sizes.
THEOREM OnlyKnownFaults == Spec => []FaultsKnown
BY Invariance, PTL DEF IInv

\* uploading does not change the steps of the program that runs
THEOREM UploadLeavesRunning == Spec => RunningProgramKept
<1> DEFINE Kept == programma' = programma /\ programma \in DOMAIN heap \cap DOMAIN heap'
                        => heap'[programma] = heap[programma]
<1>1. IInv /\ [Next]_vars => [Kept]_vars
    <2> SUFFICES ASSUME IInv, Next, programma' = programma,
                        programma \in DOMAIN heap \cap DOMAIN heap'
                 PROVE  heap'[programma] = heap[programma]
        OBVIOUS
    <2>1. programma # new_programma \/ programma = NULL
        BY DEF IInv, BlocksOwned
    <2>2. programma # NULL
        BY ProgrammaAssumption DEF IInv, TypeOK, Allocated
    <2>3. ASSUME NEW size \in Sizes, New(size[1], size[2])
          PROVE  heap'[programma] = heap[programma]
        <3>1. CASE heap' = heap
            BY <3>1
        <3> DEFINE kept == Freed(new_programma)
        <3>2. CASE Announce(size[1], size[2], kept)
            <4>1. programma \in DOMAIN kept /\ kept[programma] = heap[programma]
                BY <2>1, <2>2, FreedKeeps DEF Allocated
            <4> HIDE DEF kept
            <4> QED
                BY <3>2, <4>1 DEF Announce
        <3> QED
            BY <2>3, <3>1, <3>2 DEF New
    <2>4. ASSUME NEW s \in StepNumbers, NEW row \in Rows, Step(s, row)
          PROVE  heap'[programma] = heap[programma]
        BY <2>1, <2>2, <2>4 DEF Step
    <2>5. CASE Activate
        BY <2>5 DEF Activate, Freed, Allocated
    <2>6. CASE Swap \/ Wake \/ Render
        BY <2>6 DEF Swap, Wake, Render
    <2> QED
        BY <2>3, <2>4, <2>5, <2>6 DEF Next
<1> QED
    BY <1>1, Invariance, PTL DEF Spec, RunningProgramKept

=============================================================================
