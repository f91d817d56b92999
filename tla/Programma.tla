------------------------------ MODULE Programma ------------------------------
(***************************************************************************)
(* The upload of a program: PN allocates a new one, PS fills in its steps  *)
(* and PA makes it the running one, in the network thread, while           *)
(* prog_runner reads rows of the running one.  Memory is modelled by the   *)
(* blocks that are allocated; a bad use of it ends the behaviour with a    *)
(* fault, as it may end the program.                                       *)
(*                                                                         *)
(* Steps per beat are in Tempo, what a row looks like on stage in Desk.    *)
(***************************************************************************)
EXTENDS Integers

CONSTANTS
    Blocks,         \* places that calloc can return
    NULL,
    Sizes,          \* <<steps, channels>> of the programs that are announced
    StepNumbers,    \* that PS names
    Rows,           \* what a step can be; Zero is what calloc leaves
    Zero

ASSUME ProgrammaAssumption ==
    /\ Sizes \subseteq Nat \X Nat
    /\ StepNumbers \subseteq Nat
    /\ NULL \notin Blocks
    /\ Zero \in Rows

VARIABLES
    new_programma, new_programma_steps, new_programma_channels,
    programma, programma_steps, programma_channels,
    heap,       \* the blocks that are allocated, and what they hold
    starved,    \* calloc has failed
    stepmtx,    \* held by prog_runner, which sleeps otherwise
    step,       \* where prog_runner is in the program
    pc,         \* of the network thread
    fault

next_program == <<new_programma, new_programma_steps, new_programma_channels>>
program == <<programma, programma_steps, programma_channels>>
vars == <<next_program, program, heap, starved, stepmtx, step, pc, fault>>

Steps == {size[1] : size \in Sizes}
Widths == {size[2] : size \in Sizes}
Contents(steps, channels) == [channels : {channels}, rows : [0 .. steps - 1 -> Rows]]
Allocated == DOMAIN heap

TypeOK ==
    /\ new_programma \in Blocks \cup {NULL} /\ programma \in Blocks \cup {NULL}
    /\ new_programma_steps \in Steps \cup {-1, 0}
    /\ new_programma_channels \in Widths \cup {-1, 0}
    /\ programma_steps \in Steps \cup {1} /\ programma_channels \in Widths \cup {0}
    /\ Allocated \subseteq Blocks
    /\ \A b \in Allocated : \E size \in Sizes : heap[b] \in Contents(size[1], size[2])
    /\ starved \in BOOLEAN /\ stepmtx \in BOOLEAN
    /\ step \in Nat
    /\ pc \in {"idle", "activate"}
    /\ fault \in {"none", "double free", "wild store", "freed row", "no row", "wild row"}

\* the globals as they are initialised, without a program
Init ==
    /\ new_programma = NULL /\ new_programma_steps = 0 /\ new_programma_channels = 0
    /\ programma = NULL /\ programma_steps = 1 /\ programma_channels = 0
    /\ heap = [b \in {} |-> Zero]
    /\ starved = FALSE /\ stepmtx = FALSE
    /\ step = 0
    /\ pc = "idle"
    /\ fault = "none"

Running == fault = "none"

-----------------------------------------------------------------------------
(* handle_data, 'P': the network thread.                                   *)

Freed(b) == [a \in Allocated \ {b} |-> heap[a]]

\* (seeded error) PN's two numbers are taken the other way round
Announce_Swapped(channels, steps, kept) ==
    /\ new_programma_steps' = steps
    /\ new_programma_channels' = channels
    /\ steps >= 1
    /\ \E b \in Blocks \ DOMAIN kept :
        /\ new_programma' = b
        /\ heap' = [a \in DOMAIN kept \cup {b} |->
            IF a = b THEN [channels |-> channels, rows |-> [s \in 0 .. steps - 1 |-> Zero]]
            ELSE kept[a]]
    /\ UNCHANGED starved

\* PN after the free: a program without steps is refused, but only then
Announce(steps, channels, kept) ==
    /\ new_programma_steps' = steps
    /\ new_programma_channels' = channels
    /\ \/ /\ steps < 1
          /\ heap' = kept
          /\ UNCHANGED <<new_programma, starved>>
       \/ /\ steps >= 1
          /\ \E b \in Blocks \ DOMAIN kept :
                /\ new_programma' = b
                /\ heap' = [a \in DOMAIN kept \cup {b} |->
                    IF a = b THEN [channels |-> channels, rows |-> [s \in 0 .. steps - 1 |-> Zero]]
                    ELSE kept[a]]
          /\ UNCHANGED starved
       \/ /\ steps >= 1     \* no memory
          /\ new_programma' = NULL
          /\ heap' = kept
          /\ starved' = TRUE

\* (seeded error) the old new program is not freed
New_Leaks(steps, channels) ==
    /\ Running /\ pc = "idle"
    /\ Announce(steps, channels, heap)
    /\ UNCHANGED fault
    /\ UNCHANGED <<program, stepmtx, step, pc>>

New(steps, channels) ==
    /\ Running /\ pc = "idle"
    /\ \/ /\ new_programma \in Allocated \cup {NULL}
          /\ Announce(steps, channels, Freed(new_programma))
          /\ UNCHANGED fault
       \/ /\ new_programma \notin Allocated \cup {NULL}
          /\ fault' = "double free"
          /\ UNCHANGED <<next_program, heap, starved>>
    /\ UNCHANGED <<program, stepmtx, step, pc>>

\* (seeded error) a step as great as the number of steps is stored too
InProgram_OffByOne(s) == s <= new_programma_steps

InProgram(s) == s < new_programma_steps

Step(s, row) ==
    /\ Running /\ pc = "idle"
    /\ new_programma # NULL /\ InProgram(s)
    /\ IF new_programma \in Allocated /\ s \in DOMAIN heap[new_programma].rows
       THEN /\ heap' = [heap EXCEPT ![new_programma].rows[s] = row]
            /\ UNCHANGED fault
       ELSE /\ fault' = "wild store"
            /\ UNCHANGED heap
    /\ UNCHANGED <<next_program, program, starved, stepmtx, step, pc>>

\* PA frees the running program before it waits for stepmtx
Activate ==
    /\ Running /\ pc = "idle"
    /\ new_programma_steps >= 1
    /\ heap' = Freed(programma)
    /\ pc' = "activate"
    /\ UNCHANGED <<next_program, program, starved, stepmtx, step, fault>>

\* (seeded error) the pointer is kept when its program becomes the running one
Swap_KeepsPointer ==
    /\ Running /\ pc = "activate" /\ ~stepmtx
    /\ programma' = new_programma
    /\ programma_steps' = new_programma_steps
    /\ programma_channels' = new_programma_channels
    /\ UNCHANGED next_program
    /\ pc' = "idle"
    /\ UNCHANGED <<heap, starved, stepmtx, step, fault>>

Swap ==
    /\ Running /\ pc = "activate" /\ ~stepmtx
    /\ programma' = new_programma
    /\ programma_steps' = new_programma_steps
    /\ programma_channels' = new_programma_channels
    /\ new_programma' = NULL
    /\ new_programma_steps' = -1
    /\ new_programma_channels' = -1
    /\ pc' = "idle"
    /\ UNCHANGED <<heap, starved, stepmtx, step, fault>>

-----------------------------------------------------------------------------
(* prog_runner.                                                            *)

\* pthread_cond_timedwait returns, at the end of the step or by a signal
Wake ==
    /\ Running /\ ~stepmtx
    /\ stepmtx' = TRUE
    /\ \E s \in {step, step + 1} : step' = IF s < programma_steps THEN s ELSE 0
    /\ UNCHANGED <<next_program, program, heap, starved, pc, fault>>

\* a row is read unless all channels are beyond programma_channels
ReadRow ==
    IF programma_channels = 0 THEN "none"
    ELSE IF programma = NULL THEN "no row"
    ELSE IF programma \notin Allocated THEN "freed row"
    ELSE IF /\ step \in DOMAIN heap[programma].rows
            /\ heap[programma].channels = programma_channels THEN "none"
    ELSE "wild row"

Render ==
    /\ Running /\ stepmtx
    /\ fault' = ReadRow
    /\ stepmtx' = FALSE
    /\ UNCHANGED <<next_program, program, heap, starved, step, pc>>

Next ==
    \/ \E size \in Sizes : New(size[1], size[2])
    \/ \E s \in StepNumbers, row \in Rows : Step(s, row)
    \/ Activate
    \/ Swap
    \/ Wake
    \/ Render

Spec == Init /\ [][Next]_vars

-----------------------------------------------------------------------------
(* What must hold.                                                         *)

Valid(p) == p \in Allocated \cup {NULL}

\* Every block belongs to one of the two programs and to one only: nothing
\* leaks, and an upload never writes into the program that runs.  The new
\* program's pointer dangles only after a PN without steps, the running one's
\* only while PA waits for stepmtx.
BlocksOwned ==
    /\ Allocated \subseteq {programma, new_programma}
    /\ programma = new_programma => programma = NULL
    /\ Valid(new_programma) \/ new_programma_steps < 1
    /\ Valid(programma) \/ pc = "activate"

\* Memory is used badly in three ways and no others: a PN that follows a PN
\* without steps frees twice, a row is read while PA waits for stepmtx, and
\* calloc's failure goes unnoticed.  No store of a step misses its block.
FaultsKnown ==
    \/ fault = "none"
    \/ fault = "double free" /\ new_programma_steps < 1
    \/ fault = "freed row" /\ pc = "activate"
    \/ fault = "no row" /\ starved

\* While a program runs its steps stay what they were when it was activated.
RunningProgramKept ==
    [][programma' = programma /\ programma \in DOMAIN heap \cap DOMAIN heap'
            => heap'[programma] = heap[programma]]_vars

=============================================================================
