---------------------------- MODULE WidgetProofs ----------------------------
(***************************************************************************)
(* Proofs about Widget, for any number of places at which malloc may put a *)
(* context.                                                                *)
(***************************************************************************)
EXTENDS Widget, FiniteSetTheorems, TLAPS

-----------------------------------------------------------------------------
(* The inductive invariant.                                                *)

Readers == {"midi"} \cup Contexts

PcOK == pc = [t \in Threads |-> pc[t]]

\* prog_runner has stepmtx unless it sleeps; who is in send_dmx has the other
Locks ==
    /\ stepmtx = "prog" <=> pc["prog"] # "wait"
    /\ \A t \in Threads :
        /\ dmxout_sendbuf_mtx = t <=> pc[t] \in {"test", "load", "send", "crashed"}
        /\ using[t] # None <=> pc[t] \in {"send", "crashed"}

\* Where the context is, as prog_runner goes through a reconnect: mk2c points
\* at a freed one from the teardown until the new one is published.
Place ==
    /\ pc["prog"] \in {"join", "clear", "flush", "load", "send"} => mk2c \in Contexts
    /\ pc["prog"] = "init" => live = {}
    /\ pc["prog"] = "publish" => fresh \in Contexts /\ live = {fresh}
    /\ pc["prog"] \notin {"init", "publish"} =>
        \/ mk2c = NULL /\ live = {} /\ mk2c_lost
        \/ mk2c \in Contexts /\ live = {mk2c}
    /\ pc["prog"] \in {"reconnect", "join", "init", "publish", "clear"} => mk2c_lost

\* only a live context has a reader
ReadersLive == \A c \in Contexts : pc[c] # "dead" => c \in live

\* a reader that failed before mk2c_lost is cleared has said so
EarlySaid ==
    /\ pc["prog"] = "publish" => (Failed(fresh) => early)
    /\ pc["prog"] = "clear" => (Failed(mk2c) => early)

IInv ==
    /\ TypeOK /\ PcOK /\ Locks /\ Place /\ ReadersLive /\ EarlySaid
    /\ BadOnlyDuringReconnect /\ FailureKept

\* the invariant holds when init_communications has connected the widget
THEOREM InitIInv == Init => IInv
<1> SUFFICES ASSUME Init PROVE IInv
    OBVIOUS
<1> USE WidgetAssumption
<1>1. /\ PcOK /\ mk2c \in Contexts /\ mk2c # "prog" /\ mk2c # "midi"
      /\ \A t \in Threads :
            pc[t] = IF t = "prog" THEN "wait" ELSE IF t \in {"midi", mk2c} THEN "idle" ELSE "dead"
    BY DEF Init, PcOK, Threads
<1>2. TypeOK
    BY <1>1 DEF Init, TypeOK, SenderLabels, Threads
<1>3. Locks /\ Place /\ ReadersLive /\ EarlySaid
    BY <1>1 DEF Init, Locks, Place, ReadersLive, EarlySaid, Threads
<1>4. BadOnlyDuringReconnect /\ FailureKept
    BY <1>1 DEF Init, BadOnlyDuringReconnect, FailureKept, Failed, Threads
<1> QED
    BY <1>1, <1>2, <1>3, <1>4 DEF IInv

-----------------------------------------------------------------------------
(* The steps.                                                              *)

\* threads are different from each other and from None
LEMMA ThreadsDiffer ==
    /\ "prog" \in Threads /\ "midi" \in Threads /\ Contexts \subseteq Threads
    /\ "prog" \notin Contexts /\ "midi" \notin Contexts /\ None \notin Threads
    /\ NULL \notin Contexts /\ NULL # None
BY WidgetAssumption DEF Threads

\* one thread goes on, the others stay where they are
LEMMA Going ==
    ASSUME PcOK, NEW t \in Threads, NEW label, Goto(t, label)
    PROVE  /\ PcOK'
           /\ pc'[t] = label
           /\ \A u \in Threads \ {t} : pc'[u] = pc[u]
BY DEF PcOK, Goto

\* a change arrives
LEMMA InputKeeps ==
    ASSUME IInv, NEW t \in Readers, Input(t)
    PROVE  IInv'
<1>0. PICK handler \in {"led", "raw", "flush"} : Goto(t, handler)
    BY DEF Input
<1> USE ThreadsDiffer DEF pointers, SenderLabels
<1>1. /\ PcOK' /\ pc'[t] = handler
      /\ \A u \in Threads \ {t} : pc'[u] = pc[u]
    BY <1>0, Going DEF Input, IInv, Returned, Readers
<1>2. TypeOK'
    BY <1>0, <1>1 DEF IInv, TypeOK, Locks, Place, Input, StepMtxAfter, Readers
<1>3. Locks'
    BY <1>0, <1>1 DEF IInv, TypeOK, Locks, Place, Input, StepMtxAfter, Readers
<1>4. Place'
    BY <1>0, <1>1 DEF IInv, TypeOK, Locks, Place, Input, StepMtxAfter, Readers
<1>5. ReadersLive'
    BY <1>0, <1>1 DEF IInv, TypeOK, Locks, Place, Input, ReadersLive, StepMtxAfter, Readers
<1>6. EarlySaid'
    BY <1>0, <1>1 DEF IInv, TypeOK, Locks, Place, Input, EarlySaid, Failed, StepMtxAfter, Readers
<1>7. BadOnlyDuringReconnect'
    BY <1>0, <1>1 DEF IInv, TypeOK, Locks, Place, Input, BadOnlyDuringReconnect, StepMtxAfter, Readers
<1>8. FailureKept'
    BY <1>0, <1>1 DEF IInv, TypeOK, Locks, Place, Input, FailureKept, Failed, StepMtxAfter, Readers
<1> QED
    BY <1>1, <1>2, <1>3, <1>4, <1>5, <1>6, <1>7, <1>8 DEF IInv

\* a handler with stepmtx
LEMMA LedKeeps ==
    ASSUME IInv, NEW t \in Readers, Led(t)
    PROVE  IInv'
<1> USE ThreadsDiffer DEF pointers, SenderLabels
<1>1. /\ PcOK' /\ pc'[t] = "flush"
      /\ \A u \in Threads \ {t} : pc'[u] = pc[u]
    BY Going DEF Led, IInv, Returned, Readers
<1>2. TypeOK'
    BY <1>1 DEF IInv, TypeOK, Locks, Place, Led, StepMtxAfter, Readers
<1>3. Locks'
    BY <1>1 DEF IInv, TypeOK, Locks, Place, Led, StepMtxAfter, Readers
<1>4. Place'
    BY <1>1 DEF IInv, TypeOK, Locks, Place, Led, StepMtxAfter, Readers
<1>5. ReadersLive'
    BY <1>1 DEF IInv, TypeOK, Locks, Place, Led, ReadersLive, StepMtxAfter, Readers
<1>6. EarlySaid'
    BY <1>1 DEF IInv, TypeOK, Locks, Place, Led, EarlySaid, Failed, StepMtxAfter, Readers
<1>7. BadOnlyDuringReconnect'
    BY <1>1 DEF IInv, TypeOK, Locks, Place, Led, BadOnlyDuringReconnect, StepMtxAfter, Readers
<1>8. FailureKept'
    BY <1>1 DEF IInv, TypeOK, Locks, Place, Led, FailureKept, Failed, StepMtxAfter, Readers
<1> QED
    BY <1>1, <1>2, <1>3, <1>4, <1>5, <1>6, <1>7, <1>8 DEF IInv

\* a handler with dmxout_sendbuf_mtx
LEMMA RawKeeps ==
    ASSUME IInv, NEW t \in Readers, Raw(t)
    PROVE  IInv'
<1> USE ThreadsDiffer DEF pointers, SenderLabels
<1>1. /\ PcOK' /\ pc'[t] = "flush"
      /\ \A u \in Threads \ {t} : pc'[u] = pc[u]
    BY Going DEF Raw, IInv, Returned, Readers
<1>2. TypeOK'
    BY <1>1 DEF IInv, TypeOK, Locks, Place, Raw, StepMtxAfter, Readers
<1>3. Locks'
    BY <1>1 DEF IInv, TypeOK, Locks, Place, Raw, StepMtxAfter, Readers
<1>4. Place'
    BY <1>1 DEF IInv, TypeOK, Locks, Place, Raw, StepMtxAfter, Readers
<1>5. ReadersLive'
    BY <1>1 DEF IInv, TypeOK, Locks, Place, Raw, ReadersLive, StepMtxAfter, Readers
<1>6. EarlySaid'
    BY <1>1 DEF IInv, TypeOK, Locks, Place, Raw, EarlySaid, Failed, StepMtxAfter, Readers
<1>7. BadOnlyDuringReconnect'
    BY <1>1 DEF IInv, TypeOK, Locks, Place, Raw, BadOnlyDuringReconnect, StepMtxAfter, Readers
<1>8. FailureKept'
    BY <1>1 DEF IInv, TypeOK, Locks, Place, Raw, FailureKept, Failed, StepMtxAfter, Readers
<1> QED
    BY <1>1, <1>2, <1>3, <1>4, <1>5, <1>6, <1>7, <1>8 DEF IInv

\* flush_dmxout_sendbuf, with and without anything to send
LEMMA FlushNothingKeeps ==
    ASSUME IInv, NEW t \in Threads, FlushNothing(t)
    PROVE  IInv'
<1> USE ThreadsDiffer DEF pointers, SenderLabels
<1>1. /\ PcOK' /\ pc'[t] = (IF t = "prog" THEN "wait" ELSE "idle")
      /\ \A u \in Threads \ {t} : pc'[u] = pc[u]
    BY Going DEF FlushNothing, IInv, Returned, Readers
<1>2. TypeOK'
    BY <1>1 DEF IInv, TypeOK, Locks, Place, FlushNothing, StepMtxAfter, Readers
<1>3. Locks'
    BY <1>1 DEF IInv, TypeOK, Locks, Place, FlushNothing, StepMtxAfter, Readers
<1>4. Place'
    BY <1>1 DEF IInv, TypeOK, Locks, Place, FlushNothing, StepMtxAfter, Readers
<1>5. ReadersLive'
    BY <1>1 DEF IInv, TypeOK, Locks, Place, FlushNothing, ReadersLive, StepMtxAfter, Readers
<1>6. EarlySaid'
    BY <1>1 DEF IInv, TypeOK, Locks, Place, FlushNothing, EarlySaid, Failed, StepMtxAfter, Readers
<1>7. BadOnlyDuringReconnect'
    BY <1>1 DEF IInv, TypeOK, Locks, Place, FlushNothing, BadOnlyDuringReconnect, StepMtxAfter, Readers
<1>8. FailureKept'
    BY <1>1 DEF IInv, TypeOK, Locks, Place, FlushNothing, FailureKept, Failed, StepMtxAfter, Readers
<1> QED
    BY <1>1, <1>2, <1>3, <1>4, <1>5, <1>6, <1>7, <1>8 DEF IInv

\* flush_dmxout_sendbuf takes the mutex and a frame that has to go out
LEMMA FlushLockKeeps ==
    ASSUME IInv, NEW t \in Threads, FlushLock(t)
    PROVE  IInv'
<1> USE ThreadsDiffer DEF pointers, SenderLabels
<1>1. /\ PcOK' /\ pc'[t] = "test"
      /\ \A u \in Threads \ {t} : pc'[u] = pc[u]
    BY Going DEF FlushLock, IInv, Returned, Readers
<1>2. TypeOK'
    BY <1>1 DEF IInv, TypeOK, Locks, Place, FlushLock, StepMtxAfter, Readers
<1>3. Locks'
    BY <1>1 DEF IInv, TypeOK, Locks, Place, FlushLock, StepMtxAfter, Readers
<1>4. Place'
    BY <1>1 DEF IInv, TypeOK, Locks, Place, FlushLock, StepMtxAfter, Readers
<1>5. ReadersLive'
    BY <1>1 DEF IInv, TypeOK, Locks, Place, FlushLock, ReadersLive, StepMtxAfter, Readers
<1>6. EarlySaid'
    BY <1>1 DEF IInv, TypeOK, Locks, Place, FlushLock, EarlySaid, Failed, StepMtxAfter, Readers
<1>7. BadOnlyDuringReconnect'
    BY <1>1 DEF IInv, TypeOK, Locks, Place, FlushLock, BadOnlyDuringReconnect, StepMtxAfter, Readers
<1>8. FailureKept'
    BY <1>1 DEF IInv, TypeOK, Locks, Place, FlushLock, FailureKept, Failed, StepMtxAfter, Readers
<1> QED
    BY <1>1, <1>2, <1>3, <1>4, <1>5, <1>6, <1>7, <1>8 DEF IInv

\* send_dmx without a widget
LEMMA TestNullKeeps ==
    ASSUME IInv, NEW t \in Threads, TestNull(t)
    PROVE  IInv'
<1> USE ThreadsDiffer DEF pointers, SenderLabels
<1>1. /\ PcOK' /\ pc'[t] = (IF t = "prog" THEN "wait" ELSE "idle")
      /\ \A u \in Threads \ {t} : pc'[u] = pc[u]
    BY Going DEF TestNull, IInv, Returned, Readers
<1>2. TypeOK'
    BY <1>1 DEF IInv, TypeOK, Locks, Place, TestNull, StepMtxAfter, Readers
<1>3. Locks'
    BY <1>1 DEF IInv, TypeOK, Locks, Place, TestNull, StepMtxAfter, Readers
<1>4. Place'
    BY <1>1 DEF IInv, TypeOK, Locks, Place, TestNull, StepMtxAfter, Readers
<1>5. ReadersLive'
    BY <1>1 DEF IInv, TypeOK, Locks, Place, TestNull, ReadersLive, StepMtxAfter, Readers
<1>6. EarlySaid'
    BY <1>1 DEF IInv, TypeOK, Locks, Place, TestNull, EarlySaid, Failed, StepMtxAfter, Readers
<1>7. BadOnlyDuringReconnect'
    BY <1>1 DEF IInv, TypeOK, Locks, Place, TestNull, BadOnlyDuringReconnect, StepMtxAfter, Readers
<1>8. FailureKept'
    BY <1>1 DEF IInv, TypeOK, Locks, Place, TestNull, FailureKept, Failed, StepMtxAfter, Readers
<1> QED
    BY <1>1, <1>2, <1>3, <1>4, <1>5, <1>6, <1>7, <1>8 DEF IInv

\* send_dmx finds a widget
LEMMA TestKeeps ==
    ASSUME IInv, NEW t \in Threads, Test(t)
    PROVE  IInv'
<1> USE ThreadsDiffer DEF pointers, SenderLabels
<1>1. /\ PcOK' /\ pc'[t] = "load"
      /\ \A u \in Threads \ {t} : pc'[u] = pc[u]
    BY Going DEF Test, IInv, Returned, Readers
<1>2. TypeOK'
    BY <1>1 DEF IInv, TypeOK, Locks, Place, Test, StepMtxAfter, Readers
<1>3. Locks'
    BY <1>1 DEF IInv, TypeOK, Locks, Place, Test, StepMtxAfter, Readers
<1>4. Place'
    BY <1>1 DEF IInv, TypeOK, Locks, Place, Test, StepMtxAfter, Readers
<1>5. ReadersLive'
    BY <1>1 DEF IInv, TypeOK, Locks, Place, Test, ReadersLive, StepMtxAfter, Readers
<1>6. EarlySaid'
    BY <1>1 DEF IInv, TypeOK, Locks, Place, Test, EarlySaid, Failed, StepMtxAfter, Readers
<1>7. BadOnlyDuringReconnect'
    BY <1>1 DEF IInv, TypeOK, Locks, Place, Test, BadOnlyDuringReconnect, StepMtxAfter, Readers
<1>8. FailureKept'
    BY <1>1 DEF IInv, TypeOK, Locks, Place, Test, FailureKept, Failed, StepMtxAfter, Readers
<1> QED
    BY <1>1, <1>2, <1>3, <1>4, <1>5, <1>6, <1>7, <1>8 DEF IInv

\* the pointer is read again and passed on; by now it may be NULL or freed
LEMMA LoadKeeps ==
    ASSUME IInv, NEW t \in Threads, Load(t)
    PROVE  IInv'
<1> USE ThreadsDiffer DEF pointers, SenderLabels
<1>1. /\ PcOK' /\ pc'[t] = "send"
      /\ \A u \in Threads \ {t} : pc'[u] = pc[u]
    BY Going DEF Load, IInv, Returned, Readers
<1>2. TypeOK'
    BY <1>1 DEF IInv, TypeOK, Locks, Place, Load, StepMtxAfter, Readers
<1>3. Locks'
    BY <1>1 DEF IInv, TypeOK, Locks, Place, Load, StepMtxAfter, Readers
<1>4. Place'
    BY <1>1 DEF IInv, TypeOK, Locks, Place, Load, StepMtxAfter, Readers
<1>5. ReadersLive'
    BY <1>1 DEF IInv, TypeOK, Locks, Place, Load, ReadersLive, StepMtxAfter, Readers
<1>6. EarlySaid'
    BY <1>1 DEF IInv, TypeOK, Locks, Place, Load, EarlySaid, Failed, StepMtxAfter, Readers
<1>7. BadOnlyDuringReconnect'
    BY <1>1 DEF IInv, TypeOK, Locks, Place, Load, BadOnlyDuringReconnect, StepMtxAfter, Readers
<1>8. FailureKept'
    BY <1>1 DEF IInv, TypeOK, Locks, Place, Load, FailureKept, Failed, StepMtxAfter, Readers
<1> QED
    BY <1>1, <1>2, <1>3, <1>4, <1>5, <1>6, <1>7, <1>8 DEF IInv

\* the write through the loaded pointer, and the mutex is free again
LEMMA SendKeeps ==
    ASSUME IInv, NEW t \in Threads, Send(t)
    PROVE  IInv'
<1> USE ThreadsDiffer DEF pointers, SenderLabels
<1>1. /\ PcOK' /\ pc'[t] = (IF t = "prog" THEN "wait" ELSE "idle")
      /\ \A u \in Threads \ {t} : pc'[u] = pc[u]
    BY Going DEF Send, IInv, Returned, Readers
<1>2. TypeOK'
    BY <1>1 DEF IInv, TypeOK, Locks, Place, Send, StepMtxAfter, Readers
<1>3. Locks'
    BY <1>1 DEF IInv, TypeOK, Locks, Place, Send, StepMtxAfter, Readers
<1>4. Place'
    BY <1>1 DEF IInv, TypeOK, Locks, Place, Send, StepMtxAfter, Readers
<1>5. ReadersLive'
    BY <1>1 DEF IInv, TypeOK, Locks, Place, Send, ReadersLive, StepMtxAfter, Readers
<1>6. EarlySaid'
    BY <1>1 DEF IInv, TypeOK, Locks, Place, Send, EarlySaid, Failed, StepMtxAfter, Readers
<1>7. BadOnlyDuringReconnect'
    BY <1>1 DEF IInv, TypeOK, Locks, Place, Send, BadOnlyDuringReconnect, StepMtxAfter, Readers
<1>8. FailureKept'
    BY <1>1 DEF IInv, TypeOK, Locks, Place, Send, FailureKept, Failed, StepMtxAfter, Readers
<1> QED
    BY <1>1, <1>2, <1>3, <1>4, <1>5, <1>6, <1>7, <1>8 DEF IInv

\* the write through a bad pointer ends the program; prog_runner holds none
LEMMA SendFaultsKeeps ==
    ASSUME IInv, NEW t \in Threads, SendFaults(t)
    PROVE  IInv'
<1> USE ThreadsDiffer DEF pointers, SenderLabels
<1>0. t # "prog"
    BY DEF SendFaults, IInv, BadOnlyDuringReconnect
<1>1. /\ PcOK' /\ pc'[t] = "crashed"
      /\ \A u \in Threads \ {t} : pc'[u] = pc[u]
    BY Going DEF SendFaults, IInv, Returned, Readers
<1>2. TypeOK'
    BY <1>0, <1>1 DEF IInv, TypeOK, Locks, Place, SendFaults, StepMtxAfter, Readers
<1>3. Locks'
    BY <1>0, <1>1 DEF IInv, TypeOK, Locks, Place, SendFaults, StepMtxAfter, Readers
<1>4. Place'
    BY <1>0, <1>1 DEF IInv, TypeOK, Locks, Place, SendFaults, StepMtxAfter, Readers
<1>5. ReadersLive'
    BY <1>0, <1>1 DEF IInv, TypeOK, Locks, Place, SendFaults, ReadersLive, StepMtxAfter, Readers
<1>6. EarlySaid'
    BY <1>0, <1>1 DEF IInv, TypeOK, Locks, Place, SendFaults, EarlySaid, Failed, StepMtxAfter, Readers
<1>7. BadOnlyDuringReconnect'
    BY <1>0, <1>1 DEF IInv, TypeOK, Locks, Place, SendFaults, BadOnlyDuringReconnect, StepMtxAfter, Readers
<1>8. FailureKept'
    BY <1>0, <1>1 DEF IInv, TypeOK, Locks, Place, SendFaults, FailureKept, Failed, StepMtxAfter, Readers
<1> QED
    BY <1>1, <1>2, <1>3, <1>4, <1>5, <1>6, <1>7, <1>8 DEF IInv

\* the reader's end
LEMMA FailKeeps ==
    ASSUME IInv, NEW c \in Contexts, Fail(c)
    PROVE  IInv'
<1> USE ThreadsDiffer DEF pointers, SenderLabels
<1>1. /\ PcOK' /\ pc'[c] = "error"
      /\ \A u \in Threads \ {c} : pc'[u] = pc[u]
    BY Going DEF Fail, IInv, Returned, Readers
<1>2. TypeOK'
    BY <1>1 DEF IInv, TypeOK, Locks, Place, Fail, StepMtxAfter, Readers
<1>3. Locks'
    BY <1>1 DEF IInv, TypeOK, Locks, Place, Fail, StepMtxAfter, Readers
<1>4. Place'
    BY <1>1 DEF IInv, TypeOK, Locks, Place, Fail, StepMtxAfter, Readers
<1>5. ReadersLive'
    BY <1>1 DEF IInv, TypeOK, Locks, Place, Fail, ReadersLive, StepMtxAfter, Readers
<1>6. EarlySaid'
    BY <1>1 DEF IInv, TypeOK, Locks, Place, Fail, EarlySaid, Failed, StepMtxAfter, Readers
<1>7. BadOnlyDuringReconnect'
    BY <1>1 DEF IInv, TypeOK, Locks, Place, Fail, BadOnlyDuringReconnect, StepMtxAfter, Readers
<1>8. FailureKept'
    BY <1>1 DEF IInv, TypeOK, Locks, Place, Fail, FailureKept, Failed, StepMtxAfter, Readers
<1> QED
    BY <1>1, <1>2, <1>3, <1>4, <1>5, <1>6, <1>7, <1>8 DEF IInv

\* the error callback got stepmtx, the reader ends
LEMMA ErrorStepKeeps ==
    ASSUME IInv, NEW c \in Contexts, error_step(c)
    PROVE  IInv'
<1> USE ThreadsDiffer DEF pointers, SenderLabels
<1>1. /\ PcOK' /\ pc'[c] = "dead"
      /\ \A u \in Threads \ {c} : pc'[u] = pc[u]
    BY Going DEF error_step, IInv, Returned, Readers
<1>2. TypeOK'
    BY <1>1 DEF IInv, TypeOK, Locks, Place, error_step, StepMtxAfter, Readers
<1>3. Locks'
    BY <1>1 DEF IInv, TypeOK, Locks, Place, error_step, StepMtxAfter, Readers
<1>4. Place'
    BY <1>1 DEF IInv, TypeOK, Locks, Place, error_step, StepMtxAfter, Readers
<1>5. ReadersLive'
    BY <1>1 DEF IInv, TypeOK, Locks, Place, error_step, ReadersLive, StepMtxAfter, Readers
<1>6. EarlySaid'
    BY <1>1 DEF IInv, TypeOK, Locks, Place, error_step, EarlySaid, Failed, StepMtxAfter, Readers
<1>7. BadOnlyDuringReconnect'
    BY <1>1 DEF IInv, TypeOK, Locks, Place, error_step, BadOnlyDuringReconnect, StepMtxAfter, Readers
<1>8. FailureKept'
    BY <1>1 DEF IInv, TypeOK, Locks, Place, error_step, FailureKept, Failed, StepMtxAfter, Readers
<1> QED
    BY <1>1, <1>2, <1>3, <1>4, <1>5, <1>6, <1>7, <1>8 DEF IInv

\* prog_runner
LEMMA ResumeKeeps ==
    ASSUME IInv, Resume
    PROVE  IInv'
<1> USE ThreadsDiffer DEF pointers, SenderLabels
<1>1. /\ PcOK' /\ pc'["prog"] = "render"
      /\ \A u \in Threads \ {"prog"} : pc'[u] = pc[u]
    BY Going DEF Resume, IInv, Returned, Readers
<1>2. TypeOK'
    BY <1>1 DEF IInv, TypeOK, Locks, Place, Resume, StepMtxAfter, Readers
<1>3. Locks'
    BY <1>1 DEF IInv, TypeOK, Locks, Place, Resume, StepMtxAfter, Readers
<1>4. Place'
    BY <1>1 DEF IInv, TypeOK, Locks, Place, Resume, StepMtxAfter, Readers
<1>5. ReadersLive'
    BY <1>1 DEF IInv, TypeOK, Locks, Place, Resume, ReadersLive, StepMtxAfter, Readers
<1>6. EarlySaid'
    BY <1>1 DEF IInv, TypeOK, Locks, Place, Resume, EarlySaid, Failed, StepMtxAfter, Readers
<1>7. BadOnlyDuringReconnect'
    BY <1>1 DEF IInv, TypeOK, Locks, Place, Resume, BadOnlyDuringReconnect, StepMtxAfter, Readers
<1>8. FailureKept'
    BY <1>1 DEF IInv, TypeOK, Locks, Place, Resume, FailureKept, Failed, StepMtxAfter, Readers
<1> QED
    BY <1>1, <1>2, <1>3, <1>4, <1>5, <1>6, <1>7, <1>8 DEF IInv

\* reconnect_if_needed chooses between a teardown and a new connection at once
LEMMA ReconnectKeeps ==
    ASSUME IInv, Reconnect
    PROVE  IInv'
<1> USE ThreadsDiffer DEF pointers, SenderLabels
<1>1. /\ PcOK' /\ pc'["prog"] = (IF mk2c = NULL THEN "init" ELSE "join")
      /\ \A u \in Threads \ {"prog"} : pc'[u] = pc[u]
    BY Going DEF Reconnect, IInv, Returned, Readers
<1>2. TypeOK'
    BY <1>1 DEF IInv, TypeOK, Locks, Place, Reconnect, StepMtxAfter, Readers
<1>3. Locks'
    BY <1>1 DEF IInv, TypeOK, Locks, Place, Reconnect, StepMtxAfter, Readers
<1>4. Place'
    BY <1>1 DEF IInv, TypeOK, Locks, Place, Reconnect, StepMtxAfter, Readers
<1>5. ReadersLive'
    BY <1>1 DEF IInv, TypeOK, Locks, Place, Reconnect, ReadersLive, StepMtxAfter, Readers
<1>6. EarlySaid'
    BY <1>1 DEF IInv, TypeOK, Locks, Place, Reconnect, EarlySaid, Failed, StepMtxAfter, Readers
<1>7. BadOnlyDuringReconnect'
    BY <1>1 DEF IInv, TypeOK, Locks, Place, Reconnect, BadOnlyDuringReconnect, StepMtxAfter, Readers
<1>8. FailureKept'
    BY <1>1 DEF IInv, TypeOK, Locks, Place, Reconnect, FailureKept, Failed, StepMtxAfter, Readers
<1> QED
    BY <1>1, <1>2, <1>3, <1>4, <1>5, <1>6, <1>7, <1>8 DEF IInv

\* the reader is joined and its context freed
LEMMA TeardownKeeps ==
    ASSUME IInv, Teardown
    PROVE  IInv'
<1> USE ThreadsDiffer DEF pointers, SenderLabels
<1>1. /\ PcOK' /\ pc'["prog"] = "init"
      /\ \A u \in Threads \ {"prog"} : pc'[u] = pc[u]
    BY Going DEF Teardown, IInv, Returned, Readers
<1>2. TypeOK'
    BY <1>1 DEF IInv, TypeOK, Locks, Place, Teardown, StepMtxAfter, Readers
<1>3. Locks'
    BY <1>1 DEF IInv, TypeOK, Locks, Place, Teardown, StepMtxAfter, Readers
<1>4. Place'
    BY <1>1 DEF IInv, TypeOK, Locks, Place, Teardown, StepMtxAfter, Readers
<1>5. ReadersLive'
    BY <1>1 DEF IInv, TypeOK, Locks, Place, Teardown, ReadersLive, StepMtxAfter, Readers
<1>6. EarlySaid'
    BY <1>1 DEF IInv, TypeOK, Locks, Place, Teardown, EarlySaid, Failed, StepMtxAfter, Readers
<1>7. BadOnlyDuringReconnect'
    BY <1>1 DEF IInv, TypeOK, Locks, Place, Teardown, BadOnlyDuringReconnect, StepMtxAfter, Readers
<1>8. FailureKept'
    BY <1>1 DEF IInv, TypeOK, Locks, Place, Teardown, FailureKept, Failed, StepMtxAfter, Readers
<1> QED
    BY <1>1, <1>2, <1>3, <1>4, <1>5, <1>6, <1>7, <1>8 DEF IInv

\* no widget was found: mk2c becomes NULL and mk2c_lost stays
LEMMA ConnectFailsKeeps ==
    ASSUME IInv, ConnectFails
    PROVE  IInv'
<1> USE ThreadsDiffer DEF pointers, SenderLabels
<1>1. /\ PcOK' /\ pc'["prog"] = "wait"
      /\ \A u \in Threads \ {"prog"} : pc'[u] = pc[u]
    BY Going DEF ConnectFails, IInv, Returned, Readers
<1>2. TypeOK'
    BY <1>1 DEF IInv, TypeOK, Locks, Place, ConnectFails, StepMtxAfter, Readers
<1>3. Locks'
    BY <1>1 DEF IInv, TypeOK, Locks, Place, ConnectFails, StepMtxAfter, Readers
<1>4. Place'
    BY <1>1 DEF IInv, TypeOK, Locks, Place, ConnectFails, StepMtxAfter, Readers
<1>5. ReadersLive'
    BY <1>1 DEF IInv, TypeOK, Locks, Place, ConnectFails, ReadersLive, StepMtxAfter, Readers
<1>6. EarlySaid'
    BY <1>1 DEF IInv, TypeOK, Locks, Place, ConnectFails, EarlySaid, Failed, StepMtxAfter, Readers
<1>7. BadOnlyDuringReconnect'
    BY <1>1 DEF IInv, TypeOK, Locks, Place, ConnectFails, BadOnlyDuringReconnect, StepMtxAfter, Readers
<1>8. FailureKept'
    BY <1>1 DEF IInv, TypeOK, Locks, Place, ConnectFails, FailureKept, Failed, StepMtxAfter, Readers
<1> QED
    BY <1>1, <1>2, <1>3, <1>4, <1>5, <1>6, <1>7, <1>8 DEF IInv

\* the new context becomes the one all threads send through
LEMMA PublishKeeps ==
    ASSUME IInv, Publish
    PROVE  IInv'
<1> USE ThreadsDiffer DEF pointers, SenderLabels
<1>1. /\ PcOK' /\ pc'["prog"] = "clear"
      /\ \A u \in Threads \ {"prog"} : pc'[u] = pc[u]
    BY Going DEF Publish, IInv, Returned, Readers
<1>2. TypeOK'
    BY <1>1 DEF IInv, TypeOK, Locks, Place, Publish, StepMtxAfter, Readers
<1>3. Locks'
    BY <1>1 DEF IInv, TypeOK, Locks, Place, Publish, StepMtxAfter, Readers
<1>4. Place'
    BY <1>1 DEF IInv, TypeOK, Locks, Place, Publish, StepMtxAfter, Readers
<1>5. ReadersLive'
    BY <1>1 DEF IInv, TypeOK, Locks, Place, Publish, ReadersLive, StepMtxAfter, Readers
<1>6. EarlySaid'
    BY <1>1 DEF IInv, TypeOK, Locks, Place, Publish, EarlySaid, Failed, StepMtxAfter, Readers
<1>7. BadOnlyDuringReconnect'
    BY <1>1 DEF IInv, TypeOK, Locks, Place, Publish, BadOnlyDuringReconnect, StepMtxAfter, Readers
<1>8. FailureKept'
    BY <1>1 DEF IInv, TypeOK, Locks, Place, Publish, FailureKept, Failed, StepMtxAfter, Readers
<1> QED
    BY <1>1, <1>2, <1>3, <1>4, <1>5, <1>6, <1>7, <1>8 DEF IInv

\* mk2c_lost is cleared; a failure of the new reader has set early
LEMMA ClearLostKeeps ==
    ASSUME IInv, ClearLost
    PROVE  IInv'
<1> USE ThreadsDiffer DEF pointers, SenderLabels
<1>1. /\ PcOK' /\ pc'["prog"] = "flush"
      /\ \A u \in Threads \ {"prog"} : pc'[u] = pc[u]
    BY Going DEF ClearLost, IInv, Returned, Readers
<1>2. TypeOK'
    BY <1>1 DEF IInv, TypeOK, Locks, Place, ClearLost, StepMtxAfter, Readers
<1>3. Locks'
    BY <1>1 DEF IInv, TypeOK, Locks, Place, ClearLost, StepMtxAfter, Readers
<1>4. Place'
    BY <1>1 DEF IInv, TypeOK, Locks, Place, ClearLost, StepMtxAfter, Readers
<1>5. ReadersLive'
    BY <1>1 DEF IInv, TypeOK, Locks, Place, ClearLost, ReadersLive, StepMtxAfter, Readers
<1>6. EarlySaid'
    BY <1>1 DEF IInv, TypeOK, Locks, Place, ClearLost, EarlySaid, Failed, StepMtxAfter, Readers
<1>7. BadOnlyDuringReconnect'
    BY <1>1 DEF IInv, TypeOK, Locks, Place, ClearLost, BadOnlyDuringReconnect, StepMtxAfter, Readers
<1>8. FailureKept'
    BY <1>1 DEF IInv, TypeOK, Locks, Place, ClearLost, EarlySaid, FailureKept, Failed
<1> QED
    BY <1>1, <1>2, <1>3, <1>4, <1>5, <1>6, <1>7, <1>8 DEF IInv

\* a render, which finds the widget lost or takes the mutex to send
LEMMA RenderKeeps ==
    ASSUME IInv, Render
    PROVE  IInv'
<1> USE ThreadsDiffer DEF pointers, SenderLabels
<1>1. CASE mk2c_lost /\ Goto("prog", "reconnect") /\ UNCHANGED dmxout_sendbuf_mtx
    <2>1. /\ PcOK' /\ pc'["prog"] = "reconnect"
          /\ \A u \in Threads \ {"prog"} : pc'[u] = pc[u]
        BY <1>1, Going DEF IInv
    <2>2. TypeOK'
        BY <1>1, <2>1 DEF IInv, TypeOK, Render
    <2>3. Locks'
        BY <1>1, <2>1 DEF IInv, TypeOK, Locks, Render
    <2>4. Place'
        BY <1>1, <2>1 DEF IInv, TypeOK, Place, Render
    <2>5. ReadersLive' /\ EarlySaid'
        BY <1>1, <2>1 DEF IInv, TypeOK, ReadersLive, EarlySaid, Render
    <2>6. BadOnlyDuringReconnect'
        BY <1>1, <2>1 DEF IInv, TypeOK, Locks, BadOnlyDuringReconnect, Render
    <2>7. FailureKept'
        BY <1>1, <2>1 DEF IInv, TypeOK, FailureKept, Failed, Render
    <2> QED
        BY <2>1, <2>2, <2>3, <2>4, <2>5, <2>6, <2>7 DEF IInv
<1>2. CASE ~mk2c_lost /\ dmxout_sendbuf_mtx' = "prog" /\ Goto("prog", "test") /\ UNCHANGED dmxout_dirty
    <2>1. /\ PcOK' /\ pc'["prog"] = "test"
          /\ \A u \in Threads \ {"prog"} : pc'[u] = pc[u]
        BY <1>2, Going DEF IInv
    <2>2. TypeOK'
        BY <1>2, <2>1 DEF IInv, TypeOK, Render
    <2>3. Locks'
        BY <1>2, <2>1 DEF IInv, TypeOK, Locks, Render
    <2>4. Place'
        BY <1>2, <2>1 DEF IInv, TypeOK, Place, Render
    <2>5. ReadersLive' /\ EarlySaid'
        BY <1>2, <2>1 DEF IInv, TypeOK, ReadersLive, EarlySaid, Render
    <2>6. BadOnlyDuringReconnect'
        BY <1>2, <2>1 DEF IInv, TypeOK, Locks, BadOnlyDuringReconnect, Render
    <2>7. FailureKept'
        BY <1>2, <2>1 DEF IInv, TypeOK, Place, FailureKept, Failed, Render
    <2> QED
        BY <2>1, <2>2, <2>3, <2>4, <2>5, <2>6, <2>7 DEF IInv
<1> QED
    BY <1>1, <1>2 DEF Render

\* a connection: the new reader runs before the pointer is published
LEMMA ConnectKeeps ==
    ASSUME IInv, Connect
    PROVE  IInv'
<1> USE ThreadsDiffer DEF pointers, SenderLabels
<1>1. PICK c \in Contexts \ live :
        /\ live' = live \cup {c}
        /\ fresh' = c
        /\ pc' = [pc EXCEPT !["prog"] = "publish", ![c] = "idle"]
    BY DEF Connect
<1>2. /\ PcOK' /\ pc'["prog"] = "publish" /\ pc'[c] = "idle"
      /\ \A u \in Threads \ {"prog", c} : pc'[u] = pc[u]
    BY <1>1 DEF IInv, PcOK
<1>3. live = {} /\ mk2c_lost /\ \A d \in Contexts : pc[d] = "dead"
    BY DEF Connect, IInv, TypeOK, Place, ReadersLive
<1>4. TypeOK'
    BY <1>1, <1>2 DEF IInv, TypeOK, Connect
<1>5. Locks'
    <2>1. stepmtx' = "prog" <=> pc'["prog"] # "wait"
        BY <1>2 DEF IInv, Locks, Connect
    <2>2. ASSUME NEW t \in Threads
          PROVE  /\ pc'[t] \in {"test", "load", "send", "crashed"}
                        <=> pc[t] \in {"test", "load", "send", "crashed"}
                 /\ pc'[t] \in {"send", "crashed"} <=> pc[t] \in {"send", "crashed"}
        <3>1. CASE t = "prog"
            BY <1>2, <3>1 DEF Connect
        <3>2. CASE t = c
            BY <1>2, <1>3, <3>2
        <3>3. CASE t \notin {"prog", c}
            BY <1>2, <3>3
        <3> QED
            BY <3>1, <3>2, <3>3
    <2> QED
        BY <2>1, <2>2 DEF IInv, Locks, Connect
<1>6. Place'
    BY <1>1, <1>2, <1>3 DEF IInv, TypeOK, Place, Connect
<1>7. ReadersLive' /\ EarlySaid'
    BY <1>1, <1>2, <1>3 DEF IInv, TypeOK, ReadersLive, EarlySaid, Failed, Connect
<1>8. BadOnlyDuringReconnect' /\ FailureKept'
    BY <1>1, <1>2, <1>3 DEF IInv, TypeOK, Locks, BadOnlyDuringReconnect, FailureKept, Failed, Connect
<1> QED
    BY <1>2, <1>4, <1>5, <1>6, <1>7, <1>8 DEF IInv

\* a sender's step, whichever thread sends
LEMMA SendFrameKeeps ==
    ASSUME IInv, NEW t \in Threads, SendFrame(t)
    PROVE  IInv'
BY FlushNothingKeeps, FlushLockKeeps, TestNullKeeps, TestKeeps, LoadKeeps, SendKeeps,
   SendFaultsKeeps DEF SendFrame

\* every step of every thread keeps the invariant
THEOREM NextIInv == IInv /\ [Next]_vars => IInv'
<1> SUFFICES ASSUME IInv, [Next]_vars PROVE IInv'
    OBVIOUS
<1>1. CASE prog_runner
    BY <1>1, ResumeKeeps, RenderKeeps, ReconnectKeeps, TeardownKeeps, ConnectKeeps,
       ConnectFailsKeeps, PublishKeeps, ClearLostKeeps, SendFrameKeeps, ThreadsDiffer
       DEF prog_runner
<1>2. ASSUME NEW t \in {"midi"} \cup Contexts, Input(t) \/ Handler(t)
      PROVE  IInv'
    <2>1. t \in Readers /\ t \in Threads
        BY ThreadsDiffer DEF Readers
    <2> QED
        BY <1>2, <2>1, InputKeeps, LedKeeps, RawKeeps, SendFrameKeeps DEF Handler
<1>3. ASSUME NEW c \in Contexts, Fail(c) \/ error_step(c)
      PROVE  IInv'
    BY <1>3, FailKeeps, ErrorStepKeeps
<1>4. CASE UNCHANGED vars
    BY <1>4 DEF vars, pointers, IInv, TypeOK, PcOK, Locks, Place, ReadersLive, EarlySaid,
               BadOnlyDuringReconnect, FailureKept, Failed
<1> QED
    BY <1>1, <1>2, <1>3, <1>4 DEF Next

\* the invariant holds in every reachable state
THEOREM Invariance == Spec => []IInv
BY InitIInv, NextIInv, PTL DEF Spec

-----------------------------------------------------------------------------
(* The properties.                                                         *)

\* type correctness
THEOREM TypeCorrect == Spec => []TypeOK
<1>1. IInv => TypeOK
    BY DEF IInv
<1> QED
    BY <1>1, Invariance, PTL

\* two readers never run: a reader's context is live, and at most one is
LEMMA AtMostOneReader == IInv => OneReader
<1> SUFFICES ASSUME IInv PROVE OneReader
    OBVIOUS
<1> DEFINE running == {c \in Contexts : pc[c] # "dead"}
<1>1. PICK d : live \subseteq {d}
    BY DEF IInv, TypeOK, Place
<1>2. running \subseteq {d}
    BY <1>1 DEF IInv, ReadersLive
<1>3. IsFiniteSet({d}) /\ Cardinality({d}) = 1
    BY FS_Singleton
<1>4. Cardinality(running) <= 1
    BY <1>2, <1>3, FS_Subset
<1> QED
    BY <1>4 DEF OneReader

\* the callbacks of no two readers share inputbuf, however often one is lost
THEOREM OneReaderAlways == Spec => []OneReader
BY AtMostOneReader, Invariance, PTL

\* a reconnect leaks no context and frees none twice
THEOREM EachFreedOnce == Spec => []FreedOnce
<1>1. IInv => FreedOnce
    BY DEF IInv, Place, FreedOnce
<1> QED
    BY <1>1, Invariance, PTL

\* NULL or a freed context is sent through only while a reconnect is under way
THEOREM BadUseBounded == Spec => []BadOnlyDuringReconnect
<1>1. IInv => BadOnlyDuringReconnect
    BY DEF IInv
<1> QED
    BY <1>1, Invariance, PTL

\* a failure of the widget stays noticed, unless it comes too early
THEOREM NoFailureForgotten == Spec => []FailureKept
<1>1. IInv => FailureKept
    BY DEF IInv
<1> QED
    BY <1>1, Invariance, PTL

-----------------------------------------------------------------------------
(* The reconnect implements Link.                                          *)

\* all readers but that of the live context are dead
LEMMA DeadButOne ==
    ASSUME IInv
    PROVE  /\ live = {} => \A c \in Contexts : pc[c] = "dead"
           /\ \A c, d \in Contexts : pc[c] # "dead" /\ pc[d] # "dead" => c = d
           /\ pc["prog"] \notin {"init", "publish"} =>
                \A c \in Contexts : c # mk2c => pc[c] = "dead"
BY DEF IInv, TypeOK, Place, ReadersLive

\* a thread's step that moves no reader into or out of its end
LEMMA ReaderStays ==
    ASSUME \A c \in Contexts : /\ pc'[c] = "error" <=> pc[c] = "error"
                               /\ pc'[c] = "dead" <=> pc[c] = "dead"
    PROVE  ReaderIs' = ReaderIs
BY DEF ReaderIs

\* the steps of a handler and of a flush are none of Link's, but that
\* prog_runner goes to sleep after its own
LEMMA HandlerLinks ==
    ASSUME IInv, NEW t \in Threads,
           SendFrame(t) \/ (t \in Readers /\ (Input(t) \/ Led(t) \/ Raw(t)))
    PROVE  TheLink!Sleep \/ UNCHANGED TheLink!link
<1> USE ThreadsDiffer DEF pointers, SenderLabels
<1>1. PICK label : /\ Goto(t, label)
                   /\ label \notin {"error", "dead", "reconnect", "join", "init", "publish", "clear"}
                   /\ t = "prog" => label # "idle"
                   /\ label = "wait" => t = "prog"
    BY DEF SendFrame, FlushNothing, FlushLock, TestNull, Test, Load, Send, SendFaults, Input,
           Led, Raw, Returned, Readers
<1>2. /\ pc[t] \in SenderLabels /\ pc[t] \notin {"error", "dead"}
      /\ mk2c_lost' = mk2c_lost
    BY DEF SendFrame, FlushNothing, FlushLock, TestNull, Test, Load, Send, SendFaults, Input,
           Led, Raw
<1>3. /\ pc'[t] = label
      /\ \A u \in Threads \ {t} : pc'[u] = pc[u]
    BY <1>1, Going DEF IInv
<1>4. ReaderIs' = ReaderIs
    BY <1>1, <1>2, <1>3, ReaderStays
<1>5. CASE t = "prog"
    <2>1. ProgIs = "renders" /\ ProgIs' \in {"renders", "sleeps"}
        BY <1>1, <1>2, <1>3, <1>5 DEF ProgIs, IInv, TypeOK
    <2> QED
        BY <2>1, <1>2, <1>4 DEF TheLink!Sleep, TheLink!link
<1>6. CASE t # "prog"
    <2>1. ProgIs' = ProgIs
        BY <1>3, <1>6 DEF ProgIs
    <2> QED
        BY <2>1, <1>2, <1>4 DEF TheLink!link
<1> QED
    BY <1>5, <1>6

\* a reader fails, or dies with stepmtx: prog_runner sleeps
LEMMA EndLinks ==
    ASSUME IInv, NEW c \in Contexts, Fail(c) \/ error_step(c)
    PROVE  TheLink!Fail \/ TheLink!Die
<1> USE ThreadsDiffer DEF pointers
<1>1. \A d \in Contexts \ {c} : pc[d] = "dead"
    BY DeadButOne DEF Fail, error_step
<1>2. CASE Fail(c)
    <2>1. pc'[c] = "error" /\ \A u \in Threads \ {c} : pc'[u] = pc[u]
        BY <1>2, Going DEF Fail, IInv
    <2>2. ReaderIs = "runs" /\ ReaderIs' = "failed"
        BY <1>1, <1>2, <2>1 DEF ReaderIs, Fail
    <2>3. ProgIs' = ProgIs
        BY <2>1 DEF ProgIs
    <2> QED
        BY <1>2, <2>2, <2>3 DEF TheLink!Fail, Fail
<1>3. CASE error_step(c)
    <2>1. pc'[c] = "dead" /\ \A u \in Threads \ {c} : pc'[u] = pc[u]
        BY <1>3, Going DEF error_step, IInv
    <2>2. ReaderIs = "failed" /\ ReaderIs' = "dead"
        BY <1>1, <1>3, <2>1 DEF ReaderIs, error_step
    <2>3. pc["prog"] = "wait" /\ pc'["prog"] = "wait"
        BY <1>3, <2>1 DEF error_step, IInv, Locks, TypeOK
    <2> QED
        BY <1>3, <2>2, <2>3 DEF TheLink!Die, ProgIs, error_step
<1> QED
    BY <1>2, <1>3

\* prog_runner's steps that move no reader
LEMMA ProgLinks ==
    ASSUME IInv,
           Resume \/ Render \/ Reconnect \/ Teardown \/ ConnectFails \/ Publish \/ ClearLost
    PROVE  [TheLink!Next]_TheLink!link
<1> USE ThreadsDiffer DEF pointers
<1>1. PICK label : Goto("prog", label)
    BY DEF Resume, Render, Reconnect, Teardown, ConnectFails, Publish, ClearLost
<1>2. /\ pc'["prog"] = label
      /\ \A u \in Threads \ {"prog"} : pc'[u] = pc[u]
    BY <1>1, Going DEF IInv
<1>3. ReaderIs' = ReaderIs
    BY <1>2, ReaderStays
<1>4. CASE Resume
    BY <1>2, <1>3, <1>4, Going DEF Resume, IInv, ProgIs, TheLink!Next, TheLink!Wake
<1>5. CASE Render
    <2>1. CASE mk2c_lost /\ Goto("prog", "reconnect")
        <3>1. pc'["prog"] = "reconnect"
            BY <2>1, Going DEF IInv
        <3> QED
            BY <1>3, <1>5, <2>1, <3>1 DEF Render, ProgIs, TheLink!Next, TheLink!Notice
    <2>2. CASE ~mk2c_lost /\ Goto("prog", "test")
        <3>1. pc'["prog"] = "test"
            BY <2>2, Going DEF IInv
        <3> QED
            BY <1>3, <1>5, <2>2, <3>1 DEF Render, ProgIs, TheLink!link
    <2> QED
        BY <1>5, <2>1, <2>2 DEF Render
<1>6. CASE Reconnect \/ Teardown
    <2>1. pc'["prog"] \in {"init", "join"}
        BY <1>6, Going DEF Reconnect, Teardown, IInv
    <2> QED
        BY <1>3, <1>6, <2>1 DEF Reconnect, Teardown, ProgIs, TheLink!link
<1>7. CASE ConnectFails
    <2>1. pc'["prog"] = "wait"
        BY <1>7, Going DEF ConnectFails, IInv
    <2>2. ReaderIs = "dead"
        BY <1>7, DeadButOne DEF ConnectFails, IInv, Place, ReaderIs
    <2> QED
        BY <1>3, <1>7, <2>1, <2>2 DEF ConnectFails, ProgIs, TheLink!Next, TheLink!Connect
<1>8. CASE Publish
    <2>1. pc'["prog"] = "clear"
        BY <1>8, Going DEF Publish, IInv
    <2> QED
        BY <1>3, <1>8, <2>1 DEF Publish, ProgIs, TheLink!link
<1>9. CASE ClearLost
    <2>1. pc'["prog"] = "flush"
        BY <1>9, Going DEF ClearLost, IInv
    <2> QED
        BY <1>3, <1>9, <2>1 DEF ClearLost, ProgIs, TheLink!Next, TheLink!Restore
<1> QED
    BY <1>4, <1>5, <1>6, <1>7, <1>8, <1>9

\* a new reader runs once the old one is dead
LEMMA ConnectLinks ==
    ASSUME IInv, Connect
    PROVE  TheLink!Connect
<1> USE ThreadsDiffer DEF pointers
<1>1. PICK c \in Contexts : pc' = [pc EXCEPT !["prog"] = "publish", ![c] = "idle"]
    BY DEF Connect
<1>2. /\ pc'["prog"] = "publish" /\ pc'[c] = "idle"
      /\ \A u \in Threads \ {"prog", c} : pc'[u] = pc[u]
    BY <1>1 DEF IInv, PcOK
<1>3. \A d \in Contexts : pc[d] = "dead"
    BY DeadButOne DEF Connect, IInv, Place
<1>4. ReaderIs = "dead" /\ ReaderIs' = "runs"
    BY <1>2, <1>3 DEF ReaderIs
<1> QED
    BY <1>2, <1>4 DEF Connect, ProgIs, TheLink!Connect

\* the reconnect of input.c and dmxdriver.c, line by line, keeps what the
\* reader and prog_runner promise each other
THEOREM WidgetImplementsLink == Spec => ImplementsLink
<1>1. Init => TheLink!Init
    <2> SUFFICES ASSUME Init PROVE TheLink!Init
        OBVIOUS
    <2>1. /\ \A t \in Threads : pc[t] = IF t = "prog" THEN "wait"
                                 ELSE IF t \in {"midi", mk2c} THEN "idle" ELSE "dead"
          /\ mk2c \in Contexts /\ mk2c # "prog"
        BY ThreadsDiffer DEF Init
    <2> QED
        BY <2>1, ThreadsDiffer DEF Init, ReaderIs, ProgIs, TheLink!Init
<1>2. IInv /\ [Next]_vars => [TheLink!Next]_TheLink!link
    <2> SUFFICES ASSUME IInv, [Next]_vars PROVE [TheLink!Next]_TheLink!link
        OBVIOUS
    <2>1. CASE prog_runner
        BY <2>1, ProgLinks, ConnectLinks, HandlerLinks, ThreadsDiffer
           DEF prog_runner, TheLink!Next
    <2>2. ASSUME NEW t \in {"midi"} \cup Contexts, Input(t) \/ Handler(t)
          PROVE  [TheLink!Next]_TheLink!link
        <3>1. t \in Readers /\ t \in Threads
            BY ThreadsDiffer DEF Readers
        <3> QED
            BY <2>2, <3>1, HandlerLinks DEF Handler, TheLink!Next
    <2>3. ASSUME NEW c \in Contexts, Fail(c) \/ error_step(c)
          PROVE  [TheLink!Next]_TheLink!link
        BY <2>3, EndLinks DEF TheLink!Next
    <2>4. CASE UNCHANGED vars
        BY <2>4 DEF vars, ReaderIs, ProgIs, TheLink!link
    <2> QED
        BY <2>1, <2>2, <2>3, <2>4 DEF Next
<1> QED
    BY <1>1, <1>2, Invariance, PTL DEF Spec, ImplementsLink, TheLink!Spec

=============================================================================
