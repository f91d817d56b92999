------------------------------- MODULE Widget -------------------------------
(***************************************************************************)
(* The DMX widget's life: the context mk2c points at, the thread that      *)
(* reads from it, the threads that send through it, and the program        *)
(* thread that tears a failed context down and connects a new one while    *)
(* the others run.  Frames and levels are left to Desk; here the two       *)
(* mutexes, the pointer and the order of single steps matter.              *)
(*                                                                         *)
(* malloc may return memory that was freed, so a new context may be where  *)
(* an old one was.  send_dmx reads mk2c twice, once to compare it with     *)
(* NULL and once to pass it on: what it passes may be NULL or freed.  The  *)
(* first ends the program, the second may, and then nothing moves here.    *)
(***************************************************************************)
EXTENDS Integers, FiniteSets

CONSTANTS
    Contexts,   \* places a mk2_pro_context can be at; also its reader thread
    NULL,
    None        \* no thread holds the mutex, no pointer was loaded

ASSUME WidgetAssumption ==
    /\ Contexts # {}
    /\ {NULL, None, "prog", "midi"} \cap Contexts = {}
    /\ NULL # None
    /\ None \notin {"prog", "midi"}

VARIABLES
    mk2c,                   \* the pointer all senders use
    fresh,                  \* what init_dmx_usb_mk2_pro is about to return
    live,                   \* the contexts that are allocated
    mk2c_lost,
    early,                  \* the last failure came before mk2c_lost was cleared
    dmxout_dirty,
    stepmtx,
    dmxout_sendbuf_mtx,
    using,                  \* the pointer a sender has passed to mk2_send_dmx
    pc

pointers == <<mk2c, fresh, live>>
vars == <<pointers, mk2c_lost, early, dmxout_dirty, stepmtx, dmxout_sendbuf_mtx, using, pc>>

Threads == {"prog", "midi"} \cup Contexts

SenderLabels == {"idle", "led", "raw", "flush", "test", "load", "send", "crashed"}

TypeOK ==
    /\ mk2c \in Contexts \cup {NULL}
    /\ fresh \in Contexts \cup {NULL}
    /\ live \subseteq Contexts
    /\ mk2c_lost \in BOOLEAN /\ early \in BOOLEAN /\ dmxout_dirty \in BOOLEAN
    /\ stepmtx \in {"prog", None}
    /\ dmxout_sendbuf_mtx \in Threads \cup {None}
    /\ using \in [Threads -> Contexts \cup {NULL, None}]
    /\ pc["prog"] \in {"wait", "render", "reconnect", "join", "init", "publish",
                       "clear", "flush", "test", "load", "send"}
    /\ pc["midi"] \in SenderLabels
    /\ \A c \in Contexts : pc[c] \in SenderLabels \cup {"error", "dead"}

Goto(t, label) == pc' = [pc EXCEPT ![t] = label]

\* where a thread goes on after its send; prog_runner then sleeps
Returned(t) == IF t = "prog" THEN "wait" ELSE "idle"
StepMtxAfter(t) == IF t = "prog" THEN None ELSE stepmtx

\* init_communications has connected a widget, prog_runner sleeps
Init ==
    /\ mk2c \in Contexts
    /\ fresh = NULL
    /\ live = {mk2c}
    /\ mk2c_lost = FALSE
    /\ early = FALSE
    /\ dmxout_dirty = FALSE
    /\ stepmtx = None
    /\ dmxout_sendbuf_mtx = None
    /\ using = [t \in Threads |-> None]
    /\ pc = [t \in Threads |-> IF t = "prog" THEN "wait"
                               ELSE IF t \in {"midi", mk2c} THEN "idle" ELSE "dead"]

-----------------------------------------------------------------------------
(* The MIDI thread and the widget's reader: one change, then the flush.    *)

Input(t) ==
    /\ pc[t] = "idle"
    /\ \E handler \in {"led", "raw", "flush"} : Goto(t, handler)
    /\ UNCHANGED <<pointers, mk2c_lost, early, dmxout_dirty, stepmtx,
                   dmxout_sendbuf_mtx, using>>

\* seeded error: a return that leaves stepmtx locked
Led_StaysLocked(t) ==
    /\ pc[t] = "led" /\ stepmtx = None
    /\ stepmtx' = t
    /\ Goto(t, "flush")
    /\ UNCHANGED <<pointers, mk2c_lost, early, dmxout_dirty, dmxout_sendbuf_mtx, using>>

\* a handler that needs stepmtx
Led(t) ==
    /\ pc[t] = "led" /\ stepmtx = None
    /\ Goto(t, "flush")
    /\ UNCHANGED <<pointers, mk2c_lost, early, dmxout_dirty, stepmtx,
                   dmxout_sendbuf_mtx, using>>

\* a handler that writes to the frame
Raw(t) ==
    /\ pc[t] = "raw" /\ dmxout_sendbuf_mtx = None
    /\ dmxout_dirty' = TRUE
    /\ Goto(t, "flush")
    /\ UNCHANGED <<pointers, mk2c_lost, early, stepmtx, dmxout_sendbuf_mtx, using>>

-----------------------------------------------------------------------------
(* flush_dmxout_sendbuf and send_dmx, for any thread.                      *)

FlushNothing(t) ==
    /\ pc[t] = "flush" /\ dmxout_sendbuf_mtx = None /\ ~dmxout_dirty
    /\ Goto(t, Returned(t))
    /\ stepmtx' = StepMtxAfter(t)
    /\ UNCHANGED <<pointers, mk2c_lost, early, dmxout_dirty, dmxout_sendbuf_mtx, using>>

FlushLock(t) ==
    /\ pc[t] = "flush" /\ dmxout_sendbuf_mtx = None /\ dmxout_dirty
    /\ dmxout_sendbuf_mtx' = t
    /\ dmxout_dirty' = FALSE
    /\ Goto(t, "test")
    /\ UNCHANGED <<pointers, mk2c_lost, early, stepmtx, using>>

\* seeded error: a return that leaves the mutex locked
TestNull_StaysLocked(t) ==
    /\ pc[t] = "test" /\ mk2c = NULL
    /\ stepmtx' = StepMtxAfter(t)
    /\ Goto(t, Returned(t))
    /\ UNCHANGED <<pointers, mk2c_lost, early, dmxout_dirty, dmxout_sendbuf_mtx, using>>

\* send_dmx: if(mk2c != NULL)
TestNull(t) ==
    /\ pc[t] = "test" /\ mk2c = NULL
    /\ dmxout_sendbuf_mtx' = None
    /\ stepmtx' = StepMtxAfter(t)
    /\ Goto(t, Returned(t))
    /\ UNCHANGED <<pointers, mk2c_lost, early, dmxout_dirty, using>>

Test(t) ==
    /\ pc[t] = "test" /\ mk2c # NULL
    /\ Goto(t, "load")
    /\ UNCHANGED <<pointers, mk2c_lost, early, dmxout_dirty, stepmtx,
                   dmxout_sendbuf_mtx, using>>

\* mk2c is read once more, as the argument of mk2_send_dmx
Load(t) ==
    /\ pc[t] = "load"
    /\ using' = [using EXCEPT ![t] = mk2c]
    /\ Goto(t, "send")
    /\ UNCHANGED <<pointers, mk2c_lost, early, dmxout_dirty, stepmtx, dmxout_sendbuf_mtx>>

\* the write through the pointer; its result is ignored
Send(t) ==
    /\ pc[t] = "send" /\ using[t] # NULL
    /\ using' = [using EXCEPT ![t] = None]
    /\ dmxout_sendbuf_mtx' = None
    /\ stepmtx' = StepMtxAfter(t)
    /\ Goto(t, Returned(t))
    /\ UNCHANGED <<pointers, mk2c_lost, early, dmxout_dirty>>

\* the pointer leads nowhere: NULL must end the program, freed memory may
SendFaults(t) ==
    /\ pc[t] = "send" /\ using[t] \notin live
    /\ Goto(t, "crashed")
    /\ UNCHANGED <<pointers, mk2c_lost, early, dmxout_dirty, stepmtx,
                   dmxout_sendbuf_mtx, using>>

SendFrame(t) ==
    \/ FlushNothing(t) \/ FlushLock(t)
    \/ TestNull(t) \/ Test(t) \/ Load(t) \/ Send(t) \/ SendFaults(t)

-----------------------------------------------------------------------------
(* The reader's end.                                                       *)

Fail(c) ==
    /\ pc[c] = "idle"
    /\ mk2c_lost' = TRUE
    /\ early' = (pc["prog"] \in {"publish", "clear"})
    /\ Goto(c, "error")
    /\ UNCHANGED <<pointers, dmxout_dirty, stepmtx, dmxout_sendbuf_mtx, using>>

error_step(c) ==
    /\ pc[c] = "error" /\ stepmtx = None
    /\ Goto(c, "dead")
    /\ UNCHANGED <<pointers, mk2c_lost, early, dmxout_dirty, stepmtx,
                   dmxout_sendbuf_mtx, using>>

-----------------------------------------------------------------------------
(* The program thread.                                                     *)

\* pthread_cond_timedwait returns with stepmtx, at the latest when nextstep is past
Resume ==
    /\ pc["prog"] = "wait" /\ stepmtx = None
    /\ stepmtx' = "prog"
    /\ Goto("prog", "render")
    /\ UNCHANGED <<pointers, mk2c_lost, early, dmxout_dirty, dmxout_sendbuf_mtx, using>>

\* seeded error: a frame that no other thread touched is not sent
Render_WhenDirty ==
    /\ pc["prog"] = "render" /\ dmxout_sendbuf_mtx = None
    /\ \/ /\ mk2c_lost
          /\ dmxout_dirty' = TRUE
          /\ Goto("prog", "reconnect")
          /\ UNCHANGED <<dmxout_sendbuf_mtx, stepmtx>>
       \/ /\ ~mk2c_lost
          /\ Goto("prog", IF dmxout_dirty THEN "test" ELSE "wait")
          /\ dmxout_sendbuf_mtx' = IF dmxout_dirty THEN "prog" ELSE None
          /\ stepmtx' = IF dmxout_dirty THEN "prog" ELSE None
          /\ UNCHANGED dmxout_dirty
    /\ UNCHANGED <<pointers, mk2c_lost, early, using>>

Render ==
    /\ pc["prog"] = "render" /\ dmxout_sendbuf_mtx = None
    /\ \/ /\ mk2c_lost
          /\ dmxout_dirty' = TRUE
          /\ Goto("prog", "reconnect")
          /\ UNCHANGED dmxout_sendbuf_mtx
       \/ /\ ~mk2c_lost
          /\ dmxout_sendbuf_mtx' = "prog"
          /\ Goto("prog", "test")
          /\ UNCHANGED dmxout_dirty
    /\ UNCHANGED <<pointers, mk2c_lost, early, stepmtx, using>>

\* reconnect_if_needed: tear down, unless the last connection failed
Reconnect ==
    /\ pc["prog"] = "reconnect"
    /\ Goto("prog", IF mk2c = NULL THEN "init" ELSE "join")
    /\ UNCHANGED <<pointers, mk2c_lost, early, dmxout_dirty, stepmtx,
                   dmxout_sendbuf_mtx, using>>

\* seeded errors: the reader is not joined; the context is not freed
Teardown_Unjoined ==
    /\ pc["prog"] = "join"
    /\ live' = live \ {mk2c}
    /\ Goto("prog", "init")
    /\ UNCHANGED <<mk2c, fresh, mk2c_lost, early, dmxout_dirty, stepmtx,
                   dmxout_sendbuf_mtx, using>>
Teardown_Leaks ==
    /\ pc["prog"] = "join" /\ pc[mk2c] = "dead"
    /\ Goto("prog", "init")
    /\ UNCHANGED <<pointers, mk2c_lost, early, dmxout_dirty, stepmtx,
                   dmxout_sendbuf_mtx, using>>

\* pthread_join, then the context is freed; mk2c still points at it
Teardown ==
    /\ pc["prog"] = "join" /\ pc[mk2c] = "dead"
    /\ live' = live \ {mk2c}
    /\ Goto("prog", "init")
    /\ UNCHANGED <<mk2c, fresh, mk2c_lost, early, dmxout_dirty, stepmtx,
                   dmxout_sendbuf_mtx, using>>

\* init_dmx_usb_mk2_pro: the new reader runs before the pointer is returned
Connect ==
    /\ pc["prog"] = "init"
    /\ \E c \in Contexts \ live :
        /\ live' = live \cup {c}
        /\ fresh' = c
        /\ pc' = [pc EXCEPT !["prog"] = "publish", ![c] = "idle"]
    /\ UNCHANGED <<mk2c, mk2c_lost, early, dmxout_dirty, stepmtx, dmxout_sendbuf_mtx, using>>

\* seeded error: mk2c_lost is cleared whether or not there is a new widget
ConnectFails_ClearsLost ==
    /\ pc["prog"] = "init"
    /\ mk2c' = NULL
    /\ mk2c_lost' = FALSE
    /\ stepmtx' = None
    /\ Goto("prog", "wait")
    /\ UNCHANGED <<fresh, live, early, dmxout_dirty, dmxout_sendbuf_mtx, using>>

\* seeded error: the pointer to the freed context is kept
ConnectFails_KeepsPointer ==
    /\ pc["prog"] = "init"
    /\ stepmtx' = None
    /\ Goto("prog", "wait")
    /\ UNCHANGED <<pointers, mk2c_lost, early, dmxout_dirty, dmxout_sendbuf_mtx, using>>

ConnectFails ==
    /\ pc["prog"] = "init"
    /\ mk2c' = NULL
    /\ stepmtx' = None
    /\ Goto("prog", "wait")
    /\ UNCHANGED <<fresh, live, mk2c_lost, early, dmxout_dirty, dmxout_sendbuf_mtx, using>>

Publish ==
    /\ pc["prog"] = "publish"
    /\ mk2c' = fresh
    /\ fresh' = NULL
    /\ Goto("prog", "clear")
    /\ UNCHANGED <<live, mk2c_lost, early, dmxout_dirty, stepmtx, dmxout_sendbuf_mtx, using>>

\* seeded error: no flush after a reconnect
ClearLost_NoFlush ==
    /\ pc["prog"] = "clear"
    /\ mk2c_lost' = FALSE
    /\ stepmtx' = None
    /\ Goto("prog", "wait")
    /\ UNCHANGED <<pointers, early, dmxout_dirty, dmxout_sendbuf_mtx, using>>

ClearLost ==
    /\ pc["prog"] = "clear"
    /\ mk2c_lost' = FALSE
    /\ Goto("prog", "flush")
    /\ UNCHANGED <<pointers, early, dmxout_dirty, stepmtx, dmxout_sendbuf_mtx, using>>

prog_runner ==
    \/ Resume \/ Render \/ Reconnect \/ Teardown \/ Connect \/ ConnectFails
    \/ Publish \/ ClearLost \/ SendFrame("prog")

-----------------------------------------------------------------------------
Handler(t) == Led(t) \/ Raw(t) \/ SendFrame(t)

Crashed == \E t \in Threads : pc[t] = "crashed"

Next ==
    /\ ~Crashed
    /\ \/ prog_runner
       \/ \E t \in {"midi"} \cup Contexts : Input(t) \/ Handler(t)
       \/ \E c \in Contexts : Fail(c) \/ error_step(c)

Spec == Init /\ [][Next]_vars

(***************************************************************************)
(* Fairness: every thread that can run does; whoever waits for a mutex     *)
(* that is free again and again gets it in the end.  Input and failures    *)
(* need not happen.                                                        *)
(***************************************************************************)
Fairness ==
    /\ WF_vars(~Crashed /\ prog_runner)
    /\ SF_vars(~Crashed /\ Render) /\ SF_vars(~Crashed /\ SendFrame("prog"))
    /\ \A t \in {"midi"} \cup Contexts : SF_vars(~Crashed /\ Handler(t))
    /\ \A c \in Contexts : SF_vars(~Crashed /\ error_step(c))

FairSpec == Spec /\ Fairness

-----------------------------------------------------------------------------
(* Properties.                                                             *)

Failed(c) == pc[c] \in {"error", "dead"}

(***************************************************************************)
(* However often the widget is lost, and wherever malloc puts the next     *)
(* context, no two readers ever run: their callbacks share inputbuf and    *)
(* receiving_changes as one thread.                                        *)
(***************************************************************************)
OneReader == Cardinality({c \in Contexts : pc[c] # "dead"}) <= 1

(***************************************************************************)
(* A reconnect frees every context once.  None leaks: what is allocated is *)
(* the context in use or the one being connected.  None is freed twice:    *)
(* mk2c points at freed memory only between the teardown and the next      *)
(* assignment to it, so the next teardown finds a live context or NULL.    *)
(***************************************************************************)
FreedOnce ==
    /\ \A c \in live : c = mk2c \/ (pc["prog"] = "publish" /\ c = fresh)
    /\ pc["prog"] \in {"init", "publish"} \/ mk2c \in live \cup {NULL}

(***************************************************************************)
(* Teardown and the assignments to mk2c run without dmxout_sendbuf_mtx, so *)
(* a sender may hold a freed context or NULL and crash; but never after    *)
(* the reconnect is over: the flush at its end waits for that sender.      *)
(* prog_runner itself never sends through either.                          *)
(***************************************************************************)
BadOnlyDuringReconnect ==
    \A t \in Threads : pc[t] \in {"send", "crashed"} /\ using[t] \notin live =>
        t # "prog" /\ (mk2c_lost \/ pc["prog"] = "flush")

(***************************************************************************)
(* A failure is never forgotten, unless it comes in the window between the *)
(* start of the new reader and the line that clears mk2c_lost.             *)
(***************************************************************************)
FailureKept ==
    mk2c = NULL \/ Failed(mk2c) => mk2c_lost \/ early

(***************************************************************************)
(* The reconnect, line by line and with its pointers, is the one that      *)
(* Desk's two steps stand for: both implement Link.                        *)
(***************************************************************************)
ReaderIs ==
    IF \E c \in Contexts : pc[c] = "error" THEN "failed"
    ELSE IF \A c \in Contexts : pc[c] = "dead" THEN "dead"
    ELSE "runs"
ProgIs ==
    CASE pc["prog"] = "wait" -> "sleeps"
      [] pc["prog"] \in {"reconnect", "join", "init"} -> "reconnects"
      [] pc["prog"] \in {"publish", "clear"} -> "restores"
      [] OTHER -> "renders"

TheLink == INSTANCE Link WITH reader <- ReaderIs, lost <- mk2c_lost, prog <- ProgIs

ImplementsLink == TheLink!Spec

\* a flush is served even while the program thread is stuck in a reconnect
FlushServed ==
    \A t \in {"midi"} \cup Contexts : pc[t] = "flush" ~> pc[t] = "idle" \/ Crashed

(***************************************************************************)
(* A frame flushed while the widget was lost is gone, its dirty flag too,  *)
(* and the flush after a reconnect may find nothing to send.  Still the    *)
(* widget that came back is sent a frame, if not lost again: prog_runner   *)
(* sends every frame it renders, and its sleep ends.                       *)
(***************************************************************************)
Sending == \E t \in Threads : pc[t] = "send" /\ using[t] = mk2c /\ mk2c \in live
FrameFollowsReconnect ==
    pc["prog"] = "flush" /\ ~mk2c_lost ~> Sending \/ mk2c_lost \/ Crashed

(***************************************************************************)
(* dmxdriver.c says "Signalling error and killing thread.": the failed     *)
(* reader dies.                                                            *)
(***************************************************************************)
FailedReaderDies ==
    \A c \in Contexts : pc[c] = "error" ~> pc[c] = "dead" \/ Crashed

=============================================================================
