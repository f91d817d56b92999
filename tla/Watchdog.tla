------------------------------ MODULE Watchdog ------------------------------
(***************************************************************************)
(* The two watchdogs.  In dmxmain watchdog_runner looks every five seconds *)
(* whether the three threads have given a sign of life, and if so sends    *)
(* SIGWINCH to its parent.  The parent, dmxdog, starts dmxmain, kills it   *)
(* when no signal came in thirty seconds, and reboots the machine when it  *)
(* fails too often.                                                        *)
(*                                                                         *)
(* A tick of the clock is one round of watchdog_runner.  Time passes in    *)
(* dmxdog's two sleeps and between the end of one and its next look at the *)
(* clock: a SIGWINCH that comes there is forgotten before the next sleep.  *)
(* From that look to waitpid no time passes.                               *)
(***************************************************************************)
EXTENDS Integers

CONSTANTS
    Watched,        \* the threads that must give a sign of life
    SleepRounds,    \* sleep(30)
    FailWindow,     \* how long a failure counts: 300 seconds
    MaxFailures,    \* that lead to a reboot
    MaxStart        \* bound of the time that dmxmain's start takes

ASSUME WatchdogAssumption ==
    /\ SleepRounds \in Nat \ {0} /\ FailWindow \in Nat /\ MaxFailures \in Nat \ {0}
    /\ MaxStart \in 0 .. SleepRounds - 2

VARIABLES
    child,          \* dmxmain
    started,        \* how long it has been starting
    signed,         \* the threads that have given a sign of life in this round
    ok,
    doomed,         \* it has been sent SIGTERM
    pc,             \* of dmxdog
    pid,            \* dmxdog knows that it has a child
    got_sigwinch,
    left,           \* of the sleep, or until the next look at the clock
    failures,
    last_fail,      \* how long ago; no longer than it matters
    streak          \* failures that came no further apart than FailWindow

dmxmain == <<child, started, signed, ok, doomed>>
counts == <<failures, last_fail, streak>>
dmxdog == <<pc, pid, got_sigwinch, left, counts>>
vars == <<dmxmain, dmxdog>>

Init ==
    /\ child = "none" /\ started = 0 /\ signed = {} /\ ok = TRUE /\ doomed = FALSE
    /\ pc = "top" /\ pid = FALSE /\ got_sigwinch = FALSE /\ left = 0
    /\ failures = 0 /\ last_fail = FailWindow + 1 /\ streak = 0

Least(a, b) == IF a < b THEN a ELSE b

-----------------------------------------------------------------------------
(* dmxmain.                                                                *)

\* init_communications is done, or has aborted because there is no widget
StartDone ==
    /\ child = "starting"
    /\ child' \in {"running", "dead"}
    /\ UNCHANGED <<started, signed, ok, doomed, dmxdog>>

\* watchdog_dmx_pong, watchdog_net_pong, watchdog_prog_pong
Pong(t) ==
    /\ child = "running" /\ ~doomed
    /\ t \notin signed
    /\ signed' = signed \cup {t}
    /\ UNCHANGED <<child, started, ok, doomed, dmxdog>>

\* a failed assertion, or what SIGTERM and SIGKILL do
Dies ==
    /\ child \in {"starting", "running"}
    /\ child' = "dead"
    /\ UNCHANGED <<started, signed, ok, doomed, dmxdog>>

\* The end of a round.  A thread that missed one is never forgiven.
Round ==
    IF child = "running" /\ ~doomed
    THEN /\ ok' = (ok /\ signed = Watched)
         /\ got_sigwinch' = (got_sigwinch \/ ok')
         /\ signed' = {}
    ELSE UNCHANGED <<ok, got_sigwinch, signed>>

\* time passes; SIGWINCH ends sleep(30)
Tick ==
    /\ pc \in {"top", "sleep", "term"} /\ left > 0
    /\ pc = "sleep" => ~got_sigwinch
    /\ left' = left - 1
    /\ child = "starting" => started < MaxStart
    /\ started' = IF child = "starting" THEN started + 1 ELSE started
    /\ Round
    /\ last_fail' = Least(last_fail + 1, FailWindow + 1)
    /\ UNCHANGED <<child, doomed, pc, pid, failures, streak>>

-----------------------------------------------------------------------------
(* dmxdog's loop.                                                          *)

Failed(before) ==
    /\ failures' = before + 1
    /\ last_fail' = 0
    /\ streak' = IF last_fail <= FailWindow THEN streak + 1 ELSE 1

\* (seeded error) failures are never forgotten
Counted_Forever == failures

\* failures' value after the test on now - last_fail
Counted == IF last_fail > FailWindow THEN 0 ELSE failures

Fork ==
    \/ /\ child' = "starting"
       /\ started' = 0 /\ signed' = {} /\ ok' = TRUE /\ doomed' = FALSE
       /\ pc' = "forked"
       /\ failures' = Counted
       /\ UNCHANGED <<last_fail, streak>>
    \/ /\ Failed(Counted)              \* fork has failed
       /\ UNCHANGED <<dmxmain, pc>>

Top ==
    /\ pc = "top"
    /\ \/ /\ Counted >= MaxFailures
          /\ pc' = "reboot"
          /\ failures' = Counted
          /\ UNCHANGED <<dmxmain, last_fail, streak>>
       \/ /\ Counted < MaxFailures /\ ~pid
          /\ Fork
       \/ /\ Counted < MaxFailures /\ pid
          /\ pc' = "reap"
          /\ failures' = Counted
          /\ UNCHANGED <<dmxmain, last_fail, streak>>
    /\ UNCHANGED <<pid, got_sigwinch, left>>

\* fork's result is assigned
Forked ==
    /\ pc = "forked"
    /\ pid' = TRUE
    /\ pc' = "reap"
    /\ UNCHANGED <<dmxmain, got_sigwinch, left, counts>>

\* (seeded error) the sleep is as short as a round of the other watchdog
Sleep_Short ==
    /\ got_sigwinch' = FALSE
    /\ pc' = "sleep"
    /\ left' = 1

Sleep ==
    /\ got_sigwinch' = FALSE
    /\ pc' = "sleep"
    /\ left' = SleepRounds

\* waitpid returns -1: a failure counts, and pid is kept
WaitFails ==
    /\ pc' = "top"
    /\ Failed(failures)
    /\ UNCHANGED <<child, pid, got_sigwinch, left>>

\* (seeded error) pid stays that of the child that has ended
Reap_PidKept ==
    /\ pc = "reap"
    /\ \/ /\ child = "dead"
          /\ child' = "none"
          /\ pc' = "top"
          /\ Failed(failures)
          /\ UNCHANGED <<pid, got_sigwinch, left>>
       \/ WaitFails
       \/ /\ child # "dead"
          /\ Sleep
          /\ UNCHANGED <<child, pid, counts>>
    /\ UNCHANGED <<started, signed, ok, doomed>>

\* waitpid(WNOHANG), and sleep(30) if the child still runs
Reap ==
    /\ pc = "reap"
    /\ \/ /\ child = "dead"
          /\ child' = "none"
          /\ pid' = FALSE
          /\ pc' = "top"
          /\ Failed(failures)
          /\ UNCHANGED <<got_sigwinch, left>>
       \/ WaitFails
       \/ /\ child # "dead"
          /\ Sleep
          /\ UNCHANGED <<child, pid, counts>>
    /\ UNCHANGED <<started, signed, ok, doomed>>

\* The sleep is over.  Until dmxdog looks at the clock again at most one round
\* ends: sleep(3), or what it takes to come round, is no longer.
Awake ==
    /\ pc = "sleep"
    /\ \/ /\ got_sigwinch
          /\ pc' = "top"
          /\ left' \in {0, 1}
          /\ UNCHANGED doomed
       \/ /\ ~got_sigwinch /\ left = 0
          /\ pc' = "term"
          /\ doomed' = TRUE
          /\ left' \in {0, 1}
    /\ UNCHANGED <<child, started, signed, ok, pid, got_sigwinch, counts>>

\* SIGKILL
Kill ==
    /\ pc = "term"
    /\ pc' = "top"
    /\ UNCHANGED <<dmxmain, pid, got_sigwinch, left, counts>>

\* handle_sigterm, in dmxdog: the child is killed too, if its pid is known
Terminated ==
    /\ pc \notin {"gone", "reboot"}
    /\ pc' = "gone"
    /\ doomed' = (doomed \/ pid)
    /\ UNCHANGED <<child, started, signed, ok, pid, got_sigwinch, left, counts>>

Dog == Top \/ Forked \/ Reap \/ Awake \/ Kill

Next ==
    \/ StartDone
    \/ \E t \in Watched : Pong(t)
    \/ Dies
    \/ Tick
    \/ Dog
    \/ Terminated

\* Time passes, dmxdog runs, dmxmain's start ends, and a signal that kills kills.
Fairness ==
    /\ WF_vars(Tick)
    /\ WF_vars(Dog)
    /\ WF_vars(StartDone)
    /\ WF_vars(doomed /\ Dies)

Spec == Init /\ [][Next]_vars
FairSpec == Spec /\ Fairness

-----------------------------------------------------------------------------
(* What must hold.                                                         *)

\* dmxmain is killed only when it is dead already or one of its threads has
\* missed a round: the signals, every five seconds, never miss a sleep of
\* dmxdog, whenever dmxmain was started and however the two rounds meet.
KilledForCause == pc = "term" => child = "dead" \/ ~ok

\* The machine is rebooted only after MaxFailures failures none of which came
\* more than FailWindow after the one before: rare failures do not add up.
RebootForCause == pc = "reboot" => streak >= MaxFailures

\* A dmxmain that has died, or one of whose threads hangs, is replaced, unless
\* dmxdog is stopped or reboots the machine.
Replaced ==
    (child = "dead" \/ ~ok) ~> (child = "starting" \/ pc \in {"gone", "reboot"})

=============================================================================
