----------------------------- MODULE MCWatchdog -----------------------------
\* The constants of Watchdog for TLC: the program's own numbers, in rounds of
\* five seconds.
EXTENDS Watchdog

Threads == {"dmx", "net", "prog"}

=============================================================================
