# Verification of dmxd, a DMX light desk

dmxd (`src/src/`) turns the faders of a MIDI desk and of a DMX widget, commands of
network clients and an uploaded light program into one frame of 512 DMX levels, and
sends that frame through the widget. This directory holds its TLA+ model, the TLC runs
over it and proofs checked by TLAPS.

## The system

| part | source | state | operations | talks to |
|---|---|---|---|---|
| desk | `dmxd.c` | `channel_flags`, `channel_overrides`, `channel_intensity`, `master_*`, `program_*`, `dmxout_sendbuf`, `dmxout_dirty` | one handler per kind of input (`update_input`), the frame loop (`prog_runner`), `flush_dmxout_sendbuf` | everything |
| input glue | `input.c` | `receiving_changes`, `mk2c`, `mk2c_lost` | `*_changed`, `*_input_completed`, `mk2c_error`, `reconnect_if_needed`, `send_dmx` | desk, widget driver, network (broadcast) |
| widget driver | `dmxdriver.c` | the context behind `mk2c`, its reader thread | connect, read, send, tear down | callbacks into the glue |
| colours | `colors.c` | none | `convert_color` | desk |
| network | `net.c` | connections, shared output buffers, fd sets, the poke pipe | accept, read, queue, write, drop, broadcast | `handle_data` of the desk |
| program upload | `dmxd.c`, `P*` commands | `new_programma*`, `programma*` | `PN`, `PS`, `PA` | frame loop |
| tempo | `dmxd.c` | `nextstep`, `programma_wait`, `tapsync` | BPM inputs, `B`, taps | frame loop |
| patch | `dmxd.c`, `D`, `M`, `R`, `G` | `handlers` | set, clear, dump | the handlers |
| MIDI readers | `mididriver.c`, `nanokontroldriver.c`, `usbmididriver.c` | a byte buffer | cut messages from it | glue |
| watchdog, supervisor | `dmxd.c`, `dmxdog.c` | three pong flags; a child and its failures | check, signal, restart, reboot | all threads |
| scripts | `scripts/*.php`, `config-in-*.sh` | none | produce programs and patches | files that are sent |

Threads: the program thread (`prog_runner`), a MIDI reader, the widget's reader, the
network thread, and `main`, which becomes the watchdog. Locks: `stepmtx` (held by the
program thread whenever it does not sleep in `pthread_cond_timedwait`),
`dmxout_sendbuf_mtx` (the frame), `callmtx` (held by the network thread whenever it is
not in `select`). Taken nested, the order is `callmtx`, `stepmtx`, `dmxout_sendbuf_mtx`.
`receiving_changes`, `mk2c_lost`, `mk2c`, `inputbuf` and `handlers` are shared without
a lock.

What is hard: which thread owes the next send (dirty flag, `receiving_changes`, signals
that are lost unless the program thread sleeps); a widget that fails while others send
through it and is replaced under them; buffers shared by clients whose sockets take
any number of bytes; commands cut into pieces; masters, blackout and a program that
act on the same frame. `PROJECT.json` lists each of these hazards at its line.

What makes each part correct:

- desk: at rest the stage shows what the faders ask for; nothing shines in a blackout
  that should not; no fader movement is lost; no program row is read that is not there.
- widget: one reader at a time, no context leaked, freed twice or used after a reconnect, no
  failure forgotten, nobody blocked for ever, a frame for the widget that came back.
- network: buffers live exactly as long as somebody needs them, streams are in order and
  whole, no command is left lying, nobody is dropped without a reason.
- upload: each block of memory has one owner, and no command changes the program that runs.
- tempo: the next step is never further away than a step takes, and the wait between steps
  never vanishes.
- patch: a reader steers the channel that was named last for its input; the two inputs of
  an LED fixture name each other.
- watchdogs: `dmxmain` is killed and the machine rebooted only with a cause; a `dmxmain` that
  hangs or dies is replaced.

## Modules

**Desk** is the desk with all its threads. `update_input(t)` is the disjunction of one
action per handler; a batch of a reader is `BeginBatch`, any number of `TakeInput` and
handler pairs, `Complete`, `Flush`. `TakeInput` stores the level (the first line of
`update_input`) before the handler gets its lock, as the code does. `Complete` and `Flush`
are separate because `receiving_changes` is cleared before the flush and the network
thread may read it in between; for the same reason the end of `handle_data` is
`NetCheck` and `Flush("net")`. `stepmtx` is not a variable: the program thread has it
except at `"start"` and `"wait"`, and nobody else keeps it across a step. Each critical
section of `dmxout_sendbuf_mtx` is one action. A signal sets `woken` only while the
program thread sleeps, so signals at other times are lost as with the real condition
variable; `Wake` may also happen unasked (spurious wake-ups). What the widget puts out is
`wire`; it is `Blank` from a failure to the next send. `mk2c_lost` clears and the flush
follows in `Restore`. Reader `"error"` and `"dead"` are the two halves of `mk2c_error`.
A write to a working widget may fail (`send_dmx`), which nobody notices; the ghost `unsent`
remembers that an older frame is out. Of the network commands `V`, `S` and `PA` change the
desk; any other (`NetOther`) only reaches the flush at the end of `handle_data`. `V` with
channel 0 fails the assertion at `dmxd.c:140` and ends the program (`NetNoChannel`).

- Abstracted: times (a sleep may end at any moment), feedback LEDs, the broadcast of
  frames (in Net), `B`/tap arithmetic (`Retime` keeps only the signal), the values of
  bytes to the levels a run lists.
- `DeskAssumption` types the constants. `PatchAssumption` states what the
  shipped configuration scripts produce: the two faders of an LED fixture name each other
  and come from one reader, fixtures neither overlap nor contain a directly set channel.
  A client can send a patch that breaks it; then `channel_flags` is changed under two
  different locks and the LED properties may fail. What commands can do to the
  handlers is in Patch.
- A failure of the new reader before `Restore` clears `mk2c_lost` is lost here as in the
  code: the widget then stays down, `wire` stays `Blank`, and nobody reconnects.

**Stage** is what Desk promises, without threads, locks and signals: somebody wants a frame
(`wanted`), a frame is composed of wanted levels, channel by channel (`composed`), and it is
shown whole or not at all (`lights`). Desk implements it (`ImplementsStage`) with the frame
that its faders, masters and program give for `wanted`, `dmxout_sendbuf` for `composed` and
`wire` for `lights`.

**Link** is what Desk and Widget both promise of a lost widget: its reader fails and says
so, dies only while the program thread sleeps, the program thread notices in a render,
waits in the reconnect until that reader is dead, and clears `mk2c_lost` only after a new
one was started. Desk takes the reconnect in two steps and without pointers, Widget in
single lines; that both implement Link (`ImplementsLink`, checked and proved) is the sense in
which Desk's coarse reconnect agrees with Widget's.

**Colors** is `convert_color` as an operator over the table of `colors.c`; MCDesk hands
it to Desk as the function `ConvertColor`.

**Widget** has the same threads but looks at single steps: comparing `mk2c` with NULL
(`Test`), reading it again (`Load`), the call through what was read (`Send`), the two mutexes
as variables, the context's allocation. One more step of detail than Desk is needed
because teardown and the senders overlap. A send through NULL must fault and one through
a freed context may (`SendFaults`); the program is then gone and nothing moves. `early` is a
ghost: the last failure came in the window between the new reader's start and
`mk2c_lost = 0`. `malloc` may reuse a freed context's place (two places suffice: the old
and the new one exist together at most).

**Net** is `net.c`. `Prepare`, `SelectReports`, `Listen`, `Control`, then for each client
`ReadNothing`/`ReadCommands`, `Write`, `Keep`/`Drop` are the body of `net_runner` in the
order of the code, with the countdown `n` of reported descriptors. The linked list of
clients is a sequence; `PlaceOf` is where the loop's pointer stands in it. `heap` is the set of
allocated `linkedbuf`s with their bytes and refcounts. `CutShared` keeps what the code
does: `memcpy` from the start of the buffer (`net.c:431`), so that client's bytes are
wrong from there on, although as many as they should be. `owed` (the bytes a client has yet to
get) and `shared_cut` (such a copy was made) are ghosts. Commands have lengths and are
accepted, refused or answered; their effect on the desk is in Desk. Each command that is
accepted ends with a flush, which pokes the pipe if it sends (`dmxd.c:593`, 190, 181): `ReadCommands`
adds any number of pokes up to that of the commands it handled. The network thread is the
only reader of the pipe, so when the pipe has no room for them it blocks for ever, with
`callmtx` (`ReadBlocks`).

**Patch** is `handlers[]` with what `D`, `M` and `R` store in it and what a reader sees. A command
is a list of stores (`todo`), done one at a time (`NextStore`), as the network thread takes
no lock; the first switches the LED partner off (`Unlink`), and a command that has not
arrived in full does only that. The data of a handler is a union in the code: `word` is
`raw_value.channel`, `led_2ch.other_input`, `laser.base_channel` and `tapsync.rising_edge`,
`base` is `led_2ch.base_channel`, and what an action without data leaves there is found by
the next one that looks. Channels are stored as they come (`dmxd.c:410`, 418, 421, 453), 0 included.
A reader finds an action (`LookUp`) and then uses the data (`Apply`), where
`dmx_channel_to_dmxindex` may refuse it. `named` (the channel that the last command to
rewrite an input named), `widowed` (LED inputs that commands have left without their
partner) and `torn` (the handler was being rewritten under the reader) are ghosts.
`HANDLE_BPM` stands for every action without data.

**Programma** is the upload with its memory: `heap` maps allocated blocks to their rows;
`New` frees and allocates, `Step` stores a row, `Activate` and `Swap` are `PA` before and after
it gets `stepmtx`. `Wake` and `Render` are the program thread. A bad use of memory sets
`fault` and ends the behaviour, because what a program does after it is anybody's guess.

**Tempo** is `nextstep` and `programma_wait`. Times are relative to the clock (`next_in`, `since`,
`gaps`), so that only differences that matter are states. `Encoded` and `Decoded` are how
`csv-parser.php` writes steps per beat and how `handle_data` reads them; `asked` is what the sheet
says. `Beat` is the recursive averaging of `tapsync_tap`. The oldest tap is moved to one
element past the array (`dmxd.c:200`); when it is read again it holds either that tap or what
was put there since, which `Tap` leaves open. `B` is two actions, `SetWait` and `ScaleWait`, as
the code stores `programma_wait` twice without a lock. `ahead` is a ghost that names the
two causes of a step that is late with a reason: `B`, and a clock set back. `hasty` is a ghost
too: a beat was tapped that is shorter than 127 * 127 microseconds, so that dividing it twice
by the steps per beat may leave nothing.

**Watchdog** is `watchdog_runner` in `dmxmain` and the whole of `dmxdog`'s loop. A `Tick` is a round
of five seconds. The child starts, runs, hangs (a thread gives no `Pong`) or dies; dmxdog
forks, assigns the result (`Forked` is a step of its own, as a signal may come before it),
reaps, or fails to (`WaitFails`: `waitpid` returns -1, which counts as a failure and keeps `pid`),
sleeps, and kills. Time passes in its sleeps and for at most one round between the end of one and
the next look at the clock; a SIGWINCH that comes there is forgotten, since `got_sigwinch` is
cleared before the next sleep. `streak` is a ghost: the failures that really came close together.

**MCDesk, MCWidget, MCNet, MCPatch, MCProgramma, MCTempo, MCWatchdog** give constants their
values. **DeskProofs, WidgetProofs, NetProofs, PatchProofs, ProgrammaProofs, TempoProofs,
WatchdogProofs** prove theorems; **SequenceLemmas** proves what NetProofs and TempoProofs need
of numbers, lists and folds. Operators marked "seeded error" in the modules are wrong
versions of the next definition, used to confirm that each property notices that error.

## Runs

| run | question | bounds | distinct states |
|---|---|---|---|
| `desk_stage` | Is the stage right at rest, dark in a blackout, are fixtures and masters where their faders are, with a widget that fails at any idle moment and writes that fail? Is every step one of Stage, and of Link? | one LED fixture, one raw channel, master, blackout; a client setting the raw channel, or channel 0; no program; 4 channels | 1.6 million |
| `desk_show` | The same for programs; are rows in bounds? | two programs (2 steps, 1 step), chase, run, BPM, tap, laser, an unpatched input, LED fixture over a program channel | 1.3 million |
| `desk_live` | Does a blackout reach the stage, does each handler finish? | master, blackout, two programs, 2 channels, widget that works | 31 000 |
| `widget` | Which contexts live and who sends through what across reconnects; are flushes served, does a returned widget get a frame; is every step one of Link? | two contexts, MIDI thread, reader, program thread | 1 500 |
| `widget_dies` | Does a failed reader die, as `dmxdriver.c:265` prints? No. | as `widget` | – |
| `net_output` | Refcounts, fd sets, the loop's count, streams, `maxsock` | two clients, frames of 2 bytes, answers of 1, one buffer per `writev`, up to 2 buffers before new output is started, one byte in the pipe | 1.8 million |
| `net_input` | Is a complete command left lying; who is dropped; does queued output leave? | one client, input buffer of 3, commands of length 1 to 4, up to two buffers in one `writev`, two bytes in the pipe, taken one at a time | 240 000 |
| `patch` | Does a reader use the channel named last, are LED partners mutual, when does the channel assertion fail? | three inputs, one channel and channel 0; LED, laser, `DEFAULT` and incomplete commands | 7.1 million |
| `programma` | Who owns each block, which bad uses of memory are there, does the running program keep its rows? | three blocks (interchangeable), sizes from 0 to 3 steps and 0 to 2 channels | 5 800 |
| `tempo` | Is a step further away than a step takes, can the wait vanish? | two tappers, levels for 60 and 120 bpm, 2 steps per beat and none, half-second ticks, a clock set back by half a second | 2.3 million |
| `tempo_sheet` | Is a sheet played with its steps per beat? No. | as `tempo`, a sheet with a step every two beats | – |
| `watchdog` | Is `dmxmain` killed, the machine rebooted, for a cause only; is what hangs replaced? | the program's own numbers in rounds of 5 s; a start of at most 4 rounds | 950 000 |

Why the bounds are enough. Handlers act on one input, one fixture or one channel, so one
of each kind meets all interactions, and two inputs share no more than a frame, a
mutex and a flag. Levels are the ends and the thresholds the code tests (64, 252); the
colour is one entry of the table with unequal parts. Two programs of unlike length and width
show a change of either while the program thread sleeps on a step that disappears. In Net two clients are the fewest
that share, two-byte frames the shortest that can be cut, one buffer per `writev` makes
the limit `PERSISTENT_IOVS` bite, and the command of 3 bytes exactly fills the buffer. The
named bounds of Net (`PipeSize`, `MaxUnread`, `MaxHeap`, `Talkers`, `Leavers`) are in
guards of the environment only, and of the poke, which blocks on a full pipe.
In `net_input` the pipe holds more than one read of it takes, as the real one does (65536 and 16
bytes), so pokes can pile up over rounds until a poke blocks.
In Patch three inputs are a pair and one that breaks into it; input 0 and the inputs above
the one channel are no channels, and neither is the 0 that a client may name, so a word that means an input shows when it is used as a
channel. In Programma three blocks hold the new program, the running one and one to spare
or to lack; rows are zero or not. In Tempo `MaxLate` and `MaxAhead` bound how late the
program thread gets its mutex and how far a step may be away, and a gap of `LongAgo` (two
ticks) or more counts as `LongAgo`; three remembered taps and at least two intervals keep both limits of the
averaging in reach. In Watchdog nothing is scaled down but `MaxStart`, the time
`init_communications` takes: a start that takes nearly all of dmxdog's sleep leaves no
round for a first sign of life (`WatchdogAssumption`).

Deadlock is checked except in `widget` and `widget_dies` (the reconnect deadlock really
stops every thread), in `net_output` and `net_input` (the network thread may block on its own
pipe), in `desk_stage`, `patch`, `programma`, `tempo` and `tempo_sheet` (a failed assertion or a bad
use of memory ends the program) and in `watchdog` (dmxdog may be stopped, or reboot the
machine).

### Fairness

- Desk: the program thread runs (WF), so each of its sleeps ends, by a signal or at
  `nextstep`. That a step cut short again and again still ends at `nextstep` is neither
  assumed nor shown. A handler that waits for `stepmtx` gets it although it is free only
  now and then (SF): the program thread sleeps in every round, and a mutex that passes a
  waiter over for ever would stall the real desk as well. A batch ends (SF on `Complete`): one read brings finitely
  many changes.
  All of this until a client names channel 0: the liveness properties are checked without it.
- Widget: the same, per thread, until a send crashes; input and failures need not happen.
- Net: the thread runs until it is blocked on its own pipe, which `QueuedLeaves` allows
  for; the reader that broadcast goes on to its poke; a connected client takes bytes
  again and again, or `writev` fails and it is dropped. Signals that interrupt
  `select` are not relied upon. Whether `handle_data` gets the desk's locks is Desk's
  question; after the reconnect deadlock the network thread stops too.
- Watchdog: time passes, dmxdog's loop runs, the start ends one way or the other, and a
  process that was sent a signal that kills dies. Signs of life need not come.

## Findings

**The failed reader does not die** (`widget_dies`). The widget's reader sets `mk2c_lost`, then
takes `stepmtx` in `error_step` to wake the program thread. If that thread is rendering
or wakes first, it sees `mk2c_lost`, keeps `stepmtx` and joins the reader, which
waits for `stepmtx`. From then on every handler that needs `stepmtx` and every network
command of that kind blocks. Handlers that do not (raw channels, lasers) and flushes still
run (`FlushServed`), but go to a lost widget. The reconnect works only when the reader
gets `stepmtx` during the program thread's sleep.

**Steps per beat are written one way and read another** (`tempo_sheet`).
`csv-parser.php:151` writes n beats per step (spb = -n) as `chr(spb + 128)`, a byte below 128;
`dmxd.c:503` takes a byte below 128 for that many steps per beat and only one from 128 on,
less 130, for beats per step. A sheet with `!spb 1/2` is played with 126 steps per beat; one with
`!spb 130` or `!spb 1/128` gets 0 steps per beat, the wait becomes 0 and the assertion of
`increment_timespec` ends the program (`WaitVanishes` allows exactly that cause).

What follows was seen in the models too; no document says otherwise, so no run is set up to
fail for it.

- *Network.* Partial writes of shared buffers copy the wrong end (`net.c:431`): without the
  exemption `~shared_cut[c]` TLC finds `StreamIntact` violated within two connected
  clients, one broadcast and one partial write.
- *A thread that waits for itself.* Each network command that sends a frame pokes the network
  thread's own pipe, with `callmtx` and `dmxout_sendbuf_mtx` held, and a round takes only 16 bytes out.
  Enough such commands fill the pipe, and then the thread waits for room that only it can
  make. Without `\/ pc = "blocked"` TLC finds `QueuedLeaves` violated.
- *Reconnect.* A flush by another thread while the program thread reconnects clears
  `dmxout_dirty`, so the flush of `Restore` sends nothing until the next render
  (`FrameFollowsReconnect` says that it comes). The same goes for a write that fails: the
  frame is not sent again before the next render.
- *NULL.* `send_dmx` compares `mk2c` with NULL and reads it again (`input.c:142`), and a reconnect
  that fails stores NULL without a lock (`input.c:92`). A sender in between sends through NULL, one that
  read earlier through freed memory. `BadOnlyDuringReconnect` says when.
- *Channel 0.* `V` with channel 0 ends the program at once, a patch to channel 0 at the next
  move of that fader (`dmxd.c:140`).
- *Upload.* `PN` without steps frees the new program and keeps the pointer, so that the next
  `PN` frees it again. `PA` frees the running program before it waits for `stepmtx`, while the
  program thread may read its row. A failed `calloc` goes unnoticed by `PA`. `FaultsKnown`
  states that there are no others.
- *Hasty taps.* `tapsync_tap` makes sure that the tapped beat is positive (`dmxd.c:215`), divides it by the
  steps per beat (218) and gives the result to `increment_timespec`, which asserts that it is
  positive (108). A client's newline is a tap, and newlines that arrive in one packet are taps a few
  microseconds apart: with four steps per beat, a beat of less than four microseconds becomes
  0. `WaitVanishes` without `hasty` could not be proved for this reason; the half-second ticks of
  `tempo` had hidden it. With `Tick = 1`, no jumps and a sheet of four steps per beat TLC finds the
  failed assertion (`crashed`) after three taps.
- *Tempo.* `PA` changes the steps per beat but not the wait, which stays the old program's until
  somebody sets the beat. A `B` leaves `nextstep` where the old, longer wait had put it.
- *Patch.* Re-patching one input of a pair, or a command cut short, leaves the other
  pointing at an input that no longer knows it (`widowed`); a reader that looks an input up while it is
  patched may use the channel of another action and fail an assertion (`torn`).
- *Watchdogs.* `ok` is never set again, so a `dmxmain` that missed a single round is killed although
  it has recovered. A lost widget ends the signs of life of its reader, and a start
  without a widget aborts: five such failures reboot the machine. So do five failures of
  `fork` in a row, at once, as no sleep separates them. A SIGTERM between `fork` and the
  assignment of its result leaves the child running.

## Proofs

Each theorem is about all values of the constants that the module's assumptions admit and
about arbitrarily many steps. `DeskProofs` is about every patch, program, set of levels
and number of channels that `DeskAssumption` and `PatchAssumption` admit.

- *Types* (`TypeCorrect`, `TypesHold`, `RowsHold`). `TypeOK` alone is not inductive: the
  frame that `Render` composes is a frame only if the step it reads exists, and a handler
  is typed only if it has an input. `TypeInv` adds `RowInProgram`, "the program thread
  starts at step 0" and `CurOK` (a reader has an input exactly while it handles one, and it
  is its own). `apply_intensity` maps bytes to bytes by lemma `ScaledByte`.
- *The stage* (`StageInvariant`, `StageHolds`, `DarkHolds`). `StageUpToDate` speaks of rest
  only. `StageInv` says in every state whether the composed frame is the wanted one and
  who owes the next send: `FrameCurrent` (while the program thread sleeps unsignalled the
  composed frame is the rendered one), `FlushOwed` (what the widget misses is dirty, and
  a reader or the network thread is on its way to a flush), `BatchOpen`
  (`receiving_changes` promises a reader's flush), `DarkWhenDown` and `LostMeansDown` (no
  widget, no light), `RawFull` (a channel set directly is not faded, so setting it in the
  frame agrees with rendering it; this is where `PatchAssumption` is needed). For the
  blackout, `BlackoutIsDark` and `ObeysMaster` (the wire differs from the composed frame
  only on channels that ignore the master) are added.
- *Faders* (`MasterHolds`, `LedHolds`). The values are copies of the inputs that
  have been handled; a level taken but not handled is excused by `Pending`. For a
  fixture the two inputs come from one reader, so they are never pending at once; that
  fixtures do not overlap keeps the others' handlers away.

*Desk implements Stage* (`DeskImplementsStage`), with the types proved before. Each
action is a step of Stage under the mapping or leaves the mapped variables alone: handlers
and commands are `Ask` (a handler that writes the frame itself changes its channels to
what is then wanted, the others not at all), `Render` composes all channels, as an `Ask` or, when it
sends too, as a `Show`; a flush is a `Show`, a failure a `Fail`.

*Desk and Widget implement Link* (`DeskImplementsLink`, `WidgetImplementsLink`). Each action is a step of
Link or leaves the reader's state, `mk2c_lost` and the program thread's phase alone. For Desk
the types are enough; for Widget it takes the invariant below, since Link's `Connect` needs every
reader to be dead, which follows from what the teardown has joined.

*Widget* (`WidgetProofs`). `OneReader` says nothing of who may start the next reader. `IInv` adds where
each thread stands (`PcOK`), that a mutex is held by exactly the thread whose step says
so (`Locks`), what `mk2c` points at in each phase of the reconnect (`Place`), that a reader that
is not dead has a live context (`ReadersLive`), and what `early` has seen (`EarlySaid`). The context
in which `malloc` places the new one is any free one, the old one's place included.

*Net* (`NetProofs`). All invariants of the runs are proved, from four inductive ones, each relative to
those before it.

- `IInv`, for `ReportsServed` and `MaxsockHolds`. `EveryReportServed` needs `CountExact`: while the loop
  stands at a client, the countdown `n` is the number of reports for clients from there on.
  Accepting, dropping the client at hand and going on must each keep it, which rests on
  lemmas about places in a list without duplicates (`PlaceOf`, `After`, `RemoveAt`). `MaxsockCovers`
  needs that only open descriptors are watched (`OnlyOpen`) and that `maxsock` is above all of
  them or marked as out of date (`MaxsockAbove`). `NetAssumption` says that descriptors are
  finitely many.
- `InputInv`, for `NoneStranded` and `GoodClientsKept`. What lies in an input buffer was sent and is
  less than the first command, or its client is about to be dropped (`InputRight`), and who is
  lost in reading deserves it (`LostRight`). The work is in `PartLeft`: whatever part of the stream one
  read brings, after `handle_data` took all it could the rest is a proper beginning of the next
  command, or starts with a refused one, or fills the buffer with a command that cannot fit.
- `SendInv`, for `RefcountsHold` and `StreamsHold`. `Counted` says that each list names a buffer at most
  once and that a count is the number of clients who have the buffer (`Holders`), of all clients,
  not only those connected; `OnlyConnected` and `OutWatched` tie lists to connections and to
  `socksetout`. `Streams` is `StreamIntact` for every client. Each way to change the heap has its
  lemma: a new buffer for all (`Shared`), new ones for one (`Answered`), references given up
  (`Released`), the first buffer moved on (`Moved`) or copied (`Copied`). `Flushed` puts the last
  three together: wherever `writev` stops, the list loses that many bytes, in front, unless the
  stop is in a shared buffer, and then as many bytes stay but not those (`TakenShared`). That `malloc`
  finds unused places is proved too (`UnusedIs`), since `Allocate` chooses them.
- `Watched`, for `OutputHolds`: what `select` reported writable had output, and still has when its
  turn comes, since only the client at hand is written to.
- `TypesHold` puts these together; `n` is a number because inside the loop it counts something.

*Lists and folds* (`SequenceLemmas`). The library's induction theorems cannot be used here, since they take
an operator. The lemmas get by with sets instead: every non-empty set of numbers has a
least element (`Least`), so a statement about all numbers is proved by looking at the
least one that fails; the set is a term and not an operator. In this way come the existence
of a function defined by recursion on the numbers up to n, the laws of `FlattenSeq`
(nothing, one more, two lists joined), `Max` and `Min`, and that a list without
duplicates has as many places as elements. `CommandBytes` and `Averages` are recursive
functions in the models for that reason.

*Tempo* (`TempoProofs`). `NextStepWithinWait` is inductive once numbers are numbers (`Numbers`): the
waits are never negative, which for a tapped beat needs that an average rounded gap by gap is an
integer (`AveragesType`) and that the steps per beat are from -2 to 127, what a byte decodes to.
`WaitHolds` is about the step, not the state: `programma_wait` may be scaled again by the second half
of `B` after a fader or a tap has scaled it. `Enough` says that what waits to be scaled is long
enough for that, 127 or 127 * 127 microseconds, unless a beat was hasty; a fader's beat is at least
333333 and that of `B` at least 60000000 / 255 (`BpmWaitType`, `WaitSetKeeps`), and `Quotient` gives what a
division leaves.

*Patch* (`PatchProofs`). While a command is under way `handlers` is neither the old patch nor the new one.
The invariant is therefore about `final`, the patch that `handlers` becomes when the stores in
`todo` are done (`OnTheWay`): that one is sound (each action finds the channel that was named) and mutual up to
`widowed`. A reader whose handler is not torn has seen what is in `final` (`ReaderSafe`), which
gives `ChannelsHold`. Between commands `final` is `handlers`, which gives `PairsHold`.

*Programma* (`ProgrammaProofs`). `BlocksOwned` and `FaultsKnown` are inductive with `TypeOK` and `Sizes_OK`,
which says that an allocated block has the size the program it belongs to announces.

*Watchdog* (`WatchdogProofs`). `KilledForCause` follows from `SleepCovers`: what is left of dmxdog's sleep
covers the rest of the child's start and one more round, unless a signal has come or a
thread has missed a round. This is where `MaxStart =< SleepRounds - 2` is needed. `DoomedForCause` carries the cause past the kill. `RebootForCause` follows from
`FailuresCount`, failures counted are no more than the streak.

Only model-checked:

- liveness (`BlackoutReachesStage`, `InputHandled`, `FlushServed`, `FrameFollowsReconnect`,
  `QueuedLeaves`, `Replaced`), which is out of this prover's reach, as is whatever needs ENABLED;
- the colour table's values.

## Not modelled

- The settings dump `G`: it changes nothing but its answer, and the answer is wording (it is
  printed from an array without a terminator, and `dmxd.c:554` passes an input index to a
  function for channel indices).
- MIDI bytes, feedback LEDs, the framing of widget messages and FTDI calls: device formats. A
  failed write leaks its message buffer (`dmxdriver.c:106`).
- Two threads that shift `tapsync` at the same time: a data race over every element of the
  array; Tempo takes taps one after another.
- Overflow of `step * channels` in an `int`, and what a reused block holds after a double free.
- The order of start-up, in which a reader may run before `init_net`.
- Which thread holds `dmxout_sendbuf_mtx` while a poke blocks on a full pipe: Net has the pipe,
  Desk the mutex. `ReadBlocks` stands for both ways in which the network thread then waits.
- What else lies behind `tapsync` and is overwritten by the stray tap.
- dmxdog's clock set back or forward, and time between its look at the clock and `waitpid`.
- `R`, which also delivers old levels again.
- Shutdown (`pre_deinit_net`, `deinit_net`), which `main` does not reach.
- dmxdog's command line and `daemon()`, the file formats of the scripts, the configuration
  scripts, the widget's API keys (constants only), build files.

Worth doing next: Net and Desk in one module, for the pipe and the mutex; a Tempo with two
tappers that interleave store by store.
