-------------------------------- MODULE Net --------------------------------
(***************************************************************************)
(* The network thread (net.c): one select loop over the listening socket,  *)
(* a pipe that other threads poke, and the clients.  Each client has an    *)
(* input buffer that commands are cut from and a list of output buffers; a *)
(* broadcast puts one reference-counted buffer in the lists of all.        *)
(*                                                                         *)
(* callmtx is held except inside select(), so other threads may queue      *)
(* output only there.  What the commands do to the desk is in Desk; here a *)
(* command has a length, may be refused, may be answered and may send a    *)
(* frame, after which the thread pokes its own pipe.  Shutting down is     *)
(* left out: main never gets to it.                                        *)
(***************************************************************************)
EXTENDS Integers, SequencesExt

CONSTANTS
    ClientFds,          \* the descriptors accept may return
    listensock,
    ControlPipe,        \* controlpipes[0]
    INBUF_SIZE,         \* sizeof(inbuf), 600 in the code
    PERSISTENT_IOVS,    \* buffers in one writev, 30 in the code
    PIPE_READ,          \* bytes taken from the pipe at once, 16 in the code
    Commands,           \* the commands clients send
    CommandLength,      \* their length
    Refused,            \* the commands handle_data returns -1 for
    Queries,            \* the commands handle_data answers: 'G'
    Settings,           \* the messages of an answer, in order
    Snapshots,          \* the messages broadcast
    MessageLength,
    NoClient,           \* the end of the list of connections
    PipeSize,           \* bound: bytes in the pipe; then write blocks
    Talkers, Leavers,   \* bound: the clients that send commands, that leave
    MaxUnread,          \* bound: commands a client has under way
    MaxHeap             \* bound: buffers allocated before new output is made

Messages == ToSet(Settings) \cup Snapshots

ASSUME NetAssumption ==
    /\ IsFiniteSet(ClientFds)
    /\ ClientFds \cup {listensock, ControlPipe} \subseteq Nat
    /\ listensock \notin ClientFds /\ ControlPipe \notin ClientFds \cup {listensock}
    /\ NoClient \notin ClientFds
    /\ {INBUF_SIZE, PERSISTENT_IOVS, PIPE_READ, PipeSize} \subseteq Nat \ {0}
    /\ Refused \subseteq Commands /\ Queries \subseteq Commands \ Refused
    /\ CommandLength \in [Commands -> Nat \ {0}]
    /\ Settings \in Seq(Messages) /\ MessageLength \in [Messages -> Nat \ {0}]

VARIABLES
    connections,    \* the list at connhead
    inbuf_pos,      \* bytes in the input buffer of each client
    outbuf,         \* the output buffers of each client
    heap,           \* the linkedbufs: bytes and refcount
    socksetin, socksetout,
    maxsock,        \* -1: to be computed again
    readset, writeset,
    n,              \* descriptors select reported and nobody looked at
    at,             \* the client looked at
    lost,           \* it is to be dropped
    pc,             \* of the network thread
    pipe,           \* bytes in the pipe
    waker,          \* the thread in broadcast has yet to poke the pipe
    knocking,       \* a client waits to be accepted
    unread,         \* commands not handled; of the first a part may be in inbuf
    gone,           \* the client closed its end
    owed,           \* ghost: the bytes the client has yet to get, in order
    shared_cut      \* ghost: a write ended inside a buffer others refer to

clients == <<inbuf_pos, unread, gone>>
sending == <<outbuf, heap, socksetout, owed, shared_cut>>
selected == <<readset, writeset, n>>
environment == <<pipe, waker, knocking>>
vars == <<connections, clients, sending, socksetin, maxsock, selected, at, lost, pc,
          environment>>

Connected == ToSet(connections)
MessageBytes(m) == [k \in 1..MessageLength[m] |-> <<m, k>>]
Bytes == UNION {ToSet(MessageBytes(m)) : m \in Messages}

TypeOK ==
    /\ connections \in Seq(ClientFds) /\ IsInjective(connections)
    /\ inbuf_pos \in [ClientFds -> 0..INBUF_SIZE]
    /\ outbuf \in [ClientFds -> Seq(DOMAIN heap)]
    /\ \A b \in DOMAIN heap : /\ b \in Nat
                              /\ heap[b].bytes \in Seq(Bytes) \ {<<>>}
                              /\ heap[b].refcount \in Nat \ {0}
    /\ socksetin \subseteq ClientFds \cup {listensock, ControlPipe}
    /\ socksetout \subseteq ClientFds
    /\ maxsock \in Nat \cup {-1}
    /\ readset \subseteq ClientFds \cup {listensock, ControlPipe}
    /\ writeset \subseteq ClientFds
    /\ n \in Nat
    /\ at \in Connected \cup {NoClient}
    /\ pc \in {"prepare", "select", "listen", "control", "read", "write", "next",
               "blocked"}
    /\ pipe \in 0..PipeSize
    /\ {lost, waker, knocking} \subseteq BOOLEAN
    /\ unread \in [ClientFds -> Seq(Commands)]
    /\ {gone, shared_cut} \subseteq [ClientFds -> BOOLEAN]
    /\ owed \in [ClientFds -> Seq(Bytes)]

\* init_net, then net_runner takes callmtx
Init ==
    /\ connections = <<>>
    /\ inbuf_pos = [c \in ClientFds |-> 0]
    /\ outbuf = [c \in ClientFds |-> <<>>]
    /\ heap = <<>>
    /\ socksetin = {listensock, ControlPipe} /\ socksetout = {}
    /\ maxsock = Max({listensock, ControlPipe}) + 1
    /\ readset = {} /\ writeset = {} /\ n = 0
    /\ at = NoClient /\ lost = FALSE /\ pc = "prepare"
    /\ pipe = 0 /\ waker = FALSE /\ knocking = FALSE
    /\ unread = [c \in ClientFds |-> <<>>]
    /\ gone = [c \in ClientFds |-> FALSE]
    /\ owed = [c \in ClientFds |-> <<>>]
    /\ shared_cut = [c \in ClientFds |-> FALSE]

-----------------------------------------------------------------------------
(* Output buffers.                                                         *)

BytesIn(h, bufs) == FlattenSeq([i \in DOMAIN bufs |-> h[bufs[i]].bytes])
BytesOf(bufs) == BytesIn(heap, bufs)
LengthOf(bufs) == Len(BytesOf(bufs))

\* seeded error: the last reference does not free
Release_NeverFrees(bufs) ==
    [b \in DOMAIN heap |->
        IF b \in bufs THEN [heap[b] EXCEPT !.refcount = @ - 1] ELSE heap[b]]

\* the heap after one reference to each buffer of bufs is given up
Release(bufs) ==
    [b \in {b \in DOMAIN heap : b \notin bufs \/ heap[b].refcount > 1} |->
        IF b \in bufs THEN [heap[b] EXCEPT !.refcount = @ - 1] ELSE heap[b]]

\* `count' buffers that are not in use; malloc may return what was just freed
Unused(h, count) ==
    CHOOSE list \in [1..count -> 0..Cardinality(DOMAIN h) + count - 1] :
        IsInjective(list) /\ ToSet(list) \cap DOMAIN h = {}
Fresh(h) == Unused(h, 1)[1]
Allocate(h, bytes, refcount) ==
    [b \in DOMAIN h \cup {Fresh(h)} |->
        IF b \in DOMAIN h THEN h[b] ELSE [bytes |-> bytes, refcount |-> refcount]]

PlaceIn(list, x) == CHOOSE i \in DOMAIN list : list[i] = x

\* for each message a buffer of one reference at the end of the list
client_printf(c, messages) ==
    LET new == Unused(heap, Len(messages)) IN
    /\ heap' = [b \in DOMAIN heap \cup ToSet(new) |->
            IF b \in DOMAIN heap THEN heap[b]
            ELSE [bytes |-> MessageBytes(messages[PlaceIn(new, b)]), refcount |-> 1]]
    /\ outbuf' = [outbuf EXCEPT ![c] = @ \o new]
    /\ owed' = [owed EXCEPT ![c] = @ \o FlattenSeq([i \in DOMAIN messages |->
                                                        MessageBytes(messages[i])])]
    /\ socksetout' = socksetout \cup (IF messages = <<>> THEN {} ELSE {c})
    /\ UNCHANGED shared_cut

\* seeded error: the buffer starts with a reference of its own, as in write_client
broadcast_Owned(m) ==
    /\ connections # <<>>
    /\ heap' = Allocate(heap, MessageBytes(m), Len(connections) + 1)
    /\ outbuf' = [c \in ClientFds |->
            IF c \in Connected THEN Append(outbuf[c], Fresh(heap)) ELSE outbuf[c]]
    /\ owed' = [c \in ClientFds |->
            IF c \in Connected THEN owed[c] \o MessageBytes(m) ELSE owed[c]]
    /\ socksetout' = socksetout \cup Connected
    /\ UNCHANGED shared_cut

\* nothing is kept for a broadcast that nobody hears
broadcast(m) ==
    \/ /\ connections # <<>>
       /\ heap' = Allocate(heap, MessageBytes(m), Len(connections))
       /\ outbuf' = [c \in ClientFds |->
            IF c \in Connected THEN Append(outbuf[c], Fresh(heap)) ELSE outbuf[c]]
       /\ owed' = [c \in ClientFds |->
            IF c \in Connected THEN owed[c] \o MessageBytes(m) ELSE owed[c]]
       /\ socksetout' = socksetout \cup Connected
       /\ UNCHANGED shared_cut
    \/ /\ connections = <<>>
       /\ UNCHANGED sending

-----------------------------------------------------------------------------
(* Other threads.                                                          *)

CallMtxFree == pc = "select"

\* seeded error: the network thread is not told
Broadcast_Quiet ==
    /\ CallMtxFree /\ ~waker /\ Cardinality(DOMAIN heap) < MaxHeap
    /\ \E m \in Snapshots : broadcast(m)
    /\ UNCHANGED <<connections, clients, socksetin, maxsock, selected, at, lost, pc,
                   environment>>

\* update_websockets(0, 1) of the widget's reader: broadcast, then wakeup_select
Broadcast ==
    /\ CallMtxFree /\ ~waker /\ Cardinality(DOMAIN heap) < MaxHeap
    /\ \E m \in Snapshots : broadcast(m)
    /\ waker' = TRUE
    /\ UNCHANGED <<connections, clients, socksetin, maxsock, selected, at, lost, pc,
                   pipe, knocking>>

\* wakeup_select: one byte, when the pipe has room
wakeup_select ==
    /\ pipe < PipeSize
    /\ pipe' = pipe + 1
    /\ waker' \in {waker, FALSE}
    /\ UNCHANGED <<connections, clients, sending, socksetin, maxsock, selected, at,
                   lost, pc, knocking>>

Connect ==
    /\ ~knocking
    /\ knocking' = TRUE
    /\ UNCHANGED <<connections, clients, sending, socksetin, maxsock, selected, at,
                   lost, pc, pipe, waker>>

Submit(c) ==
    /\ c \in Connected \cap Talkers /\ ~gone[c]
    /\ Len(unread[c]) < MaxUnread /\ Cardinality(DOMAIN heap) < MaxHeap
    /\ \E cmd \in Commands : unread' = [unread EXCEPT ![c] = Append(@, cmd)]
    /\ UNCHANGED <<connections, inbuf_pos, gone, sending, socksetin, maxsock, selected,
                   at, lost, pc, environment>>

Leave(c) ==
    /\ c \in Connected \cap Leavers /\ ~gone[c]
    /\ gone' = [gone EXCEPT ![c] = TRUE]
    /\ UNCHANGED <<connections, inbuf_pos, unread, sending, socksetin, maxsock, selected,
                   at, lost, pc, environment>>

-----------------------------------------------------------------------------
(* The network thread waits.                                               *)

\* the sets are copied; maxsock is computed again after a client was dropped
Prepare ==
    /\ pc = "prepare"
    /\ readset' = socksetin
    /\ writeset' = socksetout
    /\ maxsock' = IF maxsock = -1
                  THEN Max({listensock, ControlPipe} \cup Connected) + 1
                  ELSE maxsock
    /\ pc' = "select"
    /\ UNCHANGED <<connections, clients, sending, socksetin, n, at, lost, environment>>

CommandBytes(cmds) ==
    LET sum[i \in 0..Len(cmds)] == IF i = 0 THEN 0 ELSE sum[i - 1] + CommandLength[cmds[i]]
    IN sum[Len(cmds)]
Arrived(c) == CommandBytes(unread[c]) - inbuf_pos[c]

Readable ==
    {fd \in readset : fd < maxsock /\
        \/ fd = listensock /\ knocking
        \/ fd = ControlPipe /\ pipe > 0
        \/ fd \in ClientFds /\ (Arrived(fd) > 0 \/ gone[fd])}

\* a client's socket takes bytes when the client has taken some
SelectReports(writable) ==
    /\ pc = "select"
    /\ writable \subseteq {fd \in writeset : fd < maxsock}
    /\ Readable \cup writable # {}
    /\ readset' = Readable
    /\ writeset' = writable
    /\ n' = Cardinality(Readable) + Cardinality(writable)
    /\ pc' = "listen"
    /\ UNCHANGED <<connections, clients, sending, socksetin, maxsock, at, lost,
                   environment>>

\* select returns -1 for a signal: n = 0, so nothing is looked at
Interrupted ==
    /\ pc = "select"
    /\ n' = 0
    /\ pc' = "prepare"
    /\ UNCHANGED <<connections, clients, sending, socksetin, maxsock, readset, writeset,
                   at, lost, environment>>

Select == \E writable \in SUBSET writeset : SelectReports(writable)

-----------------------------------------------------------------------------
(* It looks at what select reported.                                       *)

\* seeded error: maxsock stays as it was
accept_client_LowMaxsock(c) ==
    /\ connections' = <<c>> \o connections
    /\ inbuf_pos' = [inbuf_pos EXCEPT ![c] = 0]
    /\ outbuf' = [outbuf EXCEPT ![c] = <<>>]
    /\ socksetin' = socksetin \cup {c}
    /\ UNCHANGED maxsock

\* the new client is put in front of the others
accept_client(c) ==
    /\ connections' = <<c>> \o connections
    /\ inbuf_pos' = [inbuf_pos EXCEPT ![c] = 0]
    /\ outbuf' = [outbuf EXCEPT ![c] = <<>>]
    /\ socksetin' = socksetin \cup {c}
    /\ maxsock' = Max({maxsock, c + 1})

\* accept may fail, and does when there is no descriptor left
Listen ==
    /\ pc = "listen"
    /\ pc' = "control"
    /\ \/ /\ listensock \in readset
          /\ n' = n - 1
          /\ \/ /\ knocking' = FALSE
                /\ \E c \in ClientFds \ Connected : accept_client(c)
             \/ UNCHANGED <<connections, inbuf_pos, outbuf, socksetin, maxsock, knocking>>
       \/ /\ listensock \notin readset
          /\ UNCHANGED <<connections, inbuf_pos, outbuf, socksetin, maxsock, n, knocking>>
    /\ UNCHANGED <<unread, gone, heap, socksetout, owed, shared_cut, readset, writeset,
                   at, lost, pipe, waker>>

FirstOf(list) == IF list = <<>> THEN NoClient ELSE Head(list)
PlaceOf(c) == PlaceIn(connections, c)
After(c) == FirstOf(SubSeq(connections, PlaceOf(c) + 1, Len(connections)))

Control ==
    /\ pc = "control"
    /\ LET poked == n > 0 /\ ControlPipe \in readset IN
       /\ pipe' = IF poked THEN pipe - Min({pipe, PIPE_READ}) ELSE pipe
       /\ n' = IF poked THEN n - 1 ELSE n
    /\ at' = FirstOf(connections)
    /\ lost' = FALSE
    /\ pc' = "read"
    /\ UNCHANGED <<connections, clients, sending, socksetin, maxsock, readset, writeset,
                   waker, knocking>>

\* at most one turn for each client, as long as a reported descriptor is left
Turn(label) == pc = label /\ at # NoClient /\ (label = "read" => n > 0)

\* the commands handle_data finds complete in the first `size' bytes, up to a refused one
Complete(c, size) ==
    {k \in 0..Len(unread[c]) :
        /\ CommandBytes(SubSeq(unread[c], 1, k)) <= size
        /\ \A i \in 1..k : unread[c][i] \notin Refused}

\* seeded error: the loop around handle_data is left after one command
Handled_One(c, size) == Max({k \in Complete(c, size) : k <= 1})
Handled(c, size) == Max(Complete(c, size))

\* seeded error: a full buffer is noticed before its commands are handled
Full_Early(c, size) == size = INBUF_SIZE

Rest(c, size) == size - CommandBytes(SubSeq(unread[c], 1, Handled(c, size)))
Full(c, size) == Rest(c, size) = INBUF_SIZE

\* handle_data reached the first byte of a refused command
Refuses(c, size) ==
    Rest(c, size) > 0 /\ unread[c][Handled(c, size) + 1] \in Refused

\* read returns 0 or -1
ReadNothing(c) ==
    /\ Turn("read") /\ at = c /\ c \in readset
    /\ gone[c]
    /\ lost' = TRUE
    /\ n' = n - 1
    /\ pc' = "write"
    /\ UNCHANGED <<connections, clients, sending, socksetin, maxsock, readset, writeset,
                   at, environment>>

\* the bytes in the input buffer of c when read returned some
Sizes(c) == (inbuf_pos[c] + 1)..Min({inbuf_pos[c] + Arrived(c), INBUF_SIZE})

\* read_client; a query among the commands is answered at once, and handle_data
\* ends with a flush: if that sends, it pokes the pipe
ReadCommands(c) ==
    /\ Turn("read") /\ at = c /\ c \in readset
    /\ \E size \in Sizes(c) :
        LET handled == SubSeq(unread[c], 1, Handled(c, size))
            answers == [i \in DOMAIN handled |->
                            IF handled[i] \in Queries THEN Settings ELSE <<>>] IN
        /\ client_printf(c, FlattenSeq(answers))
        /\ unread' = [unread EXCEPT ![c] = SubSeq(@, Len(handled) + 1, Len(@))]
        /\ inbuf_pos' = [inbuf_pos EXCEPT ![c] = Rest(c, size)]
        /\ lost' = (Refuses(c, size) \/ Full(c, size))
        /\ pipe' \in {p \in pipe..PipeSize : p <= pipe + Len(handled)}
    /\ socksetin' = IF lost' THEN socksetin \ {c} ELSE socksetin
    /\ n' = n - 1
    /\ pc' = "write"
    /\ UNCHANGED <<connections, gone, maxsock, readset, writeset, at, waker, knocking>>

\* the pipe is full and a flush of its own pokes it, or waits for the thread that
\* does: nobody else reads the pipe, and callmtx is never given up
ReadBlocks(c) ==
    /\ Turn("read") /\ at = c /\ c \in readset
    /\ \E size \in Sizes(c) : pipe + Handled(c, size) > PipeSize
    /\ pipe' = PipeSize
    /\ pc' = "blocked"
    /\ UNCHANGED <<connections, clients, sending, socksetin, maxsock, selected, at, lost,
                   waker, knocking>>

NothingToRead ==
    /\ Turn("read") /\ at \notin readset
    /\ pc' = "write"
    /\ UNCHANGED <<connections, clients, sending, socksetin, maxsock, selected, at, lost,
                   environment>>

\* no client or no reported descriptor is left
LoopDone ==
    /\ pc = "read" /\ (at = NoClient \/ n = 0)
    /\ pc' = "prepare"
    /\ UNCHANGED <<connections, clients, sending, socksetin, maxsock, selected, at, lost,
                   environment>>

-----------------------------------------------------------------------------
\* how many of the buffers the first `size' bytes cover
Written(bufs, size) ==
    Max({k \in 0..Len(bufs) : LengthOf(SubSeq(bufs, 1, k)) <= size})

\* seeded error: the buffer is moved on for everybody
CutShared_InPlace(c, b, rest, size, h) ==
    /\ heap' = [h EXCEPT ![b].bytes = SubSeq(@, size + 1, Len(@))]
    /\ outbuf' = [outbuf EXCEPT ![c] = rest]
    /\ UNCHANGED shared_cut

\* the rest of a buffer that others refer to is copied: from its start
CutShared(c, b, rest, size, h) ==
    LET keep == Len(heap[b].bytes) - size
        copied == Allocate([h EXCEPT ![b].refcount = @ - 1],
                           SubSeq(heap[b].bytes, 1, keep), 1) IN
    /\ heap' = copied
    /\ outbuf' = [outbuf EXCEPT ![c] = <<Fresh(h)>> \o Tail(rest)]
    /\ shared_cut' = [shared_cut EXCEPT ![c] = TRUE]

\* the rest of a buffer that is this client's alone is moved to its start
CutOwn(c, b, rest, size, h) ==
    /\ heap' = [h EXCEPT ![b].bytes = SubSeq(@, size + 1, Len(@))]
    /\ outbuf' = [outbuf EXCEPT ![c] = rest]
    /\ UNCHANGED shared_cut

\* seeded error: the socket stays in socksetout
StillOut_Always(c, rest) == socksetout
StillOut(c, rest) == IF rest = <<>> THEN socksetout \ {c} ELSE socksetout

\* writev takes some of what it is offered, and that is taken off the list
flush_writes(c) ==
    LET bufs == outbuf[c]
        offered == SubSeq(bufs, 1, Min({Len(bufs), PERSISTENT_IOVS})) IN
    \E size \in 1..LengthOf(offered) :
        LET k == Written(bufs, size)
            rest == SubSeq(bufs, k + 1, Len(bufs))
            over == size - LengthOf(SubSeq(bufs, 1, k))
            kept == Release(ToSet(SubSeq(bufs, 1, k))) IN
        /\ \/ /\ over = 0
              /\ heap' = kept
              /\ outbuf' = [outbuf EXCEPT ![c] = rest]
              /\ UNCHANGED shared_cut
           \/ over > 0 /\ kept[rest[1]].refcount = 1 /\ CutOwn(c, rest[1], rest, over, kept)
           \/ over > 0 /\ kept[rest[1]].refcount > 1 /\ CutShared(c, rest[1], rest, over, kept)
        /\ owed' = [owed EXCEPT ![c] = SubSeq(@, size + 1, Len(@))]
        /\ socksetout' = StillOut(c, rest)

\* seeded error: the descriptor of a lost client is not counted
Write_Uncounted(c) ==
    /\ pc = "write" /\ at = c /\ c \in writeset
    /\ \/ ~lost /\ flush_writes(c) /\ UNCHANGED lost /\ n' = n - 1
       \/ ~lost /\ lost' = TRUE /\ UNCHANGED sending /\ n' = n - 1
       \/ lost /\ UNCHANGED <<sending, lost, n>>
    /\ pc' = "next"
    /\ UNCHANGED <<connections, clients, socksetin, maxsock, readset, writeset, at,
                   environment>>

\* a client that cannot be written to is lost; to a lost one nothing is written
Write(c) ==
    /\ pc = "write" /\ at = c /\ c \in writeset
    /\ \/ ~lost /\ flush_writes(c) /\ UNCHANGED lost
       \/ ~lost /\ lost' = TRUE /\ UNCHANGED sending
       \/ lost /\ UNCHANGED <<sending, lost>>
    /\ n' = n - 1
    /\ pc' = "next"
    /\ UNCHANGED <<connections, clients, socksetin, maxsock, readset, writeset, at,
                   environment>>

NothingToWrite ==
    /\ pc = "write" /\ at \notin writeset
    /\ pc' = "next"
    /\ UNCHANGED <<connections, clients, sending, socksetin, maxsock, selected, at, lost,
                   environment>>

Keep ==
    /\ pc = "next" /\ ~lost
    /\ at' = After(at)
    /\ pc' = "read"
    /\ UNCHANGED <<connections, clients, sending, socksetin, maxsock, selected, lost,
                   environment>>

\* drop_client, after the next client was looked up; c may be used again
Drop(c) ==
    /\ pc = "next" /\ lost /\ at = c
    /\ at' = After(c)
    /\ lost' = FALSE
    /\ connections' = RemoveAt(connections, PlaceOf(c))
    /\ heap' = Release(ToSet(outbuf[c]))
    /\ outbuf' = [outbuf EXCEPT ![c] = <<>>]
    /\ socksetin' = socksetin \ {c}
    /\ socksetout' = socksetout \ {c}
    /\ maxsock' = -1
    /\ inbuf_pos' = [inbuf_pos EXCEPT ![c] = 0]
    /\ unread' = [unread EXCEPT ![c] = <<>>]
    /\ gone' = [gone EXCEPT ![c] = FALSE]
    /\ owed' = [owed EXCEPT ![c] = <<>>]
    /\ shared_cut' = [shared_cut EXCEPT ![c] = FALSE]
    /\ pc' = "read"
    /\ UNCHANGED <<selected, environment>>

ServeClient(c) ==
    ReadNothing(c) \/ ReadCommands(c) \/ ReadBlocks(c) \/ Write(c) \/ Drop(c)

\* its steps but for signals, which need not come
net_runner ==
    \/ Prepare \/ Select \/ Listen \/ Control
    \/ \E c \in ClientFds : ServeClient(c)
    \/ NothingToRead \/ NothingToWrite \/ Keep \/ LoopDone

Next ==
    \/ net_runner
    \/ Interrupted
    \/ Broadcast \/ wakeup_select \/ Connect
    \/ \E c \in ClientFds : Submit(c) \/ Leave(c)

Spec == Init /\ [][Next]_vars

-----------------------------------------------------------------------------
(* Properties.                                                             *)

(***************************************************************************)
(* A buffer is allocated exactly while a client's list refers to it, and   *)
(* its refcount is the number of those lists, however broadcasts, answers, *)
(* partial writes and dropped clients follow each other: none is leaked,   *)
(* none is freed while a client still has to get it.                       *)
(***************************************************************************)
RefcountsExact ==
    /\ \A c \in ClientFds : ToSet(outbuf[c]) \subseteq DOMAIN heap
    /\ \A b \in DOMAIN heap :
        heap[b].refcount = Cardinality({c \in Connected : b \in ToSet(outbuf[c])})

(***************************************************************************)
(* A socket is watched for writing exactly while something is queued for   *)
(* it: flush_writes asserts that there is, and output that is not watched  *)
(* for would stay.                                                         *)
(***************************************************************************)
OutputIffQueued ==
    /\ socksetout = {c \in Connected : outbuf[c] # <<>>}
    /\ pc \in {"listen", "control", "read", "write"} /\ at \in writeset => outbuf[at] # <<>>

(***************************************************************************)
(* Every descriptor select reported is looked at, the lost clients' too:   *)
(* assert(n==0) at the end of the loop over the clients.                   *)
(***************************************************************************)
EveryReportServed == pc = "read" /\ at = NoClient => n = 0

(***************************************************************************)
(* What is queued for a client is what it was sent and did not get yet, in *)
(* order and whole, whoever shares the buffers and wherever writev stops;  *)
(* unless a write of its own stopped inside a shared buffer, and then the  *)
(* number of bytes is still right.                                         *)
(***************************************************************************)
StreamIntact ==
    \A c \in Connected :
        /\ LengthOf(outbuf[c]) = Len(owed[c])
        /\ ~shared_cut[c] => BytesOf(outbuf[c]) = owed[c]

(***************************************************************************)
(* While the thread waits, no complete command lies in an input buffer:    *)
(* no data would come to have it handled.                                  *)
(***************************************************************************)
NoCommandStranded ==
    pc = "select" => \A c \in Connected :
        unread[c] = <<>> \/ inbuf_pos[c] < CommandLength[unread[c][1]]

(***************************************************************************)
(* However its commands are cut into pieces, reading drops a client only   *)
(* if it left, sent what handle_data refuses, or a command longer than the *)
(* input buffer.                                                           *)
(***************************************************************************)
OnlyBadClientsDropped ==
    pc = "write" /\ lost =>
        \/ gone[at]
        \/ /\ unread[at] # <<>>
           /\ unread[at][1] \in Refused \/ CommandLength[unread[at][1]] > INBUF_SIZE

(***************************************************************************)
(* select looks at every descriptor of the two sets, although maxsock is   *)
(* kept up to date by accept and recomputed only after a drop.             *)
(***************************************************************************)
MaxsockCovers ==
    pc = "select" => \A fd \in socksetin \cup socksetout : fd < maxsock

-----------------------------------------------------------------------------
(***************************************************************************)
(* Fairness: the network thread runs, until it is blocked on its own pipe; *)
(* the reader that broadcast goes on to its poke; a client that stays      *)
(* keeps taking bytes, so its socket becomes writable again.               *)
(***************************************************************************)
Fairness ==
    /\ WF_vars(net_runner)
    /\ WF_vars(waker /\ wakeup_select /\ ~waker')
    /\ \A c \in ClientFds :
        SF_vars(\E writable \in SUBSET writeset : c \in writable /\ SelectReports(writable))

FairSpec == Spec /\ Fairness

(***************************************************************************)
(* What is queued leaves: the poke after a broadcast has it watched for.   *)
(* Only a network thread that fills its own pipe (dmxd.c:593, 190, 181)    *)
(* leaves it for ever.                                                     *)
(***************************************************************************)
QueuedLeaves ==
    \A c \in ClientFds : \A b \in 0..1 :
        b \in ToSet(outbuf[c]) ~> b \notin ToSet(outbuf[c]) \/ pc = "blocked"

=============================================================================
