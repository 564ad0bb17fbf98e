------------------------------- MODULE Screen -------------------------------
(***************************************************************************)
(* One server's console: the pseudo-terminal between the server process    *)
(* and the daemon, the goroutine that reads it into the ring buffer and    *)
(* broadcasts it, the screen clients with their connections, and STOP,     *)
(* which writes to the terminal under the manager's mutex.  All the queues *)
(* are finite: a writer waits for its reader.                              *)
(*                                                                         *)
(* What one Read returns is a chunk; chunks are numbered as they are made. *)
(* The exit notice is chunk 0.                                             *)
(***************************************************************************)
EXTENDS Naturals, Sequences, FiniteSetsExt, Functions

CONSTANTS
    Clients,
    Capacity,            \* capacity of the ring buffer
    OutCap, InCap,       \* capacity of the terminal, in chunks
    ConnCap,             \* capacity of a connection, in chunks
    MaxOut,              \* bound: chunks the server writes
    MaxTyped,            \* bound: lines a client types
    MaxStops,            \* bound: STOP requests
    None

ASSUME CapacityOK == Capacity \in Nat \ {0}
ASSUME BoundsOK == {OutCap, InCap, ConnCap, MaxOut, MaxTyped, MaxStops} \subseteq Nat

VARIABLES
    alive,         \* the server process
    wants,         \* it is in a write to its output
    made,          \* chunks it has made
    outq, inq,     \* the terminal: output chunks, input lines
    log,           \* the ring buffer: lines, head, size
    cnt,           \* history: chunks added to the ring buffer
    smu,           \* Server.mu: its holder
    reader,        \* the reading goroutine: step, chunk, clients still to be sent to
    waiter,        \* the waiting goroutine: step, clients still to be sent to
    reg,           \* Server.Clients
    serve,         \* the goroutine of a client in the daemon: step, lines still to be sent
    conn,          \* a connection's chunks on their way to the client
    typed,         \* lines a client has typed, and those on their way to the daemon
    client,        \* the client process
    got,           \* history: chunks a client has shown, or swallowed with the response
    stops,         \* STOP requests that were made
    mutex          \* the manager's mutex: held by a STOP in its write, or not

vars == <<alive, wants, made, outq, inq, log, cnt, smu, reader, waiter, reg, serve, conn, typed,
          client, got, stops, mutex>>
process == <<alive, wants, made>>
daemon == <<log, cnt, reader>>
users == <<typed, client, got>>

Chunks == 0 .. MaxOut
(* ringbuffer.New                                                          *)
New == [lines |-> [i \in 0 .. Capacity - 1 |-> 0], head |-> 0, size |-> 0]

TypeOK ==
    /\ alive \in BOOLEAN /\ wants \in BOOLEAN /\ made \in Chunks
    /\ outq \in Seq(Chunks) /\ Len(outq) <= OutCap /\ inq \in Seq({"text", "stop"}) /\ Len(inq) <= InCap
    /\ log \in [lines : [0 .. Capacity - 1 -> Chunks], head : 0 .. Capacity - 1, size : 0 .. Capacity]
    /\ cnt \in Chunks
    /\ smu \in {"reader", "waiter", None}
    /\ reader \in [pc : {"read", "add", "lock", "send", "end"}, chunk : Chunks, todo : SUBSET Clients]
    /\ waiter \in [pc : {"wait", "lock", "send", "remove", "end"}, todo : SUBSET Clients]
    /\ reg \subseteq Clients
    /\ serve \in [Clients -> [pc : {"off", "register", "snapshot", "send", "read", "unregister", "end"},
                              lines : Seq(Chunks)]]
    /\ conn \in [Clients -> Seq(Chunks)] /\ \A c \in Clients : Len(conn[c]) <= ConnCap
    /\ typed \in [Clients -> [total : 0 .. MaxTyped, queue : 0 .. MaxTyped]]
    /\ client \in [Clients -> {"off", "decode", "attached", "stalled", "closed"}]
    /\ got \in [Clients -> SUBSET Chunks]
    /\ stops \in 0 .. MaxStops /\ mutex \in BOOLEAN

Init ==
    /\ alive = TRUE /\ wants = FALSE /\ made = 0
    /\ outq = <<>> /\ inq = <<>>
    /\ log = New /\ cnt = 0
    /\ smu = None
    /\ reader = [pc |-> "read", chunk |-> 0, todo |-> {}]
    /\ waiter = [pc |-> "wait", todo |-> {}]
    /\ reg = {}
    /\ serve = [c \in Clients |-> [pc |-> "off", lines |-> <<>>]]
    /\ conn = [c \in Clients |-> <<>>]
    /\ typed = [c \in Clients |-> [total |-> 0, queue |-> 0]]
    /\ client = [c \in Clients |-> "off"]
    /\ got = [c \in Clients |-> {}]
    /\ stops = 0 /\ mutex = FALSE

-----------------------------------------------------------------------------
(* The server process.  While it waits for room for its output it does not *)
(* read its input.                                                         *)
WantsOutput ==
    /\ alive /\ ~wants /\ made < MaxOut
    /\ wants' = TRUE
    /\ UNCHANGED <<alive, made, outq, inq, smu, waiter, reg, serve, conn, stops, mutex>>
    /\ UNCHANGED daemon /\ UNCHANGED users

Output ==
    /\ alive /\ wants /\ Len(outq) < OutCap
    /\ made' = made + 1 /\ outq' = Append(outq, made')
    /\ wants' = FALSE
    /\ UNCHANGED <<alive, inq, smu, waiter, reg, serve, conn, stops, mutex>>
    /\ UNCHANGED daemon /\ UNCHANGED users

Input ==
    /\ alive /\ ~wants /\ inq # <<>>
    /\ inq' = Tail(inq)
    /\ alive' = (Head(inq) # "stop")
    /\ UNCHANGED <<wants, made, outq, smu, waiter, reg, serve, conn, stops, mutex>>
    /\ UNCHANGED daemon /\ UNCHANGED users

(* It ends by itself, or is killed, for which KILL needs the mutex.        *)
Exit ==
    /\ alive
    /\ alive' = FALSE
    /\ UNCHANGED <<wants, made, outq, inq, smu, waiter, reg, serve, conn, stops, mutex>>
    /\ UNCHANGED daemon /\ UNCHANGED users

-----------------------------------------------------------------------------
(* The goroutine that reads the terminal; after the end of the process it  *)
(* reads what is left and ends.                                            *)
Read ==
    /\ reader.pc = "read"
    /\ IF outq # <<>>
       THEN /\ reader' = [reader EXCEPT !.pc = "add", !.chunk = Head(outq)]
            /\ outq' = Tail(outq)
       ELSE /\ ~alive
            /\ reader' = [reader EXCEPT !.pc = "end"]
            /\ UNCHANGED outq
    /\ UNCHANGED <<inq, log, cnt, smu, waiter, reg, serve, conn, stops, mutex>>
    /\ UNCHANGED process /\ UNCHANGED users

(* Mutant: the size counts the chunks ever added.                          *)
AddedUnbounded(r, line) ==
    [lines |-> [r.lines EXCEPT ![r.head] = line], head |-> (r.head + 1) % Capacity, size |-> r.size + 1]
(* RingBuffer.Add                                                          *)
Added(r, line) ==
    [lines |-> [r.lines EXCEPT ![r.head] = line], head |-> (r.head + 1) % Capacity,
     size |-> IF r.size < Capacity THEN r.size + 1 ELSE r.size]

Slice(r, a, b) == [i \in 1 .. b - a |-> r.lines[a + i - 1]]
(* Mutant: a buffer that has just become full is taken for one that has    *)
(* not wrapped, and one that has wrapped too.                              *)
SnapshotUnwrapped(r) == Slice(r, 0, r.size)
(* RingBuffer.Snapshot                                                     *)
Snapshot(r) == IF r.size < Capacity THEN Slice(r, 0, r.size)
               ELSE Slice(r, r.head, Capacity) \o Slice(r, 0, r.head)

Add ==
    /\ reader.pc = "add"
    /\ log' = Added(log, reader.chunk) /\ cnt' = cnt + 1
    /\ reader' = [reader EXCEPT !.pc = "lock"]
    /\ UNCHANGED <<outq, inq, smu, waiter, reg, serve, conn, stops, mutex>>
    /\ UNCHANGED process /\ UNCHANGED users

(* Broadcast by the reader and by the waiter: under Server.mu each client  *)
(* in turn; a client whose connection is closed is dropped.                *)
ReaderLocks ==
    /\ reader.pc = "lock" /\ smu = None
    /\ smu' = "reader"
    /\ reader' = [reader EXCEPT !.pc = "send", !.todo = reg]
    /\ UNCHANGED <<log, cnt, outq, inq, waiter, reg, serve, conn, stops, mutex>>
    /\ UNCHANGED process /\ UNCHANGED users

WaiterLocks ==
    /\ waiter.pc = "lock" /\ smu = None
    /\ smu' = "waiter"
    /\ waiter' = [pc |-> "send", todo |-> reg]
    /\ UNCHANGED <<outq, inq, reg, serve, conn, stops, mutex>>
    /\ UNCHANGED process /\ UNCHANGED daemon /\ UNCHANGED users

(* Mutant: a client that does not read is passed over.                     *)
DeliverNonblocking(c, chunk) ==
    \/ /\ client[c] # "closed"
       /\ conn' = [conn EXCEPT ![c] = IF Len(@) < ConnCap THEN Append(@, chunk) ELSE @]
       /\ UNCHANGED reg
    \/ /\ client[c] = "closed"
       /\ reg' = reg \ {c}
       /\ UNCHANGED conn
Deliver(c, chunk) ==
    \/ /\ client[c] # "closed" /\ Len(conn[c]) < ConnCap
       /\ conn' = [conn EXCEPT ![c] = Append(@, chunk)]
       /\ UNCHANGED reg
    \/ /\ client[c] = "closed"
       /\ reg' = reg \ {c}
       /\ UNCHANGED conn

ReaderSends(c) ==
    /\ reader.pc = "send" /\ c \in reader.todo
    /\ Deliver(c, reader.chunk)
    /\ reader' = [reader EXCEPT !.todo = @ \ {c}]
    /\ UNCHANGED <<log, cnt, outq, inq, smu, waiter, serve, stops, mutex>>
    /\ UNCHANGED process /\ UNCHANGED users

WaiterSends(c) ==
    /\ waiter.pc = "send" /\ c \in waiter.todo
    /\ Deliver(c, 0)
    /\ waiter' = [waiter EXCEPT !.todo = @ \ {c}]
    /\ UNCHANGED <<outq, inq, smu, serve, stops, mutex>>
    /\ UNCHANGED process /\ UNCHANGED daemon /\ UNCHANGED users

(* Mutant: the loop ends when a client was dropped.                        *)
ReaderStopsOnDrop ==
    /\ reader.pc = "send" /\ reader.todo = {}
    /\ smu' = None
    /\ reader' = [reader EXCEPT !.pc = IF \E c \in Clients : client[c] = "closed" THEN "end" ELSE "read"]
    /\ UNCHANGED <<log, cnt, outq, inq, waiter, reg, serve, conn, stops, mutex>>
    /\ UNCHANGED process /\ UNCHANGED users
ReaderUnlocks ==
    /\ reader.pc = "send" /\ reader.todo = {}
    /\ smu' = None
    /\ reader' = [reader EXCEPT !.pc = "read"]
    /\ UNCHANGED <<log, cnt, outq, inq, waiter, reg, serve, conn, stops, mutex>>
    /\ UNCHANGED process /\ UNCHANGED users

WaiterUnlocks ==
    /\ waiter.pc = "send" /\ waiter.todo = {}
    /\ smu' = None
    /\ waiter' = [waiter EXCEPT !.pc = "remove"]
    /\ UNCHANGED <<outq, inq, reg, serve, conn, stops, mutex>>
    /\ UNCHANGED process /\ UNCHANGED daemon /\ UNCHANGED users

(* cmd.Wait returns; Remove needs the manager's mutex.                     *)
Wait ==
    /\ \/ waiter.pc = "wait" /\ ~alive /\ waiter' = [waiter EXCEPT !.pc = "lock"]
       \/ waiter.pc = "remove" /\ ~mutex /\ waiter' = [waiter EXCEPT !.pc = "end"]
    /\ UNCHANGED <<outq, inq, smu, reg, serve, conn, stops, mutex>>
    /\ UNCHANGED process /\ UNCHANGED daemon /\ UNCHANGED users

-----------------------------------------------------------------------------
(* handleScreenConn: the server is looked up, the response sent, and       *)
(* Attach started.                                                         *)
HandleScreenConn(c) ==
    /\ client[c] = "off" /\ waiter.pc # "end"
    /\ client' = [client EXCEPT ![c] = "decode"]
    /\ serve' = [serve EXCEPT ![c].pc = "register"]
    /\ UNCHANGED <<outq, inq, smu, waiter, reg, conn, typed, got, stops, mutex>>
    /\ UNCHANGED process /\ UNCHANGED daemon

Serves(c, pc) == serve[c].pc = pc
ServeOnly == UNCHANGED <<outq, smu, waiter, stops, mutex>> /\ UNCHANGED process /\ UNCHANGED daemon

(* Mutant: the log is copied before the client is registered.              *)
RegisterLate(c) ==
    /\ \/ Serves(c, "register") /\ UNCHANGED reg
          /\ serve' = [serve EXCEPT ![c] = [pc |-> "snapshot", lines |-> Snapshot(log)]]
       \/ Serves(c, "snapshot") /\ smu = None
          /\ reg' = reg \cup {c}
          /\ serve' = [serve EXCEPT ![c].pc = "send"]
    /\ UNCHANGED <<inq, conn>> /\ UNCHANGED users /\ ServeOnly
(* Attach: the client is registered, and then sent the log.                *)
Attach(c) ==
    /\ \/ Serves(c, "register") /\ smu = None
          /\ reg' = reg \cup {c}
          /\ serve' = [serve EXCEPT ![c].pc = "snapshot"]
       \/ Serves(c, "snapshot") /\ UNCHANGED reg
          /\ serve' = [serve EXCEPT ![c] = [pc |-> "send", lines |-> Snapshot(log)]]
    /\ UNCHANGED <<inq, conn>> /\ UNCHANGED users /\ ServeOnly

(* A line is sent, or Attach ends with the error and leaves the client     *)
(* registered, or readFromClient is started.                               *)
AttachSends(c) ==
    /\ Serves(c, "send")
    /\ \/ /\ serve[c].lines # <<>> /\ client[c] # "closed" /\ Len(conn[c]) < ConnCap
          /\ conn' = [conn EXCEPT ![c] = Append(@, Head(serve[c].lines))]
          /\ serve' = [serve EXCEPT ![c].lines = Tail(@)]
       \/ /\ serve[c].lines # <<>> /\ client[c] = "closed"
          /\ serve' = [serve EXCEPT ![c] = [pc |-> "end", lines |-> <<>>]]
          /\ UNCHANGED conn
       \/ /\ serve[c].lines = <<>>
          /\ serve' = [serve EXCEPT ![c].pc = "read"]
          /\ UNCHANGED conn
    /\ UNCHANGED <<inq, reg>> /\ UNCHANGED users /\ ServeOnly

(* readFromClient: a line goes to the terminal when there is room; the     *)
(* write fails after the end of the process, the read after the client's.  *)
ReadFromClient(c) ==
    /\ Serves(c, "read")
    /\ \/ /\ typed[c].queue > 0 /\ alive /\ Len(inq) < InCap
          /\ inq' = Append(inq, "text")
          /\ UNCHANGED serve
       \/ /\ IF typed[c].queue > 0 THEN ~alive ELSE client[c] = "closed"
          /\ serve' = [serve EXCEPT ![c].pc = "unregister"]
          /\ UNCHANGED inq
    /\ typed' = [typed EXCEPT ![c].queue = IF @ > 0 THEN @ - 1 ELSE 0]
    /\ UNCHANGED <<reg, conn, client, got>> /\ ServeOnly

Unregister(c) ==
    /\ Serves(c, "unregister") /\ smu = None
    /\ reg' = reg \ {c}
    /\ client' = [client EXCEPT ![c] = "closed"]
    /\ serve' = [serve EXCEPT ![c].pc = "end"]
    /\ UNCHANGED <<inq, conn, typed, got>> /\ ServeOnly

-----------------------------------------------------------------------------
(* The client.  Decoding the response may swallow what has come after it.  *)
ClientOnly == UNCHANGED <<outq, inq, smu, waiter, reg, serve, stops, mutex>> /\ UNCHANGED process
              /\ UNCHANGED daemon

Decode(c) ==
    /\ client[c] = "decode"
    /\ client' = [client EXCEPT ![c] = "attached"]
    /\ \E n \in 0 .. Len(conn[c]) :
          /\ conn' = [conn EXCEPT ![c] = SubSeq(@, n + 1, Len(@))]
          /\ got' = [got EXCEPT ![c] = @ \cup Range(SubSeq(conn[c], 1, n))]
    /\ UNCHANGED typed /\ ClientOnly

Show(c) ==
    /\ client[c] = "attached" /\ conn[c] # <<>>
    /\ conn' = [conn EXCEPT ![c] = Tail(@)]
    /\ got' = [got EXCEPT ![c] = @ \cup {Head(conn[c])}]
    /\ UNCHANGED <<typed, client>> /\ ClientOnly

Type(c) ==
    /\ client[c] = "attached" /\ typed[c].total < MaxTyped
    /\ typed' = [typed EXCEPT ![c] = [total |-> @.total + 1, queue |-> @.queue + 1]]
    /\ UNCHANGED <<conn, client, got>> /\ ClientOnly

(* The terminal of the client is suspended or stops reading.               *)
Stall(c) ==
    /\ client[c] = "attached" /\ client' = [client EXCEPT ![c] = "stalled"]
    /\ UNCHANGED <<conn, typed, got>> /\ ClientOnly

Detach(c) ==
    /\ client[c] \in {"attached", "stalled"} /\ client' = [client EXCEPT ![c] = "closed"]
    /\ UNCHANGED <<conn, typed, got>> /\ ClientOnly

-----------------------------------------------------------------------------
(* Stop: the mutex is held until the write to the terminal returns, which  *)
(* it does with an error after the end of the process.                     *)
StopLocks ==
    /\ ~mutex /\ waiter.pc # "end" /\ stops < MaxStops
    /\ mutex' = TRUE /\ stops' = stops + 1
    /\ UNCHANGED <<outq, inq, smu, waiter, reg, serve, conn>>
    /\ UNCHANGED process /\ UNCHANGED daemon /\ UNCHANGED users

StopWrites ==
    /\ mutex
    /\ \/ alive /\ Len(inq) < InCap /\ inq' = Append(inq, "stop")
       \/ ~alive /\ UNCHANGED inq
    /\ mutex' = FALSE
    /\ UNCHANGED <<outq, smu, waiter, reg, serve, conn, stops>>
    /\ UNCHANGED process /\ UNCHANGED daemon /\ UNCHANGED users

Goroutines ==
    \/ Read \/ Add \/ ReaderLocks \/ ReaderUnlocks \/ WaiterLocks \/ WaiterUnlocks \/ Wait \/ StopWrites
    \/ \E c \in Clients : \/ ReaderSends(c) \/ WaiterSends(c) \/ Attach(c) \/ AttachSends(c)
                          \/ ReadFromClient(c) \/ Unregister(c)
Next ==
    \/ WantsOutput \/ Output \/ Input \/ Exit \/ StopLocks
    \/ Goroutines
    \/ \E c \in Clients : HandleScreenConn(c) \/ Decode(c) \/ Show(c) \/ Type(c) \/ Stall(c) \/ Detach(c)

Spec == Init /\ [][Next]_vars

(* Every goroutine of the daemon is scheduled; the server reads its        *)
(* console; a client that has not stalled shows what it gets.              *)
Fairness ==
    /\ WF_vars(Read \/ Add \/ ReaderLocks \/ ReaderUnlocks \/ \E c \in Clients : ReaderSends(c))
    /\ WF_vars(WaiterLocks \/ WaiterUnlocks \/ Wait \/ \E c \in Clients : WaiterSends(c))
    /\ WF_vars(StopWrites)
    /\ WF_vars(Output) /\ WF_vars(Input)
    /\ \A c \in Clients : /\ WF_vars(Attach(c) \/ AttachSends(c) \/ ReadFromClient(c) \/ Unregister(c))
                          /\ WF_vars(Decode(c) \/ Show(c))

FairSpec == Spec /\ Fairness
-----------------------------------------------------------------------------
(* The log a client is sent is the server's last output, complete and in   *)
(* order, before, while and after the ring buffer wraps.                   *)
SnapshotIsTail ==
    LET first == IF cnt > Capacity THEN cnt - Capacity ELSE 0
    IN  Snapshot(log) = [i \in 1 .. cnt - first |-> first + i]

(* An attached client misses nothing: what it was sent is everything from  *)
(* the oldest line of the log it was given to the newest output, however   *)
(* Attach interleaves with output and broadcasts (manager.go:391).  Chunks *)
(* may come twice and out of order.                                        *)
NoGap ==
    \A c \in reg :
        serve[c].pc = "read" /\ client[c] # "closed" /\ reader.pc = "read"
            => LET sent == (got[c] \cup Range(conn[c])) \ {0}
               IN  /\ sent = {} => cnt = 0
                   /\ sent # {} => sent = Min(sent) .. cnt /\ Cardinality(sent) >= Min({cnt, Capacity})

(* STOP gives the manager's mutex back although it writes to the terminal  *)
(* under it (manager.go:157): only a screen client that has stopped        *)
(* reading can hold it up.                                                 *)
StopReturns == mutex ~> ~mutex \/ \E c \in Clients : client[c] = "stalled"
=============================================================================
