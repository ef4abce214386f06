---------------------------- MODULE BridgeServer ----------------------------
(***************************************************************************)
(* The bridge of the SketchUp extension: server.rb, the request queue and  *)
(* main_thread_dispatcher.rb.                                              *)
(*                                                                         *)
(* Two repeating timers share the application's main thread.  A poll tick  *)
(* accepts connections and then serves each one: reads and handles frames, *)
(* flushes responses, expires it.  A drain tick takes requests off the     *)
(* queue and executes them.  Ticks do not interrupt each other, but peers  *)
(* (external) send, read and hang up between any two of their steps, so    *)
(* `main' says where in a tick the thread is.                              *)
(*                                                                         *)
(* Clocks are abstracted to what is done with them: `due' holds the        *)
(* timeouts of a connection that have run out, `late' marks a request      *)
(* whose deadline has passed.  A frame is its kind and, for requests, its  *)
(* id; a socket holds frames.  `asked', `told' and `ran' are history        *)
(* variables: request frames a peer sent, responses put on its write queue *)
(* and requests executed, by id.                                           *)
(***************************************************************************)
EXTENDS Naturals, FiniteSets, Sequences

CONSTANTS
  Conns,              \* connections peers may open, each at most once
  ReqIds,             \* request ids peers use
  Kinds,              \* the kinds of frames peers send
  Timeouts,           \* the timeouts that can run out
  MaxClients,         \* MAX_CLIENTS
  MaxOutstanding,     \* Protocol::MAX_OUTSTANDING_REQUESTS
  QueueCapacity,      \* REQUEST_QUEUE_CAPACITY
  MaxPendingWrites,   \* MAX_PENDING_WRITE_BYTES, in frames
  MaxAccepts,         \* MAX_ACCEPTS_PER_TICK
  MaxReads,           \* MAX_READS_PER_CLIENT_PER_TICK
  MaxFrames,          \* MAX_FRAMES_PER_CLIENT_PER_TICK
  MaxWrites,          \* MAX_WRITES_PER_CLIENT_PER_TICK
  MaxPerTick,         \* DEFAULT_MAX_PER_TICK
  SocketCapacity,     \* bound: frames a socket holds towards the peer
  MaxSent             \* bound: frames a peer sends, per connection

Handshake == {"hello", "auth", "badauth"}
Asking == {"request", "foreign", "invalid"}

ASSUME BridgeAssumption ==
  /\ IsFiniteSet(Conns) /\ IsFiniteSet(ReqIds) /\ "none" \notin Conns \cup ReqIds
  /\ Kinds \subseteq Handshake \cup Asking \cup {"garbage"}
  /\ Timeouts \subseteq {"handshake", "idle", "write"}
  /\ {MaxClients, MaxOutstanding, QueueCapacity, MaxPendingWrites, MaxAccepts,
      MaxReads, MaxFrames, MaxWrites, MaxPerTick, SocketCapacity} \subseteq Nat \ {0}
  /\ MaxSent \in [Conns -> Nat]

VARIABLES
  conn,       \* per connection: the Connection and its socket
  queue,      \* @request_queue
  main,       \* where the main thread is
  running,    \* @running
  asked,      \* history: requests sent, per connection and id
  told,       \* history: responses enqueued, per connection and id
  ran         \* history: requests executed, per connection and id

vars == <<conn, queue, main, running, asked, told, ran>>

(* A frame from a peer.  "foreign" is a request for another session,       *)
(* "invalid" a malformed one that still has an id, "garbage" anything      *)
(* that has none.                                                          *)
Frames ==
  [kind : Handshake \cup {"garbage"}, id : {"none"}] \cup [kind : Asking, id : ReqIds]

\* An item of the write queue: `release' is release_id being set.
Items ==
  [id : {"none"}, release : {FALSE}] \cup [id : ReqIds, release : BOOLEAN]

Works == [conn : Conns, id : ReqIds, late : BOOLEAN]

Connections ==
  [phase       : {"absent", "backlog", "open", "closed"},
   state       : {"hello", "authenticate", "ready"},
   closing     : BOOLEAN,              \* @close_after_write
   outstanding : SUBSET ReqIds,
   buffer      : Seq(Frames),          \* @read_buffer
   writes      : Seq(Items),           \* @write_queue
   begun       : BOOLEAN,              \* its first frame is partly written
   due         : SUBSET {"handshake", "idle", "write"},
   wire        : Seq(Frames),          \* external: the socket, towards us
   out         : 0..SocketCapacity,    \* external: the socket, towards the peer
   hungup      : BOOLEAN,              \* external: the peer has closed
   sent        : Nat]           \* bound counter

Idle == [at |-> "idle", serving |-> "none", todo |-> {}, n |-> 0, m |-> 0]

(* n and m count what the tick has done: accepts; chunks read and frames   *)
(* handled; writes; requests processed.                                    *)
MainStates ==
  [at : {"idle", "accept", "next", "drain"}, serving : {"none"},
   todo : SUBSET Conns, n : Nat, m : Nat]
    \cup
  [at : {"read", "flush"}, serving : Conns, todo : SUBSET Conns, n : Nat, m : Nat]

At(label, c) == main.at = label /\ main.serving = c

TypeOK ==
  /\ conn \in [Conns -> Connections]
  /\ queue \in Seq(Works)
  /\ main \in MainStates
  /\ running \in BOOLEAN
  /\ asked \in [Conns -> [ReqIds -> Nat]]
  /\ told \in [Conns -> [ReqIds -> Nat]]
  /\ ran \in [Conns -> [ReqIds -> Nat]]

Clients == {c \in Conns : conn[c].phase = "open"}

-----------------------------------------------------------------------------
(* The connection object, as functions from its state to its next state. *)

Close(k) ==
  [k EXCEPT !.phase = "closed", !.outstanding = {}, !.writes = <<>>, !.begun = FALSE]

\* enqueue_response.
Enqueue(k, id, release) ==
  IF k.phase # "open" THEN k
  ELSE IF Len(k.writes) >= MaxPendingWrites THEN Close(k)
  ELSE [k EXCEPT !.writes = Append(@, [id |-> id, release |-> release]),
                 !.due = IF k.writes = <<>> THEN @ \ {"write"} ELSE @]

\* Mutant: an unknown state is entered.
HandleHelloWrongState(k, f) ==
  IF f.kind # "hello" THEN Close(k)
  ELSE [Enqueue(k, "none", FALSE) EXCEPT !.state = "auth"]

HandleHello(k, f) ==
  IF f.kind # "hello" THEN Close(k)
  ELSE [Enqueue(k, "none", FALSE) EXCEPT !.state = "authenticate"]

HandleAuthenticate(k, f) ==
  CASE f.kind = "auth"    -> [Enqueue(k, "none", FALSE) EXCEPT !.state = "ready"]
    [] f.kind = "badauth" -> [Enqueue(k, "none", FALSE) EXCEPT !.closing = TRUE]
    [] OTHER              -> Close(k)

Reserve(k, id) == [k EXCEPT !.outstanding = @ \cup {id}]

Refused(k, f) ==
  \/ f.kind = "invalid"
  \/ f.id \in k.outstanding
  \/ Cardinality(k.outstanding) >= MaxOutstanding

\* Mutant: the queue is not bounded.
AcceptedUnbounded(k, f) ==
  /\ f.kind = "request"
  /\ ~Refused(k, f)

Accepted(k, f) ==
  /\ f.kind = "request"
  /\ ~Refused(k, f)
  /\ Len(queue) < QueueCapacity

\* Mutant: refused requests are dropped.
HandleRequestSilent(k, f) ==
  CASE f.kind \notin Asking -> Close(k)
    [] f.kind \in Asking /\ Refused(k, f) -> k
    [] Accepted(k, f) -> Reserve(k, f.id)
    [] OTHER -> Enqueue(Reserve(k, f.id), f.id, TRUE)

\* Mutant: the answer to a refused request frees the id.
HandleRequestFrees(k, f) ==
  CASE f.kind \notin Asking -> Close(k)
    [] f.kind \in Asking /\ Refused(k, f) -> Enqueue(k, f.id, TRUE)
    [] Accepted(k, f) -> Reserve(k, f.id)
    [] OTHER -> Enqueue(Reserve(k, f.id), f.id, TRUE)

HandleRequest(k, f) ==
  CASE f.kind \notin Asking -> Close(k)
    [] f.kind \in Asking /\ Refused(k, f) -> Enqueue(k, f.id, FALSE)
    [] Accepted(k, f) -> Reserve(k, f.id)
    [] OTHER -> Enqueue(Reserve(k, f.id), f.id, TRUE)

HandleMessage(k, f) ==
  CASE k.state = "hello"        -> HandleHello(k, f)
    [] k.state = "authenticate" -> HandleAuthenticate(k, f)
    [] k.state = "ready"        -> HandleRequest(k, f)

\* Mutant: the handshake timeout is not looked at.
ExpiredReady(k) ==
  \/ k.state = "ready" /\ "idle" \in k.due
  \/ k.writes # <<>> /\ "write" \in k.due

\* expire_if_needed.
Expired(k) ==
  \/ k.state # "ready" /\ "handshake" \in k.due
  \/ k.state = "ready" /\ "idle" \in k.due
  \/ k.writes # <<>> /\ "write" \in k.due

\* A response counts as told once it is on the write queue.
Told(c, id, k) ==
  told' = IF id # "none" /\ Len(k.writes) > Len(conn[c].writes)
          THEN [told EXCEPT ![c][id] = @ + 1] ELSE told

-----------------------------------------------------------------------------
Init ==
  /\ conn = [c \in Conns |->
       [phase |-> "absent", state |-> "hello", closing |-> FALSE, outstanding |-> {},
        buffer |-> <<>>, writes |-> <<>>, begun |-> FALSE, due |-> {}, wire |-> <<>>,
        out |-> 0, hungup |-> FALSE, sent |-> 0]]
  /\ queue = <<>>
  /\ main = Idle
  /\ running = TRUE
  /\ asked = [c \in Conns |-> [i \in ReqIds |-> 0]]
  /\ told = [c \in Conns |-> [i \in ReqIds |-> 0]]
  /\ ran = [c \in Conns |-> [i \in ReqIds |-> 0]]

(* poll_once. *)

StartPoll ==
  /\ running
  /\ main.at = "idle"
  /\ main' = [Idle EXCEPT !.at = "accept"]
  /\ UNCHANGED <<conn, queue, running, asked, told, ran>>

\* Mutant: a connection beyond the limit is left waiting.
AcceptOrWait(c) ==
  /\ main.at = "accept"
  /\ main.n < MaxAccepts
  /\ conn[c].phase = "backlog"
  /\ Cardinality(Clients) < MaxClients
  /\ conn' = [conn EXCEPT ![c].phase = "open"]
  /\ main' = [main EXCEPT !.n = @ + 1]
  /\ UNCHANGED <<queue, running, asked, told, ran>>

\* Mutant: the clients are not counted.
AcceptAll(c) ==
  /\ main.at = "accept"
  /\ main.n < MaxAccepts
  /\ conn[c].phase = "backlog"
  /\ conn' = [conn EXCEPT ![c].phase = "open"]
  /\ main' = [main EXCEPT !.n = @ + 1]
  /\ UNCHANGED <<queue, running, asked, told, ran>>

Accept(c) ==
  /\ main.at = "accept"
  /\ main.n < MaxAccepts
  /\ conn[c].phase = "backlog"
  /\ IF Cardinality(Clients) >= MaxClients
     THEN /\ conn' = [conn EXCEPT ![c] = Close(@)]
          /\ UNCHANGED main
     ELSE /\ conn' = [conn EXCEPT ![c].phase = "open"]
          /\ main' = [main EXCEPT !.n = @ + 1]
  /\ UNCHANGED <<queue, running, asked, told, ran>>

EndAccept ==
  /\ main.at = "accept"
  /\ main.n = MaxAccepts \/ \A c \in Conns : conn[c].phase # "backlog"
  /\ main' = [Idle EXCEPT !.at = "next", !.todo = Clients]
  /\ UNCHANGED <<conn, queue, running, asked, told, ran>>

\* The order in which the connections of a tick are served is left open.
Serve(c) ==
  /\ main.at = "next"
  /\ c \in main.todo
  /\ main' = [Idle EXCEPT !.at = "read", !.serving = c, !.todo = main.todo \ {c}]
  /\ UNCHANGED <<conn, queue, running, asked, told, ran>>

EndPoll ==
  /\ main.at = "next"
  /\ main.todo = {}
  /\ main' = Idle
  /\ UNCHANGED <<conn, queue, running, asked, told, ran>>

\* read_pending goes on: the connection is neither closed nor closing and
\* the tick's share of frames is not used up.
Reading(c) ==
  /\ At("read", c)
  /\ conn[c].phase = "open"
  /\ ~conn[c].closing
  /\ main.m < MaxFrames

\* One frame of drain_frames.
HandleFrame(c) ==
  /\ Reading(c)
  /\ conn[c].buffer # <<>>
  /\ LET f == Head(conn[c].buffer)
         k == [conn[c] EXCEPT !.buffer = Tail(@)]
         h == HandleMessage(k, f)
     IN  /\ conn' = [conn EXCEPT ![c] = h]
         /\ queue' = IF k.state = "ready" /\ Accepted(k, f)
                     THEN Append(queue, [conn |-> c, id |-> f.id, late |-> FALSE])
                     ELSE queue
         /\ Told(c, f.id, h)
  /\ main' = [main EXCEPT !.m = @ + 1]
  /\ UNCHANGED <<running, asked, ran>>

\* A chunk arrives, or the end of the stream or an error is met.
ReadChunk(c) ==
  /\ Reading(c)
  /\ conn[c].buffer = <<>>
  /\ main.n < MaxReads
  /\ conn[c].wire # <<>>
  /\ \E i \in 1..Len(conn[c].wire) :
       conn' = [conn EXCEPT ![c] =
         [conn[c] EXCEPT !.buffer = SubSeq(conn[c].wire, 1, i),
                         !.wire = SubSeq(conn[c].wire, i + 1, Len(conn[c].wire)),
                         !.due = @ \ {"idle"}]]
  /\ main' = [main EXCEPT !.n = @ + 1]
  /\ UNCHANGED <<queue, running, asked, told, ran>>

ReadEnd(c) ==
  /\ Reading(c)
  /\ conn[c].buffer = <<>>
  /\ main.n < MaxReads
  /\ conn[c].wire = <<>>
  /\ conn[c].hungup
  /\ conn' = [conn EXCEPT ![c] = Close(@)]
  /\ UNCHANGED <<queue, main, running, asked, told, ran>>

NothingToRead(c) ==
  /\ conn[c].buffer = <<>>
  /\ main.n = MaxReads \/ (conn[c].wire = <<>> /\ ~conn[c].hungup)

EndRead(c) ==
  /\ At("read", c)
  /\ ~Reading(c) \/ NothingToRead(c)
  /\ main' = [main EXCEPT !.at = "flush", !.n = 0, !.m = 0]
  /\ UNCHANGED <<conn, queue, running, asked, told, ran>>

Flushing(c) ==
  /\ At("flush", c)
  /\ conn[c].writes # <<>>
  /\ main.n < MaxWrites

\* Mutant: the id of a written response stays reserved.
WriteFrameKeepsId(c) ==
  /\ Flushing(c)
  /\ conn[c].out < SocketCapacity
  /\ conn' = [conn EXCEPT ![c] =
       [conn[c] EXCEPT !.writes = Tail(@), !.begun = FALSE, !.out = @ + 1,
                       !.due = @ \ {"write"}]]
  /\ main' = [main EXCEPT !.n = @ + 1]
  /\ UNCHANGED <<queue, running, asked, told, ran>>

\* A whole frame leaves; its request id is free again.
WriteFrame(c) ==
  /\ Flushing(c)
  /\ conn[c].out < SocketCapacity
  /\ LET item == Head(conn[c].writes) IN
     conn' = [conn EXCEPT ![c] =
       [conn[c] EXCEPT !.writes = Tail(@),
                       !.begun = FALSE,
                       !.out = @ + 1,
                       !.due = @ \ {"write"},
                       !.outstanding = IF item.release THEN @ \ {item.id} ELSE @]]
  /\ main' = [main EXCEPT !.n = @ + 1]
  /\ UNCHANGED <<queue, running, asked, told, ran>>

\* Part of a frame leaves (bound: once for a frame).
WritePart(c) ==
  /\ Flushing(c)
  /\ ~conn[c].begun
  /\ conn[c].out < SocketCapacity
  /\ conn' = [conn EXCEPT ![c] = [conn[c] EXCEPT !.begun = TRUE, !.due = @ \ {"write"}]]
  /\ main' = [main EXCEPT !.n = @ + 1]
  /\ UNCHANGED <<queue, running, asked, told, ran>>

\* The peer is gone and the write fails.
WriteError(c) ==
  /\ Flushing(c)
  /\ conn[c].hungup
  /\ conn' = [conn EXCEPT ![c] = Close(@)]
  /\ UNCHANGED <<queue, main, running, asked, told, ran>>

\* The end of flush_pending, then expire_if_needed.
EndServe(c) ==
  /\ At("flush", c)
  /\ ~Flushing(c) \/ conn[c].out = SocketCapacity
  /\ LET k == conn[c] IN
     conn' = IF \/ k.phase = "closed"
                \/ k.closing /\ k.writes = <<>>
                \/ Expired(k)
             THEN [conn EXCEPT ![c] = Close(@)] ELSE conn
  /\ main' = [Idle EXCEPT !.at = "next", !.todo = main.todo]
  /\ UNCHANGED <<queue, running, asked, told, ran>>

-----------------------------------------------------------------------------
(* drain_once. *)

StartDrain ==
  /\ running
  /\ main.at = "idle"
  /\ queue # <<>>
  /\ main' = [Idle EXCEPT !.at = "drain"]
  /\ UNCHANGED <<conn, queue, running, asked, told, ran>>

\* Mutant: an executed request is not answered.
ProcessUnanswered ==
  /\ main.at = "drain"
  /\ main.n < MaxPerTick
  /\ queue # <<>>
  /\ LET work == Head(queue) IN
     ran' = IF conn[work.conn].phase = "open" /\ ~work.late
            THEN [ran EXCEPT ![work.conn][work.id] = @ + 1] ELSE ran
  /\ queue' = Tail(queue)
  /\ main' = [main EXCEPT !.n = @ + 1]
  /\ UNCHANGED <<conn, running, asked, told>>

\* process: a cancelled request is dropped, a late one and an executed one
\* are answered.
Process ==
  /\ main.at = "drain"
  /\ main.n < MaxPerTick
  /\ queue # <<>>
  /\ LET work == Head(queue)
         c == work.conn
         h == Enqueue(conn[c], work.id, TRUE)
     IN  /\ conn' = [conn EXCEPT ![c] = h]
         /\ Told(c, work.id, h)
         /\ ran' = IF conn[c].phase = "open" /\ ~work.late
                   THEN [ran EXCEPT ![c][work.id] = @ + 1] ELSE ran
  /\ queue' = Tail(queue)
  /\ main' = [main EXCEPT !.n = @ + 1]
  /\ UNCHANGED <<running, asked>>

EndDrain ==
  /\ main.at = "drain"
  /\ main.n = MaxPerTick \/ queue = <<>>
  /\ main' = Idle
  /\ UNCHANGED <<conn, queue, running, asked, told, ran>>

(* stop: every connection is closed, the listener with what it has not     *)
(* accepted, and both timers (Runtime.stop).                               *)
Stop ==
  /\ running
  /\ main.at = "idle"
  /\ running' = FALSE
  /\ conn' = [c \in Conns |->
       IF conn[c].phase \in {"open", "backlog"} THEN Close(conn[c]) ELSE conn[c]]
  /\ UNCHANGED <<queue, main, asked, told, ran>>

-----------------------------------------------------------------------------
(* Peers and time: external. *)

Connect(c) ==
  /\ running
  /\ conn[c].phase = "absent"
  /\ conn' = [conn EXCEPT ![c].phase = "backlog"]
  /\ UNCHANGED <<queue, main, running, asked, told, ran>>

Connected(c) == conn[c].phase \in {"backlog", "open"} /\ ~conn[c].hungup

Send(c) ==
  /\ Connected(c)
  /\ conn[c].sent < MaxSent[c]
  /\ \E f \in Frames :
       /\ f.kind \in Kinds
       /\ conn' = [conn EXCEPT ![c] =
            [conn[c] EXCEPT !.wire = Append(@, f), !.sent = @ + 1]]
       /\ asked' = IF f.kind \in Asking THEN [asked EXCEPT ![c][f.id] = @ + 1] ELSE asked
  /\ UNCHANGED <<queue, main, running, told, ran>>

Receive(c) ==
  /\ Connected(c)
  /\ conn[c].out > 0
  /\ conn' = [conn EXCEPT ![c].out = @ - 1]
  /\ UNCHANGED <<queue, main, running, asked, told, ran>>

\* The peer closes; what it sent may be lost with the connection.
HangUp(c) ==
  /\ Connected(c)
  /\ \E w \in {conn[c].wire, <<>>} :
       conn' = [conn EXCEPT ![c] = [conn[c] EXCEPT !.hungup = TRUE, !.wire = w]]
  /\ UNCHANGED <<queue, main, running, asked, told, ran>>

\* A timeout of an accepted connection runs out.
Lapse(c, t) ==
  /\ conn[c].phase = "open"
  /\ t \notin conn[c].due
  /\ t = "handshake" => conn[c].state # "ready"
  /\ t = "idle" => conn[c].state = "ready"
  /\ t = "write" => conn[c].writes # <<>>
  /\ conn' = [conn EXCEPT ![c].due = @ \cup {t}]
  /\ UNCHANGED <<queue, main, running, asked, told, ran>>

\* The deadline of a queued request passes.
PassDeadline ==
  /\ \E i \in 1..Len(queue) :
       /\ ~queue[i].late
       /\ queue' = [queue EXCEPT ![i].late = TRUE]
  /\ UNCHANGED <<conn, main, running, asked, told, ran>>

-----------------------------------------------------------------------------
ServeStep(c) ==
  \/ HandleFrame(c) \/ ReadChunk(c) \/ ReadEnd(c) \/ EndRead(c)
  \/ WriteFrame(c) \/ WritePart(c) \/ WriteError(c) \/ EndServe(c)

\* A step inside a tick.
TickStep ==
  \/ EndAccept \/ EndPoll \/ Process \/ EndDrain
  \/ \E c \in Conns : Accept(c) \/ Serve(c) \/ ServeStep(c)

PeerStep(c) ==
  Connect(c) \/ Send(c) \/ Receive(c) \/ HangUp(c)

TimeStep ==
  PassDeadline \/ \E c \in Conns, t \in Timeouts : Lapse(c, t)

Next ==
  \/ StartPoll
  \/ StartDrain
  \/ TickStep
  \/ Stop
  \/ \E c \in Conns : PeerStep(c)
  \/ TimeStep

Spec == Init /\ [][Next]_vars

(* Both timers repeat: a tick, once begun, ends, and each timer fires      *)
(* again and again.  Time passes: a connection that has not completed its  *)
(* handshake, or cannot write, runs out of it.  Nothing is assumed of      *)
(* peers.                                                                  *)
Fairness ==
  /\ WF_vars(TickStep)
  /\ SF_vars(StartPoll)
  /\ SF_vars(StartDrain)
  /\ \A c \in Conns : WF_vars(Lapse(c, "handshake")) /\ WF_vars(Lapse(c, "write"))

FairSpec == Spec /\ Fairness

-----------------------------------------------------------------------------
\* How many elements of the sequence s are in S.
Count(s, S) == Cardinality({i \in DOMAIN s : s[i] \in S})

QueuedFor(c, id) == Count(queue, [conn : {c}, id : {id}, late : BOOLEAN])

AskingFor(id) == [kind : Asking, id : {id}]

Unread(c, id) == Count(conn[c].wire, AskingFor(id)) + Count(conn[c].buffer, AskingFor(id))

Releasing(c, id) == Count(conn[c].writes, [id : {id}, release : {TRUE}])

(* Every request frame is answered once: while a connection lives, what    *)
(* its peer asked under an id is still unread, still queued or answered,   *)
(* whatever mixture of good, duplicate, excess and malformed requests it   *)
(* was (handle_request, process, enqueue_response).                        *)
EveryRequestAnsweredOnce ==
  \A c \in Conns, id \in ReqIds :
    conn[c].phase = "open" /\ ~conn[c].hungup =>
      asked[c][id] = Unread(c, id) + QueuedFor(c, id) + told[c][id]

(* The slots of a connection are exactly its requests in flight: an id is  *)
(* reserved while one piece of work for it is queued or one response that  *)
(* releases it waits to be written.  A slot that leaked would count        *)
(* against the limit of outstanding requests for ever; one freed early     *)
(* would let two requests share an id.                                     *)
SlotsAreInFlight ==
  \A c \in Conns, id \in ReqIds :
    conn[c].phase = "open" =>
      QueuedFor(c, id) + Releasing(c, id) = (IF id \in conn[c].outstanding THEN 1 ELSE 0)

(* A request runs at most once, only if it was asked, and on a live        *)
(* connection it has been answered too.                                    *)
RunsAreAnswered ==
  \A c \in Conns, id \in ReqIds :
    /\ ran[c][id] <= asked[c][id]
    /\ conn[c].phase = "open" => ran[c][id] <= told[c][id]

(* No table grows past its limit, whatever the peers send.                 *)
WithinLimits ==
  /\ Cardinality(Clients) <= MaxClients
  /\ Len(queue) <= QueueCapacity
  /\ \A c \in Conns :
       /\ Cardinality(conn[c].outstanding) <= MaxOutstanding
       /\ Len(conn[c].writes) <= MaxPendingWrites

-----------------------------------------------------------------------------
(* The inductive invariant.  A connection that is not yet accepted or is   *)
(* closed holds nothing; of one that lives, no request frame is counted    *)
(* twice among the unread, the queued and the answered, and none is        *)
(* missing unless its peer hung up.                                        *)
NothingHeld ==
  \A c \in Conns :
    /\ conn[c].phase # "open" => conn[c].outstanding = {} /\ conn[c].writes = <<>>
    /\ conn[c].phase \in {"absent", "backlog"} =>
         \A id \in ReqIds : QueuedFor(c, id) = 0

RequestsAreCounted ==
  \A c \in Conns, id \in ReqIds :
    conn[c].phase # "closed" =>
      /\ Unread(c, id) + QueuedFor(c, id) + told[c][id] <= asked[c][id]
      /\ ~conn[c].hungup =>
           asked[c][id] = Unread(c, id) + QueuedFor(c, id) + told[c][id]
      /\ ran[c][id] <= told[c][id]

BridgeInv ==
  /\ TypeOK
  /\ WithinLimits
  /\ NothingHeld
  /\ SlotsAreInFlight
  /\ RequestsAreCounted
  /\ RunsAreAnswered

-----------------------------------------------------------------------------
(* Every accepted request frees its slot: its answer is written or its     *)
(* connection is closed, even if the peer reads nothing.                   *)
SlotsAreFreed ==
  \A c \in Conns, id \in ReqIds :
    id \in conn[c].outstanding ~> id \notin conn[c].outstanding

(* A connection does not linger in its handshake.                          *)
HandshakesEnd ==
  \A c \in Conns :
    conn[c].phase = "open" ~> conn[c].phase = "closed" \/ conn[c].state = "ready"

(* A connecting peer is accepted or turned away.                           *)
BacklogIsServed ==
  \A c \in Conns : conn[c].phase = "backlog" ~> conn[c].phase # "backlog"
=============================================================================
