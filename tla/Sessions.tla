------------------------------ MODULE Sessions ------------------------------
(***************************************************************************)
(* The session registry of the Go host (sessions.go) and its bridge        *)
(* clients (client.go).                                                    *)
(*                                                                         *)
(* Tool handlers run concurrently.  Each lists the sessions or calls one,  *)
(* and refreshes the registry before it looks at it: it probes every       *)
(* published bridge on the connection it already has, or dials another,    *)
(* and installs the result.  Refreshes exclude one another (refreshMu);    *)
(* calls hold a read lock on the entries (mu) for the whole request; each  *)
(* client has one request at a time (Client.mu).  A waiting writer keeps   *)
(* new readers out, as in sync.RWMutex.                                    *)
(*                                                                         *)
(* The bridges are external here (BridgeServer models them): what counts   *)
(* is that they answer requests in order, late, or not at all, that they   *)
(* come, go and die, and that a dead one leaves its descriptor.  An        *)
(* extension never uses a session id twice, so a descriptor always         *)
(* describes the connection an entry was made from.                        *)
(*                                                                         *)
(* `fresh', `leaked' and `executed' are history variables.                 *)
(***************************************************************************)
EXTENDS Naturals, Sequences

CONSTANTS
  Procs,          \* tool calls, each made once
  Sids,           \* session ids
  Steady,         \* bridges that are up, answer in time and never break
  Cancels,        \* may a caller's context end before its call does?
  Clients         \* bound: connections dialled, all in all

ASSUME SessionsAssumption ==
  /\ Steady \subseteq Sids
  /\ Cancels \in BOOLEAN
  /\ {"none", "list"} \cap (Procs \cup Sids \cup Clients) = {}

VARIABLES
  proc,           \* per tool call: where it is
  refresher,      \* refreshMu
  work,           \* the locals of the refresh in progress
  entries,        \* r.entries: the client of each session
  client,         \* per client: the Client and its connection
  closed,         \* has Close run?
  bridge,         \* external: the bridge of each session
  fresh,          \* history: the calls under way when an entry was probed
  leaked,         \* history: clients dropped by a refresh that was cancelled
  executed        \* history: calls the bridges executed

vars == <<proc, refresher, work, entries, client, closed, bridge, fresh, leaked, executed>>

\* A request: the correlation id is who sent it and its how-manieth it is.
Ids == [by : Procs, n : Nat, call : BOOLEAN]

Holding(e) == [Sids -> Clients \cup {e}]

NoEntries == [s \in Sids |-> "none"]
NoWork == [todo |-> {}, old |-> NoEntries, next |-> NoEntries, fresh |-> [s \in Sids |-> {}]]

Labels ==
  {"idle", "refresh", "probe", "check", "info", "drop", "dial", "install",
   "finish", "enter", "call", "await", "done"}

Outcomes ==
  {"none", "ok", "failed", "refused", "not_found", "unreadable", "cancelled"}

Processes ==
  [pc      : Labels,
   goal    : Sids \cup {"list"},
   ctx     : {"live", "ended"},
   n       : Nat,                       \* requests written
   at      : Sids \cup {"none"},        \* the session being probed
   on      : Clients \cup {"none"},     \* the client being used
   outcome : Outcomes,
   shown   : SUBSET Sids]               \* the sessions a list showed

Connections ==
  [sid      : Sids \cup {"none"},
   open     : BOOLEAN,                  \* conn # nil
   alive    : BOOLEAN,                  \* the bridge's end is open
   asked    : Seq(Ids),                 \* towards the bridge
   answered : Seq(Ids),                 \* towards us, unread
   holder   : Procs \cup {"none"}]      \* Client.mu

TypeOK ==
  /\ proc \in [Procs -> Processes]
  /\ refresher \in Procs \cup {"none"}
  /\ work \in [todo : SUBSET Sids, old : Holding("none"), next : Holding("none"),
               fresh : [Sids -> SUBSET Procs]]
  /\ entries \in Holding("none")
  /\ client \in [Clients -> Connections]
  /\ closed \in BOOLEAN
  /\ bridge \in [Sids -> {"unborn", "up", "stopped", "crashed"}]
  /\ fresh \in [Sids -> SUBSET Procs]
  /\ leaked \in SUBSET Clients
  /\ executed \in SUBSET [id : Ids, sid : Sids]

-----------------------------------------------------------------------------
Undialled ==
  [sid |-> "none", open |-> FALSE, alive |-> FALSE, asked |-> <<>>, answered |-> <<>>,
   holder |-> "none"]

Init ==
  /\ proc = [p \in Procs |->
       [pc |-> "idle", goal |-> "list", ctx |-> "live", n |-> 0, at |-> "none",
        on |-> "none", outcome |-> "none", shown |-> {}]]
  /\ refresher = "none"
  /\ work = NoWork
  /\ entries = NoEntries
  /\ client = [c \in Clients |-> Undialled]
  /\ closed = FALSE
  /\ bridge = [s \in Sids |-> IF s \in Steady THEN "up" ELSE "unborn"]
  /\ fresh = [s \in Sids |-> {}]
  /\ leaked = {}
  /\ executed = {}

At(p, label) == proc[p].pc = label
Goto(p, label) == proc' = [proc EXCEPT ![p].pc = label]
Return(p, outcome) ==
  proc' = [proc EXCEPT ![p] = [@ EXCEPT !.pc = "done", !.outcome = outcome,
                                        !.at = "none", !.on = "none"]]

Ended(p) == proc[p].ctx = "ended"
UnderWay == {p \in Procs : proc[p].pc \notin {"idle", "done"}}
Readers == {p \in Procs : proc[p].pc \in {"call", "await"}}
WriterWaits == \E p \in Procs : At(p, "install")

\* Client.Close.  The bridge may still execute what it was asked.
Hangup(k) == [k EXCEPT !.open = FALSE, !.answered = <<>>]
HangupAll(cs) == client' = [c \in Clients |-> IF c \in cs THEN Hangup(client[c]) ELSE client[c]]

-----------------------------------------------------------------------------
(* List and Call. *)

Start(p) ==
  /\ At(p, "idle")
  /\ \E g \in Sids \cup {"list"} : proc' = [proc EXCEPT ![p].pc = "refresh", ![p].goal = g]
  /\ UNCHANGED <<refresher, work, entries, client, closed, bridge, fresh, leaked, executed>>

EndContext(p) ==
  /\ Cancels
  /\ p \in UnderWay
  /\ proc' = [proc EXCEPT ![p].ctx = "ended"]
  /\ ~Ended(p)
  /\ UNCHANGED <<refresher, work, entries, client, closed, bridge, fresh, leaked, executed>>

\* The entries are read under the read lock.
EnterList(p) ==
  /\ At(p, "enter")
  /\ ~WriterWaits
  /\ proc[p].goal = "list"
  /\ proc' = [proc EXCEPT ![p] = [@ EXCEPT !.pc = "done", !.outcome = "ok",
                 !.at = "none", !.on = "none", !.shown = {s \in Sids : entries[s] # "none"}]]
  /\ UNCHANGED <<refresher, work, entries, client, closed, bridge, fresh, leaked, executed>>

EnterCall(p) ==
  /\ At(p, "enter")
  /\ ~WriterWaits
  /\ LET s == proc[p].goal IN
     /\ s # "list"
     /\ IF entries[s] = "none" THEN Return(p, "not_found")
        ELSE proc' = [proc EXCEPT ![p].pc = "call", ![p].on = entries[s]]
  /\ UNCHANGED <<refresher, work, entries, client, closed, bridge, fresh, leaked, executed>>

-----------------------------------------------------------------------------
(* Client.request: the probe of an old client, or a call. *)

Using(p) == client[proc[p].on]
Request(p) == [by |-> p, n |-> proc[p].n, call |-> At(p, "await")]

\* Where a request that failed leads: a probe drops the client.
FailRequest(p, outcome) ==
  IF proc[p].pc \in {"check", "info"} THEN Goto(p, "drop") ELSE Return(p, outcome)

Send(p) ==
  /\ proc[p].pc \in {"check", "call"}
  /\ Using(p).holder = "none"
  /\ Using(p).open
  /\ ~Ended(p)
  /\ LET call == At(p, "call") IN
     /\ client' = [client EXCEPT ![proc[p].on].holder = p,
          ![proc[p].on].asked = Append(@, [by |-> p, n |-> proc[p].n + 1, call |-> call])]
     /\ proc' = [proc EXCEPT ![p].pc = IF call THEN "await" ELSE "info", ![p].n = @ + 1]
  /\ UNCHANGED <<refresher, work, entries, closed, bridge, fresh, leaked, executed>>

\* net.ErrClosed, or the context's error.
Refuse(p) ==
  /\ proc[p].pc \in {"check", "call"}
  /\ Using(p).holder = "none"
  /\ ~Using(p).open \/ Ended(p)
  /\ FailRequest(p, "refused")
  /\ UNCHANGED <<refresher, work, entries, client, closed, bridge, fresh, leaked, executed>>

\* The probe of session s succeeded on client c.
Found(s, c) ==
  work' = [work EXCEPT !.todo = @ \ {s}, !.next[s] = c, !.fresh[s] = UnderWay]

\* Mutant: the correlation id is not compared.
ReceiveAny(p) ==
  /\ proc[p].pc \in {"info", "await"}
  /\ Using(p).answered # <<>>
  /\ client' = [client EXCEPT ![proc[p].on].holder = "none",
                              ![proc[p].on].answered = Tail(@)]
  /\ IF At(p, "info") THEN Goto(p, "probe") /\ Found(proc[p].at, proc[p].on)
     ELSE Return(p, "ok") /\ UNCHANGED work
  /\ UNCHANGED <<refresher, entries, closed, bridge, fresh, leaked, executed>>

\* The first answer that comes is taken; if its id is another's, the
\* request fails, and the connection is kept.
Receive(p) ==
  /\ proc[p].pc \in {"info", "await"}
  /\ Using(p).answered # <<>>
  /\ client' = [client EXCEPT ![proc[p].on].holder = "none",
                              ![proc[p].on].answered = Tail(@)]
  /\ IF Head(Using(p).answered) # Request(p) THEN FailRequest(p, "failed") /\ UNCHANGED work
     ELSE IF At(p, "info") THEN Goto(p, "probe") /\ Found(proc[p].at, proc[p].on)
     ELSE Return(p, "ok") /\ UNCHANGED work
  /\ UNCHANGED <<refresher, entries, closed, bridge, fresh, leaked, executed>>

\* The connection is broken, or the deadline, which a context may bring
\* forward, passes.  The connection is kept.
LoseAnswer(p) ==
  /\ proc[p].pc \in {"info", "await"}
  /\ ~Using(p).alive \/ Using(p).sid \notin Steady \/ Ended(p)
  /\ client' = [client EXCEPT ![proc[p].on].holder = "none"]
  /\ FailRequest(p, "failed")
  /\ UNCHANGED <<refresher, work, entries, closed, bridge, fresh, leaked, executed>>

-----------------------------------------------------------------------------
(* Refresh. *)

Published == {s \in Sids : bridge[s] \in {"up", "crashed"}}

BeginRefresh(p) ==
  /\ At(p, "refresh")
  /\ refresher = "none"
  /\ refresher' = p
  /\ work' = [NoWork EXCEPT !.todo = Published, !.old = entries]
  /\ Goto(p, "probe")
  /\ UNCHANGED <<entries, client, closed, bridge, fresh, leaked, executed>>

\* Mutant: the error is none of those callers know.
LoadFailsUnnamed(p) ==
  /\ At(p, "refresh")
  /\ refresher = "none"
  /\ Return(p, "error")
  /\ UNCHANGED <<refresher, work, entries, client, closed, bridge, fresh, leaked, executed>>

\* The discovery directory cannot be read.
LoadFails(p) ==
  /\ At(p, "refresh")
  /\ refresher = "none"
  /\ Return(p, "unreadable")
  /\ UNCHANGED <<refresher, work, entries, client, closed, bridge, fresh, leaked, executed>>

\* Mutant: a refresh that is given up does not unlock.
AbortRefreshLocked(p) ==
  /\ At(p, "probe")
  /\ work.todo # {}
  /\ Ended(p)
  /\ Return(p, "cancelled")
  /\ UNCHANGED <<refresher, work, entries, client, closed, bridge, fresh, leaked, executed>>

\* The context has ended: the refresh is given up, with what it dialled.
AbortRefresh(p) ==
  /\ At(p, "probe")
  /\ work.todo # {}
  /\ Ended(p)
  /\ leaked' = leaked \cup ({work.next[s] : s \in Sids}
                             \ ({"none"} \cup {entries[s] : s \in Sids}))
  /\ refresher' = "none"
  /\ work' = NoWork
  /\ Return(p, "cancelled")
  /\ UNCHANGED <<entries, client, closed, bridge, fresh, executed>>

\* Mutant: a connection that exists is taken for healthy.
ProbeTrusts(p) ==
  /\ At(p, "probe")
  /\ ~Ended(p)
  /\ \E s \in work.todo :
       IF work.old[s] = "none"
       THEN /\ proc' = [proc EXCEPT ![p].at = s, ![p].on = "none", ![p].pc = "dial"]
            /\ UNCHANGED work
       ELSE /\ work' = [work EXCEPT !.todo = @ \ {s}, !.next[s] = work.old[s], !.fresh[s] = fresh[s]]
            /\ UNCHANGED proc
  /\ UNCHANGED <<refresher, entries, client, closed, bridge, fresh, leaked, executed>>

Probe(p) ==
  /\ At(p, "probe")
  /\ ~Ended(p)
  /\ \E s \in work.todo :
       proc' = [proc EXCEPT ![p].at = s, ![p].on = work.old[s],
                            ![p].pc = IF work.old[s] = "none" THEN "dial" ELSE "check"]
  /\ UNCHANGED <<refresher, work, entries, client, closed, bridge, fresh, leaked, executed>>

\* An old client that did not answer is closed, whoever else waits for it.
Drop(p) ==
  /\ At(p, "drop")
  /\ Using(p).holder = "none"
  /\ HangupAll({proc[p].on})
  /\ Goto(p, "dial")
  /\ UNCHANGED <<refresher, work, entries, closed, bridge, fresh, leaked, executed>>

Unused == {c \in Clients : client[c] = Undialled}

\* Dial, its handshake and the first session.info.
Dial(p) ==
  /\ At(p, "dial")
  /\ bridge[proc[p].at] = "up"
  /\ ~Ended(p)
  /\ Unused # {}
  /\ LET c == CHOOSE c \in Unused : TRUE IN
     /\ client' = [client EXCEPT ![c] =
                     [@ EXCEPT !.sid = proc[p].at, !.open = TRUE, !.alive = TRUE]]
     /\ Found(proc[p].at, c)
  /\ Goto(p, "probe")
  /\ UNCHANGED <<refresher, entries, closed, bridge, fresh, leaked, executed>>

DialFails(p) ==
  /\ At(p, "dial")
  /\ proc[p].at \notin Steady \/ Ended(p)
  /\ work' = [work EXCEPT !.todo = @ \ {proc[p].at}]
  /\ Goto(p, "probe")
  /\ UNCHANGED <<refresher, entries, client, closed, bridge, fresh, leaked, executed>>

WantInstall(p) ==
  /\ At(p, "probe")
  /\ work.todo = {}
  /\ Goto(p, "install")
  /\ UNCHANGED <<refresher, work, entries, client, closed, bridge, fresh, leaked, executed>>

\* Mutant: the entries are replaced under running calls.
InstallUnlocked(p) ==
  /\ At(p, "install")
  /\ entries' = work.next
  /\ fresh' = work.fresh
  /\ Goto(p, "finish")
  /\ UNCHANGED <<refresher, work, client, closed, bridge, leaked, executed>>

Install(p) ==
  /\ At(p, "install")
  /\ Readers = {}
  /\ entries' = work.next
  /\ fresh' = work.fresh
  /\ Goto(p, "finish")
  /\ UNCHANGED <<refresher, work, client, closed, bridge, leaked, executed>>

\* Mutant: replaced and dropped clients stay open.
FinishKeepsOld(p) ==
  /\ At(p, "finish")
  /\ refresher' = "none"
  /\ work' = NoWork
  /\ Goto(p, "enter")
  /\ UNCHANGED <<entries, client, closed, bridge, fresh, leaked, executed>>

\* Mutant: clients that are kept are closed too.
FinishClosesAll(p) ==
  /\ At(p, "finish")
  /\ HangupAll({work.old[s] : s \in Sids})
  /\ refresher' = "none"
  /\ work' = NoWork
  /\ Goto(p, "enter")
  /\ UNCHANGED <<entries, closed, bridge, fresh, leaked, executed>>

\* Replaced and dropped clients are closed.
Finish(p) ==
  /\ At(p, "finish")
  /\ LET dropped == {work.old[s] : s \in {s \in Sids : work.old[s] # work.next[s]}} \ {"none"}
     IN  /\ \A c \in dropped : client[c].holder = "none"
         /\ HangupAll(dropped)
  /\ refresher' = "none"
  /\ work' = NoWork
  /\ Goto(p, "enter")
  /\ UNCHANGED <<entries, closed, bridge, fresh, leaked, executed>>

\* Registry.Close, when the host shuts down; calls may still be under way.
CloseRegistry ==
  /\ ~closed
  /\ refresher = "none"
  /\ Readers = {}
  /\ closed' = TRUE
  /\ entries' = NoEntries
  /\ HangupAll({entries[s] : s \in Sids})
  /\ UNCHANGED <<proc, refresher, work, bridge, fresh, leaked, executed>>

-----------------------------------------------------------------------------
(* The bridges: external. *)

Publish(s) ==
  /\ bridge[s] = "unborn"
  /\ bridge' = [bridge EXCEPT ![s] = "up"]
  /\ UNCHANGED <<proc, refresher, work, entries, client, closed, fresh, leaked, executed>>

\* It stops, and removes its descriptor, or dies, and leaves it.
Vanish(s) ==
  /\ bridge[s] = "up"
  /\ s \notin Steady
  /\ \E b \in {"stopped", "crashed"} : bridge' = [bridge EXCEPT ![s] = b]
  /\ client' = [c \in Clients |->
       IF client[c].sid = s THEN [client[c] EXCEPT !.alive = FALSE, !.asked = <<>>]
       ELSE client[c]]
  /\ UNCHANGED <<proc, refresher, work, entries, closed, fresh, leaked, executed>>

\* It closes a connection (idle, or one that cannot be written to).
Break(c) ==
  /\ client[c].alive
  /\ client[c].sid \notin Steady \/ ~client[c].open
  /\ client' = [client EXCEPT ![c] = [@ EXCEPT !.alive = FALSE, !.asked = <<>>]]
  /\ UNCHANGED <<proc, refresher, work, entries, closed, bridge, fresh, leaked, executed>>

Respond(c) ==
  /\ client[c].alive
  /\ client[c].asked # <<>>
  /\ client' = [client EXCEPT
       ![c].asked = Tail(@),
       ![c].answered = IF client[c].open THEN Append(@, Head(client[c].asked)) ELSE @]
  /\ LET id == Head(client[c].asked) IN
     executed' = IF id.call THEN executed \cup {[id |-> id, sid |-> client[c].sid]} ELSE executed
  /\ UNCHANGED <<proc, refresher, work, entries, closed, bridge, fresh, leaked>>

-----------------------------------------------------------------------------
ProcStep(p) ==
  \/ EnterList(p) \/ EnterCall(p)
  \/ Send(p) \/ Refuse(p) \/ Receive(p) \/ LoseAnswer(p)
  \/ BeginRefresh(p) \/ LoadFails(p) \/ AbortRefresh(p) \/ Probe(p) \/ Drop(p)
  \/ Dial(p) \/ DialFails(p) \/ WantInstall(p) \/ Install(p) \/ Finish(p)

Next ==
  \/ \E p \in Procs : Start(p) \/ EndContext(p) \/ ProcStep(p)
  \/ CloseRegistry
  \/ \E s \in Sids : Publish(s) \/ Vanish(s)
  \/ \E c \in Clients : Break(c) \/ Respond(c)

Spec == Init /\ [][Next]_vars

(* Go schedules every goroutine and hands over the locks; the runtime's    *)
(* deadlines make LoseAnswer happen if no answer comes.  A steady bridge   *)
(* answers.  Nothing is assumed of the others.                             *)
FairSpec ==
  /\ Spec
  /\ \A p \in Procs : WF_vars(ProcStep(p))
  /\ \A c \in Clients : WF_vars(client[c].sid \in Steady /\ Respond(c))

-----------------------------------------------------------------------------
Called(p, id) == id.by = p /\ id.call

(* What a call reports is what happened at the bridge: success means that  *)
(* this very request, not an earlier one of the connection, was executed   *)
(* by the session that was named; not found, cancelled, unreadable and     *)
(* refused mean that nothing was sent, so that nothing can ever happen.    *)
(* (client.go request, correlation of answers that come late.)             *)
CallsAreTruthful ==
  \A p \in Procs : At(p, "done") /\ proc[p].goal # "list" =>
    /\ proc[p].outcome = "ok" =>
         [id |-> [by |-> p, n |-> proc[p].n, call |-> TRUE], sid |-> proc[p].goal] \in executed
    /\ proc[p].outcome \in {"refused", "not_found", "unreadable", "cancelled"} =>
         /\ \A e \in executed : ~Called(p, e.id)
         /\ \A c \in Clients : \A i \in DOMAIN client[c].asked : ~Called(p, client[c].asked[i])

(* Whatever refreshes run side by side, a call or list looks only at       *)
(* entries that answered a probe after it began: a session that died       *)
(* before is never used or shown (Refresh before every Call and List, one  *)
(* refresh at a time).                                                     *)
LooksAtFreshEntries ==
  \A p \in Procs, s \in Sids :
    proc[p].pc \in {"enter", "call", "await"} /\ entries[s] # "none" => p \in fresh[s]

(* The entry a call uses stays installed until the call ends, so closing   *)
(* the replaced clients never cuts off a call (Call keeps the read lock).  *)
CallsKeepTheirEntry ==
  \A p \in Procs : proc[p].pc \in {"call", "await"} => entries[proc[p].goal] = proc[p].on

(* A client with an open connection is installed, or in the hands of the   *)
(* refresh in progress: none is forgotten, however probes fail and clients *)
(* are replaced.  The exception the code has is a refresh whose context    *)
(* ends.                                                                   *)
OpenClientsAreOwned ==
  \A c \in Clients : client[c].open =>
    \/ c \in {entries[s] : s \in Sids}
    \/ c \in {work.old[s] : s \in Sids} \cup {work.next[s] : s \in Sids}
    \/ c \in leaked

Served(p) ==
  IF proc[p].goal = "list" THEN Steady \subseteq proc[p].shown \/ proc[p].outcome = "unreadable"
  ELSE proc[p].goal \in Steady => proc[p].outcome \in {"ok", "unreadable"}

(* While no context has ended, concurrent calls of a steady session all    *)
(* succeed and every list shows it, whatever other sessions do             *)
(* (TestRegistryConcurrentListIsRaceFree).                                 *)
ServedTogether ==
  \A p \in Procs :
    At(p, "done") /\ ~closed /\ (\A q \in Procs : ~Ended(q)) => Served(p)

(* The same with only the caller's own context live: that another caller   *)
(* gave up makes no difference (server.go: "List healthy authenticated     *)
(* SketchUp desktop sessions").                                            *)
ServedAlone ==
  \A p \in Procs : At(p, "done") /\ ~closed /\ ~Ended(p) => Served(p)

(* Every call returns: locks, waiting writers, slow and dead bridges never *)
(* leave one waiting for ever.                                             *)
CallsReturn ==
  \A p \in Procs : At(p, "refresh") ~> At(p, "done")
=============================================================================
