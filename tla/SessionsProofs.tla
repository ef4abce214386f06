--------------------------- MODULE SessionsProofs ---------------------------
(***************************************************************************)
(* Theorems about the session registry and its clients, for any number of  *)
(* concurrent calls, sessions and connections: who is answered by whom,    *)
(* which entries are looked at, which clients are kept, and that steady    *)
(* sessions are served while nobody gives up.                              *)
(***************************************************************************)
EXTENDS Sessions, SequenceTheorems, TLAPS

-----------------------------------------------------------------------------
(* The inductive invariant *)

Refreshing == {"probe", "check", "info", "drop", "dial", "install", "finish"}
Looking == {"enter", "call", "await"}

(* Who refreshes holds refreshMu, and a refresh leaves nothing behind.     *)
OneRefresh ==
  /\ \A p \in Procs : proc[p].pc \in Refreshing <=> refresher = p
  /\ refresher = "none" => work = NoWork

(* A probe is of a session still to do, on the client it has; a call is on *)
(* the client of its session.                                              *)
UsesItsClient(p) ==
  /\ proc[p].pc \in {"check", "info", "drop", "dial"} => proc[p].at \in work.todo
  /\ proc[p].pc \in {"check", "info", "drop"} =>
       proc[p].on = work.old[proc[p].at] /\ proc[p].on # "none"
  /\ proc[p].pc \in {"call", "await"} =>
       /\ proc[p].goal # "list"
       /\ proc[p].on = entries[proc[p].goal] /\ proc[p].on # "none"

(* Until a refresh has installed its result the entries are those it began *)
(* with; then they are its result.                                         *)
InstallsItsResult(p) ==
  /\ proc[p].pc \in Refreshing \ {"finish"} => work.old = entries
  /\ proc[p].pc = "install" => work.todo = {}
  /\ proc[p].pc = "finish" => entries = work.next /\ fresh = work.fresh

(* What a refresh has found answered after everyone who may look at its    *)
(* result began.                                                           *)
FoundForAll(s) ==
  work.next[s] # "none" =>
    /\ s \notin work.todo
    /\ \A p \in Procs : proc[p].pc \in Looking \cup Refreshing => p \in work.fresh[s]

RefreshInv ==
  /\ OneRefresh
  /\ \A p \in Procs : UsesItsClient(p) /\ InstallsItsResult(p)
  /\ \A s \in Sids : FoundForAll(s)
  /\ LooksAtFreshEntries

(* The clients of a session are connections to it.                         *)
OfItsSession(s) ==
  \A c \in {entries[s], work.old[s], work.next[s]} \ {"none"} : client[c].sid = s

OwnershipInv ==
  /\ \A s \in Sids : OfItsSession(s)
  /\ OpenClientsAreOwned

(* The lock of a client is held by the request that waits for an answer on *)
(* it, and then the client is not closed.                                  *)
HeldWhileWaiting(c) ==
  /\ \A p \in Procs :
       proc[p].pc \in {"info", "await"} /\ proc[p].on = c <=> client[c].holder = p
  /\ client[c].holder # "none" => client[c].open

(* A client that was not dialled is asked nothing, the bridge executed the *)
(* calls it answered, and a steady bridge keeps its connections.           *)
DialledFirst(c) ==
  client[c].sid = "none" => ~client[c].open /\ client[c].asked = <<>>

AnswersWereExecuted(c) ==
  \A i \in DOMAIN client[c].answered :
    client[c].answered[i].call =>
      [id |-> client[c].answered[i], sid |-> client[c].sid] \in executed

Unbroken(c) == client[c].sid \in Steady /\ client[c].open => client[c].alive

ConnectionOK(c) == DialledFirst(c) /\ AnswersWereExecuted(c) /\ Unbroken(c)

(* No call of p was sent.                                                  *)
Unsent(p) ==
  /\ \A e \in executed : ~Called(p, e.id)
  /\ \A c \in Clients : \A i \in DOMAIN client[c].asked : ~Called(p, client[c].asked[i])

CallsInv ==
  /\ \A p \in Procs : proc[p].pc \notin {"await", "done"} => Unsent(p)
  /\ CallsAreTruthful

RegistryInv ==
  /\ TypeOK
  /\ RefreshInv
  /\ OwnershipInv
  /\ \A c \in Clients : HeldWhileWaiting(c)
  /\ \A c \in Clients : ConnectionOK(c)
  /\ \A s \in Steady : bridge[s] = "up"
  /\ CallsInv

(* While nobody has given up, a steady session is found by every refresh,  *)
(* its client is never closed, and nothing is on its connection but the    *)
(* one request that waits or its answer.                                   *)
Undisturbed == ~closed /\ \A p \in Procs : ~Ended(p)

InExchange(c) ==
  \/ client[c].holder = "none" /\ client[c].asked = <<>> /\ client[c].answered = <<>>
  \/ \E p \in Procs :
       /\ client[c].holder = p
       /\ \/ client[c].asked = <<Request(p)>> /\ client[c].answered = <<>>
          \/ client[c].asked = <<>> /\ client[c].answered = <<Request(p)>>

IsFound(s) ==
  /\ refresher # "none" => s \in work.todo \/ work.next[s] # "none"
  /\ \A p \in Procs : proc[p].pc \in {"finish"} \cup Looking => entries[s] # "none"
  /\ \A c \in {entries[s], work.next[s]} \ {"none"} : client[c].open
  /\ \A p \in Procs : At(p, "drop") => proc[p].at # s

AllServed ==
  /\ \A s \in Steady : IsFound(s)
  /\ \A c \in Clients : client[c].sid \in Steady /\ client[c].open => InExchange(c)
  /\ \A p \in Procs : At(p, "done") => Served(p)

SteadyInv == Undisturbed => AllServed

-----------------------------------------------------------------------------
(* What the steps do, field by field *)

LEMMA Types ==
  ASSUME TypeOK
  PROVE  /\ \A p \in Procs :
              /\ proc[p] \in Processes
              /\ proc[p].pc \in Labels /\ proc[p].goal \in Sids \cup {"list"}
              /\ proc[p].ctx \in {"live", "ended"} /\ proc[p].n \in Nat
              /\ proc[p].at \in Sids \cup {"none"} /\ proc[p].on \in Clients \cup {"none"}
              /\ proc[p].outcome \in Outcomes /\ proc[p].shown \in SUBSET Sids
         /\ \A c \in Clients :
              /\ client[c] \in Connections
              /\ client[c].sid \in Sids \cup {"none"} /\ client[c].open \in BOOLEAN
              /\ client[c].alive \in BOOLEAN
              /\ client[c].asked \in Seq(Ids) /\ client[c].answered \in Seq(Ids)
              /\ client[c].holder \in Procs \cup {"none"}
         /\ \A s \in Sids : /\ entries[s] \in Clients \cup {"none"}
                            /\ work.old[s] \in Clients \cup {"none"}
                            /\ work.next[s] \in Clients \cup {"none"}
                            /\ work.fresh[s] \in SUBSET Procs
         /\ work.todo \in SUBSET Sids
         /\ work.old \in Holding("none") /\ work.next \in Holding("none")
BY DEF TypeOK, Processes, Connections, Holding

LEMMA Names ==
  /\ "none" \notin Procs /\ "none" \notin Sids /\ "none" \notin Clients
  /\ "list" \notin Sids
  /\ Steady \subseteq Sids
BY SessionsAssumption

\* A step of p that leaves its goal, its context and the others alone.
Moves(p, label) ==
  /\ proc' \in [Procs -> Processes]
  /\ \A q \in Procs \ {p} : proc'[q] = proc[q]
  /\ proc'[p].pc = label
  /\ proc'[p].goal = proc[p].goal /\ proc'[p].ctx = proc[p].ctx

LEMMA GotoMoves ==
  ASSUME TypeOK, NEW p \in Procs, NEW label \in Labels, Goto(p, label)
  PROVE  /\ Moves(p, label)
         /\ proc'[p].n = proc[p].n /\ proc'[p].at = proc[p].at /\ proc'[p].on = proc[p].on
         /\ proc'[p].outcome = proc[p].outcome /\ proc'[p].shown = proc[p].shown
<1>1. proc \in [Procs -> Processes] /\ proc[p] \in Processes
  BY DEF TypeOK
<1>2. proc' = [proc EXCEPT ![p].pc = label]
  BY DEF Goto
<1> QED BY <1>1, <1>2 DEF Moves, Processes

LEMMA ReturnMoves ==
  ASSUME TypeOK, NEW p \in Procs, NEW outcome \in Outcomes, Return(p, outcome)
  PROVE  /\ Moves(p, "done")
         /\ proc'[p].n = proc[p].n /\ proc'[p].at = "none" /\ proc'[p].on = "none"
         /\ proc'[p].outcome = outcome /\ proc'[p].shown = proc[p].shown
<1>1. proc \in [Procs -> Processes] /\ proc[p] \in Processes
  BY DEF TypeOK
<1>2. proc' = [proc EXCEPT ![p] = [@ EXCEPT !.pc = "done", !.outcome = outcome,
                                            !.at = "none", !.on = "none"]]
  BY DEF Return
<1> QED BY <1>1, <1>2 DEF Moves, Processes, Labels

\* A step of a request that failed.
FailMoves(p, outcome) ==
  \/ /\ proc[p].pc \in {"check", "info"} /\ Moves(p, "drop")
     /\ proc'[p].at = proc[p].at /\ proc'[p].on = proc[p].on
  \/ /\ proc[p].pc \notin {"check", "info"} /\ Moves(p, "done")
     /\ proc'[p].at = "none" /\ proc'[p].on = "none" /\ proc'[p].outcome = outcome

LEMMA FailRequestMoves ==
  ASSUME TypeOK, NEW p \in Procs, NEW outcome \in Outcomes, FailRequest(p, outcome)
  PROVE  /\ FailMoves(p, outcome)
         /\ proc'[p].n = proc[p].n /\ proc'[p].shown = proc[p].shown
<1>1. CASE proc[p].pc \in {"check", "info"}
  BY <1>1, GotoMoves DEF FailRequest, FailMoves, Labels
<1>2. CASE proc[p].pc \notin {"check", "info"}
  BY <1>2, ReturnMoves DEF FailRequest, FailMoves
<1> QED BY <1>1, <1>2

\* A step that changes one client.
OneClient(c) ==
  /\ client' \in [Clients -> Connections]
  /\ \A d \in Clients \ {c} : client'[d] = client[d]
  /\ client'[c].sid = client[c].sid

LEMMA HangupEffect ==
  ASSUME TypeOK, NEW cs, HangupAll(cs)
  PROVE  /\ client' \in [Clients -> Connections]
         /\ \A c \in Clients \ cs : client'[c] = client[c]
         /\ \A c \in Clients \cap cs :
              /\ client'[c].sid = client[c].sid /\ client'[c].alive = client[c].alive
              /\ client'[c].asked = client[c].asked /\ client'[c].holder = client[c].holder
              /\ ~client'[c].open /\ client'[c].answered = <<>>
<1>1. \A c \in Clients : client[c] \in Connections
  BY DEF TypeOK
<1>2. client' = [c \in Clients |-> IF c \in cs THEN Hangup(client[c]) ELSE client[c]]
  BY DEF HangupAll
<1>3. ASSUME NEW c \in Clients
      PROVE  /\ Hangup(client[c]) \in Connections
             /\ LET k == Hangup(client[c]) IN
                /\ k.sid = client[c].sid /\ k.alive = client[c].alive
                /\ k.asked = client[c].asked /\ k.holder = client[c].holder
                /\ ~k.open /\ k.answered = <<>>
  BY <1>1, EmptySeq DEF Hangup, Connections
<1> QED BY <1>1, <1>2, <1>3

LEMMA InUse ==
  ASSUME TypeOK, NEW p \in Procs, UsesItsClient(p),
         proc[p].pc \in {"check", "info", "drop", "call", "await"}
  PROVE  proc[p].on \in Clients
<1>1. CASE proc[p].pc \in {"check", "info", "drop"}
  BY <1>1, Types DEF UsesItsClient
<1>2. CASE proc[p].pc \in {"call", "await"}
  BY <1>2, Types DEF UsesItsClient
<1> QED BY <1>1, <1>2

\* The probe of s on client c succeeded.
Finds(s, c) ==
  /\ work'.todo = work.todo \ {s} /\ work'.old = work.old
  /\ work'.next[s] = c /\ \A t \in Sids \ {s} : work'.next[t] = work.next[t]
  /\ work'.fresh[s] = UnderWay /\ \A t \in Sids \ {s} : work'.fresh[t] = work.fresh[t]

WorkType ==
  work \in [todo : SUBSET Sids, old : Holding("none"), next : Holding("none"),
            fresh : [Sids -> SUBSET Procs]]

LEMMA FoundFinds ==
  ASSUME TypeOK, NEW s \in Sids, NEW c \in Clients, Found(s, c)
  PROVE  WorkType' /\ Finds(s, c)
<1>1. WorkType /\ UnderWay \in SUBSET Procs
  BY DEF TypeOK, WorkType, UnderWay
<1>2. work' = [work EXCEPT !.todo = @ \ {s}, !.next[s] = c, !.fresh[s] = UnderWay]
  BY DEF Found
<1> QED BY <1>1, <1>2 DEF WorkType, Holding, Finds

LEMMA StartEffect ==
  ASSUME TypeOK, NEW p \in Procs, Start(p)
  PROVE  /\ TypeOK'
         /\ proc[p].pc = "idle" /\ proc'[p].pc = "refresh"
         /\ proc'[p].ctx = proc[p].ctx
         /\ \A q \in Procs \ {p} : proc'[q] = proc[q]
         /\ UNCHANGED <<refresher, work, entries, client, closed, bridge, fresh, leaked, executed>>
<1>1. proc \in [Procs -> Processes] /\ proc[p] \in Processes
  BY DEF TypeOK
<1>2. PICK g \in Sids \cup {"list"} : proc' = [proc EXCEPT ![p].pc = "refresh", ![p].goal = g]
  BY DEF Start
<1>3. /\ proc' \in [Procs -> Processes] /\ proc'[p].pc = "refresh"
      /\ proc'[p].ctx = proc[p].ctx
      /\ \A q \in Procs \ {p} : proc'[q] = proc[q]
  BY <1>1, <1>2 DEF Processes, Labels
<1> QED BY <1>3 DEF Start, At, TypeOK

LEMMA EndContextEffect ==
  ASSUME TypeOK, NEW p \in Procs, EndContext(p)
  PROVE  /\ TypeOK'
         /\ Ended(p)' /\ ~Ended(p)
         /\ proc'[p].pc = proc[p].pc /\ proc'[p].goal = proc[p].goal /\ proc'[p].n = proc[p].n
         /\ proc'[p].at = proc[p].at /\ proc'[p].on = proc[p].on
         /\ proc'[p].outcome = proc[p].outcome
         /\ \A q \in Procs \ {p} : proc'[q] = proc[q]
         /\ UNCHANGED <<refresher, work, entries, client, closed, bridge, fresh, leaked, executed>>
<1>1. proc \in [Procs -> Processes] /\ proc[p] \in Processes
  BY DEF TypeOK
<1>2. proc' = [proc EXCEPT ![p].ctx = "ended"]
  BY DEF EndContext
<1>3. /\ proc' \in [Procs -> Processes] /\ proc'[p].ctx = "ended"
      /\ proc'[p].pc = proc[p].pc /\ proc'[p].goal = proc[p].goal /\ proc'[p].n = proc[p].n
      /\ proc'[p].at = proc[p].at /\ proc'[p].on = proc[p].on
      /\ proc'[p].outcome = proc[p].outcome
      /\ \A q \in Procs \ {p} : proc'[q] = proc[q]
  BY <1>1, <1>2 DEF Processes
<1> QED BY <1>3 DEF EndContext, Ended, TypeOK

LEMMA EnterListEffect ==
  ASSUME TypeOK, NEW p \in Procs, EnterList(p)
  PROVE  /\ TypeOK'
         /\ proc[p].pc = "enter" /\ proc[p].goal = "list" /\ Moves(p, "done")
         /\ proc'[p].shown = {s \in Sids : entries[s] # "none"}
         /\ UNCHANGED <<refresher, work, entries, client, closed, bridge, fresh, leaked, executed>>
<1> DEFINE shown == {s \in Sids : entries[s] # "none"}
<1>1. proc \in [Procs -> Processes] /\ proc[p] \in Processes /\ shown \in SUBSET Sids
  BY DEF TypeOK
<1>2. proc' = [proc EXCEPT ![p] = [@ EXCEPT !.pc = "done", !.outcome = "ok",
                             !.at = "none", !.on = "none", !.shown = shown]]
  BY DEF EnterList
<1> HIDE DEF shown
<1>3. Moves(p, "done") /\ proc'[p].shown = shown
  BY <1>1, <1>2 DEF Moves, Processes, Labels, Outcomes
<1> QED BY <1>3 DEF EnterList, At, TypeOK, Moves, shown

LEMMA EnterCallEffect ==
  ASSUME TypeOK, NEW p \in Procs, EnterCall(p)
  PROVE  /\ TypeOK'
         /\ proc[p].pc = "enter" /\ proc[p].goal \in Sids /\ ~WriterWaits
         /\ \/ /\ entries[proc[p].goal] = "none" /\ Moves(p, "done")
               /\ proc'[p].outcome = "not_found"
            \/ /\ entries[proc[p].goal] # "none" /\ Moves(p, "call")
               /\ proc'[p].on = entries[proc[p].goal]
         /\ UNCHANGED <<refresher, work, entries, client, closed, bridge, fresh, leaked, executed>>
<1>1. proc \in [Procs -> Processes] /\ proc[p] \in Processes /\ proc[p].goal \in Sids
  BY Types DEF TypeOK, EnterCall
<1>2. CASE entries[proc[p].goal] = "none"
  <2>1. Return(p, "not_found")
    BY <1>2 DEF EnterCall
  <2> QED BY <1>1, <1>2, <2>1, ReturnMoves DEF EnterCall, At, TypeOK, Moves, Outcomes
<1>3. CASE entries[proc[p].goal] # "none"
  <2>1. proc' = [proc EXCEPT ![p].pc = "call", ![p].on = entries[proc[p].goal]]
    BY <1>3 DEF EnterCall
  <2>2. entries[proc[p].goal] \in Clients
    BY <1>1, <1>3, Types
  <2>3. Moves(p, "call") /\ proc'[p].on = entries[proc[p].goal]
    BY <1>1, <2>1, <2>2 DEF Moves, Processes, Labels
  <2> QED BY <1>1, <1>3, <2>3 DEF EnterCall, At, TypeOK, Moves
<1> QED BY <1>2, <1>3

LEMMA SendEffect ==
  ASSUME TypeOK, NEW p \in Procs, UsesItsClient(p), Send(p)
  PROVE  LET c == proc[p].on IN
         /\ TypeOK'
         /\ c \in Clients /\ OneClient(c)
         /\ client[c].holder = "none" /\ client[c].open /\ client'[c].holder = p
         /\ client'[c].open /\ client'[c].alive = client[c].alive
         /\ client'[c].answered = client[c].answered
         /\ client'[c].asked = Append(client[c].asked,
              [by |-> p, n |-> proc[p].n + 1, call |-> proc[p].pc = "call"])
         /\ \/ proc[p].pc = "check" /\ Moves(p, "info")
            \/ proc[p].pc = "call" /\ Moves(p, "await")
         /\ proc'[p].n = proc[p].n + 1 /\ proc'[p].at = proc[p].at /\ proc'[p].on = c
         /\ UNCHANGED <<refresher, work, entries, closed, bridge, fresh, leaked, executed>>
<1> DEFINE c == proc[p].on
           call == At(p, "call")
           id == [by |-> p, n |-> proc[p].n + 1, call |-> call]
           asked == Append(client[c].asked, id)
           label == IF call THEN "await" ELSE "info"
<1>1. proc \in [Procs -> Processes] /\ proc[p] \in Processes /\ proc[p].n \in Nat
  BY Types DEF TypeOK
<1>2. proc[p].pc \in {"check", "call"}
  BY DEF Send
<1>3. c \in Clients
  BY <1>2, InUse
<1>4. /\ client \in [Clients -> Connections] /\ client[c] \in Connections
      /\ client[c].asked \in Seq(Ids)
  BY <1>3, Types DEF TypeOK
<1>5. call \in BOOLEAN /\ (call <=> proc[p].pc = "call") /\ label \in Labels
  BY DEF At, Labels
<1>6. id \in Ids
  BY <1>1, <1>5 DEF Ids
<1>7. client' = [client EXCEPT ![c].holder = p, ![c].asked = asked]
  BY DEF Send
<1>8. proc' = [proc EXCEPT ![p].pc = label, ![p].n = proc[p].n + 1]
  BY DEF Send
<1>9. id = [by |-> p, n |-> proc[p].n + 1, call |-> proc[p].pc = "call"]
  BY <1>5
<1>10. asked \in Seq(Ids)
  BY <1>4, <1>6, AppendProperties
<1> HIDE DEF c, call, id, asked, label
<1>11. /\ OneClient(c) /\ client'[c].holder = p /\ client'[c].asked = asked
       /\ client'[c].open = client[c].open /\ client'[c].alive = client[c].alive
       /\ client'[c].answered = client[c].answered
  BY <1>3, <1>4, <1>7, <1>10 DEF OneClient, Connections
<1>12. /\ Moves(p, label) /\ proc'[p].n = proc[p].n + 1 /\ proc'[p].at = proc[p].at
       /\ proc'[p].on = proc[p].on
  BY <1>1, <1>5, <1>8 DEF Moves, Processes
<1>13. client[c].holder = "none" /\ client[c].open
       /\ UNCHANGED <<refresher, work, entries, closed, bridge, fresh, leaked, executed>>
  BY DEF Send, Using, c
<1>14. TypeOK'
  BY <1>11, <1>12, <1>13 DEF TypeOK, Moves, OneClient
<1>15. (proc[p].pc = "check" /\ label = "info") \/ (proc[p].pc = "call" /\ label = "await")
  BY <1>2, <1>5 DEF label
<1> QED BY <1>3, <1>9, <1>11, <1>12, <1>13, <1>14, <1>15 DEF asked, c, id

LEMMA RefuseEffect ==
  ASSUME TypeOK, NEW p \in Procs, Refuse(p)
  PROVE  /\ TypeOK'
         /\ proc[p].pc \in {"check", "call"} /\ (~client[proc[p].on].open \/ Ended(p))
         /\ client[proc[p].on].holder = "none"
         /\ FailMoves(p, "refused") /\ proc'[p].n = proc[p].n
         /\ UNCHANGED <<refresher, work, entries, client, closed, bridge, fresh, leaked, executed>>
<1>1. FailRequest(p, "refused") /\ "refused" \in Outcomes
  BY DEF Refuse, Outcomes
<1>2. FailMoves(p, "refused") /\ proc'[p].n = proc[p].n
  BY <1>1, FailRequestMoves
<1> QED BY <1>2 DEF Refuse, TypeOK, FailMoves, Moves, Using

\* The request of p at its client is over.
Releases(c) ==
  /\ OneClient(c) /\ client'[c].holder = "none"
  /\ client'[c].open = client[c].open /\ client'[c].alive = client[c].alive
  /\ client'[c].asked = client[c].asked

LEMMA ReceiveEffect ==
  ASSUME TypeOK, NEW p \in Procs, UsesItsClient(p), Receive(p)
  PROVE  LET c == proc[p].on
             h == Head(client[c].answered)
             r == [by |-> p, n |-> proc[p].n, call |-> proc[p].pc = "await"]
         IN  /\ TypeOK'
             /\ proc[p].pc \in {"info", "await"} /\ proc'[p].n = proc[p].n
             /\ c \in Clients /\ client[c].answered # <<>>
             /\ Releases(c) /\ client'[c].answered = Tail(client[c].answered)
             /\ \/ h # r /\ FailMoves(p, "failed") /\ work' = work
                \/ /\ h = r /\ proc[p].pc = "info" /\ Moves(p, "probe")
                   /\ proc[p].at \in Sids /\ Finds(proc[p].at, c)
                \/ /\ h = r /\ proc[p].pc = "await" /\ Moves(p, "done")
                   /\ proc'[p].outcome = "ok" /\ work' = work
             /\ UNCHANGED <<refresher, entries, closed, bridge, fresh, leaked, executed>>
<1> DEFINE c == proc[p].on
           h == Head(client[c].answered)
           r == [by |-> p, n |-> proc[p].n, call |-> proc[p].pc = "await"]
<1>1. proc[p].pc \in {"info", "await"} /\ client[c].answered # <<>>
      /\ UNCHANGED <<refresher, entries, closed, bridge, fresh, leaked, executed>>
  BY DEF Receive, Using
<1>2. c \in Clients
  BY <1>1, InUse
<1>3. /\ client \in [Clients -> Connections] /\ client[c] \in Connections
      /\ client[c].answered \in Seq(Ids)
  BY <1>2, Types DEF TypeOK
<1>4. Tail(client[c].answered) \in Seq(Ids)
  BY <1>1, <1>3, HeadTailProperties
<1>5. client' = [client EXCEPT ![c].holder = "none", ![c].answered = Tail(@)]
  BY DEF Receive
<1>6. Releases(c) /\ client'[c].answered = Tail(client[c].answered)
  BY <1>2, <1>3, <1>4, <1>5 DEF Releases, OneClient, Connections
<1>7. Request(p) = r /\ Head(Using(p).answered) = h
  BY DEF Request, At, Using
<1>8. CASE h # r
  <2>1. FailRequest(p, "failed") /\ work' = work
    BY <1>7, <1>8 DEF Receive, At
  <2>2. FailMoves(p, "failed") /\ proc'[p].n = proc[p].n
    BY <2>1, FailRequestMoves DEF Outcomes
  <2>3. TypeOK'
    BY <1>1, <1>6, <2>1, <2>2 DEF TypeOK, FailMoves, Moves, Releases, OneClient
  <2> QED BY <1>1, <1>2, <1>6, <1>8, <2>1, <2>2, <2>3
<1>9. CASE h = r /\ proc[p].pc = "info"
  <2>1. Goto(p, "probe") /\ Found(proc[p].at, proc[p].on)
    BY <1>7, <1>9 DEF Receive, At
  <2>2. proc[p].at \in Sids
    BY <1>9, Types DEF UsesItsClient
  <2>3. WorkType' /\ Finds(proc[p].at, c)
    BY <1>2, <2>1, <2>2, FoundFinds
  <2>4. Moves(p, "probe") /\ proc'[p].n = proc[p].n
    BY <2>1, GotoMoves DEF Labels
  <2>5. TypeOK'
    BY <1>1, <1>6, <2>3, <2>4 DEF TypeOK, Moves, Releases, OneClient, WorkType
  <2> QED BY <1>1, <1>2, <1>6, <1>9, <2>2, <2>3, <2>4, <2>5
<1>10. CASE h = r /\ proc[p].pc = "await"
  <2>1. Return(p, "ok") /\ work' = work
    BY <1>7, <1>10 DEF Receive, At
  <2>2. Moves(p, "done") /\ proc'[p].n = proc[p].n /\ proc'[p].outcome = "ok"
    BY <2>1, ReturnMoves DEF Outcomes
  <2>3. TypeOK'
    BY <1>1, <1>6, <2>1, <2>2 DEF TypeOK, Moves, Releases, OneClient
  <2> QED BY <1>1, <1>2, <1>6, <1>10, <2>1, <2>2, <2>3
<1> QED BY <1>1, <1>8, <1>9, <1>10

LEMMA LoseAnswerEffect ==
  ASSUME TypeOK, NEW p \in Procs, UsesItsClient(p), LoseAnswer(p)
  PROVE  LET c == proc[p].on IN
         /\ TypeOK'
         /\ proc[p].pc \in {"info", "await"} /\ FailMoves(p, "failed") /\ proc'[p].n = proc[p].n
         /\ ~client[c].alive \/ client[c].sid \notin Steady \/ Ended(p)
         /\ c \in Clients => Releases(c) /\ client'[c].answered = client[c].answered
         /\ UNCHANGED <<refresher, work, entries, closed, bridge, fresh, leaked, executed>>
<1> DEFINE c == proc[p].on
<1>1. client \in [Clients -> Connections]
  BY DEF TypeOK
<1>2. client' = [client EXCEPT ![c].holder = "none"]
  BY DEF LoseAnswer
<1>3. CASE c \in Clients
  <2>1. Releases(c) /\ client'[c].answered = client[c].answered
    BY <1>1, <1>2, <1>3 DEF Releases, OneClient, Connections
  <2>2. FailMoves(p, "failed") /\ proc'[p].n = proc[p].n
    BY FailRequestMoves DEF LoseAnswer, Outcomes
  <2> QED BY <1>3, <2>1, <2>2 DEF LoseAnswer, Using, TypeOK, FailMoves, Moves, Releases, OneClient
<1> QED BY <1>3, InUse DEF LoseAnswer

LEMMA BeginRefreshEffect ==
  ASSUME TypeOK, NEW p \in Procs, BeginRefresh(p)
  PROVE  /\ TypeOK'
         /\ proc[p].pc = "refresh" /\ refresher = "none" /\ refresher' = p
         /\ Moves(p, "probe") /\ proc'[p].n = proc[p].n
         /\ work'.todo = Published /\ work'.old = entries
         /\ \A s \in Sids : work'.next[s] = "none"
         /\ UNCHANGED <<entries, client, closed, bridge, fresh, leaked, executed>>
<1>1. work' = [NoWork EXCEPT !.todo = Published, !.old = entries]
  BY DEF BeginRefresh
<1>2. entries \in Holding("none") /\ Published \in SUBSET Sids
  BY DEF TypeOK, Published
<1>3. WorkType' /\ work'.todo = Published /\ work'.old = entries
      /\ \A s \in Sids : work'.next[s] = "none"
  BY <1>1, <1>2 DEF WorkType, NoWork, NoEntries, Holding
<1>4. Moves(p, "probe") /\ proc'[p].n = proc[p].n
  BY GotoMoves DEF BeginRefresh, Labels
<1> QED BY <1>3, <1>4 DEF BeginRefresh, At, TypeOK, Moves, WorkType

LEMMA LoadFailsEffect ==
  ASSUME TypeOK, NEW p \in Procs, LoadFails(p)
  PROVE  /\ TypeOK'
         /\ proc[p].pc = "refresh" /\ Moves(p, "done")
         /\ proc'[p].n = proc[p].n /\ proc'[p].outcome = "unreadable"
         /\ UNCHANGED <<refresher, work, entries, client, closed, bridge, fresh, leaked, executed>>
<1>1. Moves(p, "done") /\ proc'[p].n = proc[p].n /\ proc'[p].outcome = "unreadable"
  BY ReturnMoves DEF LoadFails, Outcomes
<1> QED BY <1>1 DEF LoadFails, At, TypeOK, Moves

LEMMA NoWorkFacts ==
  /\ NoWork \in [todo : SUBSET Sids, old : Holding("none"), next : Holding("none"),
                 fresh : [Sids -> SUBSET Procs]]
  /\ NoWork.todo = {}
  /\ \A s \in Sids : NoWork.old[s] = "none" /\ NoWork.next[s] = "none"
BY DEF NoWork, NoEntries, Holding

LEMMA AbortRefreshEffect ==
  ASSUME TypeOK, NEW p \in Procs, AbortRefresh(p)
  PROVE  /\ TypeOK'
         /\ proc[p].pc = "probe" /\ Ended(p) /\ Moves(p, "done")
         /\ proc'[p].n = proc[p].n /\ proc'[p].outcome = "cancelled"
         /\ refresher' = "none" /\ work' = NoWork /\ leaked \subseteq leaked'
         /\ \A s \in Sids : work.next[s] \in leaked' \cup {"none"} \cup {entries[t] : t \in Sids}
         /\ UNCHANGED <<entries, client, closed, bridge, fresh, executed>>
<1>1. Moves(p, "done") /\ proc'[p].n = proc[p].n /\ proc'[p].outcome = "cancelled"
  BY ReturnMoves DEF AbortRefresh, Outcomes
<1>2. leaked' = leaked \cup ({work.next[s] : s \in Sids} \ ({"none"} \cup {entries[s] : s \in Sids}))
  BY DEF AbortRefresh
<1>3. \A s \in Sids : work.next[s] \in Clients \cup {"none"}
  BY Types
<1>4. leaked' \in SUBSET Clients
  BY <1>2, <1>3 DEF TypeOK
<1> QED BY <1>1, <1>2, <1>4, NoWorkFacts DEF AbortRefresh, At, TypeOK, Moves

LEMMA ProbeEffect ==
  ASSUME TypeOK, NEW p \in Procs, Probe(p)
  PROVE  /\ TypeOK'
         /\ proc[p].pc = "probe" /\ proc'[p].at \in work.todo /\ proc'[p].n = proc[p].n
         /\ proc'[p].on = work.old[proc'[p].at]
         /\ \/ Moves(p, "dial")
            \/ Moves(p, "check") /\ proc'[p].on # "none"
         /\ UNCHANGED <<refresher, work, entries, client, closed, bridge, fresh, leaked, executed>>
<1>1. PICK s \in work.todo :
        proc' = [proc EXCEPT ![p].at = s, ![p].on = work.old[s],
                             ![p].pc = IF work.old[s] = "none" THEN "dial" ELSE "check"]
  BY DEF Probe
<1>2. s \in Sids /\ work.old[s] \in Clients \cup {"none"}
  BY Types
<1> DEFINE label == IF work.old[s] = "none" THEN "dial" ELSE "check"
<1>3. proc \in [Procs -> Processes] /\ proc[p] \in Processes /\ label \in Labels
  BY DEF TypeOK, Labels
<1>4. proc' = [proc EXCEPT ![p].at = s, ![p].on = work.old[s], ![p].pc = label]
  BY <1>1
<1> HIDE DEF label
<1>5. Moves(p, label) /\ proc'[p].at = s /\ proc'[p].on = work.old[s] /\ proc'[p].n = proc[p].n
  BY <1>2, <1>3, <1>4 DEF Moves, Processes
<1>6. label = "dial" \/ (label = "check" /\ work.old[s] # "none")
  BY DEF label
<1> QED BY <1>5, <1>6 DEF Probe, At, TypeOK, Moves

LEMMA DropEffect ==
  ASSUME TypeOK, NEW p \in Procs, Drop(p)
  PROVE  /\ TypeOK'
         /\ proc[p].pc = "drop" /\ client[proc[p].on].holder = "none"
         /\ HangupAll({proc[p].on})
         /\ Moves(p, "dial") /\ proc'[p].n = proc[p].n
         /\ proc'[p].at = proc[p].at /\ proc'[p].on = proc[p].on
         /\ UNCHANGED <<refresher, work, entries, closed, bridge, fresh, leaked, executed>>
<1>1. client' \in [Clients -> Connections]
  BY HangupEffect DEF Drop
<1>2. /\ Moves(p, "dial") /\ proc'[p].n = proc[p].n
      /\ proc'[p].at = proc[p].at /\ proc'[p].on = proc[p].on
  BY GotoMoves DEF Drop, Labels
<1> QED BY <1>1, <1>2 DEF Drop, Using, At, TypeOK, Moves

LEMMA DialEffect ==
  ASSUME TypeOK, NEW p \in Procs, proc[p].at \in Sids, Dial(p)
  PROVE  /\ TypeOK'
         /\ proc[p].pc = "dial" /\ Moves(p, "probe") /\ proc'[p].n = proc[p].n
         /\ \E c \in Clients :
              /\ client[c] = Undialled
              /\ client' \in [Clients -> Connections]
              /\ \A d \in Clients \ {c} : client'[d] = client[d]
              /\ client'[c].sid = proc[p].at /\ client'[c].open /\ client'[c].alive
              /\ client'[c].asked = <<>> /\ client'[c].answered = <<>>
              /\ client'[c].holder = "none"
              /\ Finds(proc[p].at, c)
         /\ UNCHANGED <<refresher, entries, closed, bridge, fresh, leaked, executed>>
<1> DEFINE c == CHOOSE c \in Unused : TRUE
<1>1. c \in Unused
  BY DEF Dial
<1>2. c \in Clients /\ client[c] = Undialled
  BY <1>1 DEF Unused
<1>3. client' = [client EXCEPT ![c] = [@ EXCEPT !.sid = proc[p].at, !.open = TRUE, !.alive = TRUE]]
  BY DEF Dial
<1>4. Found(proc[p].at, c)
  BY DEF Dial
<1> HIDE DEF c
<1>9. /\ client[c] \in Connections
      /\ client[c].asked = <<>> /\ client[c].answered = <<>> /\ client[c].holder = "none"
  <2>1. Undialled.asked = <<>> /\ Undialled.answered = <<>> /\ Undialled.holder = "none"
    BY DEF Undialled
  <2> QED BY <1>2, <2>1 DEF TypeOK
<1>5. /\ client' \in [Clients -> Connections]
      /\ \A d \in Clients \ {c} : client'[d] = client[d]
      /\ client'[c].sid = proc[p].at /\ client'[c].open /\ client'[c].alive
      /\ client'[c].asked = <<>> /\ client'[c].answered = <<>> /\ client'[c].holder = "none"
  BY <1>2, <1>3, <1>9 DEF TypeOK, Connections
<1>6. WorkType' /\ Finds(proc[p].at, c)
  BY <1>2, <1>4, FoundFinds
<1>7. Moves(p, "probe") /\ proc'[p].n = proc[p].n
  BY GotoMoves DEF Dial, Labels
<1>8. TypeOK'
  BY <1>5, <1>6, <1>7 DEF Dial, TypeOK, Moves, WorkType
<1> QED BY <1>2, <1>5, <1>6, <1>7, <1>8 DEF Dial, At

LEMMA DialFailsEffect ==
  ASSUME TypeOK, NEW p \in Procs, DialFails(p)
  PROVE  /\ TypeOK'
         /\ proc[p].pc = "dial" /\ Moves(p, "probe") /\ proc'[p].n = proc[p].n
         /\ proc[p].at \notin Steady \/ Ended(p)
         /\ work'.todo = work.todo \ {proc[p].at} /\ work'.old = work.old
         /\ work'.next = work.next /\ work'.fresh = work.fresh
         /\ UNCHANGED <<refresher, entries, client, closed, bridge, fresh, leaked, executed>>
<1>1. work' = [work EXCEPT !.todo = @ \ {proc[p].at}]
  BY DEF DialFails
<1>2. /\ WorkType' /\ work'.todo = work.todo \ {proc[p].at} /\ work'.old = work.old
      /\ work'.next = work.next /\ work'.fresh = work.fresh
  BY <1>1 DEF TypeOK, WorkType
<1>3. Moves(p, "probe") /\ proc'[p].n = proc[p].n
  BY GotoMoves DEF DialFails, Labels
<1> QED BY <1>2, <1>3 DEF DialFails, At, TypeOK, Moves, WorkType

LEMMA WantInstallEffect ==
  ASSUME TypeOK, NEW p \in Procs, WantInstall(p)
  PROVE  /\ TypeOK'
         /\ proc[p].pc = "probe" /\ work.todo = {} /\ Moves(p, "install")
         /\ proc'[p].n = proc[p].n
         /\ UNCHANGED <<refresher, work, entries, client, closed, bridge, fresh, leaked, executed>>
<1>1. Moves(p, "install") /\ proc'[p].n = proc[p].n
  BY GotoMoves DEF WantInstall, Labels
<1> QED BY <1>1 DEF WantInstall, At, TypeOK, Moves

LEMMA InstallEffect ==
  ASSUME TypeOK, NEW p \in Procs, Install(p)
  PROVE  /\ TypeOK'
         /\ proc[p].pc = "install" /\ \A q \in Procs : proc[q].pc \notin {"call", "await"}
         /\ Moves(p, "finish") /\ proc'[p].n = proc[p].n
         /\ entries' = work.next /\ fresh' = work.fresh
         /\ UNCHANGED <<refresher, work, client, closed, bridge, leaked, executed>>
<1>1. Moves(p, "finish") /\ proc'[p].n = proc[p].n
  BY GotoMoves DEF Install, Labels
<1>2. \A q \in Procs : proc[q].pc \notin {"call", "await"}
  BY DEF Install, Readers
<1>3. work.next \in Holding("none") /\ work.fresh \in [Sids -> SUBSET Procs]
  BY DEF TypeOK
<1> QED BY <1>1, <1>2, <1>3 DEF Install, At, TypeOK, Moves

\* The clients a refresh that installed its result closes.
Replaced == {work.old[s] : s \in {s \in Sids : work.old[s] # work.next[s]}} \ {"none"}

LEMMA FinishEffect ==
  ASSUME TypeOK, NEW p \in Procs, Finish(p)
  PROVE  /\ TypeOK'
         /\ proc[p].pc = "finish" /\ Moves(p, "enter") /\ proc'[p].n = proc[p].n
         /\ \A c \in Replaced : client[c].holder = "none"
         /\ HangupAll(Replaced)
         /\ refresher' = "none" /\ work' = NoWork
         /\ UNCHANGED <<entries, closed, bridge, fresh, leaked, executed>>
<1>1. (\A c \in Replaced : client[c].holder = "none") /\ HangupAll(Replaced)
  BY DEF Finish, Replaced
<1>2. client' \in [Clients -> Connections]
  BY <1>1, HangupEffect
<1>3. Moves(p, "enter") /\ proc'[p].n = proc[p].n
  BY GotoMoves DEF Finish, Labels
<1> QED BY <1>1, <1>2, <1>3, NoWorkFacts DEF Finish, At, TypeOK, Moves

LEMMA CloseRegistryEffect ==
  ASSUME TypeOK, CloseRegistry
  PROVE  /\ TypeOK'
         /\ refresher = "none" /\ \A q \in Procs : proc[q].pc \notin {"call", "await"}
         /\ closed' /\ \A s \in Sids : entries'[s] = "none"
         /\ HangupAll({entries[s] : s \in Sids})
         /\ UNCHANGED <<proc, refresher, work, bridge, fresh, leaked, executed>>
<1>1. client' \in [Clients -> Connections]
  BY HangupEffect DEF CloseRegistry
<1>2. \A q \in Procs : proc[q].pc \notin {"call", "await"}
  BY DEF CloseRegistry, Readers
<1>3. entries' = NoEntries
  BY DEF CloseRegistry
<1> QED BY <1>1, <1>2, <1>3 DEF CloseRegistry, TypeOK, NoEntries, Holding

LEMMA PublishEffect ==
  ASSUME TypeOK, NEW s \in Sids, Publish(s)
  PROVE  /\ TypeOK'
         /\ \A t \in Sids : bridge'[t] = bridge[t] \/ bridge'[t] = "up"
         /\ UNCHANGED <<proc, refresher, work, entries, client, closed, fresh, leaked, executed>>
BY DEF TypeOK, Publish

\* The bridge's end of a connection closes.
Cut(c) ==
  /\ client'[c].sid = client[c].sid /\ client'[c].open = client[c].open
  /\ client'[c].answered = client[c].answered /\ client'[c].holder = client[c].holder
  /\ ~client'[c].alive /\ client'[c].asked = <<>>

LEMMA VanishEffect ==
  ASSUME TypeOK, NEW s \in Sids, Vanish(s)
  PROVE  /\ TypeOK'
         /\ s \notin Steady /\ \A t \in Sids \ {s} : bridge'[t] = bridge[t]
         /\ client' \in [Clients -> Connections]
         /\ \A c \in Clients : \/ client'[c] = client[c]
                               \/ client[c].sid = s /\ Cut(c)
         /\ UNCHANGED <<proc, refresher, work, entries, closed, fresh, leaked, executed>>
<1>1. client' = [c \in Clients |->
                   IF client[c].sid = s THEN [client[c] EXCEPT !.alive = FALSE, !.asked = <<>>]
                   ELSE client[c]]
  BY DEF Vanish
<1>2. ASSUME NEW c \in Clients
      PROVE  /\ client'[c] \in Connections
             /\ client'[c] = client[c] \/ (client[c].sid = s /\ Cut(c))
  <2>1. client[c] \in Connections
    BY DEF TypeOK
  <2> QED BY <1>1, <2>1, EmptySeq DEF Connections, Cut
<1>3. client' \in [Clients -> Connections]
  BY <1>1, <1>2
<1>4. bridge' \in [Sids -> {"unborn", "up", "stopped", "crashed"}]
      /\ \A t \in Sids \ {s} : bridge'[t] = bridge[t]
  BY DEF Vanish, TypeOK
<1> QED BY <1>2, <1>3, <1>4 DEF Vanish, TypeOK

LEMMA BreakEffect ==
  ASSUME TypeOK, NEW c \in Clients, Break(c)
  PROVE  /\ TypeOK'
         /\ client[c].sid \notin Steady \/ ~client[c].open
         /\ client' \in [Clients -> Connections] /\ Cut(c)
         /\ \A d \in Clients \ {c} : client'[d] = client[d]
         /\ UNCHANGED <<proc, refresher, work, entries, closed, bridge, fresh, leaked, executed>>
<1>1. client' = [client EXCEPT ![c] = [@ EXCEPT !.alive = FALSE, !.asked = <<>>]]
  BY DEF Break
<1>2. client \in [Clients -> Connections] /\ client[c] \in Connections
  BY DEF TypeOK
<1>3. /\ client' \in [Clients -> Connections] /\ Cut(c)
      /\ \A d \in Clients \ {c} : client'[d] = client[d]
  BY <1>1, <1>2, EmptySeq DEF Connections, Cut
<1> QED BY <1>3 DEF Break, TypeOK

LEMMA RespondEffect ==
  ASSUME TypeOK, NEW c \in Clients, DialledFirst(c), Respond(c)
  PROVE  LET id == Head(client[c].asked) IN
         /\ TypeOK'
         /\ OneClient(c) /\ client[c].asked # <<>> /\ id \in Ids
         /\ client'[c].open = client[c].open /\ client'[c].alive = client[c].alive
         /\ client'[c].holder = client[c].holder
         /\ client'[c].asked = Tail(client[c].asked)
         /\ client'[c].answered = IF client[c].open THEN Append(client[c].answered, id)
                                  ELSE client[c].answered
         /\ executed' = IF id.call THEN executed \cup {[id |-> id, sid |-> client[c].sid]}
                        ELSE executed
         /\ UNCHANGED <<proc, refresher, work, entries, closed, bridge, fresh, leaked>>
<1> DEFINE id == Head(client[c].asked)
           asked == Tail(client[c].asked)
           answered == IF client[c].open THEN Append(client[c].answered, id)
                       ELSE client[c].answered
<1>1. /\ client \in [Clients -> Connections] /\ client[c] \in Connections
      /\ client[c].asked \in Seq(Ids) /\ client[c].answered \in Seq(Ids)
      /\ client[c].sid \in Sids \cup {"none"} /\ client[c].asked # <<>>
  BY Types DEF TypeOK, Respond
<1>2. id \in Ids /\ asked \in Seq(Ids)
  BY <1>1, HeadTailProperties
<1>3. answered \in Seq(Ids)
  BY <1>1, <1>2, AppendProperties
<1>4. client' = [client EXCEPT ![c].asked = asked, ![c].answered = answered]
  BY DEF Respond
<1>5. executed' = (IF id.call THEN executed \cup {[id |-> id, sid |-> client[c].sid]} ELSE executed)
      /\ UNCHANGED <<proc, refresher, work, entries, closed, bridge, fresh, leaked>>
  BY DEF Respond
<1> HIDE DEF id, asked, answered
<1>6. /\ OneClient(c)
      /\ client'[c].open = client[c].open /\ client'[c].alive = client[c].alive
      /\ client'[c].holder = client[c].holder
      /\ client'[c].asked = asked /\ client'[c].answered = answered
  BY <1>1, <1>2, <1>3, <1>4 DEF OneClient, Connections
<1>7. client[c].sid \in Sids
  BY <1>1 DEF DialledFirst
<1>8. executed' \in SUBSET [id : Ids, sid : Sids]
  BY <1>2, <1>5, <1>7 DEF TypeOK
<1> QED BY <1>1, <1>2, <1>5, <1>6, <1>8 DEF TypeOK, OneClient, asked, answered, id

LEMMA SameConnection ==
  ASSUME NEW c \in Clients, ConnectionOK(c), client'[c] = client[c], executed \subseteq executed'
  PROVE  ConnectionOK(c)'
<1>1. DialledFirst(c)'
  BY DEF ConnectionOK, DialledFirst
<1>2. AnswersWereExecuted(c)'
  BY DEF ConnectionOK, AnswersWereExecuted
<1>3. Unbroken(c)'
  BY DEF ConnectionOK, Unbroken
<1> QED BY <1>1, <1>2, <1>3 DEF ConnectionOK

LEMMA ConnectionKept ==
  ASSUME NEW c \in Clients, ConnectionOK(c), executed \subseteq executed',
         client'[c].sid = client[c].sid, client'[c].open => client[c].open,
         client'[c].open => client'[c].alive = client[c].alive,
         client[c].sid = "none" => client'[c].asked = <<>>,
         \A i \in DOMAIN client'[c].answered :
           \E j \in DOMAIN client[c].answered : client'[c].answered[i] = client[c].answered[j]
  PROVE  ConnectionOK(c)'
<1>1. DialledFirst(c)'
  BY DEF ConnectionOK, DialledFirst
<1>2. AnswersWereExecuted(c)'
  BY DEF ConnectionOK, AnswersWereExecuted
<1>3. Unbroken(c)'
  BY DEF ConnectionOK, Unbroken
<1> QED BY <1>1, <1>2, <1>3 DEF ConnectionOK

-----------------------------------------------------------------------------
(* Every step preserves the invariant *)

LEMMA InvParts ==
  ASSUME RegistryInv
  PROVE  /\ TypeOK /\ RefreshInv /\ OwnershipInv /\ CallsInv
         /\ \A c \in Clients : HeldWhileWaiting(c) /\ ConnectionOK(c)
         /\ \A s \in Steady : bridge[s] = "up"
         /\ \A p \in Procs :
              /\ UsesItsClient(p)
              /\ proc[p].pc \in {"check", "info", "drop", "dial"} => proc[p].at \in Sids
<1>1. TypeOK /\ RefreshInv /\ OwnershipInv /\ CallsInv
      /\ (\A c \in Clients : HeldWhileWaiting(c) /\ ConnectionOK(c))
      /\ \A s \in Steady : bridge[s] = "up"
  BY DEF RegistryInv
<1>2. \A p \in Procs : UsesItsClient(p)
  BY <1>1 DEF RefreshInv
<1>3. work.todo \in SUBSET Sids
  BY <1>1, Types
<1>4. \A p \in Procs : proc[p].pc \in {"check", "info", "drop", "dial"} => proc[p].at \in Sids
  BY <1>2, <1>3 DEF UsesItsClient
<1> QED BY <1>1, <1>2, <1>4

LEMMA StartInv == ASSUME RegistryInv, NEW p \in Procs, Start(p) PROVE RegistryInv'
<1>1. RegistryInv /\ TypeOK /\ RefreshInv /\ OwnershipInv /\ CallsInv
      /\ \A c \in Clients : HeldWhileWaiting(c) /\ ConnectionOK(c)
  BY InvParts
<1>2. TypeOK'
  BY <1>1, StartEffect
<1>3. RefreshInv'
  BY <1>1, StartEffect, Types, Names DEF RefreshInv, OneRefresh, UsesItsClient, InstallsItsResult, FoundForAll, LooksAtFreshEntries, Refreshing, Looking
<1>4. OwnershipInv'
  BY <1>1, StartEffect, Types, Names DEF OwnershipInv, OpenClientsAreOwned, OfItsSession
<1>5. \A c \in Clients : HeldWhileWaiting(c)'
  BY <1>1, StartEffect, Types, Names DEF HeldWhileWaiting
<1>6. \A c \in Clients : ConnectionOK(c)'
  BY <1>1, StartEffect, SameConnection
<1>7. \A s \in Steady : bridge'[s] = "up"
  BY <1>1, StartEffect, Names DEF RegistryInv
<1>8. CallsInv'
  BY <1>1, StartEffect, Types, Names DEF CallsInv, Unsent, CallsAreTruthful, Called, At
<1> QED BY <1>2, <1>3, <1>4, <1>5, <1>6, <1>7, <1>8 DEF RegistryInv

LEMMA EndContextInv == ASSUME RegistryInv, NEW p \in Procs, EndContext(p) PROVE RegistryInv'
<1>1. RegistryInv /\ TypeOK /\ RefreshInv /\ OwnershipInv /\ CallsInv
      /\ \A c \in Clients : HeldWhileWaiting(c) /\ ConnectionOK(c)
  BY InvParts
<1>2. TypeOK'
  BY <1>1, EndContextEffect
<1>3. RefreshInv'
  BY <1>1, EndContextEffect, Types, Names DEF RefreshInv, OneRefresh, UsesItsClient, InstallsItsResult, FoundForAll, LooksAtFreshEntries, Refreshing, Looking, Ended
<1>4. OwnershipInv'
  BY <1>1, EndContextEffect, Types, Names DEF OwnershipInv, OpenClientsAreOwned, OfItsSession, Ended
<1>5. \A c \in Clients : HeldWhileWaiting(c)'
  BY <1>1, EndContextEffect, Types, Names DEF HeldWhileWaiting, Ended
<1>6. \A c \in Clients : ConnectionOK(c)'
  BY <1>1, EndContextEffect, SameConnection
<1>7. \A s \in Steady : bridge'[s] = "up"
  BY <1>1, EndContextEffect, Names DEF RegistryInv
<1>8. CallsInv'
  BY <1>1, EndContextEffect, Types, Names DEF CallsInv, Unsent, CallsAreTruthful, Called, At, Ended
<1> QED BY <1>2, <1>3, <1>4, <1>5, <1>6, <1>7, <1>8 DEF RegistryInv

LEMMA EnterListInv == ASSUME RegistryInv, NEW p \in Procs, EnterList(p) PROVE RegistryInv'
<1>1. RegistryInv /\ TypeOK /\ RefreshInv /\ OwnershipInv /\ CallsInv
      /\ \A c \in Clients : HeldWhileWaiting(c) /\ ConnectionOK(c)
  BY InvParts
<1>2. TypeOK'
  BY <1>1, EnterListEffect
<1>3. RefreshInv'
  BY <1>1, EnterListEffect, Types, Names DEF RefreshInv, OneRefresh, UsesItsClient, InstallsItsResult, FoundForAll, LooksAtFreshEntries, Refreshing, Looking, Moves
<1>4. OwnershipInv'
  BY <1>1, EnterListEffect, Types, Names DEF OwnershipInv, OpenClientsAreOwned, OfItsSession, Moves
<1>5. \A c \in Clients : HeldWhileWaiting(c)'
  BY <1>1, EnterListEffect, Types, Names DEF HeldWhileWaiting, Moves
<1>6. \A c \in Clients : ConnectionOK(c)'
  BY <1>1, EnterListEffect, SameConnection
<1>7. \A s \in Steady : bridge'[s] = "up"
  BY <1>1, EnterListEffect, Names DEF RegistryInv
<1>8. CallsInv'
  BY <1>1, EnterListEffect, Types, Names DEF CallsInv, Unsent, CallsAreTruthful, Called, At, Moves
<1> QED BY <1>2, <1>3, <1>4, <1>5, <1>6, <1>7, <1>8 DEF RegistryInv

LEMMA EnterCallInv == ASSUME RegistryInv, NEW p \in Procs, EnterCall(p) PROVE RegistryInv'
<1>1. RegistryInv /\ TypeOK /\ RefreshInv /\ OwnershipInv /\ CallsInv
      /\ \A c \in Clients : HeldWhileWaiting(c) /\ ConnectionOK(c)
  BY InvParts
<1>2. TypeOK'
  BY <1>1, EnterCallEffect
<1>3. RefreshInv'
  <2>1. proc[p].pc = "enter" /\ proc'[p].pc \in {"call", "done"}
    BY <1>1, EnterCallEffect DEF Moves
  <2>2. OneRefresh' /\ (\A s \in Sids : FoundForAll(s)')
    BY <1>1, <2>1, EnterCallEffect
       DEF RefreshInv, OneRefresh, FoundForAll, Refreshing, Looking, Moves
  <2>3. ASSUME NEW q \in Procs PROVE UsesItsClient(q)' /\ InstallsItsResult(q)'
    BY <1>1, <2>1, EnterCallEffect, Names
       DEF RefreshInv, UsesItsClient, InstallsItsResult, Refreshing, Moves
  <2>4. LooksAtFreshEntries'
    BY <1>1, <2>1, EnterCallEffect DEF RefreshInv, LooksAtFreshEntries, Moves
  <2> QED BY <2>2, <2>3, <2>4 DEF RefreshInv
<1>4. OwnershipInv'
  BY <1>1, EnterCallEffect, Types, Names DEF OwnershipInv, OpenClientsAreOwned, OfItsSession, Moves
<1>5. \A c \in Clients : HeldWhileWaiting(c)'
  BY <1>1, EnterCallEffect, Types, Names DEF HeldWhileWaiting, Moves
<1>6. \A c \in Clients : ConnectionOK(c)'
  BY <1>1, EnterCallEffect, SameConnection
<1>7. \A s \in Steady : bridge'[s] = "up"
  BY <1>1, EnterCallEffect, Names DEF RegistryInv
<1>8. CallsInv'
  BY <1>1, EnterCallEffect, Types, Names DEF CallsInv, Unsent, CallsAreTruthful, Called, At, Moves
<1> QED BY <1>2, <1>3, <1>4, <1>5, <1>6, <1>7, <1>8 DEF RegistryInv

LEMMA RefuseInv == ASSUME RegistryInv, NEW p \in Procs, Refuse(p) PROVE RegistryInv'
<1>1. RegistryInv /\ TypeOK /\ RefreshInv /\ OwnershipInv /\ CallsInv
      /\ \A c \in Clients : HeldWhileWaiting(c) /\ ConnectionOK(c)
  BY InvParts
<1>2. TypeOK'
  BY <1>1, RefuseEffect
<1>3. RefreshInv'
  BY <1>1, RefuseEffect, Types, Names DEF RefreshInv, OneRefresh, UsesItsClient, InstallsItsResult, FoundForAll, LooksAtFreshEntries, Refreshing, Looking, FailMoves, Moves
<1>4. OwnershipInv'
  BY <1>1, RefuseEffect, Types, Names DEF OwnershipInv, OpenClientsAreOwned, OfItsSession, FailMoves, Moves
<1>5. \A c \in Clients : HeldWhileWaiting(c)'
  BY <1>1, RefuseEffect, Types, Names DEF HeldWhileWaiting, FailMoves, Moves
<1>6. \A c \in Clients : ConnectionOK(c)'
  BY <1>1, RefuseEffect, SameConnection
<1>7. \A s \in Steady : bridge'[s] = "up"
  BY <1>1, RefuseEffect, Names DEF RegistryInv
<1>8. CallsInv'
  BY <1>1, RefuseEffect, Types, Names DEF CallsInv, Unsent, CallsAreTruthful, Called, At, FailMoves, Moves, RefreshInv, UsesItsClient
<1> QED BY <1>2, <1>3, <1>4, <1>5, <1>6, <1>7, <1>8 DEF RegistryInv

LEMMA BeginRefreshInv == ASSUME RegistryInv, NEW p \in Procs, BeginRefresh(p) PROVE RegistryInv'
<1>1. RegistryInv /\ TypeOK /\ RefreshInv /\ OwnershipInv /\ CallsInv
      /\ \A c \in Clients : HeldWhileWaiting(c) /\ ConnectionOK(c)
  BY InvParts
<1>2. TypeOK'
  BY <1>1, BeginRefreshEffect
<1>3. RefreshInv'
  BY <1>1, BeginRefreshEffect, Types, Names DEF RefreshInv, OneRefresh, UsesItsClient, InstallsItsResult, FoundForAll, LooksAtFreshEntries, Refreshing, Looking, Moves
<1>4. OwnershipInv'
  <2>1. work = NoWork /\ work'.old = entries /\ UNCHANGED <<entries, client, leaked>>
        /\ \A s \in Sids : work'.next[s] = "none"
    BY <1>1, BeginRefreshEffect DEF RefreshInv, OneRefresh
  <2>2. \A s \in Sids : OfItsSession(s)'
    BY <1>1, <2>1 DEF OwnershipInv, OfItsSession
  <2>3. OpenClientsAreOwned'
    BY <1>1, <2>1, NoWorkFacts, Names DEF OwnershipInv, OpenClientsAreOwned
  <2> QED BY <2>2, <2>3 DEF OwnershipInv
<1>5. \A c \in Clients : HeldWhileWaiting(c)'
  BY <1>1, BeginRefreshEffect, Types, Names DEF HeldWhileWaiting, Moves
<1>6. \A c \in Clients : ConnectionOK(c)'
  BY <1>1, BeginRefreshEffect, SameConnection
<1>7. \A s \in Steady : bridge'[s] = "up"
  BY <1>1, BeginRefreshEffect, Names DEF RegistryInv
<1>8. CallsInv'
  BY <1>1, BeginRefreshEffect, Types, Names DEF CallsInv, Unsent, CallsAreTruthful, Called, At, Moves
<1> QED BY <1>2, <1>3, <1>4, <1>5, <1>6, <1>7, <1>8 DEF RegistryInv

LEMMA LoadFailsInv == ASSUME RegistryInv, NEW p \in Procs, LoadFails(p) PROVE RegistryInv'
<1>1. RegistryInv /\ TypeOK /\ RefreshInv /\ OwnershipInv /\ CallsInv
      /\ \A c \in Clients : HeldWhileWaiting(c) /\ ConnectionOK(c)
  BY InvParts
<1>2. TypeOK'
  BY <1>1, LoadFailsEffect
<1>3. RefreshInv'
  BY <1>1, LoadFailsEffect, Types, Names DEF RefreshInv, OneRefresh, UsesItsClient, InstallsItsResult, FoundForAll, LooksAtFreshEntries, Refreshing, Looking, Moves
<1>4. OwnershipInv'
  BY <1>1, LoadFailsEffect, Types, Names DEF OwnershipInv, OpenClientsAreOwned, OfItsSession, Moves
<1>5. \A c \in Clients : HeldWhileWaiting(c)'
  BY <1>1, LoadFailsEffect, Types, Names DEF HeldWhileWaiting, Moves
<1>6. \A c \in Clients : ConnectionOK(c)'
  BY <1>1, LoadFailsEffect, SameConnection
<1>7. \A s \in Steady : bridge'[s] = "up"
  BY <1>1, LoadFailsEffect, Names DEF RegistryInv
<1>8. CallsInv'
  BY <1>1, LoadFailsEffect, Types, Names DEF CallsInv, Unsent, CallsAreTruthful, Called, At, Moves
<1> QED BY <1>2, <1>3, <1>4, <1>5, <1>6, <1>7, <1>8 DEF RegistryInv

LEMMA AbortRefreshInv == ASSUME RegistryInv, NEW p \in Procs, AbortRefresh(p) PROVE RegistryInv'
<1>1. RegistryInv /\ TypeOK /\ RefreshInv /\ OwnershipInv /\ CallsInv
      /\ \A c \in Clients : HeldWhileWaiting(c) /\ ConnectionOK(c)
  BY InvParts
<1>2. TypeOK'
  BY <1>1, AbortRefreshEffect
<1>3. RefreshInv'
  BY <1>1, AbortRefreshEffect, Types, Names, NoWorkFacts DEF RefreshInv, OneRefresh, UsesItsClient, InstallsItsResult, FoundForAll, LooksAtFreshEntries, Refreshing, Looking, Moves
<1>4. OwnershipInv'
  <2>1. work' = NoWork /\ UNCHANGED <<entries, client>> /\ leaked \subseteq leaked'
        /\ \A s \in Sids : work.next[s] \in leaked' \cup {"none"} \cup {entries[t] : t \in Sids}
    BY <1>1, AbortRefreshEffect
  <2>2. work.old = entries
    BY <1>1, AbortRefreshEffect DEF RefreshInv, InstallsItsResult, Refreshing
  <2>3. \A s \in Sids : OfItsSession(s)'
    BY <1>1, <2>1, NoWorkFacts DEF OwnershipInv, OfItsSession
  <2>4. OpenClientsAreOwned'
    <3> SUFFICES ASSUME NEW c \in Clients, client[c].open
                 PROVE  c \in leaked' \/ \E s \in Sids : entries[s] = c
      BY <2>1 DEF OpenClientsAreOwned
    <3>1. \/ c \in leaked
          \/ \E s \in Sids : entries[s] = c \/ work.next[s] = c
      BY <1>1, <2>2 DEF OwnershipInv, OpenClientsAreOwned
    <3> QED BY <2>1, <3>1, Names
  <2> QED BY <2>3, <2>4 DEF OwnershipInv
<1>5. \A c \in Clients : HeldWhileWaiting(c)'
  BY <1>1, AbortRefreshEffect, Types, Names, NoWorkFacts DEF HeldWhileWaiting, Moves
<1>6. \A c \in Clients : ConnectionOK(c)'
  BY <1>1, AbortRefreshEffect, SameConnection
<1>7. \A s \in Steady : bridge'[s] = "up"
  BY <1>1, AbortRefreshEffect, Names DEF RegistryInv
<1>8. CallsInv'
  BY <1>1, AbortRefreshEffect, Types, Names, NoWorkFacts DEF CallsInv, Unsent, CallsAreTruthful, Called, At, Moves
<1> QED BY <1>2, <1>3, <1>4, <1>5, <1>6, <1>7, <1>8 DEF RegistryInv

LEMMA ProbeInv == ASSUME RegistryInv, NEW p \in Procs, Probe(p) PROVE RegistryInv'
<1>1. RegistryInv /\ TypeOK /\ RefreshInv /\ OwnershipInv /\ CallsInv
      /\ \A c \in Clients : HeldWhileWaiting(c) /\ ConnectionOK(c)
  BY InvParts
<1>2. TypeOK'
  BY <1>1, ProbeEffect
<1>3. RefreshInv'
  BY <1>1, ProbeEffect, Types, Names DEF RefreshInv, OneRefresh, UsesItsClient, InstallsItsResult, FoundForAll, LooksAtFreshEntries, Refreshing, Looking, Moves
<1>4. OwnershipInv'
  BY <1>1, ProbeEffect, Types, Names DEF OwnershipInv, OpenClientsAreOwned, OfItsSession, Moves
<1>5. \A c \in Clients : HeldWhileWaiting(c)'
  BY <1>1, ProbeEffect, Types, Names DEF HeldWhileWaiting, Moves
<1>6. \A c \in Clients : ConnectionOK(c)'
  BY <1>1, ProbeEffect, SameConnection
<1>7. \A s \in Steady : bridge'[s] = "up"
  BY <1>1, ProbeEffect, Names DEF RegistryInv
<1>8. CallsInv'
  BY <1>1, ProbeEffect, Types, Names DEF CallsInv, Unsent, CallsAreTruthful, Called, At, Moves
<1> QED BY <1>2, <1>3, <1>4, <1>5, <1>6, <1>7, <1>8 DEF RegistryInv

LEMMA DialFailsInv == ASSUME RegistryInv, NEW p \in Procs, DialFails(p) PROVE RegistryInv'
<1>1. RegistryInv /\ TypeOK /\ RefreshInv /\ OwnershipInv /\ CallsInv
      /\ \A c \in Clients : HeldWhileWaiting(c) /\ ConnectionOK(c)
  BY InvParts
<1>2. TypeOK'
  BY <1>1, DialFailsEffect
<1>3. RefreshInv'
  BY <1>1, DialFailsEffect, Types, Names DEF RefreshInv, OneRefresh, UsesItsClient, InstallsItsResult, FoundForAll, LooksAtFreshEntries, Refreshing, Looking, Moves
<1>4. OwnershipInv'
  BY <1>1, DialFailsEffect, Types, Names DEF OwnershipInv, OpenClientsAreOwned, OfItsSession, Moves
<1>5. \A c \in Clients : HeldWhileWaiting(c)'
  BY <1>1, DialFailsEffect, Types, Names DEF HeldWhileWaiting, Moves
<1>6. \A c \in Clients : ConnectionOK(c)'
  BY <1>1, DialFailsEffect, SameConnection
<1>7. \A s \in Steady : bridge'[s] = "up"
  BY <1>1, DialFailsEffect, Names DEF RegistryInv
<1>8. CallsInv'
  BY <1>1, DialFailsEffect, Types, Names DEF CallsInv, Unsent, CallsAreTruthful, Called, At, Moves
<1> QED BY <1>2, <1>3, <1>4, <1>5, <1>6, <1>7, <1>8 DEF RegistryInv

LEMMA WantInstallInv == ASSUME RegistryInv, NEW p \in Procs, WantInstall(p) PROVE RegistryInv'
<1>1. RegistryInv /\ TypeOK /\ RefreshInv /\ OwnershipInv /\ CallsInv
      /\ \A c \in Clients : HeldWhileWaiting(c) /\ ConnectionOK(c)
  BY InvParts
<1>2. TypeOK'
  BY <1>1, WantInstallEffect
<1>3. RefreshInv'
  BY <1>1, WantInstallEffect, Types, Names DEF RefreshInv, OneRefresh, UsesItsClient, InstallsItsResult, FoundForAll, LooksAtFreshEntries, Refreshing, Looking, Moves
<1>4. OwnershipInv'
  BY <1>1, WantInstallEffect, Types, Names DEF OwnershipInv, OpenClientsAreOwned, OfItsSession, Moves
<1>5. \A c \in Clients : HeldWhileWaiting(c)'
  BY <1>1, WantInstallEffect, Types, Names DEF HeldWhileWaiting, Moves
<1>6. \A c \in Clients : ConnectionOK(c)'
  BY <1>1, WantInstallEffect, SameConnection
<1>7. \A s \in Steady : bridge'[s] = "up"
  BY <1>1, WantInstallEffect, Names DEF RegistryInv
<1>8. CallsInv'
  BY <1>1, WantInstallEffect, Types, Names DEF CallsInv, Unsent, CallsAreTruthful, Called, At, Moves
<1> QED BY <1>2, <1>3, <1>4, <1>5, <1>6, <1>7, <1>8 DEF RegistryInv

LEMMA InstallInv == ASSUME RegistryInv, NEW p \in Procs, Install(p) PROVE RegistryInv'
<1>1. RegistryInv /\ TypeOK /\ RefreshInv /\ OwnershipInv /\ CallsInv
      /\ \A c \in Clients : HeldWhileWaiting(c) /\ ConnectionOK(c)
  BY InvParts
<1>2. TypeOK'
  BY <1>1, InstallEffect
<1>3. RefreshInv'
  BY <1>1, InstallEffect, Types, Names DEF RefreshInv, OneRefresh, UsesItsClient, InstallsItsResult, FoundForAll, LooksAtFreshEntries, Refreshing, Looking, Moves
<1>4. OwnershipInv'
  BY <1>1, InstallEffect, Types, Names DEF OwnershipInv, OpenClientsAreOwned, OfItsSession, Moves, RefreshInv, OneRefresh, InstallsItsResult, Refreshing
<1>5. \A c \in Clients : HeldWhileWaiting(c)'
  BY <1>1, InstallEffect, Types, Names DEF HeldWhileWaiting, Moves
<1>6. \A c \in Clients : ConnectionOK(c)'
  BY <1>1, InstallEffect, SameConnection
<1>7. \A s \in Steady : bridge'[s] = "up"
  BY <1>1, InstallEffect, Names DEF RegistryInv
<1>8. CallsInv'
  BY <1>1, InstallEffect, Types, Names DEF CallsInv, Unsent, CallsAreTruthful, Called, At, Moves
<1> QED BY <1>2, <1>3, <1>4, <1>5, <1>6, <1>7, <1>8 DEF RegistryInv

LEMMA PublishInv == ASSUME RegistryInv, NEW s \in Sids, Publish(s) PROVE RegistryInv'
<1>1. RegistryInv /\ TypeOK /\ RefreshInv /\ OwnershipInv /\ CallsInv
      /\ \A c \in Clients : HeldWhileWaiting(c) /\ ConnectionOK(c)
  BY InvParts
<1>2. TypeOK'
  BY <1>1, PublishEffect
<1>3. RefreshInv'
  BY <1>1, PublishEffect, Types, Names DEF RefreshInv, OneRefresh, UsesItsClient, InstallsItsResult, FoundForAll, LooksAtFreshEntries, Refreshing, Looking
<1>4. OwnershipInv'
  BY <1>1, PublishEffect, Types, Names DEF OwnershipInv, OpenClientsAreOwned, OfItsSession
<1>5. \A c \in Clients : HeldWhileWaiting(c)'
  BY <1>1, PublishEffect, Types, Names DEF HeldWhileWaiting
<1>6. \A c \in Clients : ConnectionOK(c)'
  BY <1>1, PublishEffect, SameConnection
<1>7. \A t \in Steady : bridge'[t] = "up"
  BY <1>1, PublishEffect, Names DEF RegistryInv
<1>8. CallsInv'
  BY <1>1, PublishEffect, Types, Names DEF CallsInv, Unsent, CallsAreTruthful, Called, At
<1> QED BY <1>2, <1>3, <1>4, <1>5, <1>6, <1>7, <1>8 DEF RegistryInv

LEMMA SendInv == ASSUME RegistryInv, NEW p \in Procs, Send(p) PROVE RegistryInv'
<1> DEFINE c == proc[p].on
           id == [by |-> p, n |-> proc[p].n + 1, call |-> proc[p].pc = "call"]
<1>1. RegistryInv /\ TypeOK /\ RefreshInv /\ OwnershipInv /\ CallsInv /\ UsesItsClient(p)
      /\ \A d \in Clients : HeldWhileWaiting(d) /\ ConnectionOK(d)
  BY InvParts
<1>2. /\ TypeOK' /\ c \in Clients /\ OneClient(c)
      /\ client[c].holder = "none" /\ client[c].open /\ client'[c].holder = p
      /\ client'[c].open /\ client'[c].alive = client[c].alive
      /\ client'[c].answered = client[c].answered
      /\ client'[c].asked = Append(client[c].asked, id)
      /\ \/ proc[p].pc = "check" /\ Moves(p, "info")
         \/ proc[p].pc = "call" /\ Moves(p, "await")
      /\ proc'[p].n = proc[p].n + 1 /\ proc'[p].at = proc[p].at /\ proc'[p].on = c
      /\ UNCHANGED <<refresher, work, entries, closed, bridge, fresh, leaked, executed>>
  BY <1>1, SendEffect
<1> HIDE DEF c
<1>3. RefreshInv'
  BY <1>1, <1>2, Names DEF RefreshInv, OneRefresh, UsesItsClient, InstallsItsResult,
     FoundForAll, LooksAtFreshEntries, Refreshing, Looking, Moves, c
<1>4. OwnershipInv'
  <2>1. \A d \in Clients : client'[d].sid = client[d].sid /\ (client'[d].open => client[d].open)
    BY <1>2 DEF OneClient
  <2>2. \A s \in Sids : entries[s] \in Clients \cup {"none"} /\ work.old[s] \in Clients \cup {"none"}
                        /\ work.next[s] \in Clients \cup {"none"}
    BY <1>1, Types
  <2> QED BY <1>1, <1>2, <2>1, <2>2 DEF OwnershipInv, OfItsSession, OpenClientsAreOwned
<1>5. ASSUME NEW d \in Clients PROVE HeldWhileWaiting(d)'
  BY <1>1, <1>2, Names DEF HeldWhileWaiting, OneClient, Moves, c
<1>6. ASSUME NEW d \in Clients PROVE ConnectionOK(d)'
  <2>1. CASE d = c
    <3>1. client[c].sid # "none"
      BY <1>1, <1>2 DEF ConnectionOK, DialledFirst
    <3> QED BY <1>1, <1>2, <2>1, <3>1, ConnectionKept DEF OneClient
  <2> QED BY <1>1, <1>2, <2>1, SameConnection DEF OneClient
<1>7. CallsInv'
  <2>1. ASSUME NEW q \in Procs, q # p \/ proc[p].pc = "check", Unsent(q) PROVE Unsent(q)'
    <3>1. ~Called(q, id)
      BY <2>1 DEF Called
    <3>2. \A i \in DOMAIN client'[c].asked : ~Called(q, client'[c].asked[i])
      <4>1. client[c].asked \in Seq(Ids) /\ id \in Ids
        <5>1. proc[p].n + 1 \in Nat /\ client[c].asked \in Seq(Ids)
          BY <1>1, <1>2, Types
        <5>2. (proc[p].pc = "call") \in BOOLEAN
          OBVIOUS
        <5> QED BY <5>1, <5>2 DEF Ids
      <4> HIDE DEF id
      <4>2. \A i \in 1..(Len(client[c].asked) + 1) :
              Append(client[c].asked, id)[i] =
                IF i <= Len(client[c].asked) THEN client[c].asked[i] ELSE id
        BY <4>1, AppendProperties
      <4> QED BY <1>2, <2>1, <3>1, <4>1, <4>2, AppendProperties, LenProperties DEF Unsent
    <3>3. \A d \in Clients \ {c} : client'[d].asked = client[d].asked
      BY <1>2 DEF OneClient
    <3> QED BY <1>2, <2>1, <3>2, <3>3 DEF Unsent, Called
  <2>2. \A q \in Procs : proc'[q].pc \notin {"await", "done"} => Unsent(q)'
    BY <1>1, <1>2, <2>1 DEF CallsInv, Moves
  <2>3. CallsAreTruthful'
    <3> SUFFICES ASSUME NEW q \in Procs, proc'[q].pc = "done", proc'[q].goal # "list"
                 PROVE  /\ proc'[q].outcome = "ok" =>
                             [id |-> [by |-> q, n |-> proc'[q].n, call |-> TRUE],
                              sid |-> proc'[q].goal] \in executed'
                        /\ proc'[q].outcome \in {"refused", "not_found", "unreadable", "cancelled"} =>
                             Unsent(q)'
      BY DEF CallsAreTruthful, Unsent, At
    <3>1. q # p /\ proc'[q] = proc[q]
      BY <1>2 DEF Moves
    <3> QED BY <1>1, <1>2, <2>1, <3>1 DEF CallsInv, CallsAreTruthful, Unsent, At
  <2> QED BY <2>2, <2>3 DEF CallsInv
<1> QED BY <1>1, <1>2, <1>3, <1>4, <1>5, <1>6, <1>7 DEF RegistryInv


\* Steps that neither send nor execute anything leave the calls as they are.
LEMMA CallsKept ==
  ASSUME CallsInv, executed' = executed,
         \A c \in Clients : client'[c].asked \in {client[c].asked, <<>>},
         \A q \in Procs :
           \/ proc'[q] = proc[q]
           \/ proc[q].pc \notin {"await", "done"} /\ (proc'[q].pc = "done" => proc'[q].outcome # "ok")
           \/ proc[q].pc = "await" /\ proc'[q].pc = "done" /\ proc'[q].outcome = "failed"
           \/ proc[q].pc = "await" /\ proc'[q].pc = "done" /\ proc'[q].outcome = "ok"
              /\ [id |-> [by |-> q, n |-> proc'[q].n, call |-> TRUE], sid |-> proc'[q].goal]
                   \in executed
  PROVE  CallsInv'
<1>1. ASSUME NEW q \in Procs, Unsent(q) PROVE Unsent(q)'
  BY <1>1 DEF Unsent, Called
<1>2. \A q \in Procs : proc'[q].pc \notin {"await", "done"} => Unsent(q)'
  BY <1>1 DEF CallsInv
<1>3. CallsAreTruthful'
  <2> SUFFICES ASSUME NEW q \in Procs, proc'[q].pc = "done", proc'[q].goal # "list"
               PROVE  /\ proc'[q].outcome = "ok" =>
                           [id |-> [by |-> q, n |-> proc'[q].n, call |-> TRUE],
                            sid |-> proc'[q].goal] \in executed'
                      /\ proc'[q].outcome \in {"refused", "not_found", "unreadable", "cancelled"} =>
                           Unsent(q)'
    BY DEF CallsAreTruthful, Unsent, At
  <2>1. CASE proc'[q] = proc[q]
    BY <1>1, <2>1 DEF CallsInv, CallsAreTruthful, Unsent, At
  <2>2. CASE proc'[q] # proc[q]
    BY <1>1, <2>2 DEF CallsInv
  <2> QED BY <2>1, <2>2
<1> QED BY <1>2, <1>3 DEF CallsInv

LEMMA LoseAnswerInv == ASSUME RegistryInv, NEW p \in Procs, LoseAnswer(p) PROVE RegistryInv'
<1> DEFINE c == proc[p].on
<1>1. RegistryInv /\ TypeOK /\ RefreshInv /\ OwnershipInv /\ CallsInv /\ UsesItsClient(p)
      /\ \A d \in Clients : HeldWhileWaiting(d) /\ ConnectionOK(d)
  BY InvParts
<1>2. /\ TypeOK' /\ c \in Clients
      /\ proc[p].pc \in {"info", "await"} /\ FailMoves(p, "failed") /\ proc'[p].n = proc[p].n
      /\ Releases(c) /\ client'[c].answered = client[c].answered
      /\ UNCHANGED <<refresher, work, entries, closed, bridge, fresh, leaked, executed>>
  BY <1>1, LoseAnswerEffect, InUse DEF LoseAnswer
<1> HIDE DEF c
<1>3. RefreshInv'
  BY <1>1, <1>2, Names DEF RefreshInv, OneRefresh, UsesItsClient, InstallsItsResult,
     FoundForAll, LooksAtFreshEntries, Refreshing, Looking, FailMoves, Moves, c
<1>4. \A d \in Clients : /\ client'[d].sid = client[d].sid /\ client'[d].open = client[d].open
                         /\ client'[d].asked = client[d].asked
  BY <1>2 DEF Releases, OneClient
<1>5. OwnershipInv'
  BY <1>1, <1>2, <1>4, Types DEF OwnershipInv, OfItsSession, OpenClientsAreOwned
<1>6. ASSUME NEW d \in Clients PROVE HeldWhileWaiting(d)'
  BY <1>1, <1>2, Names DEF HeldWhileWaiting, Releases, OneClient, FailMoves, Moves, c
<1>7. ASSUME NEW d \in Clients PROVE ConnectionOK(d)'
  <2>1. CASE d = c
    BY <1>1, <1>2, <2>1, ConnectionKept DEF Releases, OneClient, ConnectionOK, DialledFirst
  <2> QED BY <1>1, <1>2, <2>1, SameConnection DEF Releases, OneClient
<1>8. CallsInv'
  BY <1>1, <1>2, <1>4, CallsKept DEF FailMoves, Moves
<1> QED BY <1>1, <1>2, <1>3, <1>5, <1>6, <1>7, <1>8 DEF RegistryInv

LEMMA ReceiveInv == ASSUME RegistryInv, NEW p \in Procs, Receive(p) PROVE RegistryInv'
<1> DEFINE c == proc[p].on
           h == Head(client[c].answered)
           r == [by |-> p, n |-> proc[p].n, call |-> proc[p].pc = "await"]
<1>1. RegistryInv /\ TypeOK /\ RefreshInv /\ OwnershipInv /\ CallsInv /\ UsesItsClient(p)
      /\ \A d \in Clients : HeldWhileWaiting(d) /\ ConnectionOK(d)
  BY InvParts
<1>2. /\ TypeOK'
      /\ proc[p].pc \in {"info", "await"} /\ proc'[p].n = proc[p].n
      /\ c \in Clients /\ client[c].answered # <<>>
      /\ Releases(c) /\ client'[c].answered = Tail(client[c].answered)
      /\ \/ h # r /\ FailMoves(p, "failed") /\ work' = work
         \/ /\ h = r /\ proc[p].pc = "info" /\ Moves(p, "probe")
            /\ proc[p].at \in Sids /\ Finds(proc[p].at, c)
         \/ /\ h = r /\ proc[p].pc = "await" /\ Moves(p, "done")
            /\ proc'[p].outcome = "ok" /\ work' = work
      /\ UNCHANGED <<refresher, entries, closed, bridge, fresh, leaked, executed>>
  BY <1>1, ReceiveEffect
<1>3. client[c].answered \in Seq(Ids)
  BY <1>1, <1>2, Types
<1>4. h = client[c].answered[1] /\ 1 \in DOMAIN client[c].answered
      /\ \A i \in DOMAIN Tail(client[c].answered) :
           /\ i + 1 \in DOMAIN client[c].answered
           /\ Tail(client[c].answered)[i] = client[c].answered[i + 1]
  BY <1>2, <1>3, HeadTailProperties, EmptySeq, LenProperties
<1>5. r.call <=> proc[p].pc = "await"
  OBVIOUS
<1>6. proc[p].pc = "await" => r = [by |-> p, n |-> proc[p].n, call |-> TRUE]
  OBVIOUS
<1> HIDE DEF c, h, r
<1>7. RefreshInv'
  <2>1. CASE /\ work' = work
             /\ FailMoves(p, "failed") \/ (proc[p].pc = "await" /\ Moves(p, "done"))
    BY <1>1, <1>2, <2>1, Names DEF RefreshInv, OneRefresh, UsesItsClient, InstallsItsResult,
       FoundForAll, LooksAtFreshEntries, Refreshing, Looking, FailMoves, Moves, c
  <2>2. CASE proc[p].pc = "info" /\ Moves(p, "probe")
             /\ proc[p].at \in Sids /\ Finds(proc[p].at, c)
    <3>1. refresher = p /\ \A q \in Procs : proc[q].pc \in Refreshing <=> q = p
      BY <1>1, <2>2 DEF RefreshInv, OneRefresh, Refreshing
    <3>2. \A q \in Procs \ {p} : proc'[q] = proc[q]
      BY <2>2 DEF Moves
    <3>3. OneRefresh'
      BY <1>2, <2>2, <3>1, <3>2, Names DEF OneRefresh, Moves, Refreshing
    <3>4. ASSUME NEW q \in Procs PROVE UsesItsClient(q)' /\ InstallsItsResult(q)'
      BY <1>1, <1>2, <2>2, <3>1, <3>2
         DEF RefreshInv, UsesItsClient, InstallsItsResult, Refreshing, Moves, Finds
    <3>5. ASSUME NEW s \in Sids PROVE FoundForAll(s)'
      <4>1. CASE s = proc[p].at
        BY <2>2, <3>2, <4>1 DEF FoundForAll, Finds, UnderWay, Looking, Refreshing, Moves
      <4>2. CASE s # proc[p].at
        BY <1>1, <2>2, <3>2, <4>2 DEF RefreshInv, FoundForAll, Finds, Looking, Refreshing, Moves
      <4> QED BY <4>1, <4>2
    <3>6. LooksAtFreshEntries'
      BY <1>1, <1>2, <2>2, <3>2 DEF RefreshInv, LooksAtFreshEntries, Moves
    <3> QED BY <3>3, <3>4, <3>5, <3>6 DEF RefreshInv
  <2>3. \/ FailMoves(p, "failed") /\ work' = work
        \/ proc[p].pc = "info" /\ Moves(p, "probe") /\ proc[p].at \in Sids /\ Finds(proc[p].at, c)
        \/ proc[p].pc = "await" /\ Moves(p, "done") /\ work' = work
    BY <1>2
  <2> QED BY <2>1, <2>2, <2>3
<1>8. \A d \in Clients : /\ client'[d].sid = client[d].sid /\ client'[d].open = client[d].open
                         /\ client'[d].asked = client[d].asked
  BY <1>2 DEF Releases, OneClient
<1>9. OwnershipInv'
  <2>1. CASE work' = work
    BY <1>1, <1>2, <1>8, <2>1, Types DEF OwnershipInv, OfItsSession, OpenClientsAreOwned
  <2>2. CASE proc[p].pc = "info" /\ proc[p].at \in Sids /\ Finds(proc[p].at, c)
    <3>1. work.next[proc[p].at] = "none" /\ c = work.old[proc[p].at] /\ c # "none"
      BY <1>1, <2>2 DEF UsesItsClient, RefreshInv, FoundForAll, c
    <3>2. client[c].sid = proc[p].at
      BY <1>1, <2>2, <3>1 DEF OwnershipInv, OfItsSession
    <3>3. ASSUME NEW s \in Sids PROVE OfItsSession(s)'
      BY <1>1, <1>2, <1>8, <2>2, <3>2, Types DEF OwnershipInv, OfItsSession, Finds
    <3>4. ASSUME NEW s \in Sids
          PROVE  work.old[s] = work'.old[s] /\ work.next[s] \in {work'.next[s], "none"}
      BY <2>2, <3>1 DEF Finds
    <3>5. OpenClientsAreOwned'
      BY <1>1, <1>2, <1>8, <3>4, Names DEF OwnershipInv, OpenClientsAreOwned
    <3> QED BY <3>3, <3>5 DEF OwnershipInv
  <2> QED BY <1>2, <2>1, <2>2
<1>10. ASSUME NEW d \in Clients PROVE HeldWhileWaiting(d)'
  BY <1>1, <1>2, Names DEF HeldWhileWaiting, Releases, OneClient, FailMoves, Moves, c
<1>11. ASSUME NEW d \in Clients PROVE ConnectionOK(d)'
  <2>1. CASE d = c
    <3>1. \A i \in DOMAIN client'[c].answered :
            \E j \in DOMAIN client[c].answered : client'[c].answered[i] = client[c].answered[j]
      BY <1>2, <1>4
    <3>2. client[c].sid = "none" => client'[c].asked = <<>>
      BY <1>1, <1>2 DEF Releases, ConnectionOK, DialledFirst
    <3> QED BY <1>1, <1>2, <2>1, <3>1, <3>2, ConnectionKept DEF Releases, OneClient
  <2> QED BY <1>1, <1>2, <2>1, SameConnection DEF Releases, OneClient
<1>12. CallsInv'
  <2>1. ASSUME proc[p].pc = "await", h = r
        PROVE  [id |-> [by |-> p, n |-> proc[p].n, call |-> TRUE], sid |-> proc[p].goal] \in executed
    <3>1. [id |-> h, sid |-> client[c].sid] \in executed
      BY <1>1, <1>2, <1>4, <1>5, <2>1 DEF ConnectionOK, AnswersWereExecuted
    <3>2. proc[p].goal \in Sids /\ c = entries[proc[p].goal] /\ c # "none"
      BY <1>1, <2>1, Types DEF UsesItsClient, c
    <3>3. client[c].sid = proc[p].goal
      BY <1>1, <3>2 DEF OwnershipInv, OfItsSession
    <3> QED BY <1>6, <2>1, <3>1, <3>3
  <2> QED BY <1>1, <1>2, <1>8, <2>1, CallsKept DEF FailMoves, Moves
<1> QED BY <1>1, <1>2, <1>7, <1>9, <1>10, <1>11, <1>12 DEF RegistryInv

LEMMA DropInv == ASSUME RegistryInv, NEW p \in Procs, Drop(p) PROVE RegistryInv'
<1> DEFINE c == proc[p].on
<1>1. RegistryInv /\ TypeOK /\ RefreshInv /\ OwnershipInv /\ CallsInv /\ UsesItsClient(p)
      /\ \A d \in Clients : HeldWhileWaiting(d) /\ ConnectionOK(d)
  BY InvParts
<1>2. /\ TypeOK' /\ proc[p].pc = "drop" /\ client[c].holder = "none" /\ HangupAll({c})
      /\ Moves(p, "dial") /\ proc'[p].n = proc[p].n
      /\ proc'[p].at = proc[p].at /\ proc'[p].on = c
      /\ UNCHANGED <<refresher, work, entries, closed, bridge, fresh, leaked, executed>>
  BY <1>1, DropEffect
<1>3. ASSUME NEW d \in Clients
      PROVE  /\ client'[d].sid = client[d].sid /\ client'[d].asked = client[d].asked
             /\ client'[d].alive = client[d].alive /\ client'[d].holder = client[d].holder
             /\ client'[d].open => client[d].open
             /\ d # c => client'[d] = client[d]
             /\ d = c => ~client'[d].open /\ client'[d].answered = <<>>
  BY <1>1, <1>2, HangupEffect
<1> HIDE DEF c
<1>4. RefreshInv'
  BY <1>1, <1>2, Names DEF RefreshInv, OneRefresh, UsesItsClient, InstallsItsResult,
     FoundForAll, LooksAtFreshEntries, Refreshing, Looking, Moves
<1>5. OwnershipInv'
  BY <1>1, <1>2, <1>3, Types DEF OwnershipInv, OfItsSession, OpenClientsAreOwned
<1>6. ASSUME NEW d \in Clients PROVE HeldWhileWaiting(d)'
  BY <1>1, <1>2, <1>3, Names DEF HeldWhileWaiting, Moves
<1>7. ASSUME NEW d \in Clients PROVE ConnectionOK(d)'
  <2>1. CASE d = c
    BY <1>1, <1>2, <1>3, <2>1, ConnectionKept DEF ConnectionOK, DialledFirst
  <2> QED BY <1>1, <1>2, <1>3, <2>1, SameConnection
<1>8. CallsInv'
  BY <1>1, <1>2, <1>3, CallsKept DEF Moves
<1> QED BY <1>1, <1>2, <1>4, <1>5, <1>6, <1>7, <1>8 DEF RegistryInv

LEMMA DialInv == ASSUME RegistryInv, NEW p \in Procs, Dial(p) PROVE RegistryInv'
<1>1. RegistryInv /\ TypeOK /\ RefreshInv /\ OwnershipInv /\ CallsInv /\ UsesItsClient(p)
      /\ \A d \in Clients : HeldWhileWaiting(d) /\ ConnectionOK(d)
  BY InvParts
<1>2. proc[p].at \in Sids
  BY <1>1, InvParts DEF Dial, At
<1>3. /\ TypeOK' /\ proc[p].pc = "dial" /\ Moves(p, "probe")
      /\ UNCHANGED <<refresher, entries, closed, bridge, fresh, leaked, executed>>
  BY <1>1, <1>2, DialEffect
<1>4. PICK c \in Clients :
        /\ client[c] = Undialled
        /\ client' \in [Clients -> Connections]
        /\ \A d \in Clients \ {c} : client'[d] = client[d]
        /\ client'[c].sid = proc[p].at /\ client'[c].open /\ client'[c].alive
        /\ client'[c].asked = <<>> /\ client'[c].answered = <<>> /\ client'[c].holder = "none"
        /\ Finds(proc[p].at, c)
  BY <1>1, <1>2, DialEffect
<1>5. /\ client[c].sid = "none" /\ ~client[c].open /\ client[c].holder = "none"
      /\ client[c].asked = <<>>
  BY <1>4 DEF Undialled
<1>6. refresher = p /\ \A q \in Procs : proc[q].pc \in Refreshing <=> q = p
  BY <1>1, <1>3 DEF RefreshInv, OneRefresh, Refreshing
<1>7. \A q \in Procs \ {p} : proc'[q] = proc[q]
  BY <1>3 DEF Moves
<1>8. RefreshInv'
  <2>1. OneRefresh'
    BY <1>3, <1>6, <1>7, Names DEF OneRefresh, Moves, Refreshing
  <2>2. ASSUME NEW q \in Procs PROVE UsesItsClient(q)' /\ InstallsItsResult(q)'
    BY <1>1, <1>3, <1>4, <1>6, <1>7
       DEF RefreshInv, UsesItsClient, InstallsItsResult, Refreshing, Moves, Finds
  <2>3. ASSUME NEW s \in Sids PROVE FoundForAll(s)'
    <3>1. CASE s = proc[p].at
      BY <1>3, <1>4, <1>7, <3>1 DEF FoundForAll, Finds, UnderWay, Looking, Refreshing, Moves
    <3>2. CASE s # proc[p].at
      BY <1>1, <1>3, <1>4, <1>7, <3>2 DEF RefreshInv, FoundForAll, Finds, Looking, Refreshing, Moves
    <3> QED BY <3>1, <3>2
  <2>4. LooksAtFreshEntries'
    BY <1>1, <1>3, <1>7 DEF RefreshInv, LooksAtFreshEntries, Moves
  <2> QED BY <2>1, <2>2, <2>3, <2>4 DEF RefreshInv
<1>9. OwnershipInv'
  <2>1. work.next[proc[p].at] = "none"
    BY <1>1, <1>2, <1>3 DEF UsesItsClient, RefreshInv, FoundForAll
  <2>2. ASSUME NEW s \in Sids PROVE OfItsSession(s)'
    <3>1. c \notin {entries[s], work.old[s], work.next[s]}
      BY <1>1, <1>4, <1>5, Names DEF OwnershipInv, OfItsSession
    <3>2. \A d \in {entries[s], work.old[s], work.next[s]} \ {"none"} : client'[d].sid = s
      BY <1>1, <1>4, <3>1, Types DEF OwnershipInv, OfItsSession
    <3> QED BY <1>2, <1>3, <1>4, <3>2 DEF OfItsSession, Finds
  <2>3. ASSUME NEW s \in Sids
        PROVE  work.old[s] = work'.old[s] /\ work.next[s] \in {work'.next[s], "none"}
    BY <1>4, <2>1 DEF Finds
  <2>4. OpenClientsAreOwned'
    <3>1. ASSUME NEW d \in Clients \ {c}, client'[d].open
          PROVE  \/ d \in {entries'[s] : s \in Sids}
                 \/ d \in {work'.old[s] : s \in Sids} \cup {work'.next[s] : s \in Sids}
                 \/ d \in leaked'
      BY <1>1, <1>3, <1>4, <2>3, <3>1, Names DEF OwnershipInv, OpenClientsAreOwned
    <3>2. c \in {work'.next[s] : s \in Sids}
      BY <1>2, <1>4 DEF Finds
    <3> QED BY <3>1, <3>2 DEF OpenClientsAreOwned
  <2> QED BY <2>2, <2>4 DEF OwnershipInv
<1>10. ASSUME NEW d \in Clients PROVE HeldWhileWaiting(d)'
  BY <1>1, <1>3, <1>4, <1>5, <1>7, Names DEF HeldWhileWaiting, Moves
<1>11. ASSUME NEW d \in Clients PROVE ConnectionOK(d)'
  <2>1. CASE d = c
    BY <1>2, <1>4, <2>1, EmptySeq, Names
       DEF ConnectionOK, DialledFirst, AnswersWereExecuted, Unbroken
  <2> QED BY <1>1, <1>3, <1>4, <2>1, SameConnection
<1>12. CallsInv'
  <2>1. \A d \in Clients : client'[d].asked = client[d].asked
    BY <1>4, <1>5
  <2> QED BY <1>1, <1>3, <1>7, <2>1, CallsKept DEF Moves
<1> QED BY <1>1, <1>3, <1>8, <1>9, <1>10, <1>11, <1>12 DEF RegistryInv

LEMMA FinishInv == ASSUME RegistryInv, NEW p \in Procs, Finish(p) PROVE RegistryInv'
<1>1. RegistryInv /\ TypeOK /\ RefreshInv /\ OwnershipInv /\ CallsInv
      /\ \A d \in Clients : HeldWhileWaiting(d) /\ ConnectionOK(d)
  BY InvParts
<1>2. /\ TypeOK' /\ proc[p].pc = "finish" /\ Moves(p, "enter")
      /\ \A d \in Replaced : client[d].holder = "none"
      /\ HangupAll(Replaced)
      /\ refresher' = "none" /\ work' = NoWork
      /\ UNCHANGED <<entries, closed, bridge, fresh, leaked, executed>>
  BY <1>1, FinishEffect
<1>3. ASSUME NEW d \in Clients
      PROVE  /\ client'[d].sid = client[d].sid /\ client'[d].asked = client[d].asked
             /\ client'[d].alive = client[d].alive /\ client'[d].holder = client[d].holder
             /\ client'[d].open => client[d].open
             /\ d \notin Replaced => client'[d] = client[d]
             /\ d \in Replaced => ~client'[d].open /\ client'[d].answered = <<>>
  BY <1>1, <1>2, HangupEffect
<1>4. entries = work.next /\ fresh = work.fresh
  BY <1>1, <1>2 DEF RefreshInv, InstallsItsResult
<1>5. refresher = p /\ \A q \in Procs : proc[q].pc \in Refreshing <=> q = p
  BY <1>1, <1>2 DEF RefreshInv, OneRefresh, Refreshing
<1>6. \A q \in Procs \ {p} : proc'[q] = proc[q]
  BY <1>2 DEF Moves
<1>7. RefreshInv'
  <2>1. OneRefresh'
    BY <1>2, <1>5, <1>6, Names DEF OneRefresh, Moves, Refreshing
  <2>2. ASSUME NEW q \in Procs PROVE UsesItsClient(q)' /\ InstallsItsResult(q)'
    BY <1>1, <1>2, <1>5, <1>6
       DEF RefreshInv, UsesItsClient, InstallsItsResult, Refreshing, Moves
  <2>3. \A s \in Sids : FoundForAll(s)'
    BY <1>2, NoWorkFacts DEF FoundForAll
  <2>4. LooksAtFreshEntries'
    BY <1>1, <1>2, <1>4, <1>6
       DEF RefreshInv, LooksAtFreshEntries, FoundForAll, Refreshing, Moves
  <2> QED BY <2>1, <2>2, <2>3, <2>4 DEF RefreshInv
<1>8. OwnershipInv'
  <2>1. \A s \in Sids : OfItsSession(s)'
    BY <1>1, <1>2, <1>3, NoWorkFacts, Types DEF OwnershipInv, OfItsSession
  <2>2. ASSUME NEW d \in Clients, client'[d].open
        PROVE  d \in {entries[s] : s \in Sids} \/ d \in leaked
    BY <1>1, <1>3, <1>4, <2>2, Names DEF OwnershipInv, OpenClientsAreOwned, Replaced
  <2> QED BY <1>2, <2>1, <2>2 DEF OwnershipInv, OpenClientsAreOwned
<1>9. ASSUME NEW d \in Clients PROVE HeldWhileWaiting(d)'
  BY <1>1, <1>2, <1>3, <1>6, Names DEF HeldWhileWaiting, Moves
<1>10. ASSUME NEW d \in Clients PROVE ConnectionOK(d)'
  <2>1. CASE d \in Replaced
    BY <1>1, <1>2, <1>3, <2>1, ConnectionKept DEF ConnectionOK, DialledFirst
  <2> QED BY <1>1, <1>2, <1>3, <2>1, SameConnection
<1>11. CallsInv'
  BY <1>1, <1>2, <1>3, <1>6, CallsKept DEF Moves
<1> QED BY <1>1, <1>2, <1>7, <1>8, <1>9, <1>10, <1>11 DEF RegistryInv

LEMMA CloseRegistryInv == ASSUME RegistryInv, CloseRegistry PROVE RegistryInv'
<1> DEFINE cs == {entries[s] : s \in Sids}
<1>1. RegistryInv /\ TypeOK /\ RefreshInv /\ OwnershipInv /\ CallsInv
      /\ \A d \in Clients : HeldWhileWaiting(d) /\ ConnectionOK(d)
  BY InvParts
<1>2. /\ TypeOK' /\ refresher = "none" /\ \A q \in Procs : proc[q].pc \notin {"call", "await"}
      /\ \A s \in Sids : entries'[s] = "none"
      /\ HangupAll(cs)
      /\ UNCHANGED <<proc, refresher, work, bridge, fresh, leaked, executed>>
  BY <1>1, CloseRegistryEffect
<1>3. ASSUME NEW d \in Clients
      PROVE  /\ client'[d].sid = client[d].sid /\ client'[d].asked = client[d].asked
             /\ client'[d].alive = client[d].alive /\ client'[d].holder = client[d].holder
             /\ client'[d].open => client[d].open
             /\ d \notin cs => client'[d] = client[d]
             /\ d \in cs => ~client'[d].open /\ client'[d].answered = <<>>
  BY <1>1, <1>2, HangupEffect
<1>4. work = NoWork /\ \A q \in Procs : proc[q].pc \notin Refreshing
  BY <1>1, <1>2, Names DEF RefreshInv, OneRefresh
<1>5. RefreshInv'
  <2>1. OneRefresh' /\ (\A s \in Sids : FoundForAll(s)') /\ LooksAtFreshEntries'
    BY <1>1, <1>2 DEF RefreshInv, OneRefresh, FoundForAll, LooksAtFreshEntries
  <2>2. ASSUME NEW q \in Procs PROVE UsesItsClient(q)' /\ InstallsItsResult(q)'
    BY <1>2, <1>4 DEF UsesItsClient, InstallsItsResult, Refreshing
  <2> QED BY <2>1, <2>2 DEF RefreshInv
<1>6. OwnershipInv'
  <2>1. \A s \in Sids : OfItsSession(s)'
    BY <1>2, <1>4, NoWorkFacts DEF OfItsSession
  <2>2. ASSUME NEW d \in Clients, client'[d].open PROVE d \in leaked
    BY <1>1, <1>3, <1>4, <2>2, NoWorkFacts, Names DEF OwnershipInv, OpenClientsAreOwned
  <2> QED BY <1>2, <2>1, <2>2 DEF OwnershipInv, OpenClientsAreOwned
<1>7. ASSUME NEW d \in Clients PROVE HeldWhileWaiting(d)'
  <2>1. client[d].holder = "none"
    BY <1>1, <1>2, <1>4, Types DEF HeldWhileWaiting, Refreshing
  <2> QED BY <1>1, <1>2, <1>3, <2>1, Names DEF HeldWhileWaiting
<1>8. ASSUME NEW d \in Clients PROVE ConnectionOK(d)'
  <2>1. CASE d \in cs
    BY <1>1, <1>2, <1>3, <2>1, ConnectionKept DEF ConnectionOK, DialledFirst
  <2> QED BY <1>1, <1>2, <1>3, <2>1, SameConnection
<1>9. CallsInv'
  BY <1>1, <1>2, <1>3, CallsKept
<1> QED BY <1>1, <1>2, <1>5, <1>6, <1>7, <1>8, <1>9 DEF RegistryInv

LEMMA VanishInv == ASSUME RegistryInv, NEW s \in Sids, Vanish(s) PROVE RegistryInv'
<1>1. RegistryInv /\ TypeOK /\ RefreshInv /\ OwnershipInv /\ CallsInv
      /\ \A d \in Clients : HeldWhileWaiting(d) /\ ConnectionOK(d)
  BY InvParts
<1>2. /\ TypeOK' /\ s \notin Steady /\ \A t \in Sids \ {s} : bridge'[t] = bridge[t]
      /\ \A d \in Clients : client'[d] = client[d] \/ (client[d].sid = s /\ Cut(d))
      /\ UNCHANGED <<proc, refresher, work, entries, closed, fresh, leaked, executed>>
  BY <1>1, VanishEffect
<1>3. ASSUME NEW d \in Clients
      PROVE  /\ client'[d].sid = client[d].sid /\ client'[d].open = client[d].open
             /\ client'[d].holder = client[d].holder
             /\ client'[d].answered = client[d].answered
             /\ client'[d].asked \in {client[d].asked, <<>>}
  BY <1>2 DEF Cut
<1>4. RefreshInv'
  BY <1>1, <1>2 DEF RefreshInv, OneRefresh, UsesItsClient, InstallsItsResult, FoundForAll,
     LooksAtFreshEntries
<1>5. OwnershipInv'
  BY <1>1, <1>2, <1>3, Types DEF OwnershipInv, OfItsSession, OpenClientsAreOwned
<1>6. ASSUME NEW d \in Clients PROVE HeldWhileWaiting(d)'
  BY <1>1, <1>2, <1>3 DEF HeldWhileWaiting
<1>7. ASSUME NEW d \in Clients PROVE ConnectionOK(d)'
  <2>1. CASE client'[d] = client[d]
    BY <1>1, <1>2, <2>1, SameConnection
  <2>2. CASE client[d].sid = s
    BY <1>1, <1>2, <1>3, <2>2, Names
       DEF ConnectionOK, DialledFirst, AnswersWereExecuted, Unbroken
  <2> QED BY <1>2, <2>1, <2>2
<1>8. CallsInv'
  BY <1>1, <1>2, <1>3, CallsKept
<1>9. \A t \in Steady : bridge'[t] = "up"
  BY <1>1, <1>2, Names DEF RegistryInv
<1> QED BY <1>2, <1>4, <1>5, <1>6, <1>7, <1>8, <1>9 DEF RegistryInv

LEMMA BreakInv == ASSUME RegistryInv, NEW c \in Clients, Break(c) PROVE RegistryInv'
<1>1. RegistryInv /\ TypeOK /\ RefreshInv /\ OwnershipInv /\ CallsInv
      /\ \A d \in Clients : HeldWhileWaiting(d) /\ ConnectionOK(d)
  BY InvParts
<1>2. /\ TypeOK'
      /\ client[c].sid \notin Steady \/ ~client[c].open
      /\ Cut(c) /\ \A d \in Clients \ {c} : client'[d] = client[d]
      /\ UNCHANGED <<proc, refresher, work, entries, closed, bridge, fresh, leaked, executed>>
  BY <1>1, BreakEffect
<1>3. ASSUME NEW d \in Clients
      PROVE  /\ client'[d].sid = client[d].sid /\ client'[d].open = client[d].open
             /\ client'[d].holder = client[d].holder
             /\ client'[d].answered = client[d].answered
             /\ client'[d].asked \in {client[d].asked, <<>>}
  BY <1>2 DEF Cut
<1>4. RefreshInv'
  BY <1>1, <1>2 DEF RefreshInv, OneRefresh, UsesItsClient, InstallsItsResult, FoundForAll,
     LooksAtFreshEntries
<1>5. OwnershipInv'
  BY <1>1, <1>2, <1>3, Types DEF OwnershipInv, OfItsSession, OpenClientsAreOwned
<1>6. ASSUME NEW d \in Clients PROVE HeldWhileWaiting(d)'
  BY <1>1, <1>2, <1>3 DEF HeldWhileWaiting
<1>7. ASSUME NEW d \in Clients PROVE ConnectionOK(d)'
  <2>1. CASE d # c
    BY <1>1, <1>2, <2>1, SameConnection
  <2>2. CASE d = c
    <3>1. DialledFirst(c)' /\ AnswersWereExecuted(c)'
      BY <1>1, <1>2, <1>3 DEF ConnectionOK, DialledFirst, AnswersWereExecuted
    <3>2. Unbroken(c)'
      BY <1>2, <1>3 DEF Unbroken
    <3> QED BY <2>2, <3>1, <3>2 DEF ConnectionOK
  <2> QED BY <2>1, <2>2
<1>8. CallsInv'
  BY <1>1, <1>2, <1>3, CallsKept
<1> QED BY <1>1, <1>2, <1>4, <1>5, <1>6, <1>7, <1>8 DEF RegistryInv

LEMMA RespondInv == ASSUME RegistryInv, NEW c \in Clients, Respond(c) PROVE RegistryInv'
<1> DEFINE id == Head(client[c].asked)
<1>1. RegistryInv /\ TypeOK /\ RefreshInv /\ OwnershipInv /\ CallsInv
      /\ \A d \in Clients : HeldWhileWaiting(d) /\ ConnectionOK(d)
  BY InvParts
<1>2. /\ TypeOK' /\ OneClient(c) /\ client[c].asked # <<>> /\ id \in Ids
      /\ client'[c].open = client[c].open /\ client'[c].alive = client[c].alive
      /\ client'[c].holder = client[c].holder
      /\ client'[c].asked = Tail(client[c].asked)
      /\ client'[c].answered = IF client[c].open THEN Append(client[c].answered, id)
                               ELSE client[c].answered
      /\ executed' = IF id.call THEN executed \cup {[id |-> id, sid |-> client[c].sid]}
                     ELSE executed
      /\ UNCHANGED <<proc, refresher, work, entries, closed, bridge, fresh, leaked>>
  BY <1>1, RespondEffect DEF ConnectionOK
<1>3. ASSUME NEW d \in Clients
      PROVE  /\ client'[d].sid = client[d].sid /\ client'[d].open = client[d].open
             /\ client'[d].holder = client[d].holder
             /\ d # c => client'[d] = client[d]
  BY <1>2 DEF OneClient
<1>4. client[c].asked \in Seq(Ids) /\ client[c].answered \in Seq(Ids)
  BY <1>1, Types
<1>5. /\ id = client[c].asked[1] /\ 1 \in DOMAIN client[c].asked
      /\ \A i \in DOMAIN Tail(client[c].asked) :
           /\ i + 1 \in DOMAIN client[c].asked
           /\ Tail(client[c].asked)[i] = client[c].asked[i + 1]
  BY <1>2, <1>4, HeadTailProperties, EmptySeq, LenProperties
<1> HIDE DEF id
<1>6. executed \subseteq executed'
  BY <1>2
<1>7. RefreshInv'
  BY <1>1, <1>2 DEF RefreshInv, OneRefresh, UsesItsClient, InstallsItsResult, FoundForAll,
     LooksAtFreshEntries
<1>8. OwnershipInv'
  BY <1>1, <1>2, <1>3, Types DEF OwnershipInv, OfItsSession, OpenClientsAreOwned
<1>9. ASSUME NEW d \in Clients PROVE HeldWhileWaiting(d)'
  BY <1>1, <1>2, <1>3 DEF HeldWhileWaiting
<1>10. ASSUME NEW d \in Clients PROVE ConnectionOK(d)'
  <2>1. CASE d # c
    BY <1>1, <1>3, <1>6, <2>1, SameConnection
  <2>2. CASE d = c
    <3>1. DialledFirst(c) /\ AnswersWereExecuted(c) /\ Unbroken(c)
      BY <1>1 DEF ConnectionOK
    <3>2. DialledFirst(c)' /\ Unbroken(c)'
      BY <1>2, <1>3, <3>1 DEF DialledFirst, Unbroken
    <3>3. AnswersWereExecuted(c)'
      <4> SUFFICES ASSUME NEW i \in DOMAIN client'[c].answered, client'[c].answered[i].call
                   PROVE  [id |-> client'[c].answered[i], sid |-> client'[c].sid] \in executed'
        BY DEF AnswersWereExecuted
      <4>1. CASE i \in DOMAIN client[c].answered /\ client'[c].answered[i] = client[c].answered[i]
        BY <1>3, <1>6, <3>1, <4>1 DEF AnswersWereExecuted
      <4>2. CASE client'[c].answered[i] = id
        BY <1>2, <1>3, <4>2
      <4>3. \/ i \in DOMAIN client[c].answered /\ client'[c].answered[i] = client[c].answered[i]
            \/ client'[c].answered[i] = id
        BY <1>2, <1>4, AppendProperties, LenProperties
      <4> QED BY <4>1, <4>2, <4>3
    <3> QED BY <2>2, <3>2, <3>3 DEF ConnectionOK
  <2> QED BY <2>1, <2>2
<1>11. CallsInv'
  <2>1. ASSUME NEW q \in Procs, Unsent(q) PROVE Unsent(q)'
    <3>1. ~Called(q, id)
      BY <1>5, <2>1 DEF Unsent
    <3>2. \A e \in executed' : ~Called(q, e.id)
      BY <1>2, <2>1, <3>1 DEF Unsent
    <3>3. \A d \in Clients : \A i \in DOMAIN client'[d].asked : ~Called(q, client'[d].asked[i])
      <4>1. \A i \in DOMAIN client'[c].asked : ~Called(q, client'[c].asked[i])
        BY <1>2, <1>5, <2>1 DEF Unsent
      <4>2. \A d \in Clients \ {c} : client'[d] = client[d]
        BY <1>3
      <4> QED BY <2>1, <4>1, <4>2 DEF Unsent
    <3> QED BY <3>2, <3>3 DEF Unsent, Called
  <2>2. \A q \in Procs : proc'[q].pc \notin {"await", "done"} => Unsent(q)'
    BY <1>1, <1>2, <2>1 DEF CallsInv
  <2>3. CallsAreTruthful'
    BY <1>1, <1>2, <1>6, <2>1 DEF CallsInv, CallsAreTruthful, Unsent, At
  <2> QED BY <2>2, <2>3 DEF CallsInv
<1> QED BY <1>1, <1>2, <1>7, <1>8, <1>9, <1>10, <1>11 DEF RegistryInv

LEMMA InitRegistryInv == Init => RegistryInv
<1> SUFFICES ASSUME Init PROVE RegistryInv
  OBVIOUS
<1>1. /\ \A p \in Procs : /\ proc[p] \in Processes
                          /\ proc[p].pc = "idle" /\ proc[p].goal = "list" /\ proc[p].on = "none"
      /\ proc \in [Procs -> Processes]
  BY DEF Init, Processes, Labels, Outcomes
<1>2. /\ client \in [Clients -> Connections]
      /\ \A c \in Clients :
           /\ client[c].sid = "none" /\ ~client[c].open /\ client[c].holder = "none"
           /\ client[c].asked = <<>> /\ client[c].answered = <<>>
  BY EmptySeq DEF Init, Undialled, Connections
<1>3. /\ work = NoWork /\ refresher = "none" /\ fresh \in [Sids -> SUBSET Procs]
      /\ entries \in Holding("none") /\ \A s \in Sids : entries[s] = "none"
  BY DEF Init, NoEntries, Holding
<1>4. /\ bridge \in [Sids -> {"unborn", "up", "stopped", "crashed"}]
      /\ \A s \in Steady : bridge[s] = "up"
      /\ closed = FALSE /\ leaked = {} /\ executed = {}
  BY Names DEF Init
<1>5. TypeOK
  BY <1>1, <1>2, <1>3, <1>4, NoWorkFacts DEF TypeOK
<1>6. RefreshInv
  BY <1>1, <1>3, Names, NoWorkFacts DEF RefreshInv, OneRefresh, UsesItsClient,
     InstallsItsResult, FoundForAll, LooksAtFreshEntries, Refreshing
<1>7. OwnershipInv
  BY <1>2, <1>3, NoWorkFacts DEF OwnershipInv, OfItsSession, OpenClientsAreOwned
<1>8. ASSUME NEW c \in Clients PROVE HeldWhileWaiting(c) /\ ConnectionOK(c)
  BY <1>1, <1>2, EmptySeq, Names DEF HeldWhileWaiting, ConnectionOK, DialledFirst,
     AnswersWereExecuted, Unbroken
<1>9. CallsInv
  BY <1>1, <1>2, <1>4, EmptySeq DEF CallsInv, Unsent, CallsAreTruthful, At
<1> QED BY <1>4, <1>5, <1>6, <1>7, <1>8, <1>9 DEF RegistryInv

LEMMA StutterRegistryInv == ASSUME RegistryInv, UNCHANGED vars PROVE RegistryInv'
<1>1. RegistryInv /\ TypeOK /\ RefreshInv /\ OwnershipInv /\ CallsInv
      /\ \A d \in Clients : HeldWhileWaiting(d) /\ ConnectionOK(d)
  BY InvParts
<1>2. TypeOK'
  BY <1>1 DEF vars, TypeOK
<1>3. RefreshInv'
  BY <1>1 DEF vars, RefreshInv, OneRefresh, UsesItsClient, InstallsItsResult, FoundForAll,
     LooksAtFreshEntries
<1>4. OwnershipInv'
  BY <1>1 DEF vars, OwnershipInv, OfItsSession, OpenClientsAreOwned
<1>5. \A d \in Clients : HeldWhileWaiting(d)' /\ ConnectionOK(d)'
  BY <1>1, SameConnection DEF vars, HeldWhileWaiting
<1>6. CallsInv' /\ \A s \in Steady : bridge'[s] = "up"
  BY <1>1, CallsKept DEF vars, RegistryInv
<1> QED BY <1>2, <1>3, <1>4, <1>5, <1>6 DEF RegistryInv

LEMMA NextRegistryInv == RegistryInv /\ [Next]_vars => RegistryInv'
<1> SUFFICES ASSUME RegistryInv, [Next]_vars PROVE RegistryInv'
  OBVIOUS
<1>1. ASSUME NEW p \in Procs, Start(p) \/ EndContext(p) PROVE RegistryInv'
  BY <1>1, StartInv, EndContextInv
<1>2. ASSUME NEW p \in Procs, ProcStep(p) PROVE RegistryInv'
  BY <1>2, EnterListInv, EnterCallInv, SendInv, RefuseInv, ReceiveInv, LoseAnswerInv,
     BeginRefreshInv, LoadFailsInv, AbortRefreshInv, ProbeInv, DropInv, DialInv, DialFailsInv,
     WantInstallInv, InstallInv, FinishInv DEF ProcStep
<1>3. ASSUME NEW s \in Sids, Publish(s) \/ Vanish(s) PROVE RegistryInv'
  BY <1>3, PublishInv, VanishInv
<1>4. ASSUME NEW c \in Clients, Break(c) \/ Respond(c) PROVE RegistryInv'
  BY <1>4, BreakInv, RespondInv
<1> QED BY <1>1, <1>2, <1>3, <1>4, CloseRegistryInv, StutterRegistryInv DEF Next

-----------------------------------------------------------------------------
(* The theorems *)

(* However tool calls, refreshes, bridges and Close interleave, the        *)
(* registry stays consistent: its locks, locals, entries and connections   *)
(* fit together (sessions.go, client.go).                                  *)
THEOREM RegistryInvariant == Spec => []RegistryInv
BY InitRegistryInv, NextRegistryInv, PTL DEF Spec

(* Every variable keeps its type (sessions.go Registry, client.go Client). *)
THEOREM RegistryTypeOK == Spec => []TypeOK
BY RegistryInvariant, InvParts, PTL

(* What a call reports is what happened at the bridge: a success was       *)
(* executed by the session it named, and what was refused was never sent   *)
(* (client.go request, sessions.go Call).                                  *)
THEOREM CallsTruthful == Spec => []CallsAreTruthful
<1>1. RegistryInv => CallsAreTruthful
  BY DEF RegistryInv, CallsInv
<1> QED BY <1>1, RegistryInvariant, PTL

(* A call or list looks only at entries that answered a probe after it     *)
(* began (sessions.go Refresh before every Call and List).                 *)
THEOREM FreshEntriesOnly == Spec => []LooksAtFreshEntries
<1>1. RegistryInv => LooksAtFreshEntries
  BY DEF RegistryInv, RefreshInv
<1> QED BY <1>1, RegistryInvariant, PTL

(* The entry a call uses stays installed until the call ends (sessions.go  *)
(* Call keeps the read lock over the request).                             *)
THEOREM EntriesKept == Spec => []CallsKeepTheirEntry
<1>1. RegistryInv => CallsKeepTheirEntry
  BY DEF RegistryInv, RefreshInv, UsesItsClient, CallsKeepTheirEntry
<1> QED BY <1>1, RegistryInvariant, PTL

(* No open connection is forgotten, but by a refresh that was given up     *)
(* (sessions.go Refresh, replaced and dropped clients).                    *)
THEOREM NoneForgotten == Spec => []OpenClientsAreOwned
<1>1. RegistryInv => OpenClientsAreOwned
  BY DEF RegistryInv, OwnershipInv
<1> QED BY <1>1, RegistryInvariant, PTL

-----------------------------------------------------------------------------
(* Steady sessions are served *)

LEMMA Calm ==
  ASSUME SteadyInv, Undisturbed', closed => closed', \A q \in Procs : Ended(q) => Ended(q)'
  PROVE  AllServed /\ ~closed /\ \A q \in Procs : ~Ended(q)
BY DEF SteadyInv, Undisturbed

\* The client a request to a steady session uses.
LEMMA SteadyClient ==
  ASSUME RegistryInv, AllServed, NEW p \in Procs, NEW s \in Steady,
         \/ proc[p].pc \in {"check", "info"} /\ proc[p].at = s
         \/ proc[p].pc \in {"call", "await"} /\ proc[p].goal = s
  PROVE  /\ proc[p].on \in Clients
         /\ client[proc[p].on].sid = s /\ client[proc[p].on].open
         /\ InExchange(proc[p].on)
<1>1. TypeOK /\ UsesItsClient(p) /\ InstallsItsResult(p) /\ OfItsSession(s) /\ s \in Sids
  BY InvParts, Names DEF RefreshInv, OwnershipInv
<1>2. proc[p].on \in Clients
  BY <1>1, InUse
<1>3. proc[p].on = entries[s]
  BY <1>1 DEF UsesItsClient, InstallsItsResult, Refreshing
<1> QED BY <1>1, <1>2, <1>3, Names DEF OfItsSession, AllServed, IsFound

\* A client nobody's step touches.
LEMMA ExchangeKept ==
  ASSUME RegistryInv, AllServed, NEW p \in Procs,
         \A q \in Procs \ {p} : proc'[q] = proc[q],
         NEW c \in Clients, client'[c] = client[c], client[c].sid \in Steady, client[c].open,
         proc[p].pc \in {"info", "await"} => proc[p].on # c
  PROVE  InExchange(c)'
<1>1. InExchange(c) /\ HeldWhileWaiting(c)
  BY InvParts DEF AllServed
<1>2. client[c].holder # p
  BY <1>1 DEF HeldWhileWaiting
<1>3. \A q \in Procs \ {p} : Request(q)' = Request(q)
  BY DEF Request, At
<1> QED BY <1>1, <1>2, <1>3 DEF InExchange

LEMMA StartSteady == ASSUME RegistryInv, SteadyInv, NEW p \in Procs, Start(p) PROVE SteadyInv'
<1> SUFFICES ASSUME Undisturbed' PROVE AllServed'
  BY DEF SteadyInv
<1>1. /\ TypeOK' /\ proc[p].pc = "idle" /\ proc'[p].pc = "refresh" /\ proc'[p].ctx = proc[p].ctx
      /\ \A q \in Procs \ {p} : proc'[q] = proc[q]
      /\ UNCHANGED <<refresher, work, entries, client, closed, bridge, fresh, leaked, executed>>
  BY InvParts, StartEffect
<1>2. AllServed
  BY <1>1, Calm DEF Ended
<1>3. ASSUME NEW s \in Steady PROVE IsFound(s)'
  BY <1>1, <1>2 DEF AllServed, IsFound, Looking, At
<1>4. ASSUME NEW c \in Clients, client'[c].sid \in Steady, client'[c].open PROVE InExchange(c)'
  BY <1>1, <1>2, <1>4, ExchangeKept
<1>5. ASSUME NEW q \in Procs, At(q, "done")' PROVE Served(q)'
  BY <1>1, <1>2, <1>5 DEF AllServed, At, Served
<1> QED BY <1>3, <1>4, <1>5 DEF AllServed

LEMMA EnterListSteady == ASSUME RegistryInv, SteadyInv, NEW p \in Procs, EnterList(p) PROVE SteadyInv'
<1> SUFFICES ASSUME Undisturbed' PROVE AllServed'
  BY DEF SteadyInv
<1>1. /\ proc[p].pc = "enter" /\ proc[p].goal = "list" /\ Moves(p, "done")
      /\ proc'[p].shown = {s \in Sids : entries[s] # "none"}
      /\ UNCHANGED <<refresher, work, entries, client, closed, bridge, fresh, leaked, executed>>
  BY InvParts, EnterListEffect
<1>2. AllServed
  BY <1>1, Calm DEF Ended, Moves
<1>3. ASSUME NEW s \in Steady PROVE IsFound(s)'
  BY <1>1, <1>2 DEF AllServed, IsFound, Looking, Moves, At
<1>4. ASSUME NEW c \in Clients, client'[c].sid \in Steady, client'[c].open PROVE InExchange(c)'
  BY <1>1, <1>2, <1>4, ExchangeKept DEF Moves
<1>5. ASSUME NEW q \in Procs, At(q, "done")' PROVE Served(q)'
  <2>1. CASE q = p
    BY <1>1, <1>2, <2>1, Names DEF AllServed, IsFound, Looking, Moves, Served
  <2> QED BY <1>1, <1>2, <1>5, <2>1 DEF AllServed, Moves, At, Served
<1> QED BY <1>3, <1>4, <1>5 DEF AllServed

LEMMA EnterCallSteady == ASSUME RegistryInv, SteadyInv, NEW p \in Procs, EnterCall(p) PROVE SteadyInv'
<1> SUFFICES ASSUME Undisturbed' PROVE AllServed'
  BY DEF SteadyInv
<1>1. /\ proc[p].pc = "enter" /\ proc[p].goal \in Sids
      /\ \/ entries[proc[p].goal] = "none" /\ Moves(p, "done")
         \/ Moves(p, "call")
      /\ UNCHANGED <<refresher, work, entries, client, closed, bridge, fresh, leaked, executed>>
  BY InvParts, EnterCallEffect
<1>2. AllServed
  BY <1>1, Calm DEF Ended, Moves
<1>3. ASSUME NEW s \in Steady PROVE IsFound(s)'
  BY <1>1, <1>2 DEF AllServed, IsFound, Looking, Moves, At
<1>4. ASSUME NEW c \in Clients, client'[c].sid \in Steady, client'[c].open PROVE InExchange(c)'
  BY <1>1, <1>2, <1>4, ExchangeKept DEF Moves
<1>5. ASSUME NEW q \in Procs, At(q, "done")' PROVE Served(q)'
  <2>1. CASE q = p
    BY <1>1, <1>2, <1>5, <2>1, Names DEF AllServed, IsFound, Looking, Moves, Served, At
  <2> QED BY <1>1, <1>2, <1>5, <2>1 DEF AllServed, Moves, At, Served
<1> QED BY <1>3, <1>4, <1>5 DEF AllServed

LEMMA SendSteady == ASSUME RegistryInv, SteadyInv, NEW p \in Procs, Send(p) PROVE SteadyInv'
<1> SUFFICES ASSUME Undisturbed' PROVE AllServed'
  BY DEF SteadyInv
<1> DEFINE c == proc[p].on
           id == [by |-> p, n |-> proc[p].n + 1, call |-> proc[p].pc = "call"]
<1>1. /\ c \in Clients /\ OneClient(c)
      /\ client[c].holder = "none" /\ client[c].open /\ client'[c].holder = p
      /\ client'[c].open /\ client'[c].answered = client[c].answered
      /\ client'[c].asked = Append(client[c].asked, id)
      /\ \/ proc[p].pc = "check" /\ Moves(p, "info")
         \/ proc[p].pc = "call" /\ Moves(p, "await")
      /\ proc'[p].n = proc[p].n + 1
      /\ UNCHANGED <<refresher, work, entries, closed, bridge, fresh, leaked, executed>>
  BY InvParts, SendEffect
<1>2. AllServed
  BY <1>1, Calm DEF Ended, Moves
<1>3. id = Request(p)'
  BY <1>1 DEF Request, At, Moves
<1> HIDE DEF c, id
<1>4. ASSUME NEW s \in Steady PROVE IsFound(s)'
  <2>1. \A d \in Clients : client[d].open => client'[d].open
    BY <1>1 DEF OneClient
  <2>2. entries[s] \in Clients \cup {"none"} /\ work.next[s] \in Clients \cup {"none"}
    BY InvParts, Types, Names
  <2> QED BY <1>1, <1>2, <2>1, <2>2 DEF AllServed, IsFound, Looking, Moves, At
<1>5. ASSUME NEW d \in Clients, client'[d].sid \in Steady, client'[d].open PROVE InExchange(d)'
  <2>1. CASE d = c
    <3>1. InExchange(c) /\ client[c].holder \notin Procs
      BY <1>1, <1>2, <1>5, <2>1, Names DEF AllServed, OneClient
    <3>2. client[c].asked = <<>> /\ client[c].answered = <<>>
      BY <3>1 DEF InExchange
    <3>3. client'[c].asked = <<Request(p)'>>
      BY <1>1, <1>3, <3>2
    <3> QED BY <1>1, <2>1, <3>2, <3>3 DEF InExchange
  <2>2. CASE d # c
    BY <1>1, <1>2, <1>5, <2>2, ExchangeKept DEF OneClient, Moves
  <2> QED BY <2>1, <2>2
<1>6. ASSUME NEW q \in Procs, At(q, "done")' PROVE Served(q)'
  BY <1>1, <1>2, <1>6 DEF AllServed, Moves, At, Served
<1> QED BY <1>4, <1>5, <1>6 DEF AllServed

LEMMA RefuseSteady == ASSUME RegistryInv, SteadyInv, NEW p \in Procs, Refuse(p) PROVE SteadyInv'
<1> SUFFICES ASSUME Undisturbed' PROVE AllServed'
  BY DEF SteadyInv
<1>1. /\ proc[p].pc \in {"check", "call"}
      /\ ~client[proc[p].on].open \/ Ended(p)
      /\ FailMoves(p, "refused")
      /\ UNCHANGED <<refresher, work, entries, client, closed, bridge, fresh, leaked, executed>>
  BY InvParts, RefuseEffect
<1>2. AllServed /\ ~Ended(p)
  BY <1>1, Calm DEF Ended, FailMoves, Moves
<1>3. proc[p].pc = "check" => proc[p].at \notin Steady
  BY <1>1, <1>2, SteadyClient
<1>4. proc[p].pc = "call" => proc[p].goal \notin Steady
  BY <1>1, <1>2, SteadyClient
<1>5. ASSUME NEW s \in Steady PROVE IsFound(s)'
  BY <1>1, <1>2, <1>3 DEF AllServed, IsFound, Looking, FailMoves, Moves, At
<1>6. ASSUME NEW d \in Clients, client'[d].sid \in Steady, client'[d].open PROVE InExchange(d)'
  BY <1>1, <1>2, <1>6, ExchangeKept DEF FailMoves, Moves
<1>7. ASSUME NEW q \in Procs, At(q, "done")' PROVE Served(q)'
  <2>1. CASE q = p
    <3>1. proc[p].pc = "call" /\ proc'[p].goal = proc[p].goal
      BY <1>1, <1>7, <2>1 DEF FailMoves, Moves, At
    <3>2. proc[p].goal # "list"
      BY <3>1, InvParts DEF UsesItsClient
    <3> QED BY <1>4, <2>1, <3>1, <3>2 DEF Served
  <2> QED BY <1>1, <1>2, <1>7, <2>1 DEF AllServed, FailMoves, Moves, At, Served
<1> QED BY <1>5, <1>6, <1>7 DEF AllServed

LEMMA ReceiveSteady == ASSUME RegistryInv, SteadyInv, NEW p \in Procs, Receive(p) PROVE SteadyInv'
<1> SUFFICES ASSUME Undisturbed' PROVE AllServed'
  BY DEF SteadyInv
<1> DEFINE c == proc[p].on
           h == Head(client[c].answered)
           r == [by |-> p, n |-> proc[p].n, call |-> proc[p].pc = "await"]
           Mismatch == h # r /\ FailMoves(p, "failed") /\ work' = work
           Probed == /\ h = r /\ proc[p].pc = "info" /\ Moves(p, "probe")
                     /\ proc[p].at \in Sids /\ Finds(proc[p].at, c)
           Answered == /\ h = r /\ proc[p].pc = "await" /\ Moves(p, "done")
                       /\ proc'[p].outcome = "ok" /\ work' = work
<1>1. /\ proc[p].pc \in {"info", "await"}
      /\ c \in Clients /\ client[c].answered # <<>>
      /\ Releases(c) /\ client'[c].answered = Tail(client[c].answered)
      /\ Mismatch \/ Probed \/ Answered
      /\ UNCHANGED <<refresher, entries, closed, bridge, fresh, leaked, executed>>
  BY InvParts, ReceiveEffect
<1>2. r = Request(p)
  BY DEF Request, At
<1> HIDE DEF c, h, r
<1>3. AllServed
  BY <1>1, Calm DEF Ended, FailMoves, Moves
<1>4. HeldWhileWaiting(c) /\ client[c].holder = p
  BY <1>1, InvParts DEF HeldWhileWaiting, c
<1>5. ASSUME InExchange(c)
      PROVE  client[c].asked = <<>> /\ client[c].answered = <<r>> /\ h = r
  BY <1>1, <1>2, <1>4, <1>5, Names DEF InExchange, h
<1>6. Mismatch => /\ proc[p].pc = "info" => proc[p].at \notin Steady
                  /\ proc[p].pc = "await" => proc[p].goal \notin Steady
  BY <1>1, <1>3, <1>5, SteadyClient DEF c
<1>7. Probed /\ proc[p].at \in Steady => client[c].open
  BY <1>1, <1>3, SteadyClient DEF c
<1>8. \A d \in Clients : client'[d].open = client[d].open
  BY <1>1 DEF Releases, OneClient
<1>9. ASSUME NEW s \in Steady PROVE IsFound(s)'
  <2>1. entries[s] \in Clients \cup {"none"} /\ work.next[s] \in Clients \cup {"none"} /\ s \in Sids
    BY InvParts, Types, Names
  <2>2. CASE Mismatch
    BY <1>1, <1>3, <1>6, <1>8, <2>1, <2>2 DEF AllServed, IsFound, Looking, FailMoves, Moves, At
  <2>3. CASE Answered
    BY <1>1, <1>3, <1>8, <2>1, <2>3 DEF AllServed, IsFound, Looking, Moves, At
  <2>4. CASE Probed
    <3>1. \A q \in Procs : proc'[q].pc \in {"finish"} \cup Looking =>
                             proc'[q] = proc[q] /\ entries[s] # "none"
      BY <1>3, <2>4 DEF AllServed, IsFound, Looking, Moves
    <3>2. \A q \in Procs : At(q, "drop")' => proc'[q].at # s
      BY <1>3, <2>4 DEF AllServed, IsFound, Moves, At
    <3>3. s \in work'.todo \/ work'.next[s] # "none" \/ refresher = "none"
      BY <1>1, <1>3, <2>1, <2>4, Names DEF AllServed, IsFound, Finds
    <3>4. \A d \in {entries[s], work'.next[s]} \ {"none"} : client'[d].open
      BY <1>1, <1>3, <1>7, <1>8, <2>1, <2>4 DEF AllServed, IsFound, Finds
    <3> QED BY <1>1, <3>1, <3>2, <3>3, <3>4 DEF IsFound
  <2> QED BY <1>1, <2>2, <2>3, <2>4
<1>10. ASSUME NEW d \in Clients, client'[d].sid \in Steady, client'[d].open PROVE InExchange(d)'
  <2>1. CASE d = c
    <3>1. InExchange(c)
      BY <1>1, <1>3, <1>10, <2>1 DEF AllServed, Releases, OneClient
    <3>2. client[c].asked = <<>> /\ client[c].answered = <<r>>
      BY <1>5, <3>1
    <3>3. Tail(<<r>>) = <<>>
      OBVIOUS
    <3>4. client'[c].asked = <<>> /\ client'[c].answered = <<>> /\ client'[c].holder = "none"
      BY <1>1, <3>2, <3>3 DEF Releases
    <3> QED BY <2>1, <3>4 DEF InExchange
  <2>2. CASE d # c
    <3>1. client'[d] = client[d] /\ \A q \in Procs \ {p} : proc'[q] = proc[q]
      BY <1>1, <2>2 DEF Releases, OneClient, FailMoves, Moves
    <3> QED BY <1>3, <1>10, <2>2, <3>1, ExchangeKept DEF c
  <2> QED BY <2>1, <2>2
<1>11. ASSUME NEW q \in Procs, At(q, "done")' PROVE Served(q)'
  <2>1. CASE q # p
    BY <1>1, <1>3, <1>11, <2>1 DEF AllServed, FailMoves, Moves, At, Served
  <2>2. CASE q = p
    <3>1. (Mismatch \/ Answered) /\ proc[p].pc = "await" /\ proc'[p].goal = proc[p].goal
      BY <1>1, <1>11, <2>2 DEF FailMoves, Moves, At
    <3>2. proc[p].goal # "list"
      BY <3>1, InvParts DEF UsesItsClient
    <3> QED BY <1>6, <2>2, <3>1, <3>2 DEF Served
  <2> QED BY <2>1, <2>2
<1> QED BY <1>9, <1>10, <1>11 DEF AllServed

LEMMA LoseAnswerSteady ==
  ASSUME RegistryInv, SteadyInv, NEW p \in Procs, LoseAnswer(p) PROVE SteadyInv'
<1> SUFFICES ASSUME Undisturbed' PROVE AllServed'
  BY DEF SteadyInv
<1> DEFINE c == proc[p].on
<1>1. /\ proc[p].pc \in {"info", "await"} /\ FailMoves(p, "failed")
      /\ ~client[c].alive \/ client[c].sid \notin Steady \/ Ended(p)
      /\ c \in Clients /\ Releases(c)
      /\ UNCHANGED <<refresher, work, entries, closed, bridge, fresh, leaked, executed>>
  BY InvParts, LoseAnswerEffect, InUse
<1>2. AllServed /\ ~Ended(p)
  BY <1>1, Calm DEF Ended, FailMoves, Moves
<1>3. ~(client[c].sid \in Steady /\ client[c].open)
  BY <1>1, <1>2, InvParts DEF ConnectionOK, Unbroken
<1>4. /\ proc[p].pc = "info" => proc[p].at \notin Steady
      /\ proc[p].pc = "await" => proc[p].goal \notin Steady
  BY <1>2, <1>3, SteadyClient
<1> HIDE DEF c
<1>5. ASSUME NEW s \in Steady PROVE IsFound(s)'
  <2>1. entries[s] \in Clients \cup {"none"} /\ work.next[s] \in Clients \cup {"none"}
    BY InvParts, Types, Names
  <2>2. \A d \in Clients : client'[d].open = client[d].open
    BY <1>1 DEF Releases, OneClient
  <2> QED BY <1>1, <1>2, <1>4, <2>1, <2>2 DEF AllServed, IsFound, Looking, FailMoves, Moves, At
<1>6. ASSUME NEW d \in Clients, client'[d].sid \in Steady, client'[d].open PROVE InExchange(d)'
  <2>1. d # c
    BY <1>1, <1>3, <1>6 DEF Releases, OneClient
  <2>2. client'[d] = client[d] /\ \A q \in Procs \ {p} : proc'[q] = proc[q]
    BY <1>1, <2>1 DEF Releases, OneClient, FailMoves, Moves
  <2> QED BY <1>2, <1>6, <2>1, <2>2, ExchangeKept DEF c
<1>7. ASSUME NEW q \in Procs, At(q, "done")' PROVE Served(q)'
  <2>1. CASE q # p
    BY <1>1, <1>2, <1>7, <2>1 DEF AllServed, FailMoves, Moves, At, Served
  <2>2. CASE q = p
    <3>1. proc[p].pc = "await" /\ proc'[p].goal = proc[p].goal
      BY <1>1, <1>7, <2>2 DEF FailMoves, Moves, At
    <3>2. proc[p].goal # "list"
      BY <3>1, InvParts DEF UsesItsClient
    <3> QED BY <1>4, <2>2, <3>1, <3>2 DEF Served
  <2> QED BY <2>1, <2>2
<1> QED BY <1>5, <1>6, <1>7 DEF AllServed

LEMMA LoadFailsSteady == ASSUME RegistryInv, SteadyInv, NEW p \in Procs, LoadFails(p) PROVE SteadyInv'
<1> SUFFICES ASSUME Undisturbed' PROVE AllServed'
  BY DEF SteadyInv
<1>1. /\ proc[p].pc = "refresh" /\ Moves(p, "done") /\ proc'[p].outcome = "unreadable"
      /\ UNCHANGED <<refresher, work, entries, client, closed, bridge, fresh, leaked, executed>>
  BY InvParts, LoadFailsEffect
<1>2. AllServed
  BY <1>1, Calm DEF Ended, Moves
<1>3. ASSUME NEW s \in Steady PROVE IsFound(s)'
  BY <1>1, <1>2 DEF AllServed, IsFound, Looking, Moves, At
<1>4. ASSUME NEW c \in Clients, client'[c].sid \in Steady, client'[c].open PROVE InExchange(c)'
  BY <1>1, <1>2, <1>4, ExchangeKept DEF Moves
<1>5. ASSUME NEW q \in Procs, At(q, "done")' PROVE Served(q)'
  <2>1. CASE q = p
    BY <1>1, <2>1 DEF Served
  <2> QED BY <1>1, <1>2, <1>5, <2>1 DEF AllServed, Moves, At, Served
<1> QED BY <1>3, <1>4, <1>5 DEF AllServed

LEMMA BeginRefreshSteady ==
  ASSUME RegistryInv, SteadyInv, NEW p \in Procs, BeginRefresh(p) PROVE SteadyInv'
<1> SUFFICES ASSUME Undisturbed' PROVE AllServed'
  BY DEF SteadyInv
<1>1. /\ proc[p].pc = "refresh" /\ Moves(p, "probe")
      /\ work'.todo = Published /\ \A s \in Sids : work'.next[s] = "none"
      /\ UNCHANGED <<entries, client, closed, bridge, fresh, leaked, executed>>
  BY InvParts, BeginRefreshEffect
<1>2. AllServed
  BY <1>1, Calm DEF Ended, Moves
<1>3. ASSUME NEW s \in Steady PROVE IsFound(s)'
  <2>1. s \in Sids /\ bridge[s] = "up"
    BY InvParts, Names
  <2>2. s \in work'.todo /\ work'.next[s] = "none"
    BY <1>1, <2>1 DEF Published
  <2> QED BY <1>1, <1>2, <2>2 DEF AllServed, IsFound, Looking, Moves, At
<1>4. ASSUME NEW c \in Clients, client'[c].sid \in Steady, client'[c].open PROVE InExchange(c)'
  BY <1>1, <1>2, <1>4, ExchangeKept DEF Moves
<1>5. ASSUME NEW q \in Procs, At(q, "done")' PROVE Served(q)'
  BY <1>1, <1>2, <1>5 DEF AllServed, Moves, At, Served
<1> QED BY <1>3, <1>4, <1>5 DEF AllServed

LEMMA ProbeSteady == ASSUME RegistryInv, SteadyInv, NEW p \in Procs, Probe(p) PROVE SteadyInv'
<1> SUFFICES ASSUME Undisturbed' PROVE AllServed'
  BY DEF SteadyInv
<1>1. /\ proc[p].pc = "probe" /\ (Moves(p, "dial") \/ Moves(p, "check"))
      /\ UNCHANGED <<refresher, work, entries, client, closed, bridge, fresh, leaked, executed>>
  BY InvParts, ProbeEffect
<1>2. AllServed
  BY <1>1, Calm DEF Ended, Moves
<1>3. ASSUME NEW s \in Steady PROVE IsFound(s)'
  BY <1>1, <1>2 DEF AllServed, IsFound, Looking, Moves, At
<1>4. ASSUME NEW c \in Clients, client'[c].sid \in Steady, client'[c].open PROVE InExchange(c)'
  BY <1>1, <1>2, <1>4, ExchangeKept DEF Moves
<1>5. ASSUME NEW q \in Procs, At(q, "done")' PROVE Served(q)'
  BY <1>1, <1>2, <1>5 DEF AllServed, Moves, At, Served
<1> QED BY <1>3, <1>4, <1>5 DEF AllServed

LEMMA DialFailsSteady == ASSUME RegistryInv, SteadyInv, NEW p \in Procs, DialFails(p) PROVE SteadyInv'
<1> SUFFICES ASSUME Undisturbed' PROVE AllServed'
  BY DEF SteadyInv
<1>1. /\ proc[p].pc = "dial" /\ Moves(p, "probe")
      /\ proc[p].at \notin Steady \/ Ended(p)
      /\ work'.todo = work.todo \ {proc[p].at} /\ work'.next = work.next
      /\ UNCHANGED <<refresher, entries, client, closed, bridge, fresh, leaked, executed>>
  BY InvParts, DialFailsEffect
<1>2. AllServed /\ ~Ended(p)
  BY <1>1, Calm DEF Ended, Moves
<1>3. ASSUME NEW s \in Steady PROVE IsFound(s)'
  BY <1>1, <1>2 DEF AllServed, IsFound, Looking, Moves, At
<1>4. ASSUME NEW c \in Clients, client'[c].sid \in Steady, client'[c].open PROVE InExchange(c)'
  BY <1>1, <1>2, <1>4, ExchangeKept DEF Moves
<1>5. ASSUME NEW q \in Procs, At(q, "done")' PROVE Served(q)'
  BY <1>1, <1>2, <1>5 DEF AllServed, Moves, At, Served
<1> QED BY <1>3, <1>4, <1>5 DEF AllServed

LEMMA WantInstallSteady ==
  ASSUME RegistryInv, SteadyInv, NEW p \in Procs, WantInstall(p) PROVE SteadyInv'
<1> SUFFICES ASSUME Undisturbed' PROVE AllServed'
  BY DEF SteadyInv
<1>1. /\ proc[p].pc = "probe" /\ Moves(p, "install")
      /\ UNCHANGED <<refresher, work, entries, client, closed, bridge, fresh, leaked, executed>>
  BY InvParts, WantInstallEffect
<1>2. AllServed
  BY <1>1, Calm DEF Ended, Moves
<1>3. ASSUME NEW s \in Steady PROVE IsFound(s)'
  BY <1>1, <1>2 DEF AllServed, IsFound, Looking, Moves, At
<1>4. ASSUME NEW c \in Clients, client'[c].sid \in Steady, client'[c].open PROVE InExchange(c)'
  BY <1>1, <1>2, <1>4, ExchangeKept DEF Moves
<1>5. ASSUME NEW q \in Procs, At(q, "done")' PROVE Served(q)'
  BY <1>1, <1>2, <1>5 DEF AllServed, Moves, At, Served
<1> QED BY <1>3, <1>4, <1>5 DEF AllServed

LEMMA InstallSteady == ASSUME RegistryInv, SteadyInv, NEW p \in Procs, Install(p) PROVE SteadyInv'
<1> SUFFICES ASSUME Undisturbed' PROVE AllServed'
  BY DEF SteadyInv
<1>1. /\ proc[p].pc = "install" /\ Moves(p, "finish") /\ entries' = work.next
      /\ UNCHANGED <<refresher, work, client, closed, bridge, leaked, executed>>
  BY InvParts, InstallEffect
<1>2. AllServed
  BY <1>1, Calm DEF Ended, Moves
<1>3. refresher # "none" /\ work.todo = {}
  BY <1>1, InvParts, Names DEF RefreshInv, OneRefresh, InstallsItsResult, Refreshing
<1>4. ASSUME NEW s \in Steady PROVE IsFound(s)'
  BY <1>1, <1>2, <1>3 DEF AllServed, IsFound, Looking, Moves, At
<1>5. ASSUME NEW c \in Clients, client'[c].sid \in Steady, client'[c].open PROVE InExchange(c)'
  BY <1>1, <1>2, <1>5, ExchangeKept DEF Moves
<1>6. ASSUME NEW q \in Procs, At(q, "done")' PROVE Served(q)'
  BY <1>1, <1>2, <1>6 DEF AllServed, Moves, At, Served
<1> QED BY <1>4, <1>5, <1>6 DEF AllServed

LEMMA DropSteady == ASSUME RegistryInv, SteadyInv, NEW p \in Procs, Drop(p) PROVE SteadyInv'
<1> SUFFICES ASSUME Undisturbed' PROVE AllServed'
  BY DEF SteadyInv
<1> DEFINE c == proc[p].on
<1>1. /\ proc[p].pc = "drop" /\ HangupAll({c}) /\ Moves(p, "dial")
      /\ UNCHANGED <<refresher, work, entries, closed, bridge, fresh, leaked, executed>>
  BY InvParts, DropEffect
<1>2. AllServed
  BY <1>1, Calm DEF Ended, Moves
<1>3. ASSUME NEW d \in Clients, d # c PROVE client'[d] = client[d]
  BY <1>1, <1>3, HangupEffect, InvParts
<1>4. c \in Clients /\ client[c].sid \notin Steady
  <2>1. proc[p].at \in Sids \ Steady /\ c = work.old[proc[p].at] /\ c # "none"
    BY <1>1, <1>2, InvParts DEF AllServed, IsFound, At, UsesItsClient
  <2> QED BY <2>1, InvParts, Types DEF OwnershipInv, OfItsSession
<1>5. client'[c].sid = client[c].sid
  BY <1>1, <1>4, HangupEffect, InvParts
<1> HIDE DEF c
<1>6. ASSUME NEW s \in Steady PROVE IsFound(s)'
  <2>1. \A d \in {entries[s], work.next[s]} \ {"none"} : d \in Clients /\ d # c
    BY <1>4, InvParts, Types, Names DEF OwnershipInv, OfItsSession
  <2> QED BY <1>1, <1>2, <1>3, <2>1 DEF AllServed, IsFound, Looking, Moves, At
<1>7. ASSUME NEW d \in Clients, client'[d].sid \in Steady, client'[d].open PROVE InExchange(d)'
  <2>1. d # c
    BY <1>4, <1>5, <1>7
  <2> QED BY <1>1, <1>2, <1>3, <1>7, <2>1, ExchangeKept DEF Moves
<1>8. ASSUME NEW q \in Procs, At(q, "done")' PROVE Served(q)'
  BY <1>1, <1>2, <1>8 DEF AllServed, Moves, At, Served
<1> QED BY <1>6, <1>7, <1>8 DEF AllServed

LEMMA DialSteady == ASSUME RegistryInv, SteadyInv, NEW p \in Procs, Dial(p) PROVE SteadyInv'
<1> SUFFICES ASSUME Undisturbed' PROVE AllServed'
  BY DEF SteadyInv
<1>1. TypeOK /\ proc[p].at \in Sids
  BY InvParts DEF Dial, At
<1>2. /\ proc[p].pc = "dial" /\ Moves(p, "probe")
      /\ UNCHANGED <<refresher, entries, closed, bridge, fresh, leaked, executed>>
  BY <1>1, DialEffect
<1>3. PICK c \in Clients :
        /\ client[c] = Undialled
        /\ client' \in [Clients -> Connections]
        /\ \A d \in Clients \ {c} : client'[d] = client[d]
        /\ client'[c].sid = proc[p].at /\ client'[c].open /\ client'[c].alive
        /\ client'[c].asked = <<>> /\ client'[c].answered = <<>> /\ client'[c].holder = "none"
        /\ Finds(proc[p].at, c)
  BY <1>1, DialEffect
<1>4. AllServed
  BY <1>2, Calm DEF Ended, Moves
<1>5. \A d \in Clients : client[d].open => client'[d].open
  BY <1>3
<1>6. ASSUME NEW s \in Steady PROVE IsFound(s)'
  <2>1. entries[s] \in Clients \cup {"none"} /\ work.next[s] \in Clients \cup {"none"} /\ s \in Sids
    BY <1>1, Types, Names
  <2>2. s \in work'.todo \/ work'.next[s] # "none" \/ refresher = "none"
    BY <1>3, <1>4, <2>1, Names DEF AllServed, IsFound, Finds
  <2>3. \A d \in {entries[s], work'.next[s]} \ {"none"} : client'[d].open
    BY <1>3, <1>4, <1>5, <2>1 DEF AllServed, IsFound, Finds
  <2> QED BY <1>2, <1>4, <2>2, <2>3 DEF AllServed, IsFound, Looking, Moves, At
<1>7. ASSUME NEW d \in Clients, client'[d].sid \in Steady, client'[d].open PROVE InExchange(d)'
  <2>1. CASE d = c
    BY <1>3, <2>1 DEF InExchange
  <2>2. CASE d # c
    BY <1>2, <1>3, <1>4, <1>7, <2>2, ExchangeKept DEF Moves
  <2> QED BY <2>1, <2>2
<1>8. ASSUME NEW q \in Procs, At(q, "done")' PROVE Served(q)'
  BY <1>2, <1>4, <1>8 DEF AllServed, Moves, At, Served
<1> QED BY <1>6, <1>7, <1>8 DEF AllServed

LEMMA FinishSteady == ASSUME RegistryInv, SteadyInv, NEW p \in Procs, Finish(p) PROVE SteadyInv'
<1> SUFFICES ASSUME Undisturbed' PROVE AllServed'
  BY DEF SteadyInv
<1>1. /\ proc[p].pc = "finish" /\ Moves(p, "enter") /\ HangupAll(Replaced)
      /\ refresher' = "none" /\ work' = NoWork
      /\ UNCHANGED <<entries, closed, bridge, fresh, leaked, executed>>
  BY InvParts, FinishEffect
<1>2. AllServed
  BY <1>1, Calm DEF Ended, Moves
<1>3. ASSUME NEW d \in Clients
      PROVE  /\ client'[d].open => d \notin Replaced
             /\ d \notin Replaced => client'[d] = client[d]
  BY <1>1, HangupEffect, InvParts
<1>4. entries = work.next
  BY <1>1, InvParts DEF RefreshInv, InstallsItsResult
<1>5. ASSUME NEW s \in Steady PROVE IsFound(s)'
  <2>1. entries[s] # "none" /\ entries[s] \in Clients /\ client[entries[s]].open /\ s \in Sids
    BY <1>1, <1>2, InvParts, Types, Names DEF AllServed, IsFound
  <2>2. entries[s] \notin Replaced
    <3> SUFFICES ASSUME NEW t \in Sids, work.old[t] # work.next[t], work.old[t] = entries[s]
                 PROVE  FALSE
      BY DEF Replaced
    <3>1. client[entries[s]].sid = s /\ client[entries[s]].sid = t
      BY <2>1, InvParts DEF OwnershipInv, OfItsSession
    <3> QED BY <1>4, <3>1
  <2>3. client'[entries[s]].open
    BY <1>3, <2>1, <2>2
  <2>4. work'.next[s] = "none"
    BY <1>1, <2>1, NoWorkFacts
  <2> QED BY <1>1, <1>2, <2>1, <2>3, <2>4 DEF AllServed, IsFound, Looking, Moves, At
<1>6. ASSUME NEW d \in Clients, client'[d].sid \in Steady, client'[d].open PROVE InExchange(d)'
  BY <1>1, <1>2, <1>3, <1>6, ExchangeKept DEF Moves
<1>7. ASSUME NEW q \in Procs, At(q, "done")' PROVE Served(q)'
  BY <1>1, <1>2, <1>7 DEF AllServed, Moves, At, Served
<1> QED BY <1>5, <1>6, <1>7 DEF AllServed

\* A step of the bridges keeps the calls where they are.
LEMMA BridgeSteady ==
  ASSUME RegistryInv, SteadyInv, UNCHANGED <<proc, refresher, work, entries, closed>>,
         \A c \in Clients : /\ client'[c].open = client[c].open
                            /\ client'[c].sid \in Steady /\ client'[c].open /\ client[c].sid \in Steady
                               /\ InExchange(c) => InExchange(c)'
                            /\ client'[c].sid = client[c].sid
  PROVE  SteadyInv'
<1> SUFFICES ASSUME Undisturbed' PROVE AllServed'
  BY DEF SteadyInv
<1>1. AllServed
  BY Calm DEF Ended
<1>2. ASSUME NEW s \in Steady PROVE IsFound(s)'
  <2>1. entries[s] \in Clients \cup {"none"} /\ work.next[s] \in Clients \cup {"none"}
    BY InvParts, Types, Names
  <2> QED BY <1>1, <2>1 DEF AllServed, IsFound, At
<1>3. ASSUME NEW q \in Procs, At(q, "done")' PROVE Served(q)'
  BY <1>1, <1>3 DEF AllServed, At, Served
<1> QED BY <1>1, <1>2, <1>3 DEF AllServed

LEMMA SameExchange ==
  ASSUME NEW c \in Clients, UNCHANGED proc, client'[c] = client[c], InExchange(c)
  PROVE  InExchange(c)'
BY DEF InExchange, Request, At

LEMMA PublishSteady == ASSUME RegistryInv, SteadyInv, NEW s \in Sids, Publish(s) PROVE SteadyInv'
BY InvParts, PublishEffect, BridgeSteady, SameExchange

LEMMA VanishSteady == ASSUME RegistryInv, SteadyInv, NEW s \in Sids, Vanish(s) PROVE SteadyInv'
<1>1. /\ s \notin Steady
      /\ \A c \in Clients : client'[c] = client[c] \/ (client[c].sid = s /\ Cut(c))
      /\ UNCHANGED <<proc, refresher, work, entries, closed>>
  BY InvParts, VanishEffect
<1>2. \A c \in Clients : client'[c].open = client[c].open /\ client'[c].sid = client[c].sid
  BY <1>1 DEF Cut
<1>3. \A c \in Clients : client[c].sid \in Steady => client'[c] = client[c]
  BY <1>1
<1> QED BY <1>1, <1>2, <1>3, BridgeSteady, SameExchange

LEMMA BreakSteady == ASSUME RegistryInv, SteadyInv, NEW c \in Clients, Break(c) PROVE SteadyInv'
<1>1. /\ client[c].sid \notin Steady \/ ~client[c].open
      /\ Cut(c) /\ \A d \in Clients \ {c} : client'[d] = client[d]
      /\ UNCHANGED <<proc, refresher, work, entries, closed>>
  BY InvParts, BreakEffect
<1>2. \A d \in Clients : client'[d].open = client[d].open /\ client'[d].sid = client[d].sid
  BY <1>1 DEF Cut
<1> QED BY <1>1, <1>2, BridgeSteady, SameExchange

LEMMA RespondSteady == ASSUME RegistryInv, SteadyInv, NEW c \in Clients, Respond(c) PROVE SteadyInv'
<1> DEFINE id == Head(client[c].asked)
<1>1. /\ OneClient(c) /\ client[c].asked # <<>>
      /\ client'[c].open = client[c].open /\ client'[c].holder = client[c].holder
      /\ client'[c].asked = Tail(client[c].asked)
      /\ client'[c].answered = IF client[c].open THEN Append(client[c].answered, id)
                               ELSE client[c].answered
      /\ UNCHANGED <<proc, refresher, work, entries, closed>>
  BY InvParts, RespondEffect DEF ConnectionOK
<1>2. ASSUME client[c].open, InExchange(c) PROVE InExchange(c)'
  <2>1. PICK p \in Procs : /\ client[c].holder = p
                           /\ client[c].asked = <<Request(p)>> /\ client[c].answered = <<>>
    BY <1>1, <1>2 DEF InExchange
  <2>2. Request(p)' = Request(p)
    BY <1>1 DEF Request, At
  <2>3. id = Request(p) /\ Tail(client[c].asked) = <<>>
    BY <2>1
  <2>4. client'[c].asked = <<>> /\ client'[c].answered = <<Request(p)>>
    BY <1>1, <1>2, <2>1, <2>3
  <2> QED BY <1>1, <2>1, <2>2, <2>4 DEF InExchange
<1> HIDE DEF id
<1>3. \A d \in Clients : client'[d].open = client[d].open /\ client'[d].sid = client[d].sid
  BY <1>1 DEF OneClient
<1>4. \A d \in Clients : client'[d].open /\ InExchange(d) => InExchange(d)'
  BY <1>1, <1>2, <1>3, SameExchange DEF OneClient
<1> QED BY <1>1, <1>3, <1>4, BridgeSteady

LEMMA DisturbingSteady ==
  ASSUME RegistryInv, SteadyInv,
         CloseRegistry \/ \E p \in Procs : EndContext(p) \/ AbortRefresh(p)
  PROVE  SteadyInv'
<1>1. CASE CloseRegistry
  BY <1>1, InvParts, CloseRegistryEffect DEF SteadyInv, Undisturbed
<1>2. ASSUME NEW p \in Procs, EndContext(p) PROVE SteadyInv'
  BY <1>2, InvParts, EndContextEffect DEF SteadyInv, Undisturbed
<1>3. ASSUME NEW p \in Procs, AbortRefresh(p) PROVE SteadyInv'
  <2>1. Ended(p)'
    BY <1>3, InvParts, AbortRefreshEffect DEF Ended, Moves
  <2> QED BY <2>1 DEF SteadyInv, Undisturbed
<1> QED BY <1>1, <1>2, <1>3

LEMMA InitSteadyInv == Init => SteadyInv
<1> SUFFICES ASSUME Init PROVE AllServed
  BY DEF SteadyInv
<1>1. /\ \A p \in Procs : proc[p].pc = "idle"
      /\ refresher = "none" /\ \A s \in Sids : entries[s] = "none" /\ work.next[s] = "none"
      /\ \A c \in Clients : client[c].sid = "none"
  BY NoWorkFacts DEF Init, NoEntries, Undialled
<1> QED BY <1>1, Names DEF AllServed, IsFound, Looking, At

LEMMA NextSteadyInv == RegistryInv /\ SteadyInv /\ [Next]_vars => SteadyInv'
<1> SUFFICES ASSUME RegistryInv, SteadyInv, [Next]_vars PROVE SteadyInv'
  OBVIOUS
<1>1. ASSUME NEW p \in Procs, Start(p) \/ EndContext(p) PROVE SteadyInv'
  BY <1>1, StartSteady, DisturbingSteady
<1>2. ASSUME NEW p \in Procs, ProcStep(p) PROVE SteadyInv'
  BY <1>2, EnterListSteady, EnterCallSteady, SendSteady, RefuseSteady, ReceiveSteady,
     LoseAnswerSteady, BeginRefreshSteady, LoadFailsSteady, DisturbingSteady, ProbeSteady,
     DropSteady, DialSteady, DialFailsSteady, WantInstallSteady, InstallSteady, FinishSteady
     DEF ProcStep
<1>3. ASSUME NEW s \in Sids, Publish(s) \/ Vanish(s) PROVE SteadyInv'
  BY <1>3, PublishSteady, VanishSteady
<1>4. ASSUME NEW c \in Clients, Break(c) \/ Respond(c) PROVE SteadyInv'
  BY <1>4, BreakSteady, RespondSteady
<1>5. CASE UNCHANGED vars
  BY <1>5, BridgeSteady, SameExchange DEF vars
<1> QED BY <1>1, <1>2, <1>3, <1>4, <1>5, DisturbingSteady DEF Next

(* While no caller gives up and the registry is open, every refresh finds  *)
(* a steady session, nobody closes its client, and nothing but the one     *)
(* request that waits, or its answer, is on the connection (sessions.go    *)
(* Refresh, client.go request).                                            *)
THEOREM SteadySessionsKept == Spec => []SteadyInv
BY InitRegistryInv, InitSteadyInv, NextRegistryInv, NextSteadyInv, PTL DEF Spec

(* While no context has ended, concurrent calls of a steady session all    *)
(* succeed and every list shows it (TestRegistryConcurrentListIsRaceFree). *)
THEOREM SteadySessionsServed == Spec => []ServedTogether
<1>1. SteadyInv => ServedTogether
  BY DEF SteadyInv, Undisturbed, AllServed, ServedTogether
<1> QED BY <1>1, SteadySessionsKept, PTL
=============================================================================
