------------------------- MODULE BridgeServerProofs -------------------------
(***************************************************************************)
(* Theorems about the bridge, for any number of connections, requests and  *)
(* frames, and any limits.                                                 *)
(*                                                                         *)
(* The accounts of a connection are numbers of elements of sequences: its  *)
(* unread request frames, its work in the queue, the answers that release  *)
(* an id.  The first section counts; the second says what the operations   *)
(* of a connection return.  BridgeInv is then taken apart connection by    *)
(* connection (Settled), because every step but Stop changes one only      *)
(* (OneConnStep), and each action is shown to keep the accounts of the     *)
(* connection it changes balanced.                                         *)
(***************************************************************************)
EXTENDS BridgeServer, SequenceTheorems, FiniteSetTheorems, TLAPS

-----------------------------------------------------------------------------
(* Counting the elements of a sequence that are in a set. *)

LEMMA CountType ==
  ASSUME NEW T, NEW s \in Seq(T), NEW S
  PROVE  /\ IsFiniteSet({i \in DOMAIN s : s[i] \in S})
         /\ Count(s, S) \in Nat
<1>1. DOMAIN s = 1..Len(s) /\ Len(s) \in Nat
  BY LenProperties
<1>2. IsFiniteSet(1..Len(s))
  BY <1>1, FS_Interval
<1>3. IsFiniteSet({i \in DOMAIN s : s[i] \in S})
  BY <1>1, <1>2, FS_Subset
<1> QED BY <1>3, FS_CardinalityType DEF Count

LEMMA CountEmpty ==
  ASSUME NEW S
  PROVE  Count(<<>>, S) = 0
<1>1. {i \in DOMAIN <<>> : <<>>[i] \in S} = {}
  OBVIOUS
<1> QED BY <1>1, FS_EmptySet DEF Count

LEMMA CountOne ==
  ASSUME NEW e, NEW S
  PROVE  Count(<<e>>, S) = IF e \in S THEN 1 ELSE 0
<1>1. {i \in DOMAIN <<e>> : <<e>>[i] \in S} = IF e \in S THEN {1} ELSE {}
  OBVIOUS
<1> QED BY <1>1, FS_EmptySet, FS_Singleton DEF Count

LEMMA CountConcat ==
  ASSUME NEW T, NEW s \in Seq(T), NEW t \in Seq(T), NEW S
  PROVE  Count(s \o t, S) = Count(s, S) + Count(t, S)
<1> DEFINE n == Len(s)
           A == {i \in DOMAIN s : s[i] \in S}
           B == {i \in DOMAIN t : t[i] \in S}
           C == {i \in DOMAIN (s \o t) : (s \o t)[i] \in S}
           D == {i + n : i \in B}
           f == [i \in B |-> i + n]
<1>1. /\ n \in Nat /\ Len(t) \in Nat
      /\ DOMAIN s = 1..n /\ DOMAIN t = 1..Len(t)
      /\ DOMAIN (s \o t) = 1..(n + Len(t))
      /\ \A i \in 1..(n + Len(t)) : (s \o t)[i] = IF i <= n THEN s[i] ELSE t[i - n]
  BY ConcatProperties, LenProperties
<1>2. IsFiniteSet(A) /\ IsFiniteSet(B)
  BY CountType
<1>3. f \in Bijection(B, D)
  <2>1. f \in [B -> D]
    OBVIOUS
  <2>2. \A i, j \in B : f[i] = f[j] => i = j
    BY <1>1
  <2>3. \A d \in D : \E i \in B : f[i] = d
    OBVIOUS
  <2> QED BY <2>1, <2>2, <2>3 DEF Bijection, Injection, Surjection, IsInjective
<1>4. IsFiniteSet(D) /\ Cardinality(D) = Cardinality(B)
  BY <1>2, <1>3, FS_Bijection DEF ExistsBijection
<1>5. C = A \cup D
  <2>1. ASSUME NEW i \in C PROVE i \in A \cup D
    <3>1. CASE i <= n
      BY <2>1, <3>1, <1>1
    <3>2. CASE ~(i <= n)
      <4>1. i - n \in B /\ i = (i - n) + n
        BY <2>1, <3>2, <1>1
      <4> QED BY <4>1
    <3> QED BY <3>1, <3>2
  <2>2. ASSUME NEW i \in A PROVE i \in C
    BY <2>2, <1>1
  <2>3. ASSUME NEW j \in B PROVE j + n \in C
    BY <2>3, <1>1
  <2> QED BY <2>1, <2>2, <2>3
<1>6. A \cap D = {}
  BY <1>1
<1>7. Cardinality(A \cup D) = Cardinality(A) + Cardinality(D)
  <2>1. Cardinality(A \cup D) = Cardinality(A) + Cardinality(D) - Cardinality(A \cap D)
    BY <1>2, <1>4, FS_Union
  <2>2. Cardinality(A) \in Nat /\ Cardinality(D) \in Nat
    BY <1>2, <1>4, FS_CardinalityType
  <2>3. Cardinality(A \cap D) = 0
    BY <1>6, FS_EmptySet
  <2> HIDE DEF A, D
  <2> QED BY <2>1, <2>2, <2>3
<1> QED BY <1>4, <1>5, <1>7 DEF Count

LEMMA CountAppend ==
  ASSUME NEW T, NEW s \in Seq(T), NEW e \in T, NEW S
  PROVE  Count(Append(s, e), S) = Count(s, S) + IF e \in S THEN 1 ELSE 0
<1>1. Append(s, e) = s \o <<e>> /\ <<e>> \in Seq(T)
  BY AppendIsConcat
<1>2. Count(s \o <<e>>, S) = Count(s, S) + Count(<<e>>, S)
  BY <1>1, CountConcat, Zenon
<1>3. Count(<<e>>, S) = IF e \in S THEN 1 ELSE 0
  BY CountOne, Zenon
<1> QED BY <1>1, <1>2, <1>3, Zenon

LEMMA CountHead ==
  ASSUME NEW T, NEW s \in Seq(T), s # <<>>, NEW S
  PROVE  Count(s, S) = (IF Head(s) \in S THEN 1 ELSE 0) + Count(Tail(s), S)
<1>1. Len(s) \in Nat \ {0}
  BY EmptySeq
<1>2. s = SubSeq(s, 1, Len(s)) /\ Tail(s) = SubSeq(s, 2, Len(s))
  BY SubSeqFull, TailIsSubSeq
<1>3. SubSeq(s, 1, Len(s)) = <<s[1]>> \o SubSeq(s, 2, Len(s))
  BY <1>1, SubSeqRecursiveFirst
<1>4. Head(s) = s[1] /\ s[1] \in T /\ <<s[1]>> \in Seq(T) /\ Tail(s) \in Seq(T)
  BY <1>1, HeadTailProperties
<1>5. s = <<Head(s)>> \o Tail(s)
  BY <1>2, <1>3, <1>4
<1>5a. <<Head(s)>> \in Seq(T)
  BY <1>4
<1>6. Count(s, S) = Count(<<Head(s)>> \o Tail(s), S)
  BY <1>5, Zenon
<1>7. Count(<<Head(s)>> \o Tail(s), S) = Count(<<Head(s)>>, S) + Count(Tail(s), S)
  BY <1>4, <1>5a, CountConcat, Zenon
<1>8. Count(<<Head(s)>>, S) = IF Head(s) \in S THEN 1 ELSE 0
  BY CountOne, Zenon
<1> QED BY <1>6, <1>7, <1>8, Zenon

LEMMA CountSplit ==
  ASSUME NEW T, NEW s \in Seq(T), NEW i \in 1..Len(s), NEW S
  PROVE  /\ SubSeq(s, 1, i) \in Seq(T)
         /\ SubSeq(s, i + 1, Len(s)) \in Seq(T)
         /\ Count(s, S) = Count(SubSeq(s, 1, i), S) + Count(SubSeq(s, i + 1, Len(s)), S)
<1>1. Len(s) \in Nat
  BY LenProperties
<1>2. SubSeq(s, 1, i) \in Seq(T)
  <2>1. \A j \in 1..i : s[j] \in T
    BY <1>1, ElementOfSeq
  <2> QED BY <1>1, <2>1, SubSeqProperties
<1>5. SubSeq(s, i + 1, Len(s)) \in Seq(T)
  <2>1. \A j \in i + 1..Len(s) : s[j] \in T
    BY <1>1, ElementOfSeq
  <2> QED BY <1>1, <2>1, SubSeqProperties
<1>3. SubSeq(s, 1, i) \o SubSeq(s, i + 1, Len(s)) = SubSeq(s, 1, Len(s))
  BY <1>1, ConcatAdjacentSubSeq
<1>4. SubSeq(s, 1, Len(s)) = s
  BY SubSeqFull
<1>6. Count(SubSeq(s, 1, i) \o SubSeq(s, i + 1, Len(s)), S) =
        Count(SubSeq(s, 1, i), S) + Count(SubSeq(s, i + 1, Len(s)), S)
  BY <1>2, <1>5, CountConcat, Zenon
<1> QED BY <1>2, <1>3, <1>4, <1>5, <1>6, Zenon

LEMMA CountSame ==
  ASSUME NEW s, NEW t, NEW S, DOMAIN s = DOMAIN t,
         \A i \in DOMAIN s : s[i] \in S <=> t[i] \in S
  PROVE  Count(s, S) = Count(t, S)
BY DEF Count

LEMMA CountAtHead ==
  ASSUME NEW T, NEW s \in Seq(T), s # <<>>, NEW S
  PROVE  Head(s) \in S => Count(s, S) >= 1
<1>1. Count(s, S) = (IF Head(s) \in S THEN 1 ELSE 0) + Count(Tail(s), S)
  BY CountHead
<1>2. Tail(s) \in Seq(T)
  BY HeadTailProperties
<1>3. Count(Tail(s), S) \in Nat
  BY <1>2, CountType
<1> QED BY <1>1, <1>3

-----------------------------------------------------------------------------
(* The connection object: what its operations return. *)

LEMMA CloseEffect ==
  ASSUME NEW k \in Connections
  PROVE  /\ Close(k) \in Connections
         /\ Close(k).phase = "closed"
         /\ Close(k).outstanding = {}
         /\ Close(k).writes = <<>>
BY EmptySeq DEF Close, Connections

LEMMA EnqueueEffect ==
  ASSUME NEW k \in Connections, NEW id \in ReqIds \cup {"none"}, NEW release \in BOOLEAN,
         id = "none" => ~release
  PROVE  LET h == Enqueue(k, id, release) IN
         /\ h \in Connections
         /\ k.phase # "open" => h = k
         /\ k.phase = "open" /\ Len(k.writes) >= MaxPendingWrites => h = Close(k)
         /\ k.phase = "open" /\ ~(Len(k.writes) >= MaxPendingWrites) =>
              /\ h.phase = "open"
              /\ h.hungup = k.hungup
              /\ h.wire = k.wire
              /\ h.buffer = k.buffer
              /\ h.outstanding = k.outstanding
              /\ h.writes = Append(k.writes, [id |-> id, release |-> release])
<1> DEFINE item == [id |-> id, release |-> release]
<1>1. item \in Items
  BY DEF Items
<1>2. k.writes \in Seq(Items) /\ k.due \in SUBSET {"handshake", "idle", "write"}
  BY DEF Connections
<1>3. Append(k.writes, item) \in Seq(Items)
  BY <1>1, <1>2, AppendProperties
<1>4. CASE k.phase # "open"
  BY <1>4 DEF Enqueue
<1>5. CASE k.phase = "open" /\ Len(k.writes) >= MaxPendingWrites
  BY <1>5, CloseEffect DEF Enqueue
<1>6. CASE k.phase = "open" /\ ~(Len(k.writes) >= MaxPendingWrites)
  <2> HIDE DEF item
  <2>1. Enqueue(k, id, release) =
          [k EXCEPT !.writes = Append(@, item),
                    !.due = IF k.writes = <<>> THEN @ \ {"write"} ELSE @]
    BY <1>6 DEF Enqueue, item
  <2>2. Enqueue(k, id, release) \in Connections
    BY <2>1, <1>2, <1>3, ZenonT(40) DEF Connections
  <2>3. /\ Enqueue(k, id, release).phase = "open"
        /\ Enqueue(k, id, release).hungup = k.hungup
        /\ Enqueue(k, id, release).wire = k.wire
        /\ Enqueue(k, id, release).buffer = k.buffer
        /\ Enqueue(k, id, release).outstanding = k.outstanding
        /\ Enqueue(k, id, release).writes = Append(k.writes, item)
    BY <1>6, <2>1 DEF Connections
  <2> QED BY <1>6, <2>2, <2>3 DEF item
<1> QED BY <1>4, <1>5, <1>6

Ended(h) == h.phase = "closed" /\ h.outstanding = {} /\ h.writes = <<>>

Continues(k, h) ==
  h.phase = "open" /\ h.hungup = k.hungup /\ h.wire = k.wire /\ h.buffer = k.buffer

Answered(k, h, id, release) ==
  /\ Len(k.writes) < MaxPendingWrites
  /\ h.writes = Append(k.writes, [id |-> id, release |-> release])

LEMMA EnqueueOutcome ==
  ASSUME NEW k \in Connections, k.phase = "open",
         NEW id \in ReqIds \cup {"none"}, NEW release \in BOOLEAN, id = "none" => ~release
  PROVE  LET h == Enqueue(k, id, release) IN
         /\ h \in Connections
         /\ \/ Ended(h)
            \/ /\ Continues(k, h)
               /\ h.outstanding = k.outstanding
               /\ Answered(k, h, id, release)
<1> DEFINE h == Enqueue(k, id, release)
           full == Len(k.writes) >= MaxPendingWrites
<1>1. h \in Connections
  BY EnqueueEffect
<1>2. full => Ended(h)
  <2>1. full => h = Close(k)
    BY EnqueueEffect
  <2>2. Ended(Close(k))
    BY CloseEffect DEF Ended
  <2> QED BY <2>1, <2>2, Zenon
<1>3. ~full => /\ Continues(k, h)
               /\ h.outstanding = k.outstanding
               /\ h.writes = Append(k.writes, [id |-> id, release |-> release])
  BY EnqueueEffect DEF Continues
<1>4. ~full => Len(k.writes) < MaxPendingWrites
  <2>1. Len(k.writes) \in Nat /\ MaxPendingWrites \in Nat
    BY BridgeAssumption, LenProperties DEF Connections
  <2> QED BY <2>1
<1> HIDE DEF h, full
<1>5. \/ Ended(h)
      \/ /\ Continues(k, h)
         /\ h.outstanding = k.outstanding
         /\ Answered(k, h, id, release)
  BY <1>2, <1>3, <1>4 DEF Answered
<1> QED BY <1>1, <1>5 DEF h

LEMMA ReserveEffect ==
  ASSUME NEW k \in Connections, NEW id \in ReqIds
  PROVE  LET h == Reserve(k, id) IN
         /\ h \in Connections
         /\ h.phase = k.phase /\ h.hungup = k.hungup /\ h.wire = k.wire
         /\ h.buffer = k.buffer /\ h.writes = k.writes
         /\ h.outstanding = k.outstanding \cup {id}
BY DEF Reserve, Connections

\* The frames a peer sends are those of Frames; only requests carry an id.
LEMMA FrameKinds ==
  ASSUME NEW f \in Frames
  PROVE  /\ f.kind \in Asking => f.id \in ReqIds
         /\ f.kind \notin Asking => f.id = "none"
         /\ f.kind \in Asking \cup Handshake \cup {"garbage"}
BY DEF Frames, Asking, Handshake

\* One equation per state and kind of frame.
LEMMA HandleMessageCases ==
  ASSUME NEW k \in Connections, NEW f \in Frames
  PROVE  LET h == HandleMessage(k, f) IN
         /\ k.state = "hello" => h = HandleHello(k, f)
         /\ k.state = "authenticate" /\ f.kind = "auth" =>
              h = [Enqueue(k, "none", FALSE) EXCEPT !.state = "ready"]
         /\ k.state = "authenticate" /\ f.kind = "badauth" =>
              h = [Enqueue(k, "none", FALSE) EXCEPT !.closing = TRUE]
         /\ k.state = "authenticate" /\ f.kind \notin {"auth", "badauth"} => h = Close(k)
         /\ k.state = "ready" /\ f.kind \notin Asking => h = Close(k)
         /\ k.state = "ready" /\ f.kind \in Asking /\ Refused(k, f) =>
              h = Enqueue(k, f.id, FALSE)
         /\ k.state = "ready" /\ Accepted(k, f) => h = Reserve(k, f.id)
         /\ k.state = "ready" /\ f.kind \in Asking /\ ~Refused(k, f) /\ ~Accepted(k, f) =>
              h = Enqueue(Reserve(k, f.id), f.id, TRUE)
<1>1. k.state = "hello" => HandleMessage(k, f) = HandleHello(k, f)
  BY Zenon DEF HandleMessage
<1>2. k.state = "authenticate" => HandleMessage(k, f) = HandleAuthenticate(k, f)
  BY Zenon DEF HandleMessage
<1>3. k.state = "ready" => HandleMessage(k, f) = HandleRequest(k, f)
  BY Zenon DEF HandleMessage
<1>4. f.kind = "auth" =>
        HandleAuthenticate(k, f) = [Enqueue(k, "none", FALSE) EXCEPT !.state = "ready"]
  BY Zenon DEF HandleAuthenticate
<1>5. f.kind = "badauth" =>
        HandleAuthenticate(k, f) = [Enqueue(k, "none", FALSE) EXCEPT !.closing = TRUE]
  BY Zenon DEF HandleAuthenticate
<1>6. f.kind \notin {"auth", "badauth"} => HandleAuthenticate(k, f) = Close(k)
  BY Zenon DEF HandleAuthenticate
<1>7. f.kind \notin Asking => HandleRequest(k, f) = Close(k)
  <2>1. f.kind \notin Asking => ~Accepted(k, f)
    BY DEF Accepted, Asking
  <2> QED BY <2>1, Zenon DEF HandleRequest
<1>8. f.kind \in Asking /\ Refused(k, f) => HandleRequest(k, f) = Enqueue(k, f.id, FALSE)
  BY Zenon DEF HandleRequest, Accepted
<1>9. Accepted(k, f) => HandleRequest(k, f) = Reserve(k, f.id)
  <2>1. Accepted(k, f) => f.kind \in Asking /\ ~Refused(k, f)
    BY DEF Accepted, Asking
  <2> QED BY <2>1, Zenon DEF HandleRequest
<1>10. f.kind \in Asking /\ ~Refused(k, f) /\ ~Accepted(k, f) =>
         HandleRequest(k, f) = Enqueue(Reserve(k, f.id), f.id, TRUE)
  BY Zenon DEF HandleRequest
<1> QED BY <1>1, <1>2, <1>3, <1>4, <1>5, <1>6, <1>7, <1>8, <1>9, <1>10, Zenon

\* A frame ends the connection, is answered, or is queued.
LEMMA HandleMessageEffect ==
  ASSUME NEW k \in Connections, k.phase = "open", NEW f \in Frames
  PROVE  LET h == HandleMessage(k, f) IN
         /\ h \in Connections
         /\ \/ Ended(h)
            \/ /\ Continues(k, h)
               /\ \/ /\ f.kind \notin Asking /\ k.state # "ready"
                     /\ h.outstanding = k.outstanding
                     /\ Answered(k, h, "none", FALSE)
                  \/ /\ f.kind \in Asking /\ k.state = "ready" /\ Refused(k, f)
                     /\ h.outstanding = k.outstanding
                     /\ Answered(k, h, f.id, FALSE)
                  \/ /\ k.state = "ready" /\ Accepted(k, f)
                     /\ h.outstanding = k.outstanding \cup {f.id}
                     /\ h.writes = k.writes
                  \/ /\ f.kind \in Asking /\ k.state = "ready"
                     /\ ~Refused(k, f) /\ ~Accepted(k, f)
                     /\ h.outstanding = k.outstanding \cup {f.id}
                     /\ Answered(k, h, f.id, TRUE)
<1> DEFINE e == Enqueue(k, "none", FALSE)
           r == Reserve(k, f.id)
<1>1. k.state \in {"hello", "authenticate", "ready"}
  BY DEF Connections
<1>2. /\ e \in Connections
      /\ \/ Ended(e)
         \/ Continues(k, e) /\ e.outstanding = k.outstanding /\ Answered(k, e, "none", FALSE)
  BY EnqueueOutcome
<1>3. Close(k) \in Connections /\ Ended(Close(k))
  BY CloseEffect DEF Ended
<1> HIDE DEF e
<1> SUFFICES ASSUME NEW h, h = HandleMessage(k, f)
             PROVE  /\ h \in Connections
                    /\ \/ Ended(h)
                       \/ /\ Continues(k, h)
                          /\ \/ /\ f.kind \notin Asking /\ k.state # "ready"
                                /\ h.outstanding = k.outstanding
                                /\ Answered(k, h, "none", FALSE)
                             \/ /\ f.kind \in Asking /\ k.state = "ready" /\ Refused(k, f)
                                /\ h.outstanding = k.outstanding
                                /\ Answered(k, h, f.id, FALSE)
                             \/ /\ k.state = "ready" /\ Accepted(k, f)
                                /\ h.outstanding = k.outstanding \cup {f.id}
                                /\ h.writes = k.writes
                             \/ /\ f.kind \in Asking /\ k.state = "ready"
                                /\ ~Refused(k, f) /\ ~Accepted(k, f)
                                /\ h.outstanding = k.outstanding \cup {f.id}
                                /\ Answered(k, h, f.id, TRUE)
  OBVIOUS
<1>4. ASSUME NEW s \in {"authenticate", "ready"}, h = [e EXCEPT !.state = s]
      PROVE  /\ h \in Connections
             /\ \/ Ended(h)
                \/ /\ Continues(k, h)
                   /\ h.outstanding = k.outstanding
                   /\ Answered(k, h, "none", FALSE)
  <2>1. h \in Connections /\ h.phase = e.phase /\ h.hungup = e.hungup /\ h.wire = e.wire
        /\ h.buffer = e.buffer /\ h.outstanding = e.outstanding /\ h.writes = e.writes
    BY <1>2, <1>4 DEF Connections
  <2> QED BY <2>1, <1>2 DEF Ended, Continues, Answered
<1>5. CASE k.state = "hello"
  <2>1. h = HandleHello(k, f)
    BY <1>5, HandleMessageCases
  <2>2. CASE f.kind = "hello"
    <3>1. h = [e EXCEPT !.state = "authenticate"]
      BY <2>1, <2>2 DEF HandleHello, e
    <3> QED BY <3>1, <1>4, <1>5, <2>2 DEF Asking
  <2>3. CASE f.kind # "hello"
    BY <2>1, <2>3, <1>3 DEF HandleHello
  <2> QED BY <2>2, <2>3
<1>6. CASE k.state = "authenticate"
  <2>1. CASE f.kind = "auth"
    <3>1. h = [e EXCEPT !.state = "ready"]
      BY <1>6, <2>1, HandleMessageCases DEF e
    <3> QED BY <3>1, <1>4, <1>6, <2>1 DEF Asking
  <2>2. CASE f.kind = "badauth"
    <3>1. h = [e EXCEPT !.closing = TRUE]
      BY <1>6, <2>2, HandleMessageCases DEF e
    <3>2. h \in Connections /\ h.phase = e.phase /\ h.hungup = e.hungup /\ h.wire = e.wire
          /\ h.buffer = e.buffer /\ h.outstanding = e.outstanding /\ h.writes = e.writes
      BY <3>1, <1>2 DEF Connections
    <3> QED BY <3>2, <1>2, <1>6, <2>2 DEF Ended, Continues, Answered, Asking
  <2>3. CASE f.kind \notin {"auth", "badauth"}
    BY <1>6, <2>3, <1>3, HandleMessageCases
  <2> QED BY <2>1, <2>2, <2>3
<1>7. CASE k.state = "ready"
  <2>1. CASE f.kind \notin Asking
    BY <1>7, <2>1, <1>3, HandleMessageCases
  <2>2. CASE f.kind \in Asking
    <3>1. f.id \in ReqIds /\ f.id # "none"
      BY <2>2, FrameKinds, BridgeAssumption
    <3>2. CASE Refused(k, f)
      <4>1. h = Enqueue(k, f.id, FALSE)
        BY <1>7, <2>2, <3>2, HandleMessageCases
      <4>2. /\ h \in Connections
            /\ \/ Ended(h)
               \/ Continues(k, h) /\ h.outstanding = k.outstanding /\ Answered(k, h, f.id, FALSE)
        BY <3>1, <4>1, EnqueueOutcome
      <4> QED BY <1>7, <2>2, <3>2, <4>2
    <3>3. CASE Accepted(k, f)
      <4>1. h = r
        BY <1>7, <3>3, HandleMessageCases
      <4>2. /\ h \in Connections
            /\ Continues(k, h)
            /\ h.outstanding = k.outstanding \cup {f.id}
            /\ h.writes = k.writes
        BY <3>1, <4>1, ReserveEffect DEF Continues
      <4> QED BY <1>7, <3>3, <4>2
    <3>4. CASE ~Refused(k, f) /\ ~Accepted(k, f)
      <4>1. h = Enqueue(r, f.id, TRUE)
        BY <1>7, <2>2, <3>4, HandleMessageCases
      <4>2. /\ r \in Connections
            /\ Continues(k, r)
            /\ r.outstanding = k.outstanding \cup {f.id}
            /\ r.writes = k.writes
        BY <3>1, ReserveEffect DEF Continues
      <4> HIDE DEF r
      <4>3. /\ h \in Connections
            /\ \/ Ended(h)
               \/ Continues(r, h) /\ h.outstanding = r.outstanding /\ Answered(r, h, f.id, TRUE)
        <5>1. r.phase = "open"
          BY <4>2 DEF Continues
        <5> QED BY <3>1, <4>1, <4>2, <5>1, EnqueueOutcome, ZenonT(40)
      <4>4. \/ Ended(h)
            \/ /\ Continues(k, h)
               /\ h.outstanding = k.outstanding \cup {f.id}
               /\ Answered(k, h, f.id, TRUE)
        BY <4>2, <4>3 DEF Continues, Answered
      <4> QED BY <1>7, <2>2, <3>4, <4>3, <4>4
    <3> QED BY <3>2, <3>3, <3>4
  <2> QED BY <2>1, <2>2
<1> QED BY <1>1, <1>5, <1>6, <1>7

-----------------------------------------------------------------------------
(* Types. *)

LEMMA InitTypes == Init => TypeOK
<1> SUFFICES ASSUME Init PROVE TypeOK
  OBVIOUS
<1>1. conn \in [Conns -> Connections]
  BY EmptySeq, BridgeAssumption DEF Init, Connections
<1>2. queue \in Seq(Works) /\ main \in MainStates
  BY EmptySeq DEF Init, MainStates, Idle
<1> QED BY <1>1, <1>2 DEF Init, TypeOK

\* A step that changes one connection only.
LEMMA OneConnType ==
  ASSUME TypeOK, NEW c \in Conns, NEW k \in Connections, conn' = [conn EXCEPT ![c] = k]
  PROVE  conn' \in [Conns -> Connections]
BY DEF TypeOK

LEMMA ToldType ==
  ASSUME TypeOK, NEW c \in Conns, NEW id \in ReqIds \cup {"none"}, NEW k, Told(c, id, k)
  PROVE  told' \in [Conns -> [ReqIds -> Nat]]
BY DEF TypeOK, Told

LEMMA MainType ==
  ASSUME TypeOK, NEW c \in Conns
  PROVE  /\ [main EXCEPT !.n = @ + 1] \in MainStates
         /\ [main EXCEPT !.m = @ + 1] \in MainStates
         /\ main.todo \in SUBSET Conns
         /\ main.n \in Nat /\ main.m \in Nat
<1> DEFINE outside == [at : {"idle", "accept", "next", "drain"}, serving : {"none"},
                       todo : SUBSET Conns, n : Nat, m : Nat]
           inside == [at : {"read", "flush"}, serving : Conns,
                      todo : SUBSET Conns, n : Nat, m : Nat]
<1>1. main \in outside \/ main \in inside
  BY DEF TypeOK, MainStates
<1>2. MainStates = outside \cup inside
  BY DEF MainStates
<1>3. CASE main \in outside
  <2>1. [main EXCEPT !.n = @ + 1] \in outside /\ [main EXCEPT !.m = @ + 1] \in outside
    BY <1>3
  <2>2. main.todo \in SUBSET Conns /\ main.n \in Nat /\ main.m \in Nat
    BY <1>3
  <2> HIDE DEF outside, inside
  <2> QED BY <2>1, <2>2, <1>2
<1>4. CASE main \in inside
  <2>1. [main EXCEPT !.n = @ + 1] \in inside /\ [main EXCEPT !.m = @ + 1] \in inside
    BY <1>4
  <2>2. main.todo \in SUBSET Conns /\ main.n \in Nat /\ main.m \in Nat
    BY <1>4
  <2> HIDE DEF outside, inside
  <2> QED BY <2>1, <2>2, <1>2
<1> QED BY <1>1, <1>3, <1>4

LEMMA HandleFrameType ==
  ASSUME TypeOK, NEW c \in Conns, HandleFrame(c)
  PROVE  TypeOK'
<1> DEFINE f == Head(conn[c].buffer)
           k == [conn[c] EXCEPT !.buffer = Tail(@)]
           h == HandleMessage(k, f)
<1>1. conn[c] \in Connections /\ conn[c].buffer \in Seq(Frames) /\ conn[c].buffer # <<>>
      /\ conn[c].phase = "open"
  BY DEF TypeOK, HandleFrame, Connections, Reading
<1>2. f \in Frames /\ Tail(conn[c].buffer) \in Seq(Frames)
  BY <1>1, HeadTailProperties
<1>3. k \in Connections /\ k.phase = "open"
  BY <1>1, <1>2 DEF Connections
<1>4. /\ conn' = [conn EXCEPT ![c] = h]
      /\ queue' = IF k.state = "ready" /\ Accepted(k, f)
                  THEN Append(queue, [conn |-> c, id |-> f.id, late |-> FALSE])
                  ELSE queue
      /\ Told(c, f.id, h)
      /\ main' = [main EXCEPT !.m = @ + 1]
      /\ UNCHANGED <<running, asked, ran>>
  BY DEF HandleFrame
<1> HIDE DEF f, k
<1>5. h \in Connections
  BY <1>2, <1>3, HandleMessageEffect
<1>6. f.id \in ReqIds \cup {"none"} /\ (Accepted(k, f) => f.id \in ReqIds)
  BY <1>2, FrameKinds DEF Accepted, Asking
<1> HIDE DEF h
<1>7. conn' \in [Conns -> Connections]
  BY <1>4, <1>5, OneConnType
<1>8. queue' \in Seq(Works)
  <2>1. CASE k.state = "ready" /\ Accepted(k, f)
    <3>1. [conn |-> c, id |-> f.id, late |-> FALSE] \in Works
      BY <1>6, <2>1 DEF Works
    <3> QED BY <3>1, <1>4, <2>1, AppendProperties DEF TypeOK
  <2>2. CASE ~(k.state = "ready" /\ Accepted(k, f))
    BY <1>4, <2>2 DEF TypeOK
  <2> QED BY <2>1, <2>2
<1>9. told' \in [Conns -> [ReqIds -> Nat]]
  BY <1>4, <1>6, ToldType
<1>10. main' \in MainStates
  BY <1>4, MainType
<1> QED BY <1>4, <1>7, <1>8, <1>9, <1>10 DEF TypeOK

LEMMA ReadChunkType ==
  ASSUME TypeOK, NEW c \in Conns, ReadChunk(c)
  PROVE  TypeOK'
<1> DEFINE w == conn[c].wire
<1>1. PICK i \in 1..Len(w) :
        conn' = [conn EXCEPT ![c] = [conn[c] EXCEPT !.buffer = SubSeq(w, 1, i),
                                              !.wire = SubSeq(w, i + 1, Len(w)),
                                              !.due = @ \ {"idle"}]]
  BY DEF ReadChunk
<1>2. conn[c] \in Connections /\ w \in Seq(Frames)
  BY DEF TypeOK, Connections
<1>3. SubSeq(w, 1, i) \in Seq(Frames) /\ SubSeq(w, i + 1, Len(w)) \in Seq(Frames)
  BY <1>2, CountSplit
<1> HIDE DEF w
<1>4. [conn[c] EXCEPT !.buffer = SubSeq(w, 1, i), !.wire = SubSeq(w, i + 1, Len(w)),
                      !.due = @ \ {"idle"}] \in Connections
  BY <1>2, <1>3 DEF Connections
<1>5. conn' \in [Conns -> Connections]
  BY <1>1, <1>4 DEF TypeOK
<1>6. main' \in MainStates
  BY MainType DEF ReadChunk
<1> QED BY <1>5, <1>6 DEF TypeOK, ReadChunk

LEMMA WriteFrameType ==
  ASSUME TypeOK, NEW c \in Conns, WriteFrame(c)
  PROVE  TypeOK'
<1> DEFINE item == Head(conn[c].writes)
           o == IF item.release THEN conn[c].outstanding \ {item.id} ELSE conn[c].outstanding
<1>1. conn[c] \in Connections /\ conn[c].writes \in Seq(Items) /\ conn[c].writes # <<>>
      /\ conn[c].out < SocketCapacity /\ conn[c].out \in 0..SocketCapacity
  BY DEF TypeOK, Connections, WriteFrame, Flushing
<1>2. Tail(conn[c].writes) \in Seq(Items)
  BY <1>1, HeadTailProperties
<1>3. o \in SUBSET ReqIds
  BY <1>1 DEF Connections
<1>4. conn[c].out + 1 \in 0..SocketCapacity
  BY <1>1, BridgeAssumption, SMTT(30)
<1>5. conn' = [conn EXCEPT ![c] = [conn[c] EXCEPT !.writes = Tail(@), !.begun = FALSE, !.out = @ + 1,
                                           !.due = @ \ {"write"}, !.outstanding = o]]
  BY DEF WriteFrame
<1> HIDE DEF o
<1>6. [conn[c] EXCEPT !.writes = Tail(@), !.begun = FALSE, !.out = @ + 1,
                      !.due = @ \ {"write"}, !.outstanding = o] \in Connections
  BY <1>1, <1>2, <1>3, <1>4 DEF Connections
<1>7. conn' \in [Conns -> Connections]
  BY <1>5, <1>6 DEF TypeOK
<1>8. main' \in MainStates
  BY MainType DEF WriteFrame
<1> QED BY <1>7, <1>8 DEF TypeOK, WriteFrame

LEMMA ServeType ==
  ASSUME TypeOK, NEW c \in Conns, ServeStep(c)
  PROVE  TypeOK'
<1>1. conn[c] \in Connections /\ Close(conn[c]) \in Connections
  BY CloseEffect DEF TypeOK
<1>2. ASSUME HandleFrame(c) PROVE TypeOK'
  BY <1>2, HandleFrameType
<1>3. ASSUME ReadChunk(c) PROVE TypeOK'
  BY <1>3, ReadChunkType
<1>4. ASSUME ReadEnd(c) PROVE TypeOK'
  BY <1>1, <1>4 DEF TypeOK, ReadEnd
<1>5. ASSUME EndRead(c) PROVE TypeOK'
  <2>1. main.serving = c /\ main.at = "read"
    BY <1>5 DEF EndRead, At
  <2>2. main' \in MainStates
    BY <1>5, <2>1 DEF TypeOK, EndRead, MainStates
  <2> QED BY <1>5, <2>2 DEF TypeOK, EndRead
<1>6. ASSUME WriteFrame(c) PROVE TypeOK'
  BY <1>6, WriteFrameType
<1>7. ASSUME WritePart(c) PROVE TypeOK'
  <2>1. [conn[c] EXCEPT !.begun = TRUE, !.due = @ \ {"write"}] \in Connections
    BY <1>1 DEF Connections
  <2>2. main' \in MainStates
    BY <1>7, MainType DEF WritePart
  <2> QED BY <1>7, <2>1, <2>2 DEF TypeOK, WritePart
<1>8. ASSUME WriteError(c) PROVE TypeOK'
  BY <1>1, <1>8 DEF TypeOK, WriteError
<1>9. ASSUME EndServe(c) PROVE TypeOK'
  <2>1. conn' \in [Conns -> Connections]
    BY <1>1, <1>9 DEF TypeOK, EndServe
  <2>2. main' \in MainStates
    BY <1>9 DEF TypeOK, EndServe, MainStates, Idle
  <2> QED BY <1>9, <2>1, <2>2 DEF TypeOK, EndServe
<1> QED BY <1>2, <1>3, <1>4, <1>5, <1>6, <1>7, <1>8, <1>9 DEF ServeStep

LEMMA SendType ==
  ASSUME TypeOK, NEW c \in Conns, Send(c)
  PROVE  TypeOK'
<1>1. PICK f \in Frames :
        /\ conn' = [conn EXCEPT ![c] = [conn[c] EXCEPT !.wire = Append(@, f), !.sent = @ + 1]]
        /\ asked' = IF f.kind \in Asking THEN [asked EXCEPT ![c][f.id] = @ + 1] ELSE asked
  BY DEF Send
<1>2. conn[c] \in Connections /\ conn[c].wire \in Seq(Frames)
  BY DEF TypeOK, Connections
<1>3. Append(conn[c].wire, f) \in Seq(Frames)
  BY <1>2, AppendProperties
<1>4. [conn[c] EXCEPT !.wire = Append(@, f), !.sent = @ + 1] \in Connections
  <2> DEFINE w == Append(conn[c].wire, f)
  <2>1. conn[c].sent + 1 \in Nat
    BY <1>2 DEF Connections
  <2> HIDE DEF w
  <2>2. [conn[c] EXCEPT !.wire = w, !.sent = @ + 1] \in Connections
    BY <1>2, <1>3, <2>1 DEF Connections, w
  <2> QED BY <2>2 DEF w
<1>5. asked' \in [Conns -> [ReqIds -> Nat]]
  BY <1>1, FrameKinds DEF TypeOK
<1> QED BY <1>1, <1>4, <1>5 DEF TypeOK, Send

LEMMA OneReceived ==
  ASSUME TypeOK, NEW c \in Conns, conn[c].out > 0
  PROVE  conn[c].out - 1 \in 0..SocketCapacity
<1> DEFINE n == conn[c].out
<1>1. SocketCapacity \in Nat
  BY BridgeAssumption
<1>2. n \in 0..SocketCapacity
  BY DEF TypeOK, Connections
<1> HIDE DEF n
<1>3. n > 0 => n - 1 \in 0..SocketCapacity
  BY <1>1, <1>2
<1> QED BY <1>3 DEF n

LEMMA PeerType ==
  ASSUME TypeOK, NEW c \in Conns, PeerStep(c)
  PROVE  TypeOK'
<1>1. conn[c] \in Connections
  BY DEF TypeOK
<1>2. ASSUME Connect(c) PROVE TypeOK'
  <2>1. [conn[c] EXCEPT !.phase = "backlog"] \in Connections
    BY <1>1 DEF Connections
  <2> QED BY <1>2, <2>1 DEF TypeOK, Connect
<1>3. ASSUME Send(c) PROVE TypeOK'
  BY <1>3, SendType
<1>4. ASSUME Receive(c) PROVE TypeOK'
  <2>1. conn[c].out - 1 \in 0..SocketCapacity
    BY <1>4, OneReceived DEF Receive
  <2>2. [conn[c] EXCEPT !.out = @ - 1] \in Connections
    BY <1>1, <2>1 DEF Connections
  <2> QED BY <1>4, <2>2 DEF TypeOK, Receive
<1>5. ASSUME HangUp(c) PROVE TypeOK'
  <2>1. PICK w \in {conn[c].wire, <<>>} :
          conn' = [conn EXCEPT ![c] = [conn[c] EXCEPT !.hungup = TRUE, !.wire = w]]
    BY <1>5 DEF HangUp
  <2>2. w \in Seq(Frames)
    BY <1>1, EmptySeq DEF Connections
  <2>3. [conn[c] EXCEPT !.hungup = TRUE, !.wire = w] \in Connections
    BY <1>1, <2>2 DEF Connections
  <2> QED BY <1>5, <2>1, <2>3 DEF TypeOK, HangUp
<1> QED BY <1>2, <1>3, <1>4, <1>5 DEF PeerStep

LEMMA LapseType ==
  ASSUME TypeOK, NEW c \in Conns, NEW t \in Timeouts, Lapse(c, t)
  PROVE  TypeOK'
<1>1. conn[c] \in Connections
  BY DEF TypeOK
<1>2. conn[c].due \cup {t} \in SUBSET {"handshake", "idle", "write"}
  BY <1>1, BridgeAssumption DEF Connections
<1>3. [conn[c] EXCEPT !.due = @ \cup {t}] \in Connections
  BY <1>1, <1>2 DEF Connections
<1> QED BY <1>3 DEF TypeOK, Lapse

\* A piece of work whose deadline passes.
LEMMA PassDeadlineQueue ==
  ASSUME TypeOK, PassDeadline
  PROVE  /\ queue' \in Seq(Works)
         /\ Len(queue') = Len(queue)
         /\ \A j \in 1..Len(queue) :
              queue'[j].conn = queue[j].conn /\ queue'[j].id = queue[j].id
<1>1. PICK i \in 1..Len(queue) : queue' = [queue EXCEPT ![i].late = TRUE]
  BY DEF PassDeadline
<1>2. queue \in Seq(Works) /\ queue[i] \in Works
  BY ElementOfSeq DEF TypeOK
<1> DEFINE w == [queue[i] EXCEPT !.late = TRUE]
<1>3. w \in Works /\ w.conn = queue[i].conn /\ w.id = queue[i].id
  BY <1>2 DEF Works
<1>4. queue' = [queue EXCEPT ![i] = w]
  BY <1>1
<1> HIDE DEF w
<1>5. /\ queue' \in Seq(Works)
      /\ Len(queue') = Len(queue)
      /\ \A j \in 1..Len(queue) : queue'[j] = IF j = i THEN w ELSE queue[j]
  BY <1>2, <1>3, <1>4, ExceptSeq
<1> QED BY <1>3, <1>5

LEMMA ProcessType ==
  ASSUME TypeOK, Process
  PROVE  TypeOK'
<1> DEFINE work == Head(queue)
           h == Enqueue(conn[work.conn], work.id, TRUE)
<1>1. queue \in Seq(Works) /\ queue # <<>>
  BY DEF TypeOK, Process
<1>2. work \in Works /\ Tail(queue) \in Seq(Works)
  BY <1>1, HeadTailProperties
<1>3. work.conn \in Conns /\ work.id \in ReqIds /\ work.id # "none"
  BY <1>2, BridgeAssumption DEF Works
<1>4. conn[work.conn] \in Connections
  BY <1>3 DEF TypeOK
<1>5. h \in Connections
  BY <1>3, <1>4, EnqueueEffect
<1>6. /\ conn' = [conn EXCEPT ![work.conn] = h]
      /\ Told(work.conn, work.id, h)
      /\ ran' = IF conn[work.conn].phase = "open" /\ ~work.late
                THEN [ran EXCEPT ![work.conn][work.id] = @ + 1] ELSE ran
      /\ queue' = Tail(queue)
      /\ main' = [main EXCEPT !.n = @ + 1]
      /\ UNCHANGED <<running, asked>>
  BY DEF Process
<1> HIDE DEF work, h
<1>7. conn' \in [Conns -> Connections]
  BY <1>3, <1>5, <1>6, OneConnType
<1>8. told' \in [Conns -> [ReqIds -> Nat]]
  BY <1>3, <1>6, ToldType
<1>9. ran' \in [Conns -> [ReqIds -> Nat]]
  BY <1>3, <1>6, SMTT(30) DEF TypeOK
<1>10. main' \in MainStates
  BY <1>6, <1>3, MainType
<1> QED BY <1>2, <1>6, <1>7, <1>8, <1>9, <1>10 DEF TypeOK

LEMMA NextTypes == TypeOK /\ [Next]_vars => TypeOK'
<1> SUFFICES ASSUME TypeOK, [Next]_vars PROVE TypeOK'
  OBVIOUS
<1>1. ASSUME StartPoll PROVE TypeOK'
  BY <1>1 DEF TypeOK, StartPoll, MainStates, Idle
<1>2. ASSUME StartDrain PROVE TypeOK'
  BY <1>2 DEF TypeOK, StartDrain, MainStates, Idle
<1>3. ASSUME EndAccept PROVE TypeOK'
  BY <1>3 DEF TypeOK, EndAccept, MainStates, Idle, Clients
<1>4. ASSUME EndPoll PROVE TypeOK'
  BY <1>4 DEF TypeOK, EndPoll, MainStates, Idle
<1>5. ASSUME Process PROVE TypeOK'
  BY <1>5, ProcessType
<1>6. ASSUME EndDrain PROVE TypeOK'
  BY <1>6 DEF TypeOK, EndDrain, MainStates, Idle
<1>7. ASSUME NEW c \in Conns, Accept(c) PROVE TypeOK'
  <2>1. conn[c] \in Connections
    BY DEF TypeOK
  <2>2. Close(conn[c]) \in Connections
    BY <2>1, CloseEffect
  <2>3. [conn[c] EXCEPT !.phase = "open"] \in Connections
    BY <2>1 DEF Connections
  <2>4. conn' \in [Conns -> Connections]
    BY <1>7, <2>2, <2>3 DEF TypeOK, Accept
  <2>5. main' \in MainStates
    BY <1>7, MainType DEF TypeOK, Accept
  <2> QED BY <1>7, <2>4, <2>5 DEF TypeOK, Accept
<1>8. ASSUME NEW c \in Conns, Serve(c) PROVE TypeOK'
  <2>1. main.todo \in SUBSET Conns
    BY MainType
  <2>2. main' \in MainStates
    BY <1>8, <2>1 DEF Serve, MainStates, Idle
  <2> QED BY <1>8, <2>2 DEF TypeOK, Serve
<1>9. ASSUME NEW c \in Conns, ServeStep(c) PROVE TypeOK'
  BY <1>9, ServeType
<1>10. ASSUME Stop PROVE TypeOK'
  <2>1. \A c \in Conns : conn[c] \in Connections /\ Close(conn[c]) \in Connections
    BY CloseEffect DEF TypeOK
  <2> QED BY <1>10, <2>1 DEF TypeOK, Stop
<1>11. ASSUME NEW c \in Conns, PeerStep(c) PROVE TypeOK'
  BY <1>11, PeerType
<1>12. ASSUME PassDeadline PROVE TypeOK'
  BY <1>12, PassDeadlineQueue DEF TypeOK, PassDeadline
<1>13. ASSUME NEW c \in Conns, NEW t \in Timeouts, Lapse(c, t) PROVE TypeOK'
  BY <1>13, LapseType
<1>14. ASSUME UNCHANGED vars PROVE TypeOK'
  BY <1>14 DEF TypeOK, vars
<1> QED BY <1>1, <1>2, <1>3, <1>4, <1>5, <1>6, <1>7, <1>8, <1>9, <1>10, <1>11, <1>12, <1>13,
           <1>14 DEF Next, TickStep, TimeStep

(* Every state of the bridge has its type.                                 *)
THEOREM BridgeTypeCorrect == Spec => []TypeOK
BY InitTypes, NextTypes, PTL DEF Spec

-----------------------------------------------------------------------------
(* The invariant, connection by connection. *)

\* The accounts of the requests under one id.
Balanced(c, id) ==
  /\ conn[c].phase \in {"absent", "backlog"} => QueuedFor(c, id) = 0
  /\ conn[c].phase = "open" =>
       QueuedFor(c, id) + Releasing(c, id) = (IF id \in conn[c].outstanding THEN 1 ELSE 0)
  /\ conn[c].phase # "closed" =>
       /\ Unread(c, id) + QueuedFor(c, id) + told[c][id] <= asked[c][id]
       /\ ~conn[c].hungup =>
            asked[c][id] = Unread(c, id) + QueuedFor(c, id) + told[c][id]
       /\ ran[c][id] <= told[c][id]
  /\ ran[c][id] <= asked[c][id]

Settled(c) ==
  /\ Cardinality(conn[c].outstanding) <= MaxOutstanding
  /\ Len(conn[c].writes) <= MaxPendingWrites
  /\ conn[c].phase # "open" => conn[c].outstanding = {} /\ conn[c].writes = <<>>
  /\ \A id \in ReqIds : Balanced(c, id)

LEMMA InvParts ==
  BridgeInv <=> /\ TypeOK
                /\ Cardinality(Clients) <= MaxClients
                /\ Len(queue) <= QueueCapacity
                /\ \A c \in Conns : Settled(c)
<1>1. TypeOK => \A c \in Conns : conn[c].phase \in {"absent", "backlog", "open", "closed"}
  BY DEF TypeOK, Connections
<1> HIDE DEF TypeOK
<1>2. ASSUME BridgeInv
      PROVE  \A c \in Conns : Settled(c)
  <2>1. TypeOK
    BY <1>2 DEF BridgeInv
  <2>2. ASSUME NEW c \in Conns, NEW id \in ReqIds PROVE Balanced(c, id)
    <3>1. NothingHeld /\ SlotsAreInFlight /\ RequestsAreCounted /\ RunsAreAnswered
      BY <1>2 DEF BridgeInv
    <3> QED BY <3>1 DEF NothingHeld, SlotsAreInFlight, RequestsAreCounted, RunsAreAnswered,
                        Balanced
  <2> QED BY <1>2, <2>2 DEF BridgeInv, Settled, NothingHeld, WithinLimits
<1>3. ASSUME TypeOK, Cardinality(Clients) <= MaxClients, Len(queue) <= QueueCapacity,
             \A c \in Conns : Settled(c)
      PROVE  BridgeInv
  <2>1. \A c \in Conns, id \in ReqIds : Balanced(c, id)
    BY <1>3 DEF Settled
  <2>2. WithinLimits
    BY <1>3 DEF WithinLimits, Settled
  <2>3. NothingHeld
    BY <1>3, <2>1 DEF NothingHeld, Settled, Balanced
  <2>4. SlotsAreInFlight
    BY <2>1 DEF SlotsAreInFlight, Balanced
  <2>5. RequestsAreCounted
    BY <2>1 DEF RequestsAreCounted, Balanced
  <2>6. RunsAreAnswered
    BY <2>1 DEF RunsAreAnswered, Balanced
  <2> QED BY <1>3, <2>2, <2>3, <2>4, <2>5, <2>6 DEF BridgeInv
<1>4. BridgeInv => /\ TypeOK
                   /\ Cardinality(Clients) <= MaxClients
                   /\ Len(queue) <= QueueCapacity
  BY DEF BridgeInv, WithinLimits
<1> QED BY <1>2, <1>3, <1>4

LEMMA InvPartsPrimed ==
  ASSUME TypeOK', Cardinality(Clients') <= MaxClients, Len(queue') <= QueueCapacity,
         \A c \in Conns : Settled(c)'
  PROVE  BridgeInv'
<1>1. BridgeInv' <=> /\ TypeOK'
                     /\ (Cardinality(Clients) <= MaxClients)'
                     /\ (Len(queue) <= QueueCapacity)'
                     /\ (\A c \in Conns : Settled(c))'
  BY InvParts, PTL
<1> QED BY <1>1

LEMMA CountTypes ==
  ASSUME TypeOK, NEW c \in Conns, NEW id \in ReqIds
  PROVE  /\ Count(conn[c].wire, AskingFor(id)) \in Nat
         /\ Count(conn[c].buffer, AskingFor(id)) \in Nat
         /\ Unread(c, id) \in Nat
         /\ QueuedFor(c, id) \in Nat
         /\ Releasing(c, id) \in Nat
         /\ asked[c][id] \in Nat /\ told[c][id] \in Nat /\ ran[c][id] \in Nat
<1>1. conn[c].wire \in Seq(Frames) /\ conn[c].buffer \in Seq(Frames)
      /\ conn[c].writes \in Seq(Items) /\ queue \in Seq(Works)
  BY DEF TypeOK, Connections
<1>2. Count(conn[c].wire, AskingFor(id)) \in Nat /\ Count(conn[c].buffer, AskingFor(id)) \in Nat
  BY <1>1, CountType
<1>3. Unread(c, id) \in Nat
  BY <1>2 DEF Unread
<1>4. QueuedFor(c, id) \in Nat
  BY <1>1, CountType DEF QueuedFor
<1>5. Releasing(c, id) \in Nat
  BY <1>1, CountType DEF Releasing
<1>6. asked[c][id] \in Nat /\ told[c][id] \in Nat /\ ran[c][id] \in Nat
  BY DEF TypeOK
<1> QED BY <1>2, <1>3, <1>4, <1>5, <1>6

\* A connection a step leaves alone stays settled.
LEMMA Elsewhere ==
  ASSUME NEW c \in Conns, Settled(c),
         conn'[c] = conn[c], asked'[c] = asked[c], told'[c] = told[c], ran'[c] = ran[c],
         \A id \in ReqIds : QueuedFor(c, id)' = QueuedFor(c, id)
  PROVE  Settled(c)'
<1>1. \A id \in ReqIds : Unread(c, id)' = Unread(c, id) /\ Releasing(c, id)' = Releasing(c, id)
  BY DEF Unread, Releasing
<1>2. ASSUME NEW id \in ReqIds PROVE Balanced(c, id)'
  <2>1. Balanced(c, id)
    BY DEF Settled
  <2> QED BY <1>1, <2>1 DEF Balanced
<1> QED BY <1>2 DEF Settled

LEMMA ClientsShrink ==
  ASSUME Cardinality(Clients) <= MaxClients, Clients' \subseteq Clients
  PROVE  Cardinality(Clients') <= MaxClients
<1>1. IsFiniteSet(Clients)
  BY BridgeAssumption, FS_Subset DEF Clients
<1>2. Cardinality(Clients') <= Cardinality(Clients)
      /\ Cardinality(Clients') \in Nat /\ Cardinality(Clients) \in Nat
  BY <1>1, FS_Subset, FS_CardinalityType
<1> QED BY <1>2, BridgeAssumption

\* A step that changes one connection, which opens no new one.
LEMMA OneConnStep ==
  ASSUME BridgeInv, [Next]_vars, NEW c \in Conns,
         \A d \in Conns \ {c} :
           /\ conn'[d] = conn[d] /\ asked'[d] = asked[d]
           /\ told'[d] = told[d] /\ ran'[d] = ran[d]
           /\ \A id \in ReqIds : QueuedFor(d, id)' = QueuedFor(d, id),
         conn'[c].phase = "open" => conn[c].phase = "open",
         Len(queue') <= QueueCapacity,
         Settled(c)'
  PROVE  BridgeInv'
<1>1. TypeOK'
  BY NextTypes DEF BridgeInv
<1>2. \A d \in Conns : Settled(d)
  BY InvParts
<1>3. \A d \in Conns : Settled(d)'
  BY <1>2, Elsewhere
<1>4. Clients' \subseteq Clients
  BY DEF Clients
<1>5. Cardinality(Clients') <= MaxClients
  BY <1>4, ClientsShrink, InvParts
<1> QED BY <1>1, <1>3, <1>5, InvPartsPrimed

\* The connections are as they were, and so are the accounts.
LEMMA SameConnsStep ==
  ASSUME BridgeInv, [Next]_vars, UNCHANGED <<conn, asked, told, ran>>,
         \A d \in Conns, id \in ReqIds : QueuedFor(d, id)' = QueuedFor(d, id),
         Len(queue') = Len(queue)
  PROVE  BridgeInv'
<1>1. TypeOK'
  BY NextTypes DEF BridgeInv
<1>2. \A d \in Conns : Settled(d)'
  BY InvParts, Elsewhere
<1>3. Cardinality(Clients') <= MaxClients
  BY ClientsShrink, InvParts DEF Clients
<1>4. Len(queue') <= QueueCapacity
  BY InvParts
<1> QED BY <1>1, <1>2, <1>3, <1>4, InvPartsPrimed

LEMMA SameQueue ==
  ASSUME queue' = queue
  PROVE  \A d \in Conns, id \in ReqIds : QueuedFor(d, id)' = QueuedFor(d, id)
BY DEF QueuedFor

\* A connection is closed, nothing else.
LEMMA SettledClosed ==
  ASSUME NEW c \in Conns, Settled(c), TypeOK,
         conn'[c] = Close(conn[c]), asked'[c] = asked[c], ran'[c] = ran[c]
  PROVE  Settled(c)'
<1>1. Ended(conn'[c])
  BY CloseEffect DEF TypeOK, Ended
<1>2. Cardinality({}) = 0 /\ Len(<<>>) = 0 /\ MaxOutstanding \in Nat /\ MaxPendingWrites \in Nat
  BY FS_EmptySet, BridgeAssumption, EmptySeq
<1>3. \A id \in ReqIds : Balanced(c, id)'
  BY <1>1 DEF Settled, Balanced, Ended
<1> QED BY <1>1, <1>2, <1>3 DEF Settled, Ended

LEMMA CloseStep ==
  ASSUME BridgeInv, [Next]_vars, NEW c \in Conns,
         conn' = [conn EXCEPT ![c] = Close(@)], UNCHANGED <<queue, asked, told, ran>>
  PROVE  BridgeInv'
<1>1. TypeOK /\ Settled(c) /\ Len(queue') <= QueueCapacity
  BY InvParts
<1>2. /\ conn'[c] = Close(conn[c])
      /\ \A d \in Conns \ {c} : conn'[d] = conn[d]
      /\ conn'[c].phase # "open"
  BY <1>1, CloseEffect DEF TypeOK
<1>3. Settled(c)'
  BY <1>1, <1>2, SettledClosed
<1> QED BY <1>1, <1>2, <1>3, SameQueue, OneConnStep

\* The reading of a connection moves on; nothing is handled, answered or freed.
LEMMA QuietStep ==
  ASSUME BridgeInv, [Next]_vars, NEW c \in Conns, NEW k \in Connections,
         conn' = [conn EXCEPT ![c] = k], UNCHANGED <<queue, asked, told, ran>>,
         k.outstanding = conn[c].outstanding, k.writes = conn[c].writes,
         k.phase = conn[c].phase \/ (conn[c].phase = "absent" /\ k.phase = "backlog"),
         ~k.hungup => ~conn[c].hungup,
         \A id \in ReqIds :
           /\ Unread(c, id)' <= Unread(c, id)
           /\ ~k.hungup => Unread(c, id)' = Unread(c, id)
  PROVE  BridgeInv'
<1>1. TypeOK /\ Settled(c) /\ Len(queue') <= QueueCapacity /\ TypeOK'
  BY InvParts, NextTypes
<1>2. conn'[c] = k /\ \A d \in Conns \ {c} : conn'[d] = conn[d]
  BY <1>1 DEF TypeOK
<1>3. conn[c].phase \in {"absent", "backlog", "open", "closed"} /\ k.hungup \in BOOLEAN
      /\ conn[c].hungup \in BOOLEAN
  BY <1>1 DEF TypeOK, Connections
<1>4. ASSUME NEW id \in ReqIds PROVE Balanced(c, id)'
  <2>1. Balanced(c, id)
    BY <1>1 DEF Settled
  <2>2. QueuedFor(c, id)' = QueuedFor(c, id) /\ Releasing(c, id)' = Releasing(c, id)
    BY <1>2, SameQueue DEF Releasing
  <2>3. /\ Unread(c, id)' \in Nat /\ Unread(c, id) \in Nat /\ QueuedFor(c, id) \in Nat
        /\ asked[c][id] \in Nat /\ told[c][id] \in Nat
    <3>1. Unread(c, id)' \in Nat
      <4>1. conn'[c].wire \in Seq(Frames) /\ conn'[c].buffer \in Seq(Frames)
        BY <1>2 DEF Connections
      <4>2. Count(conn'[c].wire, AskingFor(id)) \in Nat
            /\ Count(conn'[c].buffer, AskingFor(id)) \in Nat
        BY <4>1, CountType
      <4> QED BY <4>2 DEF Unread
    <3> QED BY <1>1, <3>1, CountTypes
  <2> QED BY <1>2, <1>3, <2>1, <2>2, <2>3 DEF Balanced
<1>5. Settled(c)'
  BY <1>1, <1>2, <1>3, <1>4 DEF Settled
<1>6. conn'[c].phase = "open" => conn[c].phase = "open"
  BY <1>2
<1> QED BY <1>1, <1>2, <1>5, <1>6, SameQueue, OneConnStep

\* Steps that touch neither the frames nor the accounts of a connection.
LEMMA SameFramesStep ==
  ASSUME BridgeInv, [Next]_vars, NEW c \in Conns, NEW k \in Connections,
         conn' = [conn EXCEPT ![c] = k], UNCHANGED <<queue, asked, told, ran>>,
         k.outstanding = conn[c].outstanding, k.writes = conn[c].writes,
         k.phase = conn[c].phase \/ (conn[c].phase = "absent" /\ k.phase = "backlog"),
         k.hungup = conn[c].hungup, k.wire = conn[c].wire, k.buffer = conn[c].buffer
  PROVE  BridgeInv'
<1>1. TypeOK
  BY InvParts
<1>2. conn'[c] = k
  BY <1>1 DEF TypeOK
<1>3. \A id \in ReqIds : Unread(c, id)' = Unread(c, id) /\ Unread(c, id) \in Nat
  BY <1>1, <1>2, CountTypes DEF Unread
<1>4. \A id \in ReqIds : /\ Unread(c, id)' <= Unread(c, id)
                         /\ ~k.hungup => Unread(c, id)' = Unread(c, id)
  BY <1>3
<1>5. ~k.hungup => ~conn[c].hungup
  OBVIOUS
<1> QED BY <1>4, <1>5, QuietStep

-----------------------------------------------------------------------------
(* One lemma per action that moves the accounts. *)

LEMMA Members ==
  ASSUME NEW id
  PROVE  /\ \A f \in Frames : f \in AskingFor(id) <=> f.kind \in Asking /\ f.id = id
         /\ \A i \in Items : i \in [id : {id}, release : {TRUE}] <=> i.id = id /\ i.release
         /\ \A w \in Works : \A d : w \in [conn : {d}, id : {id}, late : BOOLEAN] <=>
                                  w.conn = d /\ w.id = id
<1>1. \A f \in Frames : f \in AskingFor(id) <=> f.kind \in Asking /\ f.id = id
  BY DEF Frames, AskingFor
<1>2. \A i \in Items : i \in [id : {id}, release : {TRUE}] <=> i.id = id /\ i.release
  BY DEF Items
<1>3. \A w \in Works : \A d : w \in [conn : {d}, id : {id}, late : BOOLEAN] <=>
                            w.conn = d /\ w.id = id
  BY DEF Works
<1> QED BY <1>1, <1>2, <1>3

LEMMA ReadChunkInv ==
  ASSUME BridgeInv, [Next]_vars, NEW c \in Conns, ReadChunk(c)
  PROVE  BridgeInv'
<1> DEFINE w == conn[c].wire
<1>1. TypeOK /\ conn[c] \in Connections /\ w \in Seq(Frames) /\ conn[c].buffer = <<>>
  BY InvParts DEF ReadChunk, TypeOK, Connections
<1>2. PICK i \in 1..Len(w) :
        conn' = [conn EXCEPT ![c] =
          [conn[c] EXCEPT !.buffer = SubSeq(w, 1, i), !.wire = SubSeq(w, i + 1, Len(w)),
                          !.due = @ \ {"idle"}]]
  BY DEF ReadChunk
<1> DEFINE a == SubSeq(w, 1, i)
           b == SubSeq(w, i + 1, Len(w))
           k == [conn[c] EXCEPT !.buffer = a, !.wire = b, !.due = @ \ {"idle"}]
<1>3. a \in Seq(Frames) /\ b \in Seq(Frames)
  BY <1>1, CountSplit
<1>4. conn' = [conn EXCEPT ![c] = k]
  BY <1>2
<1>5. \A S : Count(w, S) = Count(a, S) + Count(b, S)
  BY <1>1, CountSplit
<1> HIDE DEF a, b
<1>6. k \in Connections /\ k.outstanding = conn[c].outstanding /\ k.writes = conn[c].writes
      /\ k.phase = conn[c].phase /\ k.hungup = conn[c].hungup /\ k.wire = b /\ k.buffer = a
  BY <1>1, <1>3 DEF Connections
<1>7. ASSUME NEW id \in ReqIds
      PROVE  Unread(c, id)' = Unread(c, id) /\ Unread(c, id) \in Nat
  <2>1. /\ Count(w, AskingFor(id)) = Count(a, AskingFor(id)) + Count(b, AskingFor(id))
        /\ Count(conn[c].buffer, AskingFor(id)) = 0
    BY <1>1, <1>5, CountEmpty
  <2>2. /\ Count(a, AskingFor(id)) \in Nat /\ Count(b, AskingFor(id)) \in Nat
        /\ Unread(c, id) \in Nat
    BY <1>1, <1>3, CountType, CountTypes
  <2>3. conn'[c].wire = b /\ conn'[c].buffer = a
    BY <1>1, <1>4, <1>6 DEF TypeOK
  <2> QED BY <2>1, <2>2, <2>3 DEF Unread
<1> HIDE DEF k
<1>8. \A id \in ReqIds : /\ Unread(c, id)' <= Unread(c, id)
                         /\ ~k.hungup => Unread(c, id)' = Unread(c, id)
  BY <1>7
<1>9. UNCHANGED <<queue, asked, told, ran>>
  BY DEF ReadChunk
<1> QED BY <1>4, <1>6, <1>8, <1>9, QuietStep

LEMMA WriteFrameInv ==
  ASSUME BridgeInv, [Next]_vars, NEW c \in Conns, WriteFrame(c)
  PROVE  BridgeInv'
<1> DEFINE ws == conn[c].writes
           item == Head(ws)
           o == IF item.release THEN conn[c].outstanding \ {item.id} ELSE conn[c].outstanding
<1>1. TypeOK /\ TypeOK' /\ Settled(c) /\ conn[c] \in Connections
  BY InvParts, NextTypes DEF TypeOK
<1>2. ws \in Seq(Items) /\ ws # <<>> /\ conn[c].phase = "open"
  BY <1>1 DEF Connections, WriteFrame, Flushing, Settled
<1>3. item \in Items /\ Tail(ws) \in Seq(Items) /\ Len(Tail(ws)) = Len(ws) - 1 /\ Len(ws) \in Nat
  BY <1>2, HeadTailProperties, LenProperties
<1>4. /\ conn'[c].writes = Tail(ws)
      /\ conn'[c].outstanding = o
      /\ conn'[c].phase = "open"
      /\ conn'[c].wire = conn[c].wire /\ conn'[c].buffer = conn[c].buffer
      /\ conn'[c].hungup = conn[c].hungup
      /\ \A d \in Conns \ {c} : conn'[d] = conn[d]
      /\ UNCHANGED <<queue, asked, told, ran>>
  BY <1>1, <1>2 DEF WriteFrame, TypeOK, Connections
<1>5. Cardinality(o) <= MaxOutstanding
  <2>1. IsFiniteSet(conn[c].outstanding)
    BY <1>1, BridgeAssumption, FS_Subset DEF Connections
  <2>2. o \subseteq conn[c].outstanding
    OBVIOUS
  <2> HIDE DEF o
  <2>3. Cardinality(o) <= Cardinality(conn[c].outstanding)
        /\ Cardinality(o) \in Nat /\ Cardinality(conn[c].outstanding) \in Nat
    BY <2>1, <2>2, FS_Subset, FS_CardinalityType
  <2> QED BY <2>3, <1>1, BridgeAssumption DEF Settled
<1>6. ASSUME NEW id \in ReqIds PROVE Balanced(c, id)'
  <2>1. Balanced(c, id)
    BY <1>1 DEF Settled
  <2>2. QueuedFor(c, id)' = QueuedFor(c, id) /\ Unread(c, id)' = Unread(c, id)
    BY <1>4, SameQueue DEF Unread
  <2>3. Releasing(c, id) = Releasing(c, id)' + IF item.id = id /\ item.release THEN 1 ELSE 0
    <3> DEFINE S == [id : {id}, release : {TRUE}]
    <3>1. Count(ws, S) = (IF item \in S THEN 1 ELSE 0) + Count(Tail(ws), S)
      BY <1>2, CountHead, Zenon
    <3>2. item \in S <=> item.id = id /\ item.release
      BY <1>3, Members
    <3>3. Releasing(c, id) = Count(ws, S) /\ Releasing(c, id)' = Count(Tail(ws), S)
      BY <1>4 DEF Releasing
    <3>4. Count(Tail(ws), S) \in Nat
      BY <1>3, CountType
    <3> HIDE DEF item, ws, S
    <3>5. (IF item.id = id /\ item.release THEN 1 ELSE 0) = (IF item \in S THEN 1 ELSE 0)
      BY <3>2, Zenon
    <3> QED BY <3>1, <3>3, <3>4, <3>5
  <2>4. id \in o <=> id \in conn[c].outstanding /\ ~(item.id = id /\ item.release)
    BY <1>3 DEF Items
  <2>5. Releasing(c, id)' \in Nat /\ QueuedFor(c, id) \in Nat
    <3>1. Releasing(c, id)' \in Nat
      BY <1>3, <1>4, CountType DEF Releasing
    <3> QED BY <3>1, <1>1, CountTypes
  <2> HIDE DEF o, item, ws
  <2> QED BY <1>2, <1>4, <2>1, <2>2, <2>3, <2>4, <2>5 DEF Balanced
<1> HIDE DEF o, item
<1>7. Settled(c)'
  BY <1>1, <1>3, <1>4, <1>5, <1>6, BridgeAssumption DEF Settled
<1>8. Len(queue') <= QueueCapacity
  BY <1>4, InvParts
<1> QED BY <1>2, <1>4, <1>7, <1>8, SameQueue, OneConnStep

\* What an answer or a new piece of work adds to the accounts.
LEMMA QueueAppend ==
  ASSUME TypeOK, NEW w \in Works, queue' = Append(queue, w), NEW d \in Conns, NEW id \in ReqIds
  PROVE  QueuedFor(d, id)' = QueuedFor(d, id) + IF w.conn = d /\ w.id = id THEN 1 ELSE 0
<1> DEFINE S == [conn : {d}, id : {id}, late : BOOLEAN]
<1>1. Count(Append(queue, w), S) = Count(queue, S) + IF w \in S THEN 1 ELSE 0
  <2>1. queue \in Seq(Works)
    BY DEF TypeOK
  <2> HIDE DEF S
  <2> QED BY <2>1, CountAppend
<1>2. w \in S <=> w.conn = d /\ w.id = id
  BY Members
<1>3. QueuedFor(d, id)' = Count(Append(queue, w), S) /\ QueuedFor(d, id) = Count(queue, S)
  BY DEF QueuedFor
<1> HIDE DEF S
<1>4. (IF w.conn = d /\ w.id = id THEN 1 ELSE 0) = (IF w \in S THEN 1 ELSE 0)
  BY <1>2, Zenon
<1> QED BY <1>1, <1>3, <1>4

LEMMA QueueTail ==
  ASSUME TypeOK, queue # <<>>, queue' = Tail(queue), NEW d \in Conns, NEW id \in ReqIds
  PROVE  /\ QueuedFor(d, id)' \in Nat
         /\ QueuedFor(d, id) = QueuedFor(d, id)'
              + IF Head(queue).conn = d /\ Head(queue).id = id THEN 1 ELSE 0
<1> DEFINE S == [conn : {d}, id : {id}, late : BOOLEAN]
           w == Head(queue)
<1>1. queue \in Seq(Works) /\ w \in Works /\ Tail(queue) \in Seq(Works)
  BY HeadTailProperties DEF TypeOK
<1>2. Count(queue, S) = (IF w \in S THEN 1 ELSE 0) + Count(Tail(queue), S)
  BY <1>1, CountHead, Zenon
<1>3. w \in S <=> w.conn = d /\ w.id = id
  BY <1>1, Members
<1>4. QueuedFor(d, id)' = Count(Tail(queue), S) /\ QueuedFor(d, id) = Count(queue, S)
  BY DEF QueuedFor
<1>5. Count(Tail(queue), S) \in Nat
  BY <1>1, CountType
<1> HIDE DEF S, w
<1>6. (IF w.conn = d /\ w.id = id THEN 1 ELSE 0) = (IF w \in S THEN 1 ELSE 0)
  BY <1>3, Zenon
<1> QED BY <1>2, <1>4, <1>5, <1>6 DEF w

LEMMA AnswerAppend ==
  ASSUME TypeOK, NEW c \in Conns, NEW id \in ReqIds, NEW i \in ReqIds \cup {"none"},
         NEW release \in BOOLEAN, i = "none" => ~release,
         conn'[c].writes = Append(conn[c].writes, [id |-> i, release |-> release])
  PROVE  /\ Releasing(c, id)' = Releasing(c, id) + IF i = id /\ release THEN 1 ELSE 0
         /\ Len(conn'[c].writes) = Len(conn[c].writes) + 1
<1> DEFINE S == [id : {id}, release : {TRUE}]
           item == [id |-> i, release |-> release]
<1>1. item \in Items
  BY DEF Items
<1>2. conn[c].writes \in Seq(Items)
  BY DEF TypeOK, Connections
<1>3. item \in S <=> i = id /\ release
  BY <1>1, Members
<1>4. conn'[c].writes = Append(conn[c].writes, item)
  OBVIOUS
<1> HIDE DEF item
<1>5. Count(Append(conn[c].writes, item), S) =
        Count(conn[c].writes, S) + IF item \in S THEN 1 ELSE 0
  BY <1>1, <1>2, CountAppend, ZenonT(40)
<1>6. Releasing(c, id)' = Count(Append(conn[c].writes, item), S)
      /\ Releasing(c, id) = Count(conn[c].writes, S)
  BY <1>4 DEF Releasing
<1>7. Len(conn'[c].writes) = Len(conn[c].writes) + 1
  BY <1>1, <1>2, <1>4, AppendProperties
<1> HIDE DEF S
<1>8. (IF i = id /\ release THEN 1 ELSE 0) = (IF item \in S THEN 1 ELSE 0)
  BY <1>3, Zenon
<1> QED BY <1>5, <1>6, <1>7, <1>8

\* Told, by whether the write queue grew.
LEMMA ToldEffect ==
  ASSUME TypeOK, NEW c \in Conns, NEW i \in ReqIds \cup {"none"}, NEW k, Told(c, i, k)
  PROVE  /\ \A d \in Conns \ {c} : told'[d] = told[d]
         /\ \A id \in ReqIds :
              told'[c][id] = told[c][id]
                + IF i = id /\ Len(k.writes) > Len(conn[c].writes) THEN 1 ELSE 0
<1>1. "none" \notin ReqIds
  BY BridgeAssumption
<1>2. told \in [Conns -> [ReqIds -> Nat]]
  BY DEF TypeOK
<1> DEFINE grew == Len(k.writes) > Len(conn[c].writes)
<1>3. told' = IF i # "none" /\ grew THEN [told EXCEPT ![c][i] = @ + 1] ELSE told
  BY DEF Told
<1> HIDE DEF grew
<1>4. \A d \in Conns \ {c} : told'[d] = told[d]
  BY <1>2, <1>3
<1>5. ASSUME NEW id \in ReqIds
      PROVE  told'[c][id] = told[c][id] + IF i = id /\ grew THEN 1 ELSE 0
  BY <1>1, <1>2, <1>3
<1> QED BY <1>4, <1>5 DEF grew

\* A closed connection is settled if its runs were asked for.
LEMMA EndedSettled ==
  ASSUME NEW c \in Conns, Ended(conn'[c]),
         \A id \in ReqIds : ran'[c][id] <= asked'[c][id]
  PROVE  Settled(c)'
<1>1. Cardinality({}) = 0 /\ Len(<<>>) = 0 /\ MaxOutstanding \in Nat /\ MaxPendingWrites \in Nat
  BY FS_EmptySet, BridgeAssumption, EmptySeq
<1>2. \A id \in ReqIds : Balanced(c, id)'
  BY DEF Balanced, Ended
<1> QED BY <1>1, <1>2 DEF Settled, Ended

LEMMA HandleFrameInv ==
  ASSUME BridgeInv, [Next]_vars, NEW c \in Conns, HandleFrame(c)
  PROVE  BridgeInv'
<1> DEFINE f == Head(conn[c].buffer)
           k == [conn[c] EXCEPT !.buffer = Tail(@)]
           h == HandleMessage(k, f)
           work == [conn |-> c, id |-> f.id, late |-> FALSE]
           taken == k.state = "ready" /\ Accepted(k, f)
<1>1. /\ TypeOK /\ TypeOK' /\ Settled(c)
      /\ conn[c] \in Connections /\ conn[c].buffer \in Seq(Frames) /\ conn[c].buffer # <<>>
      /\ conn[c].phase = "open"
  BY InvParts, NextTypes DEF TypeOK, HandleFrame, Connections, Reading
<1>2. f \in Frames /\ Tail(conn[c].buffer) \in Seq(Frames)
  BY <1>1, HeadTailProperties
<1>3. /\ k \in Connections /\ k.phase = "open" /\ k.hungup = conn[c].hungup
      /\ k.wire = conn[c].wire /\ k.buffer = Tail(conn[c].buffer)
      /\ k.outstanding = conn[c].outstanding /\ k.writes = conn[c].writes
      /\ conn[c].hungup \in BOOLEAN
  BY <1>1, <1>2 DEF Connections
<1>4. /\ conn' = [conn EXCEPT ![c] = h]
      /\ queue' = IF taken THEN Append(queue, work) ELSE queue
      /\ Told(c, f.id, h)
      /\ UNCHANGED <<asked, ran>>
  BY DEF HandleFrame
<1>5. conn'[c] = h /\ \A d \in Conns \ {c} : conn'[d] = conn[d]
  BY <1>1, <1>4 DEF TypeOK
<1>6. /\ f.kind \in Asking => f.id \in ReqIds
      /\ f.kind \notin Asking => f.id = "none"
      /\ f.id \in ReqIds \cup {"none"}
      /\ "none" \notin ReqIds
      /\ taken => f.kind \in Asking /\ ~Refused(k, f) /\ Len(queue) < QueueCapacity
  BY <1>2, FrameKinds, BridgeAssumption DEF Accepted, Asking
<1>7. taken => h.phase = "open"
  <2> HIDE DEF f, k
  <2>1. taken => h = Reserve(k, f.id)
    BY <1>2, <1>3, HandleMessageCases
  <2>2. taken => Reserve(k, f.id).phase = k.phase
    BY <1>3, <1>6, ReserveEffect
  <2> HIDE DEF h, taken
  <2> QED BY <2>1, <2>2, <1>3
<1>8. /\ h \in Connections
      /\ \/ Ended(h)
         \/ /\ Continues(k, h)
            /\ \/ /\ f.kind \notin Asking /\ k.state # "ready"
                  /\ h.outstanding = k.outstanding
                  /\ Answered(k, h, "none", FALSE)
               \/ /\ f.kind \in Asking /\ k.state = "ready" /\ Refused(k, f)
                  /\ h.outstanding = k.outstanding
                  /\ Answered(k, h, f.id, FALSE)
               \/ /\ taken
                  /\ h.outstanding = k.outstanding \cup {f.id}
                  /\ h.writes = k.writes
               \/ /\ f.kind \in Asking /\ k.state = "ready"
                  /\ ~Refused(k, f) /\ ~taken
                  /\ h.outstanding = k.outstanding \cup {f.id}
                  /\ Answered(k, h, f.id, TRUE)
  BY <1>2, <1>3, HandleMessageEffect
<1>9. \A id \in ReqIds :
        Unread(c, id) = (IF f.kind \in Asking /\ f.id = id THEN 1 ELSE 0)
          + Count(k.wire, AskingFor(id)) + Count(k.buffer, AskingFor(id))
        /\ Count(k.wire, AskingFor(id)) \in Nat /\ Count(k.buffer, AskingFor(id)) \in Nat
  <2> SUFFICES ASSUME NEW id \in ReqIds
               PROVE  Unread(c, id) = (IF f.kind \in Asking /\ f.id = id THEN 1 ELSE 0)
                        + Count(k.wire, AskingFor(id)) + Count(k.buffer, AskingFor(id))
                      /\ Count(k.wire, AskingFor(id)) \in Nat
                      /\ Count(k.buffer, AskingFor(id)) \in Nat
    OBVIOUS
  <2> DEFINE S == AskingFor(id)
  <2>1. Count(conn[c].buffer, S) = (IF f \in S THEN 1 ELSE 0) + Count(k.buffer, S)
    BY <1>1, <1>3, CountHead
  <2>2. f \in S <=> f.kind \in Asking /\ f.id = id
    BY <1>2, Members
  <2>3. Count(k.wire, S) \in Nat /\ Count(k.buffer, S) \in Nat
    BY <1>3, CountType DEF Connections
  <2>4. Unread(c, id) = Count(k.wire, S) + Count(conn[c].buffer, S)
    BY <1>3 DEF Unread
  <2> HIDE DEF S, f, k
  <2>5. (IF f \in S THEN 1 ELSE 0) = (IF f.kind \in Asking /\ f.id = id THEN 1 ELSE 0)
    BY <2>2, Zenon
  <2> QED BY <2>1, <2>3, <2>4, <2>5 DEF S
<1>10. \A d \in Conns, id \in ReqIds :
         QueuedFor(d, id)' =
           QueuedFor(d, id) + IF taken /\ d = c /\ f.id = id THEN 1 ELSE 0
  <2>1. CASE taken
    <3>1. work \in Works /\ work.conn = c /\ work.id = f.id
      BY <1>6, <2>1 DEF Works
    <3>2. queue' = Append(queue, work)
      BY <1>4, <2>1
    <3> HIDE DEF work, taken
    <3> QED BY <1>1, <2>1, <3>1, <3>2, QueueAppend
  <2>2. CASE ~taken
    <3> HIDE DEF taken
    <3> QED BY <1>1, <1>4, <2>2, SameQueue, CountTypes
  <2> QED BY <2>1, <2>2
<1>11. /\ \A d \in Conns \ {c} : told'[d] = told[d]
       /\ \A id \in ReqIds :
            told'[c][id] = told[c][id]
              + IF f.id = id /\ Len(h.writes) > Len(conn[c].writes) THEN 1 ELSE 0
  BY <1>1, <1>4, <1>6, ToldEffect
<1>12. Len(queue') <= QueueCapacity
  <2>1. queue \in Seq(Works) /\ Len(queue) \in Nat /\ QueueCapacity \in Nat
        /\ Len(queue) <= QueueCapacity
    BY <1>1, BridgeAssumption, InvParts, LenProperties DEF TypeOK
  <2>2. taken => work \in Works
    BY <1>6 DEF Works
  <2>3. taken => Len(queue') = Len(queue) + 1
    BY <1>4, <2>1, <2>2, AppendProperties
  <2> QED BY <1>4, <1>6, <2>1, <2>3
<1>13. \A id \in ReqIds : Balanced(c, id)
  BY <1>1 DEF Settled
<1>14. Len(conn[c].writes) \in Nat /\ MaxPendingWrites \in Nat /\ MaxOutstanding \in Nat
       /\ Len(conn[c].writes) <= MaxPendingWrites
       /\ Cardinality(conn[c].outstanding) <= MaxOutstanding
       /\ IsFiniteSet(conn[c].outstanding) /\ Cardinality(conn[c].outstanding) \in Nat
  BY <1>1, BridgeAssumption, LenProperties, FS_Subset, FS_CardinalityType
     DEF Connections, Settled
<1> HIDE DEF f, k, h, work, taken
<1>15. CASE Ended(h)
  <2>1. \A id \in ReqIds : ran'[c][id] <= asked'[c][id]
    BY <1>4, <1>13 DEF Balanced
  <2>2. ~taken /\ conn'[c].phase # "open"
    BY <1>5, <1>7, <1>15 DEF Ended
  <2>3. Settled(c)'
    BY <1>5, <1>15, <2>1, EndedSettled
  <2>4. \A d \in Conns, id \in ReqIds : QueuedFor(d, id)' = QueuedFor(d, id)
    BY <1>1, <1>10, <2>2, CountTypes
  <2> QED BY <1>4, <1>5, <1>11, <1>12, <2>2, <2>3, <2>4, OneConnStep
<1>16. CASE Continues(k, h)
  <2>1. /\ conn'[c].phase = "open" /\ conn'[c].hungup = conn[c].hungup
        /\ conn'[c].wire = k.wire /\ conn'[c].buffer = k.buffer
        /\ conn'[c].outstanding = h.outstanding /\ conn'[c].writes = h.writes
    BY <1>3, <1>5, <1>16 DEF Continues
  <2>2. \A id \in ReqIds :
          /\ Unread(c, id) = Unread(c, id)' + IF f.kind \in Asking /\ f.id = id THEN 1 ELSE 0
          /\ Unread(c, id)' \in Nat
    BY <1>9, <2>1 DEF Unread
  <2>3. \A d \in Conns \ {c}, id \in ReqIds : QueuedFor(d, id)' = QueuedFor(d, id)
    BY <1>1, <1>10, CountTypes
  <2>4. Settled(c)'
    <3>1. \A id \in ReqIds :
            /\ Unread(c, id)' \in Nat /\ QueuedFor(c, id) \in Nat /\ Releasing(c, id) \in Nat
            /\ asked[c][id] \in Nat /\ told[c][id] \in Nat /\ ran[c][id] \in Nat
      BY <1>1, <2>2, CountTypes
    <3>2. \A id \in ReqIds :
            /\ QueuedFor(c, id)' = QueuedFor(c, id) + IF taken /\ f.id = id THEN 1 ELSE 0
            /\ asked'[c][id] = asked[c][id] /\ ran'[c][id] = ran[c][id]
      BY <1>4, <1>10
    <3>3. ASSUME NEW i \in ReqIds \cup {"none"}, NEW release \in BOOLEAN, i = "none" => ~release,
                 Answered(k, h, i, release)
          PROVE  /\ Len(h.writes) = Len(conn[c].writes) + 1
                 /\ Len(h.writes) <= MaxPendingWrites
                 /\ \A id \in ReqIds :
                      Releasing(c, id)' = Releasing(c, id) + IF i = id /\ release THEN 1 ELSE 0
      <4>1. conn'[c].writes = Append(conn[c].writes, [id |-> i, release |-> release])
            /\ Len(conn[c].writes) < MaxPendingWrites
        BY <1>3, <2>1, <3>3 DEF Answered
      <4>2. /\ Len(conn'[c].writes) = Len(conn[c].writes) + 1
            /\ \A id \in ReqIds :
                 Releasing(c, id)' = Releasing(c, id) + IF i = id /\ release THEN 1 ELSE 0
        BY <1>1, <3>3, <4>1, AnswerAppend
      <4> QED BY <1>14, <2>1, <4>1, <4>2
    <3>4. ASSUME ~Refused(k, f), f.kind \in Asking, h.outstanding = k.outstanding \cup {f.id}
          PROVE  /\ f.id \notin conn[c].outstanding
                 /\ Cardinality(conn'[c].outstanding) <= MaxOutstanding
                 /\ \A id \in ReqIds :
                      id \in conn'[c].outstanding <=> id = f.id \/ id \in conn[c].outstanding
      <4>1. f.id \notin conn[c].outstanding
            /\ ~(Cardinality(conn[c].outstanding) >= MaxOutstanding)
        BY <1>3, <3>4 DEF Refused
      <4>2. Cardinality(conn[c].outstanding \cup {f.id}) = Cardinality(conn[c].outstanding) + 1
        BY <1>14, <4>1, FS_AddElement
      <4>3. conn'[c].outstanding = conn[c].outstanding \cup {f.id}
        BY <1>3, <2>1, <3>4
      <4> QED BY <1>14, <4>1, <4>2, <4>3
    <3>5. CASE /\ f.kind \notin Asking /\ k.state # "ready"
               /\ h.outstanding = k.outstanding
               /\ Answered(k, h, "none", FALSE)
      <4>4. /\ Len(h.writes) <= MaxPendingWrites
            /\ \A id \in ReqIds :
                 Releasing(c, id)' = Releasing(c, id) + IF "none" = id /\ FALSE THEN 1 ELSE 0
        BY <3>3, <3>5
      <4>1. /\ Len(h.writes) <= MaxPendingWrites
            /\ \A id \in ReqIds : Releasing(c, id)' = Releasing(c, id)
        BY <3>1, <4>4
      <4>2. ~taken /\ f.id \notin ReqIds /\ conn'[c].outstanding = conn[c].outstanding
        BY <1>3, <1>6, <2>1, <3>5
      <4>3. ASSUME NEW id \in ReqIds PROVE Balanced(c, id)'
        <5>1. Unread(c, id)' = Unread(c, id) /\ QueuedFor(c, id)' = QueuedFor(c, id)
              /\ told'[c][id] = told[c][id]
          BY <1>11, <2>2, <3>1, <3>2, <3>5, <4>2
        <5>2. Balanced(c, id)
          BY <1>13
        <5> QED BY <1>1, <2>1, <3>2, <4>1, <4>2, <5>1, <5>2 DEF Balanced
      <4> QED BY <1>14, <2>1, <4>1, <4>2, <4>3 DEF Settled
    <3>6. CASE /\ f.kind \in Asking /\ k.state = "ready" /\ Refused(k, f)
               /\ h.outstanding = k.outstanding
               /\ Answered(k, h, f.id, FALSE)
      <4>4. /\ Len(h.writes) <= MaxPendingWrites /\ Len(h.writes) = Len(conn[c].writes) + 1
            /\ \A id \in ReqIds :
                 Releasing(c, id)' = Releasing(c, id) + IF f.id = id /\ FALSE THEN 1 ELSE 0
        BY <1>6, <3>3, <3>6
      <4>1. /\ Len(h.writes) <= MaxPendingWrites /\ Len(h.writes) = Len(conn[c].writes) + 1
            /\ \A id \in ReqIds : Releasing(c, id)' = Releasing(c, id)
        BY <3>1, <4>4
      <4>2. ~taken /\ conn'[c].outstanding = conn[c].outstanding
        BY <1>3, <1>6, <2>1, <3>6
      <4>3. ASSUME NEW id \in ReqIds PROVE Balanced(c, id)'
        <5>1. /\ QueuedFor(c, id)' = QueuedFor(c, id)
              /\ Unread(c, id) = Unread(c, id)' + IF f.id = id THEN 1 ELSE 0
              /\ told'[c][id] = told[c][id] + IF f.id = id THEN 1 ELSE 0
          BY <1>11, <1>14, <2>2, <3>1, <3>2, <3>6, <4>1, <4>2
        <5>2. Balanced(c, id)
          BY <1>13
        <5> QED BY <1>1, <2>1, <3>1, <3>2, <4>1, <4>2, <5>1, <5>2, SMTT(30) DEF Balanced
      <4> QED BY <1>14, <2>1, <4>1, <4>2, <4>3 DEF Settled
    <3>7. CASE /\ taken
               /\ h.outstanding = k.outstanding \cup {f.id}
               /\ h.writes = k.writes
      <4>1. /\ f.id \notin conn[c].outstanding
            /\ Cardinality(conn'[c].outstanding) <= MaxOutstanding
            /\ \A id \in ReqIds :
                 id \in conn'[c].outstanding <=> id = f.id \/ id \in conn[c].outstanding
        BY <1>6, <3>4, <3>7
      <4>2. conn'[c].writes = conn[c].writes
        BY <1>3, <2>1, <3>7
      <4>3. ASSUME NEW id \in ReqIds PROVE Balanced(c, id)'
        <5>1. /\ QueuedFor(c, id)' = QueuedFor(c, id) + IF f.id = id THEN 1 ELSE 0
              /\ Unread(c, id) = Unread(c, id)' + IF f.id = id THEN 1 ELSE 0
              /\ told'[c][id] = told[c][id]
              /\ Releasing(c, id)' = Releasing(c, id)
          <6>1. Releasing(c, id)' = Releasing(c, id)
            BY <4>2 DEF Releasing
          <6>2. h.writes = conn[c].writes
            BY <1>3, <3>7
          <6> QED BY <1>6, <1>11, <1>14, <2>2, <3>1, <3>2, <3>7, <6>1, <6>2, SMTT(30)
        <5>2. Balanced(c, id)
          BY <1>13
        <5>3. QueuedFor(c, id) + Releasing(c, id) = IF id \in conn[c].outstanding THEN 1 ELSE 0
          BY <1>1, <5>2 DEF Balanced
        <5>4. QueuedFor(c, id)' + Releasing(c, id)' =
                IF id \in conn'[c].outstanding THEN 1 ELSE 0
          <6>1. CASE id = f.id
            BY <6>1, <3>1, <4>1, <5>1, <5>3
          <6>2. CASE id # f.id
            BY <6>2, <3>1, <4>1, <5>1, <5>3
          <6> QED BY <6>1, <6>2
        <5> QED BY <1>1, <2>1, <3>1, <3>2, <5>1, <5>2, <5>4 DEF Balanced
      <4> QED BY <1>14, <2>1, <4>1, <4>2, <4>3 DEF Settled
    <3>8. CASE /\ f.kind \in Asking /\ k.state = "ready"
               /\ ~Refused(k, f) /\ ~taken
               /\ h.outstanding = k.outstanding \cup {f.id}
               /\ Answered(k, h, f.id, TRUE)
      <4>1. /\ f.id \notin conn[c].outstanding
            /\ Cardinality(conn'[c].outstanding) <= MaxOutstanding
            /\ \A id \in ReqIds :
                 id \in conn'[c].outstanding <=> id = f.id \/ id \in conn[c].outstanding
        BY <3>4, <3>8
      <4>2. /\ Len(h.writes) <= MaxPendingWrites /\ Len(h.writes) = Len(conn[c].writes) + 1
            /\ \A id \in ReqIds :
                 Releasing(c, id)' = Releasing(c, id) + IF f.id = id THEN 1 ELSE 0
        BY <1>6, <3>3, <3>8
      <4>3. ASSUME NEW id \in ReqIds PROVE Balanced(c, id)'
        <5>1. /\ QueuedFor(c, id)' = QueuedFor(c, id)
              /\ Unread(c, id) = Unread(c, id)' + IF f.id = id THEN 1 ELSE 0
              /\ told'[c][id] = told[c][id] + IF f.id = id THEN 1 ELSE 0
          BY <1>11, <1>14, <2>2, <3>1, <3>2, <3>8, <4>2, SMTT(30)
        <5>2. Balanced(c, id)
          BY <1>13
        <5>3. QueuedFor(c, id) + Releasing(c, id) = IF id \in conn[c].outstanding THEN 1 ELSE 0
          BY <1>1, <5>2 DEF Balanced
        <5>4. QueuedFor(c, id)' + Releasing(c, id)' =
                IF id \in conn'[c].outstanding THEN 1 ELSE 0
          <6>1. CASE id = f.id
            BY <6>1, <3>1, <4>1, <4>2, <5>1, <5>3, SMTT(30)
          <6>2. CASE id # f.id
            BY <6>2, <3>1, <4>1, <4>2, <5>1, <5>3, SMTT(30)
          <6> QED BY <6>1, <6>2
        <5> QED BY <1>1, <2>1, <3>1, <3>2, <5>1, <5>2, <5>4 DEF Balanced
      <4> QED BY <1>14, <2>1, <4>1, <4>2, <4>3 DEF Settled
    <3>9. h.phase # "closed"
      BY <1>16 DEF Continues
    <3> QED BY <1>8, <3>5, <3>6, <3>7, <3>8, <3>9 DEF Ended
  <2> QED BY <1>4, <1>5, <1>11, <1>12, <2>1, <2>3, <2>4, <1>1, OneConnStep
<1> QED BY <1>8, <1>15, <1>16

LEMMA ProcessInv ==
  ASSUME BridgeInv, [Next]_vars, Process
  PROVE  BridgeInv'
<1>1. TypeOK /\ TypeOK' /\ queue \in Seq(Works) /\ queue # <<>>
  BY InvParts, NextTypes DEF TypeOK, Process
<1>2. PICK work \in Works : work = Head(queue)
  BY <1>1, HeadTailProperties
<1> DEFINE c == work.conn
           i == work.id
<1>3. c \in Conns /\ i \in ReqIds /\ i # "none" /\ i \in ReqIds \cup {"none"}
  BY <1>2, BridgeAssumption DEF Works
<1>3a. PICK h : h = Enqueue(conn[c], i, TRUE)
  OBVIOUS
<1>4. /\ conn' = [conn EXCEPT ![c] = h]
      /\ Told(c, i, h)
      /\ ran' = IF conn[c].phase = "open" /\ ~work.late
                THEN [ran EXCEPT ![c][i] = @ + 1] ELSE ran
      /\ queue' = Tail(queue)
      /\ asked' = asked
  BY <1>2, <1>3a DEF Process
<1>5. conn[c] \in Connections /\ Settled(c)
  BY <1>1, <1>3, InvParts DEF TypeOK
<1>5a. Head(queue).conn = c /\ Head(queue).id = i
  BY <1>2
<1> HIDE DEF c, i
<1>6. conn'[c] = h /\ \A d \in Conns \ {c} : conn'[d] = conn[d]
  BY <1>1, <1>3, <1>4 DEF TypeOK
<1>7. \A d \in Conns, id \in ReqIds :
        /\ QueuedFor(d, id)' \in Nat
        /\ QueuedFor(d, id) = QueuedFor(d, id)' + IF c = d /\ i = id THEN 1 ELSE 0
  BY <1>1, <1>4, <1>5a, QueueTail
<1>8. /\ \A d \in Conns \ {c} : told'[d] = told[d]
      /\ \A id \in ReqIds :
           told'[c][id] = told[c][id]
             + IF i = id /\ Len(h.writes) > Len(conn[c].writes) THEN 1 ELSE 0
  BY <1>1, <1>3, <1>4, ToldEffect
<1>9. /\ \A d \in Conns \ {c} : ran'[d] = ran[d]
      /\ \A id \in ReqIds :
           /\ ran'[c][id] = ran[c][id]
                \/ (i = id /\ conn[c].phase = "open" /\ ran'[c][id] = ran[c][id] + 1)
           /\ ran[c][id] \in Nat
  BY <1>1, <1>3, <1>4 DEF TypeOK
<1>10. Len(queue') <= QueueCapacity
  <2>1. Len(queue') = Len(queue) - 1 /\ Len(queue) \in Nat /\ Len(queue) <= QueueCapacity
    BY <1>1, <1>4, HeadTailProperties, LenProperties, InvParts
  <2> QED BY <2>1, BridgeAssumption
<1>11. \A id \in ReqIds : Balanced(c, id)
  BY <1>5 DEF Settled
<1>12. \A id \in ReqIds :
         /\ Unread(c, id) \in Nat /\ QueuedFor(c, id) \in Nat /\ Releasing(c, id) \in Nat
         /\ asked[c][id] \in Nat /\ told[c][id] \in Nat
  BY <1>1, <1>3, CountTypes
<1>13. \A d \in Conns \ {c}, id \in ReqIds : QueuedFor(d, id)' = QueuedFor(d, id)
  BY <1>1, <1>7, CountTypes
<1>14. conn[c].phase \in {"absent", "backlog", "open", "closed"}
       /\ Len(conn[c].writes) \in Nat /\ Len(conn[c].writes) <= MaxPendingWrites
       /\ MaxPendingWrites \in Nat
  BY <1>5, BridgeAssumption, LenProperties DEF Connections, Settled
<1>15. conn[c].phase \in {"open", "closed"}
  BY <1>3, <1>7, <1>11, <1>14 DEF Balanced
<1>16. CASE conn[c].phase = "closed"
  <2>1. h = conn[c]
    BY <1>3, <1>5, <1>16, <1>3a, EnqueueEffect
  <2>2. Ended(conn'[c])
    BY <1>5, <1>6, <1>16, <2>1 DEF Ended, Settled
  <2>3. \A id \in ReqIds : ran'[c][id] <= asked'[c][id]
    BY <1>4, <1>9, <1>11, <1>16 DEF Balanced
  <2>4. Settled(c)'
    BY <1>3, <2>2, <2>3, EndedSettled
  <2>5. conn'[c].phase # "open"
    BY <2>2 DEF Ended
  <2> QED BY <1>3, <1>4, <1>6, <1>8, <1>9, <1>10, <1>13, <2>4, <2>5, OneConnStep
<1>17. CASE conn[c].phase = "open"
  <2>1. \/ Ended(h)
        \/ Continues(conn[c], h) /\ h.outstanding = conn[c].outstanding
           /\ Answered(conn[c], h, i, TRUE)
    BY <1>3, <1>5, <1>17, <1>3a, EnqueueOutcome
  <2>2. CASE Ended(h)
    <3>1. \A id \in ReqIds : ran'[c][id] <= asked'[c][id]
      <4> SUFFICES ASSUME NEW id \in ReqIds PROVE ran'[c][id] <= asked[c][id]
        BY <1>4
      <4>1. Unread(c, id) + QueuedFor(c, id) + told[c][id] <= asked[c][id]
            /\ ran[c][id] <= told[c][id]
        BY <1>11, <1>17 DEF Balanced
      <4>2. i = id => QueuedFor(c, id) >= 1
        BY <1>3, <1>7
      <4> QED BY <1>9, <1>12, <4>1, <4>2
    <3>2. Settled(c)'
      BY <1>3, <1>6, <2>2, <3>1, EndedSettled
    <3>3. conn[c].phase = "open"
      BY <1>17
    <3> QED BY <1>3, <1>4, <1>6, <1>8, <1>9, <1>10, <1>13, <3>2, <3>3, OneConnStep
  <2>3. CASE Continues(conn[c], h) /\ h.outstanding = conn[c].outstanding
             /\ Answered(conn[c], h, i, TRUE)
    <3>1. /\ conn'[c].phase = "open" /\ conn'[c].hungup = conn[c].hungup
          /\ conn'[c].wire = conn[c].wire /\ conn'[c].buffer = conn[c].buffer
          /\ conn'[c].outstanding = conn[c].outstanding
          /\ conn'[c].writes = Append(conn[c].writes, [id |-> i, release |-> TRUE])
          /\ Len(conn[c].writes) < MaxPendingWrites
      BY <1>6, <2>3 DEF Continues, Answered
    <3>2. /\ Len(conn'[c].writes) = Len(conn[c].writes) + 1
          /\ \A id \in ReqIds :
               Releasing(c, id)' = Releasing(c, id) + IF i = id /\ TRUE THEN 1 ELSE 0
      BY <1>1, <1>3, <3>1, AnswerAppend
    <3>3. Len(conn'[c].writes) <= MaxPendingWrites /\ Len(h.writes) > Len(conn[c].writes)
      BY <1>6, <1>14, <3>1, <3>2
    <3>4. ASSUME NEW id \in ReqIds PROVE Balanced(c, id)'
      <4>1. /\ Unread(c, id)' = Unread(c, id)
            /\ Releasing(c, id)' = Releasing(c, id) + IF i = id THEN 1 ELSE 0
            /\ told'[c][id] = told[c][id] + IF i = id THEN 1 ELSE 0
            /\ QueuedFor(c, id) = QueuedFor(c, id)' + IF i = id THEN 1 ELSE 0
            /\ QueuedFor(c, id)' \in Nat
        BY <1>3, <1>7, <1>8, <3>1, <3>2, <3>3 DEF Unread
      <4>2. /\ QueuedFor(c, id) + Releasing(c, id) =
                 (IF id \in conn[c].outstanding THEN 1 ELSE 0)
            /\ Unread(c, id) + QueuedFor(c, id) + told[c][id] <= asked[c][id]
            /\ ~conn[c].hungup =>
                 asked[c][id] = Unread(c, id) + QueuedFor(c, id) + told[c][id]
            /\ ran[c][id] <= told[c][id] /\ ran[c][id] <= asked[c][id]
        BY <1>11, <1>17 DEF Balanced
      <4>3. /\ QueuedFor(c, id)' + Releasing(c, id)' = QueuedFor(c, id) + Releasing(c, id)
            /\ Unread(c, id)' + QueuedFor(c, id)' + told'[c][id] =
                 Unread(c, id) + QueuedFor(c, id) + told[c][id]
            /\ ran'[c][id] <= told'[c][id]
        <5>1. CASE i = id
          BY <5>1, <1>9, <1>12, <4>1, <4>2
        <5>2. CASE i # id
          BY <5>2, <1>9, <1>12, <4>1, <4>2
        <5> QED BY <5>1, <5>2
      <4>4. ran'[c][id] <= asked'[c][id]
        <5>1. ran'[c][id] \in Nat /\ told'[c][id] \in Nat
          BY <1>1, <1>3 DEF TypeOK
        <5>2. told'[c][id] <= asked[c][id]
          <6>1. CASE i = id
            BY <6>1, <1>12, <4>1, <4>2
          <6>2. CASE i # id
            BY <6>2, <1>12, <4>1, <4>2
          <6> QED BY <6>1, <6>2
        <5> QED BY <1>4, <1>12, <4>3, <5>1, <5>2
      <4> QED BY <1>4, <3>1, <4>2, <4>3, <4>4 DEF Balanced
    <3>5. Settled(c)'
      BY <1>5, <3>1, <3>3, <3>4 DEF Settled
    <3>6. conn[c].phase = "open"
      BY <1>17
    <3> QED BY <1>3, <1>4, <1>6, <1>8, <1>9, <1>10, <1>13, <3>5, <3>6, OneConnStep
  <2> QED BY <2>1, <2>2, <2>3
<1> QED BY <1>15, <1>16, <1>17

LEMMA SendInv ==
  ASSUME BridgeInv, [Next]_vars, NEW c \in Conns, Send(c)
  PROVE  BridgeInv'
<1>1. TypeOK /\ TypeOK' /\ Settled(c) /\ conn[c] \in Connections
      /\ conn[c].wire \in Seq(Frames) /\ Connected(c)
  BY InvParts, NextTypes DEF TypeOK, Send, Connections
<1>2. PICK f \in Frames :
        /\ conn' = [conn EXCEPT ![c] = [conn[c] EXCEPT !.wire = Append(@, f), !.sent = @ + 1]]
        /\ asked' = IF f.kind \in Asking THEN [asked EXCEPT ![c][f.id] = @ + 1] ELSE asked
  BY DEF Send
<1>3. /\ conn'[c].wire = Append(conn[c].wire, f)
      /\ conn'[c].phase = conn[c].phase /\ conn'[c].hungup = conn[c].hungup
      /\ conn'[c].buffer = conn[c].buffer /\ conn'[c].writes = conn[c].writes
      /\ conn'[c].outstanding = conn[c].outstanding
      /\ \A d \in Conns \ {c} : conn'[d] = conn[d]
      /\ UNCHANGED <<queue, told, ran>>
  BY <1>1, <1>2 DEF TypeOK, Connections, Send
<1>4. /\ \A d \in Conns \ {c} : asked'[d] = asked[d]
      /\ \A id \in ReqIds :
           /\ f.kind \in Asking /\ f.id = id => asked'[c][id] = asked[c][id] + 1
           /\ ~(f.kind \in Asking /\ f.id = id) => asked'[c][id] = asked[c][id]
  BY <1>1, <1>2, FrameKinds DEF TypeOK
<1>5. ASSUME NEW id \in ReqIds PROVE Balanced(c, id)'
  <2> DEFINE S == AskingFor(id)
  <2>1. Count(Append(conn[c].wire, f), S) = Count(conn[c].wire, S) + IF f \in S THEN 1 ELSE 0
    <3> HIDE DEF S
    <3> QED BY <1>1, CountAppend
  <2>2. f \in S <=> f.kind \in Asking /\ f.id = id
    BY Members
  <2>3. Unread(c, id) = Count(conn[c].wire, S) + Count(conn[c].buffer, S)
        /\ Unread(c, id)' = Count(Append(conn[c].wire, f), S) + Count(conn[c].buffer, S)
    BY <1>3 DEF Unread
  <2>4. Count(conn[c].wire, S) \in Nat /\ Count(conn[c].buffer, S) \in Nat
        /\ Unread(c, id) \in Nat /\ QueuedFor(c, id) \in Nat
        /\ asked[c][id] \in Nat /\ told[c][id] \in Nat /\ ran[c][id] \in Nat
    BY <1>1, CountTypes
  <2> HIDE DEF S
  <2>5. /\ f.kind \in Asking /\ f.id = id => Unread(c, id)' = Unread(c, id) + 1
        /\ ~(f.kind \in Asking /\ f.id = id) => Unread(c, id)' = Unread(c, id)
    BY <2>1, <2>2, <2>3, <2>4
  <2>6. QueuedFor(c, id)' = QueuedFor(c, id) /\ Releasing(c, id)' = Releasing(c, id)
    BY <1>3, SameQueue DEF Releasing
  <2>7. Balanced(c, id)
    BY <1>1 DEF Settled
  <2>8. CASE f.kind \in Asking /\ f.id = id
    <3>1. asked'[c][id] = asked[c][id] + 1 /\ Unread(c, id)' = Unread(c, id) + 1
          /\ told'[c][id] = told[c][id] /\ ran'[c][id] = ran[c][id]
      BY <1>3, <1>4, <2>5, <2>8
    <3>2. conn[c].phase # "closed"
      BY <1>1 DEF Connected
    <3>3. /\ Unread(c, id) + QueuedFor(c, id) + told[c][id] <= asked[c][id]
          /\ ~conn[c].hungup =>
               asked[c][id] = Unread(c, id) + QueuedFor(c, id) + told[c][id]
          /\ ran[c][id] <= told[c][id] /\ ran[c][id] <= asked[c][id]
      BY <2>7, <3>2 DEF Balanced
    <3>4. /\ Unread(c, id)' + QueuedFor(c, id)' + told'[c][id] <= asked'[c][id]
          /\ ~conn[c].hungup =>
               asked'[c][id] = Unread(c, id)' + QueuedFor(c, id)' + told'[c][id]
          /\ ran'[c][id] <= told'[c][id] /\ ran'[c][id] <= asked'[c][id]
      BY <2>4, <2>6, <3>1, <3>3
    <3>5. conn[c].phase = "open" =>
            QueuedFor(c, id)' + Releasing(c, id)' =
              (IF id \in conn[c].outstanding THEN 1 ELSE 0)
      BY <2>6, <2>7 DEF Balanced
    <3>6. conn[c].phase \in {"absent", "backlog"} => QueuedFor(c, id)' = 0
      BY <2>6, <2>7 DEF Balanced
    <3> QED BY <1>3, <3>4, <3>5, <3>6 DEF Balanced
  <2>9. CASE ~(f.kind \in Asking /\ f.id = id)
    BY <1>3, <1>4, <2>4, <2>5, <2>6, <2>7, <2>9 DEF Balanced
  <2> QED BY <2>8, <2>9
<1>6. Settled(c)'
  BY <1>1, <1>3, <1>5 DEF Settled
<1>7. Len(queue') <= QueueCapacity
  BY <1>3, InvParts
<1> QED BY <1>3, <1>4, <1>6, <1>7, SameQueue, OneConnStep

LEMMA AcceptInv ==
  ASSUME BridgeInv, [Next]_vars, NEW c \in Conns, Accept(c)
  PROVE  BridgeInv'
<1>1. TypeOK /\ TypeOK' /\ Settled(c) /\ conn[c] \in Connections
      /\ Cardinality(Clients) <= MaxClients
  BY InvParts, NextTypes DEF TypeOK
<1>2. CASE Cardinality(Clients) >= MaxClients
  BY <1>2, CloseStep DEF Accept
<1>3. CASE ~(Cardinality(Clients) >= MaxClients)
  <2>1. /\ conn'[c].phase = "open" /\ conn[c].phase = "backlog"
        /\ conn'[c].hungup = conn[c].hungup
        /\ conn'[c].wire = conn[c].wire /\ conn'[c].buffer = conn[c].buffer
        /\ conn'[c].outstanding = conn[c].outstanding /\ conn'[c].writes = conn[c].writes
        /\ \A d \in Conns \ {c} : conn'[d] = conn[d]
        /\ UNCHANGED <<queue, asked, told, ran>>
    BY <1>1, <1>3 DEF Accept, TypeOK, Connections
  <2>2. conn[c].outstanding = {} /\ conn[c].writes = <<>>
    BY <1>1, <2>1 DEF Settled
  <2>3. ASSUME NEW id \in ReqIds PROVE Balanced(c, id)'
    <3>1. QueuedFor(c, id)' = QueuedFor(c, id) /\ Unread(c, id)' = Unread(c, id)
      BY <2>1, SameQueue DEF Unread
    <3>2. Balanced(c, id) /\ QueuedFor(c, id) = 0
      BY <1>1, <2>1 DEF Settled, Balanced
    <3>3. Releasing(c, id)' = 0
      BY <2>1, <2>2, CountEmpty DEF Releasing
    <3> QED BY <2>1, <2>2, <3>1, <3>2, <3>3 DEF Balanced
  <2>4. Settled(c)'
    BY <1>1, <2>1, <2>3 DEF Settled
  <2>5. \A d \in Conns \ {c} : Settled(d)'
    BY <2>1, InvParts, SameQueue, Elsewhere
  <2>6. Cardinality(Clients') <= MaxClients
    <3>1. IsFiniteSet(Clients) /\ c \notin Clients
      BY <2>1, BridgeAssumption, FS_Subset DEF Clients
    <3>2. Clients' = Clients \cup {c}
      BY <2>1 DEF Clients
    <3>3. Cardinality(Clients \cup {c}) = Cardinality(Clients) + 1
          /\ Cardinality(Clients) \in Nat
      BY <3>1, FS_AddElement, FS_CardinalityType
    <3> QED BY <1>3, <3>2, <3>3, BridgeAssumption
  <2>7. Len(queue') <= QueueCapacity
    BY <2>1, InvParts
  <2> QED BY <1>1, <2>4, <2>5, <2>6, <2>7, InvPartsPrimed
<1> QED BY <1>2, <1>3

LEMMA StopInv ==
  ASSUME BridgeInv, [Next]_vars, Stop
  PROVE  BridgeInv'
<1>1. TypeOK /\ TypeOK' /\ UNCHANGED <<queue, asked, told, ran>>
  BY InvParts, NextTypes DEF Stop
<1>2. \A d \in Conns : conn'[d] = conn[d] \/ conn'[d] = Close(conn[d])
  BY <1>1 DEF Stop, TypeOK
<1>3. ASSUME NEW d \in Conns PROVE Settled(d)'
  <2>1. Settled(d)
    BY InvParts
  <2>2. CASE conn'[d] = conn[d]
    BY <1>1, <2>1, <2>2, SameQueue, Elsewhere
  <2>3. CASE conn'[d] = Close(conn[d])
    BY <1>1, <2>1, <2>3, SettledClosed
  <2> QED BY <1>2, <2>2, <2>3
<1>4. Clients' \subseteq Clients
  BY <1>1, <1>2, CloseEffect DEF Clients, TypeOK
<1>5. Cardinality(Clients') <= MaxClients /\ Len(queue') <= QueueCapacity
  BY <1>1, <1>4, ClientsShrink, InvParts
<1> QED BY <1>1, <1>3, <1>5, InvPartsPrimed

LEMMA PassDeadlineInv ==
  ASSUME BridgeInv, [Next]_vars, PassDeadline
  PROVE  BridgeInv'
<1>1. TypeOK /\ queue \in Seq(Works)
  BY InvParts DEF TypeOK
<1>2. /\ queue' \in Seq(Works)
      /\ Len(queue') = Len(queue)
      /\ \A j \in 1..Len(queue) : queue'[j].conn = queue[j].conn /\ queue'[j].id = queue[j].id
  BY <1>1, PassDeadlineQueue
<1>3. ASSUME NEW d \in Conns, NEW id \in ReqIds
      PROVE  QueuedFor(d, id)' = QueuedFor(d, id)
  <2> DEFINE S == [conn : {d}, id : {id}, late : BOOLEAN]
  <2>1. DOMAIN queue' = 1..Len(queue) /\ DOMAIN queue = 1..Len(queue)
    BY <1>1, <1>2, LenProperties
  <2>2. \A j \in 1..Len(queue) : queue[j] \in Works /\ queue'[j] \in Works
    BY <1>1, <1>2, ElementOfSeq
  <2>3. \A j \in 1..Len(queue) : queue'[j] \in S <=> queue[j] \in S
    <3> SUFFICES ASSUME NEW j \in 1..Len(queue) PROVE queue'[j] \in S <=> queue[j] \in S
      OBVIOUS
    <3>1. queue[j] \in S <=> queue[j].conn = d /\ queue[j].id = id
      BY <2>2, Members, ZenonT(40)
    <3>2. queue'[j] \in S <=> queue'[j].conn = d /\ queue'[j].id = id
      BY <2>2, Members, ZenonT(40)
    <3> QED BY <1>2, <3>1, <3>2
  <2> HIDE DEF S
  <2>4. Count(queue', S) = Count(queue, S)
    BY <2>1, <2>3, CountSame
  <2> QED BY <2>4 DEF QueuedFor, S
<1> QED BY <1>2, <1>3, SameConnsStep DEF PassDeadline

LEMMA ServeInv ==
  ASSUME BridgeInv, [Next]_vars, NEW c \in Conns, ServeStep(c)
  PROVE  BridgeInv'
<1>1. conn \in [Conns -> Connections] /\ conn[c] \in Connections
  BY InvParts DEF TypeOK
<1>2. ASSUME HandleFrame(c) PROVE BridgeInv'
  BY <1>2, HandleFrameInv
<1>3. ASSUME ReadChunk(c) PROVE BridgeInv'
  BY <1>3, ReadChunkInv
<1>4. ASSUME ReadEnd(c) PROVE BridgeInv'
  BY <1>4, CloseStep DEF ReadEnd
<1>5. ASSUME EndRead(c) PROVE BridgeInv'
  BY <1>5, SameConnsStep, SameQueue DEF EndRead
<1>6. ASSUME WriteFrame(c) PROVE BridgeInv'
  BY <1>6, WriteFrameInv
<1>7. ASSUME WritePart(c) PROVE BridgeInv'
  <2> DEFINE k == [conn[c] EXCEPT !.begun = TRUE, !.due = @ \ {"write"}]
  <2>1. /\ k \in Connections
        /\ k.outstanding = conn[c].outstanding /\ k.writes = conn[c].writes
        /\ k.phase = conn[c].phase /\ k.hungup = conn[c].hungup
        /\ k.wire = conn[c].wire /\ k.buffer = conn[c].buffer
    BY <1>1 DEF Connections
  <2>2. conn' = [conn EXCEPT ![c] = k] /\ UNCHANGED <<queue, asked, told, ran>>
    BY <1>7 DEF WritePart
  <2> HIDE DEF k
  <2> QED BY <2>1, <2>2, SameFramesStep
<1>8. ASSUME WriteError(c) PROVE BridgeInv'
  BY <1>8, CloseStep DEF WriteError
<1>9. ASSUME EndServe(c) PROVE BridgeInv'
  <2>1. UNCHANGED <<queue, asked, told, ran>>
        /\ (conn' = conn \/ conn' = [conn EXCEPT ![c] = Close(@)])
    BY <1>9 DEF EndServe
  <2> QED BY <2>1, CloseStep, SameConnsStep, SameQueue
<1> QED BY <1>2, <1>3, <1>4, <1>5, <1>6, <1>7, <1>8, <1>9 DEF ServeStep

LEMMA PeerInv ==
  ASSUME BridgeInv, [Next]_vars, NEW c \in Conns, PeerStep(c)
  PROVE  BridgeInv'
<1>1. TypeOK /\ conn[c] \in Connections
  BY InvParts DEF TypeOK
<1>2. ASSUME Connect(c) PROVE BridgeInv'
  <2> DEFINE k == [conn[c] EXCEPT !.phase = "backlog"]
  <2>1. /\ k \in Connections
        /\ k.outstanding = conn[c].outstanding /\ k.writes = conn[c].writes
        /\ conn[c].phase = "absent" /\ k.phase = "backlog" /\ k.hungup = conn[c].hungup
        /\ k.wire = conn[c].wire /\ k.buffer = conn[c].buffer
    BY <1>1, <1>2 DEF Connections, Connect
  <2>2. conn' = [conn EXCEPT ![c] = k] /\ UNCHANGED <<queue, asked, told, ran>>
    BY <1>2 DEF Connect
  <2> HIDE DEF k
  <2> QED BY <2>1, <2>2, SameFramesStep
<1>3. ASSUME Send(c) PROVE BridgeInv'
  BY <1>3, SendInv
<1>4. ASSUME Receive(c) PROVE BridgeInv'
  <2> DEFINE k == [conn[c] EXCEPT !.out = @ - 1]
  <2>1. /\ k \in Connections
        /\ k.outstanding = conn[c].outstanding /\ k.writes = conn[c].writes
        /\ k.phase = conn[c].phase /\ k.hungup = conn[c].hungup
        /\ k.wire = conn[c].wire /\ k.buffer = conn[c].buffer
    <3>1. conn[c].out - 1 \in 0..SocketCapacity
      BY <1>1, <1>4, OneReceived DEF Receive
    <3> QED BY <1>1, <3>1 DEF Connections
  <2>2. conn' = [conn EXCEPT ![c] = k] /\ UNCHANGED <<queue, asked, told, ran>>
    BY <1>4 DEF Receive
  <2> HIDE DEF k
  <2> QED BY <2>1, <2>2, SameFramesStep
<1>5. ASSUME HangUp(c) PROVE BridgeInv'
  <2>1. PICK w \in {conn[c].wire, <<>>} :
          conn' = [conn EXCEPT ![c] = [conn[c] EXCEPT !.hungup = TRUE, !.wire = w]]
    BY <1>5 DEF HangUp
  <2> DEFINE k == [conn[c] EXCEPT !.hungup = TRUE, !.wire = w]
  <2>2. w \in Seq(Frames)
    BY <1>1, EmptySeq DEF Connections
  <2>3. /\ k \in Connections
        /\ k.outstanding = conn[c].outstanding /\ k.writes = conn[c].writes
        /\ k.phase = conn[c].phase /\ k.hungup = TRUE
        /\ k.wire = w /\ k.buffer = conn[c].buffer
    BY <1>1, <2>2 DEF Connections
  <2>4. conn' = [conn EXCEPT ![c] = k] /\ UNCHANGED <<queue, asked, told, ran>>
    BY <1>5, <2>1 DEF HangUp
  <2> HIDE DEF k
  <2>5. \A id \in ReqIds : Unread(c, id)' <= Unread(c, id)
    <3> SUFFICES ASSUME NEW id \in ReqIds PROVE Unread(c, id)' <= Unread(c, id)
      OBVIOUS
    <3>1. Unread(c, id)' = Count(w, AskingFor(id)) + Count(conn[c].buffer, AskingFor(id))
      BY <1>1, <2>3, <2>4 DEF Unread, TypeOK
    <3>2. Count(conn[c].wire, AskingFor(id)) \in Nat
          /\ Count(conn[c].buffer, AskingFor(id)) \in Nat
      BY <1>1, CountTypes
    <3>3. Count(w, AskingFor(id)) \in {Count(conn[c].wire, AskingFor(id)), 0}
      BY CountEmpty
    <3> QED BY <3>1, <3>2, <3>3 DEF Unread
  <2>6. \A id \in ReqIds : /\ Unread(c, id)' <= Unread(c, id)
                           /\ ~k.hungup => Unread(c, id)' = Unread(c, id)
    BY <2>3, <2>5
  <2>7. ~k.hungup => ~conn[c].hungup
    BY <2>3
  <2> QED BY <2>3, <2>4, <2>6, <2>7, QuietStep
<1> QED BY <1>2, <1>3, <1>4, <1>5 DEF PeerStep

LEMMA LapseInv ==
  ASSUME BridgeInv, [Next]_vars, NEW c \in Conns, NEW t \in Timeouts, Lapse(c, t)
  PROVE  BridgeInv'
<1> DEFINE k == [conn[c] EXCEPT !.due = @ \cup {t}]
<1>1. conn[c] \in Connections
  BY InvParts DEF TypeOK
<1>2. conn[c].due \cup {t} \in SUBSET {"handshake", "idle", "write"}
  BY <1>1, BridgeAssumption DEF Connections
<1>3. /\ k \in Connections
      /\ k.outstanding = conn[c].outstanding /\ k.writes = conn[c].writes
      /\ k.phase = conn[c].phase /\ k.hungup = conn[c].hungup
      /\ k.wire = conn[c].wire /\ k.buffer = conn[c].buffer
  BY <1>1, <1>2 DEF Connections
<1>4. conn' = [conn EXCEPT ![c] = k] /\ UNCHANGED <<queue, asked, told, ran>>
  BY DEF Lapse
<1> HIDE DEF k
<1> QED BY <1>3, <1>4, SameFramesStep

-----------------------------------------------------------------------------
LEMMA BridgeInvInit == Init => BridgeInv
<1> SUFFICES ASSUME Init PROVE BridgeInv
  OBVIOUS
<1>1. TypeOK
  BY InitTypes
<1>2. queue = <<>> /\ Len(<<>>) = 0 /\ Cardinality({}) = 0
  BY EmptySeq, FS_EmptySet DEF Init
<1>3. Clients = {}
  BY DEF Init, Clients
<1>4. ASSUME NEW c \in Conns PROVE Settled(c)
  <2>1. /\ conn[c].phase = "absent" /\ conn[c].outstanding = {} /\ conn[c].writes = <<>>
        /\ conn[c].wire = <<>> /\ conn[c].buffer = <<>>
        /\ \A id \in ReqIds : asked[c][id] = 0 /\ told[c][id] = 0 /\ ran[c][id] = 0
    BY DEF Init
  <2>2. \A id \in ReqIds : Unread(c, id) = 0 /\ QueuedFor(c, id) = 0
    BY <1>2, <2>1, CountEmpty DEF Unread, QueuedFor
  <2>3. \A id \in ReqIds : Balanced(c, id)
    BY <2>1, <2>2 DEF Balanced
  <2> QED BY <1>2, <2>1, <2>3, BridgeAssumption DEF Settled
<1> QED BY <1>1, <1>2, <1>3, <1>4, BridgeAssumption, InvParts

LEMMA BridgeInvNext == BridgeInv /\ [Next]_vars => BridgeInv'
<1> SUFFICES ASSUME BridgeInv, [Next]_vars PROVE BridgeInv'
  OBVIOUS
<1>1. ASSUME StartPoll PROVE BridgeInv'
  BY <1>1, SameConnsStep, SameQueue DEF StartPoll
<1>2. ASSUME StartDrain PROVE BridgeInv'
  BY <1>2, SameConnsStep, SameQueue DEF StartDrain
<1>3. ASSUME EndAccept PROVE BridgeInv'
  BY <1>3, SameConnsStep, SameQueue DEF EndAccept
<1>4. ASSUME EndPoll PROVE BridgeInv'
  BY <1>4, SameConnsStep, SameQueue DEF EndPoll
<1>5. ASSUME Process PROVE BridgeInv'
  BY <1>5, ProcessInv
<1>6. ASSUME EndDrain PROVE BridgeInv'
  BY <1>6, SameConnsStep, SameQueue DEF EndDrain
<1>7. ASSUME NEW c \in Conns, Accept(c) PROVE BridgeInv'
  BY <1>7, AcceptInv
<1>8. ASSUME NEW c \in Conns, Serve(c) PROVE BridgeInv'
  BY <1>8, SameConnsStep, SameQueue DEF Serve
<1>9. ASSUME NEW c \in Conns, ServeStep(c) PROVE BridgeInv'
  BY <1>9, ServeInv
<1>10. ASSUME Stop PROVE BridgeInv'
  BY <1>10, StopInv
<1>11. ASSUME NEW c \in Conns, PeerStep(c) PROVE BridgeInv'
  BY <1>11, PeerInv
<1>12. ASSUME PassDeadline PROVE BridgeInv'
  BY <1>12, PassDeadlineInv
<1>13. ASSUME NEW c \in Conns, NEW t \in Timeouts, Lapse(c, t) PROVE BridgeInv'
  BY <1>13, LapseInv
<1>14. ASSUME UNCHANGED vars PROVE BridgeInv'
  BY <1>14, SameConnsStep, SameQueue DEF vars
<1> QED BY <1>1, <1>2, <1>3, <1>4, <1>5, <1>6, <1>7, <1>8, <1>9, <1>10, <1>11, <1>12, <1>13,
           <1>14 DEF Next, TickStep, TimeStep

(* The inductive invariant holds throughout.                               *)
THEOREM BridgeInvariant == Spec => []BridgeInv
BY BridgeInvInit, BridgeInvNext, PTL DEF Spec

(* No table of the bridge grows past its limit, whatever its peers send    *)
(* and however the timers interleave.                                      *)
THEOREM LimitsHold == Spec => []WithinLimits
<1>1. BridgeInv => WithinLimits
  BY DEF BridgeInv
<1> QED BY <1>1, BridgeInvariant, PTL

(* An id is reserved exactly while its request is in flight.               *)
THEOREM SlotsAreTheirRequests == Spec => []SlotsAreInFlight
<1>1. BridgeInv => SlotsAreInFlight
  BY DEF BridgeInv
<1> QED BY <1>1, BridgeInvariant, PTL

(* No request frame of a living connection is lost or answered twice.      *)
THEOREM RequestsAnsweredOnce == Spec => []EveryRequestAnsweredOnce
<1>1. BridgeInv => EveryRequestAnsweredOnce
  BY DEF BridgeInv, RequestsAreCounted, EveryRequestAnsweredOnce
<1> QED BY <1>1, BridgeInvariant, PTL

(* No request is executed more often than it was asked, nor, on a living   *)
(* connection, without an answer.                                          *)
THEOREM RunsAreAsked == Spec => []RunsAreAnswered
<1>1. BridgeInv => RunsAreAnswered
  BY DEF BridgeInv
<1> QED BY <1>1, BridgeInvariant, PTL
=============================================================================
