------------------------------ MODULE EditorProof ------------------------------
(***************************************************************************)
(* The session between the editor and the language server is right for     *)
(* every set of documents, every text and any number of crashes: a client  *)
(* that thinks the server ready is right, what is on its way makes the     *)
(* server's documents the client's, and what is shown in the end is about  *)
(* the current text.                                                       *)
(***************************************************************************)
EXTENDS EditorSession, FiniteSetTheorems, SequenceTheorems, TLAPS

(* The shapes of the messages and of the documents. *)

Requests == {"initialize", "shutdown", "request"}
Identified == Requests \cup {"cancel"}
DocKinds == {"didOpen", "didChange", "didClose"}

DocState == [version : Nat, text : Seq(Pieces)]
Stores == [Documents -> DocState \cup {None}]

Sent ==
  [kind : {"initialize"}, id : Nat, root : Roots]
    \cup [kind : {"shutdown", "request", "cancel"}, id : Nat]
    \cup [kind : {"exit"}]
    \cup [kind : {"folders"}, added : Seq(Roots), removed : Seq(Roots)]
    \cup [kind : {"didOpen"}, doc : Documents, version : Nat, text : Seq(Pieces)]
    \cup {m \in [kind : {"didChange"}, doc : Documents, version : Nat, whole : BOOLEAN,
                first : Nat, last : Nat, put : Seq(Pieces)] : m.first <= m.last}
    \cup [kind : {"didClose"}, doc : Documents]

Received ==
  [kind : {"response"}, id : Nat, what : {"result", "error", "cancelled"}]
    \cup [kind : {"diagnostics"}, doc : Documents, version : Nat,
          text : Seq(Pieces) \cup {None}]

Shapes ==
  /\ server \in {"running", "exited"}
  /\ store \in Stores /\ documents \in Stores
  /\ toServer \in Seq(Sent) /\ toClient \in Seq(Received)
  /\ pending \in SUBSET [id : Nat, kind : Requests] /\ nextId \in Nat
  /\ folders \in Seq(Roots) /\ folders # <<>>
  /\ shown \in [Documents -> Seq(Pieces) \cup {None}]
  /\ crashes \in Nat

(* The inductive invariant, in named parts. *)

Queued == Range(toServer)
Arriving == Range(toClient)

IsDoc(m) == m.kind \in DocKinds

ControlInv ==
  /\ ready => process
  /\ server = "running" => process
  /\ ~process => pending = {}
  /\ \A p \in pending : /\ p.kind = "initialize" => ~ready
                        /\ p.kind = "shutdown" => stopping
  /\ \A p, q \in pending : p.kind = "initialize" /\ q.kind = "initialize" => p = q

\* An id stands for one request, however many servers there have been.
IdInv ==
  /\ \A p \in pending : p.id < nextId
  /\ \A p, q \in pending : p.id = q.id => p = q
  /\ \A m \in Queued : m.kind \in Identified => m.id < nextId
  /\ \A m \in Queued, p \in pending :
       m.kind \in Requests /\ p.id = m.id => p.kind = m.kind
  /\ \A m \in Arriving : m.kind = "response" => m.id < nextId

\* The message will settle a handshake.
Greets(m) ==
  /\ m.kind = "response" /\ m.what = "result"
  /\ \E p \in pending : p.kind = "initialize" /\ p.id = m.id

\* A result for the handshake that is waited for comes from the server that runs.
HandshakeInv ==
  server = "running" =>
    /\ \A m \in Arriving : Greets(m) => initialized
    /\ ready => initialized

\* Until the client is ready the server has nothing, and is sent nothing, to hold.
FreshInv ==
  server = "running" /\ ~ready =>
    /\ store = [d \in Documents |-> None] /\ ~shutdownRequested
    /\ \A m \in Queued : ~IsDoc(m) /\ m.kind # "shutdown"

DocsPrecede(q) ==
  \A i, j \in DOMAIN q : i < j /\ q[i].kind = "shutdown" => ~IsDoc(q[j])

\* Nothing is sent for the server to carry out after it was told to shut down.
OrderInv ==
  server = "running" =>
    /\ shutdownRequested => stopping /\ \A m \in Queued : ~IsDoc(m)
    /\ \A m \in Queued : m.kind \in {"shutdown", "exit"} => stopping
    /\ DocsPrecede(toServer)

OpenIn(a) == {d \in Documents : a[d] # None}

\* A store b is what a server with store a makes of the message m.
Effect(a, m, b) ==
  \/ /\ m.kind = "didOpen"
     /\ m.doc \in OpenIn(a) \/ Cardinality(OpenIn(a)) < MaxOpen
     /\ b = [a EXCEPT ![m.doc] = [version |-> m.version, text |-> m.text]]
  \/ /\ m.kind = "didChange"
     /\ m.doc \in OpenIn(a) /\ Accepted(a[m.doc], m)
     /\ b = [a EXCEPT ![m.doc] = [version |-> m.version, text |-> Applied(a[m.doc], m)]]
  \/ /\ m.kind = "didClose"
     /\ m.doc \in OpenIn(a)
     /\ b = [a EXCEPT ![m.doc] = None]
  \/ ~IsDoc(m) /\ b = a

About(m, d) == IsDoc(m) /\ m.doc = d

\* h[0] .. h[Len(q)] are the stores that the messages of q lead through, from a to b.
Leads(h, a, q, b) ==
  /\ h[0] = a /\ h[Len(q)] = b
  /\ \A i \in 1 .. Len(q) : Effect(h[i - 1], q[i], h[i])
  /\ \A d \in Documents, i, j \in 0 .. Len(q) :
       i <= j /\ (\A k \in i + 1 .. j : ~About(q[k], d)) => h[i][d] = h[j][d]

\* What is on its way makes the server's documents the client's.
ChainInv ==
  server = "running" /\ ready =>
    \E h \in [0 .. Len(toServer) -> Stores] : Leads(h, store, toServer, documents)

\* What the client holds fits into the server, and into messages.
FitInv ==
  /\ IsFiniteSet(OpenIn(documents)) /\ Cardinality(OpenIn(documents)) <= MaxOpen
  /\ \A d \in OpenIn(documents) : Len(documents[d].text) <= MaxEdited

CoreInv ==
  /\ Shapes /\ FitInv
  /\ ControlInv /\ IdInv /\ HandshakeInv /\ FreshInv /\ OrderInv

\* The diagnostics of d that are on their way, in q.
News(q, d) == {i \in DOMAIN q : q[i].kind = "diagnostics" /\ q[i].doc = d}

\* Without a crash the editor shows nothing before the server is ready, and the
\* server ends only when the client stops.
BlankInv ==
  crashes = 0 =>
    /\ ~ready /\ (server = "running" \/ ~stopping) =>
         \A d \in Documents : shown[d] = None /\ News(toClient, d) = {}
    /\ server = "exited" /\ (ready \/ \E p \in pending : p.kind = "initialize") => stopping

TextOf(held) == IF held = None THEN None ELSE held.text

\* The news e is about the document as it is held.
Tells(e, held) == e.text = TextOf(held) /\ (held # None => e.version = held.version)

\* The last that is said of d is right: by the news in q, or by what is displayed.
LastWord(q, d, displayed, held) ==
  /\ News(q, d) = {} => displayed = TextOf(held)
  /\ News(q, d) # {} => \E i \in News(q, d) : (\A j \in News(q, d) : j <= i) /\ Tells(q[i], held)

\* Nothing about d is on its way to the server.
Quiet(d) == \A m \in Queued : ~About(m, d)

\* When the server has heard the last of d, it has said the last, or will not say it.
NewsInv ==
  server = "running" /\ ready =>
    \A d \in Documents :
      Quiet(d) /\ (store[d] # None \/ crashes = 0) => LastWord(toClient, d, shown[d], store[d])

-------------------------------------------------------------------------------
(* Sequences. *)

LEMMA RangeFacts ==
  ASSUME NEW S, NEW q \in Seq(S)
  PROVE  /\ Range(q) \in SUBSET S
         /\ \A i \in 1 .. Len(q) : q[i] \in Range(q)
         /\ \A m \in Range(q) : \E i \in 1 .. Len(q) : q[i] = m
         /\ DOMAIN q = 1 .. Len(q) /\ Len(q) \in Nat
BY LenProperties, ElementOfSeq DEF Range

\* What is read from a sequence is its first element; the rest moves up.
LEMMA TailFacts ==
  ASSUME NEW S, NEW q \in Seq(S), q # <<>>
  PROVE  /\ Tail(q) \in Seq(S) /\ Head(q) \in S /\ Head(q) = q[1]
         /\ Len(Tail(q)) = Len(q) - 1 /\ Len(q) \in Nat \ {0}
         /\ \A i \in 1 .. Len(q) - 1 : Tail(q)[i] = q[i + 1]
         /\ Head(q) \in Range(q)
         /\ Range(Tail(q)) \in SUBSET Range(q)
<1>1. /\ Tail(q) \in Seq(S) /\ Head(q) \in S /\ Head(q) = q[1]
      /\ Len(Tail(q)) = Len(q) - 1 /\ Len(q) \in Nat \ {0}
      /\ \A i \in 1 .. Len(q) - 1 : Tail(q)[i] = q[i + 1]
  BY HeadTailProperties, EmptySeq
<1>2. Head(q) \in Range(q)
  BY <1>1, RangeFacts
<1>3. ASSUME NEW m \in Range(Tail(q)) PROVE m \in Range(q)
  <2>1. PICK i \in 1 .. Len(Tail(q)) : Tail(q)[i] = m
    <3> DEFINE t == Tail(q)
    <3>1. t \in Seq(S) /\ m \in Range(t)
      BY <1>1
    <3> HIDE DEF t
    <3>2. \E i \in 1 .. Len(t) : t[i] = m
      BY <3>1, RangeFacts
    <3> QED
      BY <3>2 DEF t
  <2>2. m = q[i + 1] /\ i + 1 \in 1 .. Len(q)
    BY <1>1, <2>1
  <2> QED
    BY <2>2, RangeFacts
<1> QED
  BY <1>1, <1>2, <1>3

LEMMA AppendFacts ==
  ASSUME NEW S, NEW q \in Seq(S), NEW e \in S
  PROVE  /\ Append(q, e) \in Seq(S) /\ Len(Append(q, e)) = Len(q) + 1 /\ Len(q) \in Nat
         /\ \A i \in 1 .. Len(q) : Append(q, e)[i] = q[i]
         /\ Append(q, e)[Len(q) + 1] = e
         /\ Range(Append(q, e)) = Range(q) \cup {e}
<1>1. /\ Append(q, e) \in Seq(S) /\ Len(Append(q, e)) = Len(q) + 1 /\ Len(q) \in Nat
      /\ \A i \in 1 .. Len(q) : Append(q, e)[i] = q[i]
      /\ Append(q, e)[Len(q) + 1] = e
  BY AppendProperties, LenProperties
<1>2. ASSUME NEW m \in Range(Append(q, e)) PROVE m \in Range(q) \cup {e}
  <2>1. PICK i \in 1 .. Len(q) + 1 : Append(q, e)[i] = m
    BY <1>1, RangeFacts
  <2> QED
    BY <1>1, <2>1, RangeFacts
<1>3. ASSUME NEW m \in Range(q) PROVE m \in Range(Append(q, e))
  <2>1. PICK i \in 1 .. Len(q) : q[i] = m
    BY RangeFacts
  <2>2. i \in 1 .. Len(Append(q, e)) /\ Append(q, e)[i] = m
    BY <1>1, <2>1
  <2> QED
    BY <1>1, <2>2, RangeFacts
<1>4. e \in Range(Append(q, e))
  <2>1. Len(q) + 1 \in 1 .. Len(Append(q, e))
    BY <1>1
  <2> QED
    <3> DEFINE a == Append(q, e)
    <3>1. a \in Seq(S) /\ Len(q) + 1 \in 1 .. Len(a) /\ a[Len(q) + 1] = e
      BY <1>1, <2>1
    <3> HIDE DEF a
    <3>2. e \in Range(a)
      BY <3>1, RangeFacts
    <3> QED
      BY <3>2 DEF a
<1> QED
  BY <1>1, <1>2, <1>3, <1>4

LEMMA OneFacts ==
  ASSUME NEW S, NEW e \in S
  PROVE  /\ <<e>> \in Seq(S) /\ Len(<<e>>) = 1 /\ <<e>>[1] = e /\ Range(<<e>>) = {e}
         /\ <<e>> # <<>>
         /\ \A q \in Seq(S) : q \o <<e>> = Append(q, e)
<1>1. <<e>> \in Seq(S) /\ Len(<<e>>) = 1 /\ <<e>>[1] = e
  OBVIOUS
<1>2. Range(<<e>>) = {e}
  <2>1. DOMAIN <<e>> = {1}
    OBVIOUS
  <2> QED
    BY <1>1, <2>1 DEF Range
<1>3. \A q \in Seq(S) : q \o <<e>> = Append(q, e)
  BY AppendIsConcat
<1> QED
  BY <1>1, <1>2, <1>3, EmptySeq

(***************************************************************************)
(* What an edit makes of a text is a text, of the length that is checked.  *)
(***************************************************************************)
LEMMA AppliedFacts ==
  ASSUME NEW prior \in DocState, NEW change, change.whole \in BOOLEAN,
         change.first \in Nat, change.last \in Nat, change.put \in Seq(Pieces),
         change.whole \/ (change.first <= change.last /\ change.last <= Len(prior.text))
  PROVE  /\ Applied(prior, change) \in Seq(Pieces)
         /\ ~change.whole => Len(Applied(prior, change)) =
              change.first + Len(change.put) + Len(prior.text) - change.last
<1> DEFINE t == prior.text
<1>1. t \in Seq(Pieces) /\ Len(t) \in Nat /\ \A i \in 1 .. Len(t) : t[i] \in Pieces
  BY LenProperties, ElementOfSeq DEF DocState
<1>2. CASE change.whole
  BY <1>2 DEF Applied
<1>3. CASE ~change.whole
  <2> DEFINE before == SubSeq(t, 1, change.first)
             after == SubSeq(t, change.last + 1, Len(t))
  <2>1. /\ change.first \in Nat /\ change.last \in Nat
        /\ change.first <= change.last /\ change.last <= Len(t)
    BY <1>3
  <2> HIDE DEF t
  <2>2. before \in Seq(Pieces) /\ Len(before) = change.first
    <3>1. \A i \in 1 .. change.first : t[i] \in Pieces
      BY <1>1, <2>1
    <3>2. 1 \in Int /\ change.first \in Int
      BY <2>1
    <3>3. /\ SubSeq(t, 1, change.first) \in Seq(Pieces)
          /\ Len(SubSeq(t, 1, change.first)) =
               IF 1 <= change.first THEN change.first - 1 + 1 ELSE 0
      BY <3>1, <3>2, SubSeqProperties
    <3> QED
      BY <2>1, <3>3
  <2>3. after \in Seq(Pieces) /\ Len(after) = Len(t) - change.last
    <3>1. \A i \in change.last + 1 .. Len(t) : t[i] \in Pieces
      BY <1>1, <2>1
    <3>2. change.last + 1 \in Int /\ Len(t) \in Int
      BY <1>1, <2>1
    <3>3. /\ SubSeq(t, change.last + 1, Len(t)) \in Seq(Pieces)
          /\ Len(SubSeq(t, change.last + 1, Len(t))) =
               IF change.last + 1 <= Len(t) THEN Len(t) - (change.last + 1) + 1 ELSE 0
      BY <3>1, <3>2, SubSeqProperties
    <3> QED
      BY <1>1, <2>1, <3>3
  <2> HIDE DEF before, after
  <2>4. /\ before \o change.put \in Seq(Pieces)
        /\ Len(before \o change.put) = Len(before) + Len(change.put)
        /\ Len(change.put) \in Nat
    BY <2>2, ConcatProperties, LenProperties
  <2>5. /\ (before \o change.put) \o after \in Seq(Pieces)
        /\ Len((before \o change.put) \o after) = Len(before \o change.put) + Len(after)
    <3> DEFINE b == before \o change.put
    <3>1. b \in Seq(Pieces) /\ after \in Seq(Pieces)
      BY <2>3, <2>4
    <3> HIDE DEF b
    <3>2. b \o after \in Seq(Pieces) /\ Len(b \o after) = Len(b) + Len(after)
      BY <3>1, ConcatProperties
    <3> QED
      BY <3>2 DEF b
  <2>6. Applied(prior, change) = (before \o change.put) \o after
    BY <1>3 DEF Applied, before, after, t
  <2>7. Len(Applied(prior, change)) = change.first + Len(change.put) + Len(t) - change.last
    BY <1>1, <2>1, <2>2, <2>3, <2>4, <2>5, <2>6
  <2> QED
    BY <2>5, <2>6, <2>7 DEF t
<1> QED
  BY <1>2, <1>3

-------------------------------------------------------------------------------
(* Messages. *)

LEMMA SentFacts ==
  ASSUME NEW m \in Sent
  PROVE  /\ m.kind \in {"initialize", "shutdown", "request", "cancel", "exit", "folders",
                        "didOpen", "didChange", "didClose"}
         /\ m.kind \in Identified => m.id \in Nat
         /\ m.kind = "initialize" => m.root \in Roots
         /\ IsDoc(m) => m.doc \in Documents
         /\ m.kind = "didOpen" => m.version \in Nat /\ m.text \in Seq(Pieces)
         /\ m.kind = "didChange" =>
              /\ m.version \in Nat /\ m.whole \in BOOLEAN
              /\ m.first \in Nat /\ m.last \in Nat /\ m.first <= m.last
              /\ m.put \in Seq(Pieces)
BY DEF Sent, Identified, Requests, IsDoc, DocKinds

LEMMA ReceivedFacts ==
  ASSUME NEW e \in Received
  PROVE  /\ e.kind \in {"response", "diagnostics"}
         /\ e.kind = "response" =>
              e.id \in Nat /\ e.what \in {"result", "error", "cancelled"}
         /\ e.kind = "diagnostics" =>
              /\ e.doc \in Documents /\ e.version \in Nat
              /\ e.text \in Seq(Pieces) \cup {None}
BY DEF Received

\* A document that is held is no absence of one.
LEMMA StoreFacts ==
  ASSUME NEW a \in Stores, NEW d \in Documents
  PROVE  /\ a[d] # None => a[d] \in DocState /\ a[d].version \in Nat /\ a[d].text \in Seq(Pieces)
         /\ \A b \in DocState : b # None /\ [a EXCEPT ![d] = b] \in Stores
         /\ [a EXCEPT ![d] = None] \in Stores
BY SessionAssumption DEF Stores, DocState

\* What the server may say when it has taken up the message m.
Reply(m, e) ==
  /\ e.kind = "response" => /\ m.kind \in Identified /\ e.id = m.id
                            /\ e.what = "result" => initialized'
  /\ e.kind = "diagnostics" => IsDoc(m) /\ e.doc = m.doc

(***************************************************************************)
(* A handler takes one message from the pipe and says one thing at most;   *)
(* it undoes neither the handshake nor a shutdown, and touches documents   *)
(* only for a message about one, before the shutdown.                      *)
(***************************************************************************)
LEMMA ServeFacts ==
  ASSUME Shapes, Handle
  PROVE  /\ server = "running" /\ toServer # <<>> /\ toServer' = Tail(toServer)
         /\ Message \in Sent /\ Message = Head(toServer)
         /\ server' = IF Message.kind = "exit" THEN "exited" ELSE "running"
         /\ \/ toClient' = toClient
            \/ \E e \in Received : toClient' = Append(toClient, e) /\ Reply(Message, e)
         /\ initialized => initialized'
         /\ shutdownRequested => shutdownRequested'
         /\ shutdownRequested' => shutdownRequested \/ Message.kind = "shutdown"
         /\ store' \in Stores
         /\ ~IsDoc(Message) \/ shutdownRequested => store' = store
<1>1. server = "running" /\ toServer # <<>> /\ toServer' = Tail(toServer)
  BY DEF Handle, HandleExit, HandleAfterShutdown, HandleCancel, HandleCancelled,
         HandleInitialize, HandleInitializeAgain, HandleTooEarly, HandleFolders,
         HandleRemovedOnly, HandleShutdown, HandleDidOpen, HandleDidChange,
         HandleDidClose, HandleRequest, Initialized, Serving, Receive
<1> DEFINE m == Message
<1>2. m \in Sent /\ m = Head(toServer)
  BY <1>1, TailFacts DEF Shapes, Message
<1>3. m.kind \in Identified => m.id \in Nat
  BY <1>2, SentFacts
<1>a. store \in Stores
  BY DEF Shapes
<1> HIDE DEF m
<1>4. ASSUME NEW what \in {"result", "error", "cancelled"}, m.kind \in Identified,
             what = "result" => initialized', Answer(what)
      PROVE  \E e \in Received : toClient' = Append(toClient, e) /\ Reply(m, e)
  <2> DEFINE e == [kind |-> "response", id |-> m.id, what |-> what]
  <2>1. e \in Received
    BY <1>3, <1>4 DEF Received
  <2>2. toClient' = Append(toClient, e)
    BY <1>4 DEF Answer, m
  <2>3. Reply(m, e)
    BY <1>4 DEF Reply
  <2> QED
    BY <2>1, <2>2, <2>3
<1>5. ASSUME NEW d \in Documents, NEW version \in Nat, NEW text \in Seq(Pieces) \cup {None},
             IsDoc(m), m.doc = d, Publish(d, version, text)
      PROVE  \E e \in Received : toClient' = Append(toClient, e) /\ Reply(m, e)
  <2> DEFINE e == [kind |-> "diagnostics", doc |-> d, version |-> version, text |-> text]
  <2>1. e \in Received
    BY DEF Received
  <2>2. toClient' = Append(toClient, e)
    BY <1>5 DEF Publish
  <2>3. Reply(m, e)
    BY <1>5 DEF Reply
  <2> QED
    BY <2>1, <2>2, <2>3
<1> DEFINE Says == \/ toClient' = toClient
                   \/ \E e \in Received : toClient' = Append(toClient, e) /\ Reply(m, e)
           Moves == /\ server' = IF m.kind = "exit" THEN "exited" ELSE "running"
                    /\ initialized => initialized'
                    /\ shutdownRequested => shutdownRequested'
                    /\ shutdownRequested' => shutdownRequested \/ m.kind = "shutdown"
           Holds == /\ store' \in Stores
                    /\ ~IsDoc(m) \/ shutdownRequested => store' = store
<1>6. Says /\ Moves /\ Holds
  <2> HIDE DEF Says, Moves, Holds
  <2>1. CASE HandleExit
    <3>1. Says
      BY <2>1 DEF HandleExit, Says
    <3>2. Moves
      BY <1>1, <2>1 DEF HandleExit, Moves, stateVars, m
    <3>3. Holds
      BY <1>a, <2>1 DEF HandleExit, Holds, stateVars
    <3> QED
      BY <3>1, <3>2, <3>3
  <2>2. CASE HandleAfterShutdown
    <3>1. Says
      <4>1. CASE HasId
        <5>1. m.kind \in Identified
          BY <4>1 DEF HasId, IsRequest, Identified, Requests, m
        <5> QED
          BY <1>4, <2>2, <4>1, <5>1 DEF HandleAfterShutdown, Says
      <4>2. CASE ~HasId
        BY <2>2, <4>2 DEF HandleAfterShutdown, Says
      <4> QED
        BY <4>1, <4>2
    <3>2. Moves
      BY <1>1, <2>2 DEF HandleAfterShutdown, Moves, stateVars, m
    <3>3. Holds
      BY <1>a, <2>2 DEF HandleAfterShutdown, Holds, stateVars
    <3> QED
      BY <3>1, <3>2, <3>3
  <2>3. CASE HandleCancel
    <3>1. Says
      BY <2>3 DEF HandleCancel, Says
    <3>2. Moves
      BY <1>1, <2>3 DEF HandleCancel, Moves, m
    <3>3. Holds
      BY <1>a, <2>3 DEF HandleCancel, Holds
    <3> QED
      BY <3>1, <3>2, <3>3
  <2>4. CASE HandleCancelled
    <3>0. m.kind \in Requests
      BY <2>4 DEF HandleCancelled, IsCancelled, IsRequest, Requests, m
    <3>1. Says
      BY <1>4, <2>4, <3>0 DEF HandleCancelled, Says, Identified
    <3>2. Moves
      BY <1>1, <2>4, <3>0 DEF HandleCancelled, Moves, m, Requests
    <3>3. Holds
      BY <1>a, <2>4 DEF HandleCancelled, Holds
    <3> QED
      BY <3>1, <3>2, <3>3
  <2>5. CASE HandleInitialize
    <3>1. Says
      BY <1>4, <2>5 DEF HandleInitialize, Serving, Says, Identified, Requests, m
    <3>2. Moves
      BY <1>1, <2>5 DEF HandleInitialize, Serving, Moves, m
    <3>3. Holds
      BY <1>a, <2>5 DEF HandleInitialize, Holds
    <3> QED
      BY <3>1, <3>2, <3>3
  <2>6. CASE HandleInitializeAgain
    <3>1. Says
      BY <1>4, <2>6 DEF HandleInitializeAgain, Serving, Says, Identified, Requests, m
    <3>2. Moves
      BY <1>1, <2>6 DEF HandleInitializeAgain, Serving, Moves, stateVars, m
    <3>3. Holds
      BY <1>a, <2>6 DEF HandleInitializeAgain, Holds, stateVars
    <3> QED
      BY <3>1, <3>2, <3>3
  <2>7. CASE HandleTooEarly
    <3>1. Says
      <4>1. CASE HasId
        <5>1. m.kind \in Identified
          BY <4>1 DEF HasId, IsRequest, Identified, Requests, m
        <5> QED
          BY <1>4, <2>7, <4>1, <5>1 DEF HandleTooEarly, Says
      <4>2. CASE ~HasId
        BY <2>7, <4>2 DEF HandleTooEarly, Says
      <4> QED
        BY <4>1, <4>2
    <3>2. Moves
      BY <1>1, <2>7 DEF HandleTooEarly, Moves, stateVars, m
    <3>3. Holds
      BY <1>a, <2>7 DEF HandleTooEarly, Holds, stateVars
    <3> QED
      BY <3>1, <3>2, <3>3
  <2>8. CASE HandleFolders \/ HandleRemovedOnly
    <3>1. Says
      BY <2>8 DEF HandleFolders, HandleRemovedOnly, Says
    <3>2. Moves
      BY <1>1, <2>8 DEF HandleFolders, HandleRemovedOnly, Initialized, Serving, Moves, m
    <3>3. Holds
      BY <1>a, <2>8 DEF HandleFolders, HandleRemovedOnly, Holds
    <3> QED
      BY <3>1, <3>2, <3>3
  <2>9. CASE HandleShutdown
    <3>1. Says
      BY <1>4, <2>9 DEF HandleShutdown, Initialized, Serving, Says, Identified, Requests, m
    <3>2. Moves
      BY <1>1, <2>9 DEF HandleShutdown, Initialized, Serving, Moves, m
    <3>3. Holds
      BY <1>a, <2>9 DEF HandleShutdown, Holds
    <3> QED
      BY <3>1, <3>2, <3>3
  <2>10. CASE HandleRequest
    <3>1. Says
      BY <1>4, <2>10 DEF HandleRequest, MayAnswer, Initialized, Serving, Says, Identified, Requests,
                         stateVars, m
    <3>2. Moves
      BY <1>1, <2>10 DEF HandleRequest, Initialized, Serving, Moves, stateVars, m
    <3>3. Holds
      BY <1>a, <2>10 DEF HandleRequest, Holds, stateVars
    <3> QED
      BY <3>1, <3>2, <3>3
  <2>11. CASE HandleDidOpen
    <3> DEFINE state == [version |-> m.version, text |-> m.text]
    <3>0. /\ m.kind = "didOpen" /\ IsDoc(m) /\ m.doc \in Documents /\ ~shutdownRequested
          /\ state \in DocState
          /\ m.version \in Nat /\ m.text \in Seq(Pieces)
      <4>1. m.kind = "didOpen" /\ ~shutdownRequested
        BY <2>11 DEF HandleDidOpen, Initialized, Serving, m
      <4>2. IsDoc(m)
        BY <4>1 DEF IsDoc, DocKinds
      <4> QED
        BY <1>2, <4>1, <4>2, SentFacts DEF DocState
    <3>1. Says
      <4>1. CASE store'[m.doc] = state
        <5>1. MayPublish(m.doc, m.version, m.text)
          BY <2>11, <4>1 DEF HandleDidOpen, m
        <5> QED
          BY <1>5, <3>0, <5>1 DEF MayPublish, Says
      <4>2. CASE store'[m.doc] # state
        BY <2>11, <4>2 DEF HandleDidOpen, Says, m
      <4> QED
        BY <4>1, <4>2
    <3>2. Moves
      BY <1>1, <2>11, <3>0 DEF HandleDidOpen, Moves
    <3>3. store' = Placed(m.doc, state)
      BY <2>11 DEF HandleDidOpen, m
    <3>4. store' \in Stores
      BY <1>a, <3>0, <3>3, StoreFacts DEF Placed
    <3>5. Holds
      BY <3>0, <3>4 DEF Holds
    <3> QED
      BY <3>1, <3>2, <3>5
  <2>12. CASE HandleDidChange
    <3> DEFINE text == Applied(store[m.doc], m)
    <3>0. /\ m.kind = "didChange" /\ IsDoc(m) /\ m.doc \in Documents /\ ~shutdownRequested
          /\ m.version \in Nat /\ m.whole \in BOOLEAN
          /\ m.first \in Nat /\ m.last \in Nat /\ m.first <= m.last /\ m.put \in Seq(Pieces)
      <4>1. m.kind = "didChange" /\ ~shutdownRequested
        BY <2>12 DEF HandleDidChange, Initialized, Serving, m
      <4>2. IsDoc(m)
        BY <4>1 DEF IsDoc, DocKinds
      <4> QED
        BY <1>2, <4>1, <4>2, SentFacts
    <3>1. Moves
      BY <1>1, <2>12, <3>0 DEF HandleDidChange, Moves
    <3>2. CASE m.doc \in OpenInServer /\ Accepted(store[m.doc], m)
      <4>1. /\ store' = [store EXCEPT ![m.doc] = [version |-> m.version, text |-> text]]
            /\ MayPublish(m.doc, m.version, text)
        BY <2>12, <3>2 DEF HandleDidChange, m
      <4>2. store[m.doc] \in DocState
        BY <1>a, <3>0, <3>2, StoreFacts DEF OpenInServer
      <4>3. m.whole \/ (m.first <= m.last /\ m.last <= Len(store[m.doc].text))
        BY <3>0, <3>2 DEF Accepted
      <4>4. text \in Seq(Pieces)
        BY <3>0, <4>2, <4>3, AppliedFacts
      <4> HIDE DEF text
      <4>5. [version |-> m.version, text |-> text] \in DocState
        BY <3>0, <4>4 DEF DocState
      <4>6. store' \in Stores
        BY <1>a, <3>0, <4>1, <4>5, StoreFacts
      <4>7. Says
        BY <1>5, <3>0, <4>1, <4>4 DEF MayPublish, Says
      <4> QED
        BY <3>0, <3>1, <4>6, <4>7 DEF Holds
    <3>3. CASE ~(m.doc \in OpenInServer /\ Accepted(store[m.doc], m))
      <4>1. store' = store /\ toClient' = toClient
        BY <2>12, <3>3 DEF HandleDidChange, m
      <4> QED
        BY <1>a, <3>1, <4>1 DEF Says, Holds
    <3> QED
      BY <3>2, <3>3
  <2>13. CASE HandleDidClose
    <3>0. m.kind = "didClose" /\ IsDoc(m) /\ m.doc \in Documents /\ ~shutdownRequested
      <4>1. m.kind = "didClose" /\ ~shutdownRequested
        BY <2>13 DEF HandleDidClose, Initialized, Serving, m
      <4>2. IsDoc(m)
        BY <4>1 DEF IsDoc, DocKinds
      <4> QED
        BY <1>2, <4>1, <4>2, SentFacts
    <3>1. Says
      <4>1. CASE m.doc \in OpenInServer
        <5>1. Publish(m.doc, store[m.doc].version, None)
          BY <2>13, <4>1 DEF HandleDidClose, m
        <5>2. store[m.doc].version \in Nat
          BY <1>a, <3>0, <4>1, StoreFacts DEF OpenInServer
        <5> QED
          BY <1>5, <3>0, <5>1, <5>2 DEF Says
      <4>2. CASE m.doc \notin OpenInServer
        BY <2>13, <4>2 DEF HandleDidClose, Says, m
      <4> QED
        BY <4>1, <4>2
    <3>2. Moves
      BY <1>1, <2>13, <3>0 DEF HandleDidClose, Moves
    <3>3. store' = [store EXCEPT ![m.doc] = None]
      BY <2>13 DEF HandleDidClose, m
    <3>4. Holds
      BY <1>a, <3>0, <3>3, StoreFacts DEF Holds
    <3> QED
      BY <3>1, <3>2, <3>4
  <2> QED
    BY <2>1, <2>2, <2>3, <2>4, <2>5, <2>6, <2>7, <2>8, <2>9, <2>10, <2>11, <2>12, <2>13 DEF Handle
<1> QED
  BY <1>1, <1>2, <1>6 DEF m

-------------------------------------------------------------------------------
(* What the user does to a document. *)

LEMMA TextFacts ==
  ASSUME NEW t \in Texts
  PROVE  t \in Seq(Pieces) /\ Len(t) \in Nat /\ Len(t) <= MaxEdited
<1>1. PICK n \in 0 .. MaxEdited : t \in [1 .. n -> Pieces]
  BY DEF Texts, SeqOf
<1>2. n \in Nat /\ n <= MaxEdited
  BY <1>1, SessionAssumption
<1>3. t \in Seq(Pieces) /\ Len(t) = n
  BY <1>1, <1>2
<1> QED
  BY <1>2, <1>3

LEMMA NotifyFacts ==
  ASSUME Shapes, NEW m \in Sent
  PROVE  /\ Notify(<<m>>) =>
              toServer' = IF process /\ server = "running" THEN Append(toServer, m) ELSE toServer
         /\ Notify(<<>>) => toServer' = toServer
         /\ Append(toServer, m) \in Seq(Sent)
<1>1. toServer \in Seq(Sent)
  BY DEF Shapes
<1>2. toServer \o <<>> = toServer /\ toServer \o <<m>> = Append(toServer, m)
  BY <1>1, OneFacts, ConcatEmptySeq
<1>3. Append(toServer, m) \in Seq(Sent)
  BY <1>1, AppendFacts
<1> QED
  BY <1>2, <1>3 DEF Notify, Delivered

(***************************************************************************)
(* An edit by the user: the message m about it is right about what becomes *)
(* of the client's documents, and goes to a server that is taken for       *)
(* ready.                                                                  *)
(***************************************************************************)
Edit(d, m) ==
  /\ ~stopping /\ IsDoc(m) /\ m.doc = d
  /\ documents' \in Stores /\ FitInv'
  /\ toServer' \in Seq(Sent)
  /\ \/ toServer' = toServer
     \/ ready /\ process /\ server = "running" /\ toServer' = Append(toServer, m)
  /\ MaxEdited <= MaxText =>
       /\ Effect(documents, m, documents')
       /\ ready /\ process /\ server = "running" => toServer' = Append(toServer, m)
  /\ shown' = shown \/ shown' = [shown EXCEPT ![d] = None]
  /\ UNCHANGED <<server, stateVars, toClient, folders, control, requests, crashes>>

LEMMA OpenFacts ==
  ASSUME Shapes, FitInv, NEW d \in Documents, NEW text \in Texts, Open(d, text)
  PROVE  \E m \in Sent : Edit(d, m)
<1> DEFINE state == [version |-> 1, text |-> text]
           m == DidOpen(d, state)
<1>1. text \in Seq(Pieces) /\ Len(text) \in Nat /\ Len(text) <= MaxEdited
  BY TextFacts
<1>2. state \in DocState /\ state # None
  BY <1>1, SessionAssumption DEF DocState
<1>3. /\ m \in Sent /\ m.kind = "didOpen" /\ m.doc = d /\ m.version = 1 /\ m.text = text
  BY <1>1 DEF Sent, DidOpen
<1>4. /\ ~stopping /\ documents[d] = None
      /\ Cardinality({e \in Documents : documents[e] # None}) < MaxOpen
      /\ documents' = [documents EXCEPT ![d] = state]
      /\ IF ready THEN Notify(Fitting(m)) ELSE toServer' = toServer
      /\ UNCHANGED <<server, stateVars, toClient, folders, shown, control, requests, crashes>>
  BY DEF Open, UserEvent
<1>5. documents \in Stores /\ documents \in [Documents -> DocState \cup {None}] /\ toServer \in Seq(Sent)
  BY DEF Shapes, Stores
<1>6. Carried(m) = Len(text)
  BY <1>3 DEF Carried
<1>7. IsDoc(m)
  BY <1>3 DEF IsDoc, DocKinds
<1> HIDE DEF m, state
<1>8. documents' \in Stores
  BY <1>2, <1>4, <1>5, StoreFacts
<1>9. OpenIn(documents') = OpenIn(documents) \cup {d}
  BY <1>2, <1>4, <1>5 DEF OpenIn
<1>10. d \notin OpenIn(documents) /\ Cardinality(OpenIn(documents)) < MaxOpen /\ IsFiniteSet(OpenIn(documents))
  BY <1>4 DEF OpenIn, FitInv
<1>11. FitInv'
  <2>1. IsFiniteSet(OpenIn(documents) \cup {d}) /\ Cardinality(OpenIn(documents) \cup {d}) = Cardinality(OpenIn(documents)) + 1
    BY <1>10, FS_AddElement
  <2>2. Cardinality(OpenIn(documents)) \in Nat /\ MaxOpen \in Nat
    BY <1>10, FS_CardinalityType, LimitsAssumption
  <2>3. IsFiniteSet(OpenIn(documents')) /\ Cardinality(OpenIn(documents')) <= MaxOpen
    BY <1>9, <1>10, <2>1, <2>2
  <2>4. ASSUME NEW e \in OpenIn(documents') PROVE Len(documents'[e].text) <= MaxEdited
    <3>1. CASE e = d
      <4>1. documents'[d].text = text
        BY <1>4, <1>5 DEF state
      <4> QED
        BY <1>1, <3>1, <4>1
    <3>2. CASE e # d
      BY <1>4, <1>5, <1>9, <3>2 DEF FitInv, OpenIn
    <3> QED
      BY <3>1, <3>2
  <2> QED
    BY <2>3, <2>4 DEF FitInv
<1>12. Effect(documents, m, documents')
  <2>1. state = [version |-> m.version, text |-> m.text]
    BY <1>3 DEF state
  <2> QED
    BY <1>3, <1>4, <1>10, <2>1 DEF Effect
<1>13. Fitting(m) = <<m>> \/ (Fitting(m) = <<>> /\ ~(MaxEdited <= MaxText))
  BY <1>1, <1>6, SessionAssumption, LimitsAssumption DEF Fitting
<1>14. /\ toServer' = toServer \/ (ready /\ process /\ server = "running" /\ toServer' = Append(toServer, m))
       /\ MaxEdited <= MaxText /\ ready /\ process /\ server = "running" => toServer' = Append(toServer, m)
  <2>1. CASE ~ready
    BY <1>4, <2>1
  <2>2. CASE ready /\ Fitting(m) = <<m>>
    <3>1. toServer' = IF process /\ server = "running" THEN Append(toServer, m) ELSE toServer
      BY <1>3, <1>4, <2>2, NotifyFacts
    <3> QED
      BY <2>2, <3>1
  <2>3. CASE ready /\ Fitting(m) = <<>> /\ ~(MaxEdited <= MaxText)
    <3>1. toServer' = toServer
      BY <1>3, <1>4, <2>3, NotifyFacts
    <3> QED
      BY <2>3, <3>1
  <2> QED
    BY <1>13, <2>1, <2>2, <2>3
<1>15. toServer' \in Seq(Sent)
  BY <1>3, <1>5, <1>14, NotifyFacts
<1> QED
  BY <1>3, <1>4, <1>7, <1>8, <1>11, <1>12, <1>14, <1>15 DEF Edit

LEMMA CloseFacts ==
  ASSUME Shapes, FitInv, NEW d \in Documents, Close(d)
  PROVE  \E m \in Sent : Edit(d, m)
<1> DEFINE m == [kind |-> "didClose", doc |-> d]
<1>1. m \in Sent /\ m.kind = "didClose" /\ m.doc = d
  BY DEF Sent
<1>2. /\ ~stopping /\ documents[d] # None
      /\ documents' = [documents EXCEPT ![d] = None]
      /\ shown' = [shown EXCEPT ![d] = None]
      /\ IF ready THEN Notify(<<m>>) ELSE toServer' = toServer
      /\ UNCHANGED <<server, stateVars, toClient, folders, control, requests, crashes>>
  BY DEF Close, UserEvent
<1>3. documents \in Stores /\ documents \in [Documents -> DocState \cup {None}] /\ toServer \in Seq(Sent)
  BY DEF Shapes, Stores
<1>4. IsDoc(m)
  BY <1>1 DEF IsDoc, DocKinds
<1> HIDE DEF m
<1>5. documents' \in Stores
  BY <1>2, <1>3, StoreFacts
<1>6. OpenIn(documents') = OpenIn(documents) \ {d}
  BY <1>2, <1>3 DEF OpenIn
<1>7. FitInv'
  <2>1. IsFiniteSet(OpenIn(documents)) /\ Cardinality(OpenIn(documents)) <= MaxOpen
    BY DEF FitInv
  <2>2. /\ IsFiniteSet(OpenIn(documents'))
        /\ Cardinality(OpenIn(documents')) <= Cardinality(OpenIn(documents))
    BY <1>6, <2>1, FS_Subset
  <2>3. Cardinality(OpenIn(documents)) \in Nat /\ Cardinality(OpenIn(documents')) \in Nat /\ MaxOpen \in Nat
    BY <2>1, <2>2, FS_CardinalityType, LimitsAssumption
  <2>4. Cardinality(OpenIn(documents')) <= MaxOpen
    BY <2>1, <2>2, <2>3
  <2>5. ASSUME NEW e \in OpenIn(documents') PROVE Len(documents'[e].text) <= MaxEdited
    BY <1>2, <1>3, <1>6 DEF FitInv, OpenIn
  <2> QED
    BY <2>2, <2>4, <2>5 DEF FitInv
<1>8. Effect(documents, m, documents')
  BY <1>1, <1>2 DEF Effect, OpenIn
<1>9. toServer' = IF ready /\ process /\ server = "running" THEN Append(toServer, m) ELSE toServer
  <2>1. CASE ready
    BY <1>1, <1>2, <2>1, NotifyFacts
  <2> QED
    BY <1>2, <2>1
<1>10. toServer' \in Seq(Sent)
  BY <1>1, <1>3, <1>9, NotifyFacts
<1> QED
  BY <1>1, <1>2, <1>4, <1>5, <1>7, <1>8, <1>9, <1>10 DEF Edit

LEMMA ChangeFacts ==
  ASSUME Shapes, FitInv, NEW d \in Documents, Change(d)
  PROVE  \E m \in Sent : Edit(d, m)
<1>1. documents[d] # None
  BY DEF Change
<1>2. documents \in Stores /\ documents \in [Documents -> DocState \cup {None}] /\ toServer \in Seq(Sent)
  BY DEF Shapes, Stores
<1>3. documents[d] \in DocState /\ documents[d].version \in Nat /\ documents[d].text \in Seq(Pieces)
      /\ Len(documents[d].text) \in Nat
  BY <1>1, <1>2, StoreFacts, LenProperties
<1>4. PICK edit : /\ ChangeBy(d, edit)
                  /\ edit.whole \in BOOLEAN /\ edit.first \in Nat /\ edit.last \in Nat
                  /\ edit.put \in Seq(Pieces) /\ edit.first <= edit.last
                  /\ edit.whole \/ edit.last <= Len(documents[d].text)
  <2>1. CASE \E first, last \in 0 .. Len(documents[d].text), put \in {<<>>} \cup {<<p>> : p \in Pieces} :
               /\ first <= last
               /\ ChangeBy(d, [whole |-> FALSE, first |-> first, last |-> last, put |-> put])
    <3>1. PICK first \in 0 .. Len(documents[d].text), last \in 0 .. Len(documents[d].text),
               put \in {<<>>} \cup {<<p>> : p \in Pieces} :
                 /\ first <= last
                 /\ ChangeBy(d, [whole |-> FALSE, first |-> first, last |-> last, put |-> put])
      BY <2>1
    <3>2. put \in Seq(Pieces)
      <4>1. CASE put = <<>>
        BY <4>1
      <4>2. ASSUME NEW p \in Pieces, put = <<p>> PROVE put \in Seq(Pieces)
        BY <4>2
      <4> QED
        BY <3>1, <4>1, <4>2
    <3>3. first \in Nat /\ last \in Nat /\ last <= Len(documents[d].text)
      BY <1>3, <3>1
    <3> DEFINE e == [whole |-> FALSE, first |-> first, last |-> last, put |-> put]
    <3>4. e.whole = FALSE /\ e.first = first /\ e.last = last /\ e.put = put
      OBVIOUS
    <3>5. ChangeBy(d, e)
      BY <3>1
    <3> HIDE DEF e
    <3> QED
      BY <3>1, <3>2, <3>3, <3>4, <3>5
  <2>2. CASE \E text \in Texts :
               ChangeBy(d, [whole |-> TRUE, first |-> 0, last |-> 0, put |-> text])
    <3>1. PICK text \in Texts : ChangeBy(d, [whole |-> TRUE, first |-> 0, last |-> 0, put |-> text])
      BY <2>2
    <3>2. text \in Seq(Pieces)
      BY <3>1, TextFacts
    <3> DEFINE e == [whole |-> TRUE, first |-> 0, last |-> 0, put |-> text]
    <3>3. e.whole = TRUE /\ e.first = 0 /\ e.last = 0 /\ e.put = text
      OBVIOUS
    <3>4. ChangeBy(d, e)
      BY <3>1
    <3> HIDE DEF e
    <3>5. e.whole \in BOOLEAN /\ e.whole
      BY <3>3
    <3>6. e.first \in Nat /\ e.last \in Nat /\ e.first <= e.last
      BY <3>3
    <3> QED
      BY <3>2, <3>3, <3>4, <3>5, <3>6
  <2> QED
    BY <2>1, <2>2 DEF Change
<1> DEFINE prior == documents[d]
           text == Applied(prior, edit)
           next == [version |-> prior.version + 1, text |-> text]
           m == [kind |-> "didChange", doc |-> d, version |-> prior.version + 1,
                 whole |-> edit.whole, first |-> edit.first, last |-> edit.last, put |-> edit.put]
<1>5. text \in Seq(Pieces) /\ Len(text) \in Nat
      /\ (~edit.whole => Len(text) = edit.first + Len(edit.put) + Len(prior.text) - edit.last)
      /\ (edit.whole => text = edit.put)
  <2>1. edit.whole \/ (edit.first <= edit.last /\ edit.last <= Len(prior.text))
    BY <1>4
  <2>2. prior \in DocState
    BY <1>3
  <2>3. edit.whole => text = edit.put
    BY DEF Applied
  <2>4. text \in Seq(Pieces)
        /\ (~edit.whole => Len(text) = edit.first + Len(edit.put) + Len(prior.text) - edit.last)
    <3> HIDE DEF prior
    <3> QED
      BY <1>4, <2>1, <2>2, AppliedFacts
  <2> QED
    BY <2>3, <2>4, LenProperties
<1>6. /\ m \in Sent /\ m.kind = "didChange" /\ m.doc = d /\ m.version = prior.version + 1
      /\ m.whole = edit.whole /\ m.first = edit.first /\ m.last = edit.last /\ m.put = edit.put
  <2>1. prior.version + 1 \in Nat
    BY <1>3
  <2> QED
    BY <1>4, <2>1 DEF Sent
<1>7. Applied(prior, m) = text
  BY <1>6 DEF Applied
<1>8. IsDoc(m) /\ Carried(m) = Len(edit.put)
  BY <1>6 DEF IsDoc, DocKinds, Carried
<1>9. /\ ~stopping
      /\ Len(text) <= MaxEdited
      /\ documents' = [documents EXCEPT ![d] = next]
      /\ IF ready THEN Notify(Fitting(m)) ELSE toServer' = toServer
      /\ UNCHANGED <<server, stateVars, toClient, folders, shown, control, requests, crashes>>
  BY <1>4 DEF ChangeBy, UserEvent
<1>10. next \in DocState /\ next # None /\ next.text = text
  BY <1>3, <1>5, SessionAssumption DEF DocState
<1>11. next = [version |-> m.version, text |-> Applied(prior, m)]
  BY <1>6, <1>7
<1>12. Len(edit.put) \in Nat /\ Len(edit.put) <= Len(text)
  <2>1. Len(edit.put) \in Nat
    BY <1>4, LenProperties
  <2>2. CASE edit.whole
    BY <1>5, <2>1, <2>2
  <2>3. CASE ~edit.whole
    <3>1. edit.last <= Len(prior.text) /\ edit.first \in Nat /\ edit.last \in Nat /\ Len(prior.text) \in Nat
      BY <1>3, <1>4, <2>3
    <3>2. Len(text) = edit.first + Len(edit.put) + Len(prior.text) - edit.last
      BY <1>5, <2>3
    <3> HIDE DEF text, prior
    <3> QED
      BY <2>1, <3>1, <3>2
  <2> QED
    BY <2>2, <2>3
<1>p. prior = documents[d]
  OBVIOUS
<1> HIDE DEF m, next, text, prior
<1>13. documents' \in Stores
  BY <1>2, <1>9, <1>10, StoreFacts
<1>14. OpenIn(documents') = OpenIn(documents) /\ d \in OpenIn(documents)
  BY <1>1, <1>2, <1>9, <1>10 DEF OpenIn
<1>15. FitInv'
  <2>1. IsFiniteSet(OpenIn(documents')) /\ Cardinality(OpenIn(documents')) <= MaxOpen
    BY <1>14 DEF FitInv
  <2>2. ASSUME NEW e \in OpenIn(documents') PROVE Len(documents'[e].text) <= MaxEdited
    <3>1. CASE e = d
      BY <1>2, <1>9, <1>10, <3>1
    <3>2. CASE e # d
      BY <1>2, <1>9, <1>14, <3>2 DEF FitInv, OpenIn
    <3> QED
      BY <3>1, <3>2
  <2> QED
    BY <2>1, <2>2 DEF FitInv
<1>16. MaxEdited <= MaxText => Effect(documents, m, documents')
  <2> SUFFICES ASSUME MaxEdited <= MaxText PROVE Effect(documents, m, documents')
    OBVIOUS
  <2>1. Len(text) <= MaxText
    BY <1>5, <1>9, SessionAssumption, LimitsAssumption
  <2>2. m.version > prior.version
    BY <1>3, <1>6, <1>p
  <2>3. m.whole \/ /\ m.last <= Len(prior.text)
                   /\ m.first + Len(m.put) + Len(prior.text) - m.last <= MaxText
    <3>1. CASE m.whole
      BY <3>1
    <3>2. CASE ~m.whole
      <4>1. m.last <= Len(prior.text)
        BY <1>4, <1>6, <1>p, <3>2
      <4>2. m.first + Len(m.put) + Len(prior.text) - m.last = Len(text)
        BY <1>5, <1>6, <3>2
      <4> QED
        BY <2>1, <4>1, <4>2
    <3> QED
      BY <3>1, <3>2
  <2>4. Accepted(documents[d], m)
    BY <2>2, <2>3, <1>p DEF Accepted
  <2> QED
    BY <1>6, <1>9, <1>11, <1>14, <1>p, <2>4 DEF Effect
<1>17. Fitting(m) = <<m>> \/ (Fitting(m) = <<>> /\ ~(MaxEdited <= MaxText))
  <2>1. Len(edit.put) <= MaxEdited
    BY <1>5, <1>9, <1>12, SessionAssumption
  <2> QED
    BY <1>8, <1>12, <2>1, SessionAssumption, LimitsAssumption DEF Fitting
<1>18. /\ toServer' = toServer \/ (ready /\ process /\ server = "running" /\ toServer' = Append(toServer, m))
       /\ MaxEdited <= MaxText /\ ready /\ process /\ server = "running" => toServer' = Append(toServer, m)
  <2>1. CASE ~ready
    BY <1>9, <2>1
  <2>2. CASE ready /\ Fitting(m) = <<m>>
    <3>1. toServer' = IF process /\ server = "running" THEN Append(toServer, m) ELSE toServer
      BY <1>6, <1>9, <2>2, NotifyFacts
    <3> QED
      BY <2>2, <3>1
  <2>3. CASE ready /\ Fitting(m) = <<>> /\ ~(MaxEdited <= MaxText)
    <3>1. toServer' = toServer
      BY <1>6, <1>9, <2>3, NotifyFacts
    <3> QED
      BY <2>3, <3>1
  <2> QED
    BY <1>17, <2>1, <2>2, <2>3
<1>19. toServer' \in Seq(Sent)
  BY <1>2, <1>6, <1>18, NotifyFacts
<1> QED
  BY <1>6, <1>8, <1>9, <1>13, <1>15, <1>16, <1>18, <1>19 DEF Edit

\* A change of the folders: a message about it is all that the server gets.
FolderStep(m) ==
  /\ m.kind = "folders" /\ folders' \in Seq(Roots) /\ folders' # <<>>
  /\ toServer' \in Seq(Sent)
  /\ \/ toServer' = toServer
     \/ ready /\ process /\ server = "running" /\ toServer' = Append(toServer, m)
  /\ UNCHANGED <<server, stateVars, toClient, documents, shown, control, requests, crashes>>

LEMMA FolderFacts ==
  ASSUME Shapes,
         (\E r \in Roots : AddFolder(r)) \/ (\E i \in DOMAIN folders : RemoveFolder(i))
  PROVE  \E m \in Sent : FolderStep(m)
<1>1. folders \in Seq(Roots) /\ toServer \in Seq(Sent)
  BY DEF Shapes
<1>2. ASSUME NEW m \in Sent, m.kind = "folders", folders' \in Seq(Roots), folders' # <<>>,
             FolderEvent(m)
      PROVE  FolderStep(m)
  <2>1. /\ IF ready THEN Notify(<<m>>) ELSE toServer' = toServer
        /\ UNCHANGED <<server, stateVars, toClient, documents, shown, control, requests, crashes>>
    BY <1>2 DEF FolderEvent
  <2>2. toServer' = IF ready /\ process /\ server = "running" THEN Append(toServer, m) ELSE toServer
    <3>1. CASE ready
      BY <2>1, <3>1, NotifyFacts
    <3> QED
      BY <2>1, <3>1
  <2>3. toServer' \in Seq(Sent)
    BY <1>1, <2>2, NotifyFacts
  <2> QED
    BY <1>2, <2>1, <2>2, <2>3 DEF FolderStep
<1>3. CASE \E r \in Roots : AddFolder(r)
  <2>1. PICK r \in Roots : AddFolder(r)
    BY <1>3
  <2> DEFINE m == [kind |-> "folders", added |-> <<r>>, removed |-> <<>>]
  <2>2. folders' = Append(folders, r) /\ FolderEvent(m)
    BY <2>1 DEF AddFolder
  <2>3. m \in Sent /\ m.kind = "folders"
    BY DEF Sent
  <2>4. folders' \in Seq(Roots) /\ folders' # <<>>
    BY <1>1, <2>2, AppendProperties
  <2> HIDE DEF m
  <2> QED
    BY <1>2, <2>2, <2>3, <2>4
<1>4. CASE \E i \in DOMAIN folders : RemoveFolder(i)
  <2>1. PICK i \in DOMAIN folders : RemoveFolder(i)
    BY <1>4
  <2> DEFINE m == [kind |-> "folders", added |-> <<>>, removed |-> <<folders[i]>>]
  <2>2. folders' = RemoveAt(folders, i) /\ i > 1 /\ FolderEvent(m)
    BY <2>1 DEF RemoveFolder
  <2>3. i \in 1 .. Len(folders) /\ Len(folders) \in Nat /\ folders[i] \in Roots
    BY <1>1, <2>1, LenProperties, ElementOfSeq
  <2>4. m \in Sent /\ m.kind = "folders"
    BY <2>3 DEF Sent
  <2> HIDE DEF m
  <2> DEFINE before == SubSeq(folders, 1, i - 1)
             after == SubSeq(folders, i + 1, Len(folders))
  <2>5. before \in Seq(Roots) /\ Len(before) = i - 1
    <3>1. \A j \in 1 .. i - 1 : folders[j] \in Roots
      BY <1>1, <2>3, ElementOfSeq
    <3>2. 1 \in Int /\ i - 1 \in Int
      BY <2>3
    <3>3. before \in Seq(Roots) /\ Len(before) = IF 1 <= i - 1 THEN i - 1 - 1 + 1 ELSE 0
      BY <3>1, <3>2, SubSeqProperties
    <3> QED
      BY <2>2, <2>3, <3>3
  <2>6. after \in Seq(Roots)
    <3>1. \A j \in i + 1 .. Len(folders) : folders[j] \in Roots
      BY <1>1, <2>3, ElementOfSeq
    <3>2. i + 1 \in Int /\ Len(folders) \in Int
      BY <2>3
    <3> QED
      BY <3>1, <3>2, SubSeqProperties
  <2>7. folders' = before \o after
    BY <2>2 DEF RemoveAt
  <2> HIDE DEF before, after
  <2>8. /\ before \o after \in Seq(Roots)
        /\ Len(before \o after) = Len(before) + Len(after) /\ Len(after) \in Nat
    BY <2>5, <2>6, ConcatProperties, LenProperties
  <2>9. Len(folders') # 0
    BY <2>2, <2>3, <2>5, <2>7, <2>8
  <2>10. folders' \in Seq(Roots) /\ folders' # <<>>
    BY <2>7, <2>8, <2>9, EmptySeq
  <2> QED
    BY <1>2, <2>2, <2>4, <2>10
<1> QED
  BY <1>3, <1>4

(***************************************************************************)
(* Resynchronization: every document of the client that fits is opened,    *)
(* each of them once.                                                      *)
(***************************************************************************)
LEMMA SetToSeqFacts ==
  ASSUME NEW S, IsFiniteSet(S)
  PROVE  /\ SetToSeq(S) \in Seq(S) /\ Len(SetToSeq(S)) \in Nat
         /\ \A i, j \in 1 .. Len(SetToSeq(S)) : SetToSeq(S)[i] = SetToSeq(S)[j] => i = j
         /\ \A x \in S : \E i \in 1 .. Len(SetToSeq(S)) : SetToSeq(S)[i] = x
<1> DEFINE n == Cardinality(S)
           f == SetToSeq(S)
<1>1. n \in Nat /\ ExistsBijection(1 .. n, S)
  BY FS_CardinalityType
<1>2. \E g \in [1 .. n -> S] : IsInjective(g)
  BY <1>1 DEF ExistsBijection, Bijection, Injection
<1>3. f \in [1 .. n -> S] /\ IsInjective(f)
  BY <1>2 DEF SetToSeq
<1> HIDE DEF n, f
<1>4. \A i, j \in 1 .. n : f[i] = f[j] => i = j
  BY <1>3 DEF IsInjective
<1>5. f \in Seq(S) /\ Len(f) = n
  BY <1>1, <1>3
<1>6. ASSUME NEW x \in S PROVE \E i \in 1 .. n : f[i] = x
  <2> DEFINE T == {f[i] : i \in 1 .. n}
  <2>1. f \in [1 .. n -> T] /\ T \in SUBSET S
    BY <1>3
  <2>2. \A t \in T : \E i \in 1 .. n : f[i] = t
    OBVIOUS
  <2>3. f \in Bijection(1 .. n, T)
    BY <1>3, <2>1, <2>2 DEF Bijection, Injection, Surjection
  <2>4. ExistsBijection(1 .. n, T)
    BY <2>3 DEF ExistsBijection
  <2> HIDE DEF T
  <2>5. Cardinality(T) = n
    BY <1>1, <2>4, FS_CountingElements
  <2>6. S = T
    BY <2>1, <2>5, FS_Subset DEF n
  <2> QED
    BY <2>2, <2>6
<1> QED
  BY <1>1, <1>4, <1>5, <1>6 DEF f

\* The documents that a new server is told of.
Told == {d \in Documents : documents[d] # None /\ Len(documents[d].text) <= MaxText}

LEMMA SnapshotFacts ==
  ASSUME Shapes, FitInv
  PROVE  \E k \in Seq(Told) :
           /\ Snapshot \in Seq(Sent) /\ Len(Snapshot) = Len(k)
           /\ \A i \in 1 .. Len(k) : Snapshot[i] = DidOpen(k[i], documents[k[i]])
           /\ \A i, j \in 1 .. Len(k) : k[i] = k[j] => i = j
           /\ \A d \in Told : \E i \in 1 .. Len(k) : k[i] = d
<1> DEFINE k == SetToSeq(Told)
<1>1. IsFiniteSet(Told)
  <2>1. Told \in SUBSET OpenIn(documents) /\ IsFiniteSet(OpenIn(documents))
    BY DEF Told, OpenIn, FitInv
  <2> QED
    BY <2>1, FS_Subset
<1>2. /\ k \in Seq(Told) /\ Len(k) \in Nat
      /\ \A i, j \in 1 .. Len(k) : k[i] = k[j] => i = j
      /\ \A d \in Told : \E i \in 1 .. Len(k) : k[i] = d
  BY <1>1, SetToSeqFacts
<1>3. Snapshot = [i \in DOMAIN k |-> DidOpen(k[i], documents[k[i]])]
  BY DEF Snapshot, Told
<1> HIDE DEF k
<1>4. DOMAIN k = 1 .. Len(k)
  BY <1>2, LenProperties
<1>5. ASSUME NEW i \in 1 .. Len(k) PROVE DidOpen(k[i], documents[k[i]]) \in Sent
  <2>1. k[i] \in Told
    BY <1>2, ElementOfSeq
  <2>2. k[i] \in Documents /\ documents[k[i]] \in DocState
    BY <2>1, StoreFacts DEF Told, Shapes
  <2> QED
    BY <2>2 DEF DidOpen, Sent, DocState
<1>6. Snapshot \in [1 .. Len(k) -> Sent]
  BY <1>3, <1>4, <1>5
<1>7. Snapshot \in Seq(Sent) /\ Len(Snapshot) = Len(k)
  BY SMTT(30), <1>2, <1>6
<1>8. \A i \in 1 .. Len(k) : Snapshot[i] = DidOpen(k[i], documents[k[i]])
  BY <1>3, <1>4
<1> QED
  BY <1>2, <1>7, <1>8

-------------------------------------------------------------------------------
(* The order on the pipe to the server. *)

LEMMA TailOrder ==
  ASSUME NEW q \in Seq(Sent), q # <<>>, DocsPrecede(q)
  PROVE  /\ DocsPrecede(Tail(q))
         /\ Head(q).kind = "shutdown" => \A m \in Range(Tail(q)) : ~IsDoc(m)
<1> DEFINE t == Tail(q)
<1>1. /\ t \in Seq(Sent) /\ Len(t) = Len(q) - 1 /\ Len(q) \in Nat \ {0}
      /\ \A i \in 1 .. Len(q) - 1 : t[i] = q[i + 1]
      /\ Head(q) = q[1]
  BY TailFacts
<1> HIDE DEF t
<1>2. DOMAIN t = 1 .. Len(q) - 1 /\ DOMAIN q = 1 .. Len(q)
  BY <1>1, LenProperties
<1>3. DocsPrecede(t)
  <2> SUFFICES ASSUME NEW i \in DOMAIN t, NEW j \in DOMAIN t, i < j, t[i].kind = "shutdown"
               PROVE  ~IsDoc(t[j])
    BY DEF DocsPrecede
  <2>1. i + 1 \in DOMAIN q /\ j + 1 \in DOMAIN q /\ i + 1 < j + 1
    BY <1>1, <1>2
  <2>2. t[i] = q[i + 1] /\ t[j] = q[j + 1]
    BY <1>1, <1>2
  <2> QED
    BY <2>1, <2>2 DEF DocsPrecede
<1>4. ASSUME q[1].kind = "shutdown", NEW m \in Range(t) PROVE ~IsDoc(m)
  <2>1. PICK j \in 1 .. Len(t) : t[j] = m
    BY <1>1, RangeFacts
  <2>2. 1 \in DOMAIN q /\ j + 1 \in DOMAIN q /\ 1 < j + 1 /\ q[j + 1] = m
    BY <1>1, <1>2, <2>1
  <2> QED
    BY <1>4, <2>2 DEF DocsPrecede
<1> QED
  BY <1>1, <1>3, <1>4 DEF t

LEMMA AppendOrder ==
  ASSUME NEW q \in Seq(Sent), NEW m \in Sent, DocsPrecede(q),
         IsDoc(m) => \A n \in Range(q) : n.kind # "shutdown"
  PROVE  DocsPrecede(Append(q, m))
<1> DEFINE a == Append(q, m)
<1>1. /\ a \in Seq(Sent) /\ Len(a) = Len(q) + 1 /\ Len(q) \in Nat
      /\ \A i \in 1 .. Len(q) : a[i] = q[i]
      /\ a[Len(q) + 1] = m
  BY AppendFacts
<1> HIDE DEF a
<1>2. DOMAIN a = 1 .. Len(q) + 1 /\ DOMAIN q = 1 .. Len(q)
  BY <1>1, LenProperties
<1> SUFFICES ASSUME NEW i \in DOMAIN a, NEW j \in DOMAIN a, i < j, a[i].kind = "shutdown"
             PROVE  ~IsDoc(a[j])
  BY DEF DocsPrecede, a
<1>3. i \in DOMAIN q /\ a[i] = q[i]
  BY <1>1, <1>2
<1>4. CASE j \in DOMAIN q
  BY <1>1, <1>2, <1>3, <1>4 DEF DocsPrecede
<1>5. CASE j = Len(q) + 1
  <2>1. q[i] \in Range(q)
    BY <1>2, <1>3, RangeFacts
  <2> QED
    BY <1>1, <1>3, <1>5, <2>1
<1> QED
  BY <1>1, <1>2, <1>4, <1>5

LEMMA ConcatRange ==
  ASSUME NEW S, NEW q \in Seq(S), NEW r \in Seq(S)
  PROVE  q \o r \in Seq(S) /\ Range(q \o r) \in SUBSET (Range(q) \cup Range(r))
<1> DEFINE c == q \o r
<1>1. /\ c \in Seq(S) /\ Len(c) = Len(q) + Len(r) /\ Len(q) \in Nat /\ Len(r) \in Nat
      /\ \A i \in 1 .. Len(q) + Len(r) : c[i] = IF i <= Len(q) THEN q[i] ELSE r[i - Len(q)]
  BY ConcatProperties, LenProperties
<1> HIDE DEF c
<1>2. ASSUME NEW m \in Range(c) PROVE m \in Range(q) \cup Range(r)
  <2>1. PICK i \in 1 .. Len(c) : c[i] = m
    BY <1>1, RangeFacts
  <2>2. CASE i <= Len(q)
    <3>1. i \in 1 .. Len(q) /\ m = q[i]
      BY <1>1, <2>1, <2>2
    <3> QED
      BY <3>1, RangeFacts
  <2>3. CASE ~(i <= Len(q))
    <3>1. i - Len(q) \in 1 .. Len(r) /\ m = r[i - Len(q)]
      BY <1>1, <2>1, <2>3
    <3> QED
      BY <3>1, RangeFacts
  <2> QED
    BY <2>2, <2>3
<1> QED
  BY <1>1, <1>2 DEF c

-------------------------------------------------------------------------------
(* The steps of a session, with those of the user summed up. *)

LEMMA Steps ==
  ASSUME Shapes, FitInv, [Next]_vars
  PROVE  \/ Start \/ Serve
         \/ DeliverInitialized \/ DeliverShutdown \/ DeliverAnswer \/ DeliverDiagnostics
         \/ Exited \/ Crash
         \/ \E d \in Documents, m \in Sent : Edit(d, m)
         \/ \E m \in Sent : FolderStep(m)
         \/ Request \/ (\E p \in pending : CancelRequest(p)) \/ Stop
         \/ UNCHANGED vars
<1>1. CASE UserActs
  <2>1. ASSUME NEW d \in Documents, (\E text \in Texts : Open(d, text)) \/ Change(d) \/ Close(d)
        PROVE  \E m \in Sent : Edit(d, m)
    BY <2>1, OpenFacts, ChangeFacts, CloseFacts
  <2>2. CASE \E d \in Documents : (\E text \in Texts : Open(d, text)) \/ Change(d) \/ Close(d)
    BY <2>1, <2>2
  <2>3. CASE (\E r \in Roots : AddFolder(r)) \/ (\E i \in DOMAIN folders : RemoveFolder(i))
    BY <2>3, FolderFacts
  <2> QED
    BY <1>1, <2>2, <2>3 DEF UserActs
<1> QED
  BY <1>1 DEF Next, Receiving

-------------------------------------------------------------------------------
(* Each step keeps the core of the invariant. *)

LEMMA CoreStart ==
  ASSUME CoreInv, Start
  PROVE  CoreInv'
<1> DEFINE hello == [kind |-> "initialize", id |-> nextId, root |-> Head(folders)]
           waits == [id |-> nextId, kind |-> "initialize"]
<1>1. /\ ~process /\ ~stopping /\ process' = TRUE /\ server' = "running"
      /\ initialized' = FALSE /\ shutdownRequested' = FALSE
      /\ store' = [d \in Documents |-> None]
      /\ toServer' = <<hello>> /\ pending' = pending \cup {waits}
      /\ nextId' = nextId + 1
      /\ toClient' = toClient /\ documents' = documents /\ folders' = folders /\ shown' = shown
      /\ ready' = ready /\ stopping' = stopping /\ crashes' = crashes
  BY DEF Start, FreshState, StartId, mirror
<1>2. ~ready /\ pending = {} /\ nextId \in Nat
  BY <1>1 DEF CoreInv, ControlInv, Shapes
<1>3. hello \in Sent /\ hello.kind = "initialize" /\ hello.id = nextId
  <2>1. Head(folders) \in Roots
    BY HeadTailProperties DEF CoreInv, Shapes
  <2> QED
    BY <1>2, <2>1 DEF Sent
<1>4. waits \in [id : Nat, kind : Requests] /\ waits.id = nextId /\ waits.kind = "initialize"
  BY <1>2 DEF Requests
<1>5. pending' = {waits}
  BY <1>1, <1>2
<1> HIDE DEF hello, waits
<1>6. toServer' \in Seq(Sent) /\ Queued' = {hello} /\ Len(toServer') = 1
  BY <1>1, <1>3, OneFacts DEF Queued
<1>7. Arriving' = Arriving
  BY <1>1 DEF Arriving
<1>8. Shapes'
  <2>1. store' \in Stores
    BY <1>1 DEF Stores
  <2>2. nextId' \in Nat
    BY <1>1, <1>2
  <2> QED
    BY <1>1, <1>4, <1>5, <1>6, <2>1, <2>2 DEF CoreInv, Shapes
<1>9. FitInv'
  BY <1>1 DEF CoreInv, FitInv
<1>10. ControlInv'
  BY <1>1, <1>2, <1>4, <1>5 DEF ControlInv
<1>11. IdInv'
  <2>1. nextId < nextId'
    BY <1>1, <1>2
  <2>2. \A m \in Arriving : m.kind = "response" => m.id < nextId'
    <3> SUFFICES ASSUME NEW m \in Arriving, m.kind = "response" PROVE m.id < nextId'
      OBVIOUS
    <3>1. m.id < nextId
      BY DEF CoreInv, IdInv
    <3>2. m \in Received
      BY RangeFacts DEF Arriving, CoreInv, Shapes
    <3>3. m.id \in Nat
      BY <3>2, ReceivedFacts
    <3> QED
      BY <1>1, <1>2, <3>1, <3>3
  <2> QED
    BY <1>3, <1>4, <1>5, <1>6, <1>7, <2>1, <2>2 DEF IdInv
<1>12. HandshakeInv'
  <2>1. ASSUME NEW m \in Arriving, m.kind = "response" PROVE m.id # nextId
    <3>1. m.id < nextId
      BY <2>1 DEF CoreInv, IdInv
    <3> QED
      BY <1>2, <3>1
  <2>2. ASSUME NEW m \in Arriving', Greets(m)' PROVE FALSE
    BY <1>4, <1>5, <1>7, <2>1, <2>2 DEF Greets
  <2> QED
    BY <1>1, <1>2, <2>2 DEF HandshakeInv
<1>13. FreshInv'
  BY <1>1, <1>3, <1>6 DEF FreshInv, IsDoc, DocKinds
<1>14. OrderInv'
  <2>1. DocsPrecede(toServer')
    <3>1. DOMAIN toServer' = 1 .. 1
      BY <1>6, LenProperties
    <3> QED
      BY <3>1 DEF DocsPrecede
  <2> QED
    BY <1>1, <1>3, <1>6, <2>1 DEF OrderInv
<1> QED
  BY <1>8, <1>9, <1>10, <1>11, <1>12, <1>13, <1>14 DEF CoreInv

LEMMA CoreServe ==
  ASSUME CoreInv, Serve
  PROVE  CoreInv'
<1>1. Shapes /\ Handle /\ UNCHANGED clientVars
  BY DEF CoreInv, Serve
<1>2. /\ documents' = documents /\ folders' = folders /\ process' = process /\ ready' = ready
      /\ stopping' = stopping /\ pending' = pending /\ nextId' = nextId /\ shown' = shown
      /\ crashes' = crashes
  BY <1>1 DEF clientVars
<1> DEFINE m == Message
<1>3. /\ server = "running" /\ toServer # <<>> /\ toServer' = Tail(toServer)
      /\ m \in Sent /\ m = Head(toServer)
      /\ server' \in {"running", "exited"}
      /\ \/ toClient' = toClient
         \/ \E e \in Received : toClient' = Append(toClient, e) /\ Reply(m, e)
      /\ initialized => initialized'
      /\ shutdownRequested' => shutdownRequested \/ m.kind = "shutdown"
      /\ store' \in Stores
      /\ ~IsDoc(m) => store' = store
  BY <1>1, ServeFacts
<1> HIDE DEF m
<1>4. toServer \in Seq(Sent) /\ toClient \in Seq(Received)
  BY <1>1 DEF Shapes
<1>5. toServer' \in Seq(Sent) /\ m \in Queued /\ Queued' \in SUBSET Queued
  BY <1>3, <1>4, TailFacts DEF Queued
<1>6. /\ toClient' \in Seq(Received)
      /\ \A e \in Arriving' : e \in Arriving \/ Reply(m, e)
  <2>1. CASE toClient' = toClient
    BY <1>4, <2>1 DEF Arriving
  <2>2. ASSUME NEW e \in Received, toClient' = Append(toClient, e), Reply(m, e)
        PROVE  toClient' \in Seq(Received) /\ Arriving' = Arriving \cup {e}
    BY <1>4, <2>2, AppendFacts DEF Arriving
  <2> QED
    BY <1>3, <2>1, <2>2
<1>7. Shapes'
  BY <1>1, <1>2, <1>3, <1>5, <1>6 DEF Shapes
<1>8. FitInv'
  BY <1>2 DEF CoreInv, FitInv
<1>9. ControlInv'
  BY <1>2, <1>3 DEF CoreInv, ControlInv
<1>10. IdInv'
  <2>1. \A e \in Arriving' : e.kind = "response" => e.id < nextId
    BY <1>5, <1>6 DEF CoreInv, IdInv, Reply
  <2> QED
    BY <1>2, <1>5, <2>1 DEF CoreInv, IdInv
<1>11. HandshakeInv'
  <2> SUFFICES ASSUME server' = "running" PROVE (\A e \in Arriving' : Greets(e)' => initialized') /\ (ready' => initialized')
    BY DEF HandshakeInv
  <2>1. ASSUME NEW e \in Arriving', Greets(e)' PROVE initialized'
    <3>1. Greets(e) /\ e.kind = "response" /\ e.what = "result"
      BY <1>2, <2>1 DEF Greets
    <3>2. CASE e \in Arriving
      BY <1>3, <3>1, <3>2 DEF CoreInv, HandshakeInv
    <3>3. CASE Reply(m, e)
      BY <3>1, <3>3 DEF Reply
    <3> QED
      BY <1>6, <3>2, <3>3
  <2> QED
    BY <1>2, <1>3, <2>1 DEF CoreInv, HandshakeInv
<1>12. FreshInv'
  BY <1>2, <1>3, <1>5 DEF CoreInv, FreshInv
<1>13. OrderInv'
  <2>2. DocsPrecede(toServer') /\ (m.kind = "shutdown" => \A n \in Queued' : ~IsDoc(n))
    <3>1. DocsPrecede(toServer)
      BY <1>3 DEF CoreInv, OrderInv
    <3> QED
      BY <1>3, <1>4, <3>1, TailOrder DEF Queued
  <2>3. shutdownRequested' => stopping /\ \A n \in Queued' : ~IsDoc(n)
    <3>1. CASE shutdownRequested
      BY <1>3, <1>5, <3>1 DEF CoreInv, OrderInv
    <3>2. CASE m.kind = "shutdown"
      BY <1>3, <1>5, <2>2, <3>2 DEF CoreInv, OrderInv
    <3> QED
      BY <1>3, <3>1, <3>2
  <2>4. \A n \in Queued' : n.kind \in {"shutdown", "exit"} => stopping
    BY <1>3, <1>5 DEF CoreInv, OrderInv
  <2> QED
    BY <1>2, <2>2, <2>3, <2>4 DEF OrderInv
<1> QED
  BY <1>7, <1>8, <1>9, <1>10, <1>11, <1>12, <1>13 DEF CoreInv

LEMMA DeliverFacts ==
  ASSUME Shapes, Deliver
  PROVE  /\ toClient # <<>> /\ toClient' = Tail(toClient) /\ toClient' \in Seq(Received)
         /\ Arrived \in Arriving /\ Arrived \in Received /\ Arrived = Head(toClient)
         /\ Arriving' \in SUBSET Arriving
BY TailFacts DEF Shapes, Deliver, Arrived, Arriving

\* What is given up takes no number from what is left.
LEMMA IdShrinks ==
  ASSUME IdInv, pending' \in SUBSET pending, nextId' = nextId, Arriving' \in SUBSET Arriving,
         \A m \in Queued' : m \in Queued \/ m.kind \notin Identified
  PROVE  IdInv'
BY DEF IdInv, Identified

\* Nothing is asked of a server that is gone.
LEMMA CoreGone ==
  ASSUME CoreInv, Shapes', FitInv', ControlInv', IdInv', server' = "exited"
  PROVE  CoreInv'
BY DEF CoreInv, HandshakeInv, FreshInv, OrderInv

LEMMA CoreDeliverInitialized ==
  ASSUME CoreInv, DeliverInitialized
  PROVE  CoreInv'
<1>1. /\ Deliver /\ Arrived.kind = "response"
      /\ pending' = pending \ Settled
      /\ IF Arrived.what = "result"
         THEN ready' = TRUE /\ Notify(Snapshot) /\ server' = server
         ELSE server' = "exited" /\ toServer' = <<>> /\ ready' = ready
      /\ initialized' = initialized /\ shutdownRequested' = shutdownRequested /\ store' = store
      /\ documents' = documents /\ folders' = folders /\ shown' = shown
      /\ process' = process /\ stopping' = stopping /\ nextId' = nextId /\ crashes' = crashes
  BY DEF DeliverInitialized, Kill, stateVars, mirror, history
<1>2. PICK p \in Settled : p.kind = "initialize"
  BY DEF DeliverInitialized
<1>3. p \in pending /\ p.id = Arrived.id
  BY <1>2 DEF Settled
<1>4. ~ready /\ process
  BY <1>2, <1>3 DEF CoreInv, ControlInv
<1>5. toClient' \in Seq(Received) /\ Arrived \in Arriving /\ Arriving' \in SUBSET Arriving
  BY <1>1, DeliverFacts DEF CoreInv
<1>6. pending' \in SUBSET pending
  BY <1>1
<1>7. FitInv'
  BY <1>1 DEF CoreInv, FitInv
<1>8. ControlInv'
  <2>1. \A q \in pending' : q.kind # "initialize"
    BY <1>1, <1>2, <1>3 DEF CoreInv, ControlInv
  <2>2. server' = "running" => process'
    BY <1>1, <1>4
  <2> QED
    BY <1>1, <1>4, <1>6, <2>1, <2>2 DEF CoreInv, ControlInv
<1>9. CASE Arrived.what = "result"
  <2>1. ready' = TRUE /\ Notify(Snapshot) /\ server' = server
    BY <1>1, <1>9
  <2>2. /\ toServer' \in Seq(Sent)
        /\ \A m \in Queued' : m \in Queued \/ m.kind = "didOpen"
        /\ server = "running" => toServer' = toServer \o Snapshot
    <3>1. PICK k \in Seq(Told) :
             /\ Snapshot \in Seq(Sent) /\ Len(Snapshot) = Len(k)
             /\ \A i \in 1 .. Len(k) : Snapshot[i] = DidOpen(k[i], documents[k[i]])
      BY SnapshotFacts DEF CoreInv
    <3> DEFINE s == Snapshot
    <3>2. s \in Seq(Sent) /\ \A i \in 1 .. Len(s) : s[i].kind = "didOpen"
      <4>1. \A d \in Documents : DidOpen(d, documents[d]).kind = "didOpen"
        BY DEF DidOpen
      <4>2. \A i \in 1 .. Len(k) : k[i] \in Documents
        BY ElementOfSeq DEF Told
      <4>3. \A i \in 1 .. Len(k) : s[i].kind = "didOpen"
        BY <3>1, <4>1, <4>2
      <4> QED
        BY <3>1, <4>3
    <3>3. toServer \in Seq(Sent)
      BY DEF CoreInv, Shapes
    <3>4. toServer' = IF server = "running" THEN toServer \o s ELSE toServer
      <4>1. toServer \o <<>> = toServer
        BY <3>3, ConcatEmptySeq
      <4> QED
        BY <1>4, <2>1, <4>1 DEF Notify, Delivered
    <3> HIDE DEF s
    <3>5. \A m \in Range(s) : m.kind = "didOpen"
      BY <3>2, RangeFacts
    <3>6. toServer \o s \in Seq(Sent) /\ Range(toServer \o s) \in SUBSET (Range(toServer) \cup Range(s))
      BY <3>2, <3>3, ConcatRange
    <3>7. CASE server = "running"
      BY <3>4, <3>5, <3>6, <3>7 DEF Queued, s
    <3>8. CASE server # "running"
      BY <3>3, <3>4, <3>8 DEF Queued
    <3> QED
      BY <3>7, <3>8
  <2>3. Shapes'
    BY <1>1, <1>5, <1>6, <2>1, <2>2 DEF CoreInv, Shapes
  <2>4. IdInv'
    BY <1>1, <1>5, <1>6, <2>2, IdShrinks DEF CoreInv, Identified, Requests
  <2>5. HandshakeInv'
    <3>1. server = "running" => initialized
      BY <1>1, <1>2, <1>3, <1>5, <1>9 DEF CoreInv, HandshakeInv, Greets
    <3> QED
      BY <1>1, <2>1, <3>1 DEF HandshakeInv
  <2>6. FreshInv'
    BY <2>1 DEF FreshInv
  <2>7. OrderInv'
    <3> SUFFICES ASSUME server' = "running" PROVE OrderInv'
      BY DEF OrderInv
    <3>1. ~shutdownRequested /\ \A m \in Queued : m.kind # "shutdown"
      BY <1>4, <2>1 DEF CoreInv, FreshInv
    <3>2. \A m \in Queued' : m.kind # "shutdown"
      BY <2>2, <3>1
    <3>3. DocsPrecede(toServer')
      BY <2>2, <3>2, RangeFacts DEF DocsPrecede, Queued
    <3>4. \A m \in Queued' : m.kind = "exit" => stopping
      BY <2>1, <2>2 DEF CoreInv, OrderInv
    <3> QED
      BY <1>1, <3>1, <3>2, <3>3, <3>4 DEF OrderInv
  <2> QED
    BY <1>7, <1>8, <2>3, <2>4, <2>5, <2>6, <2>7 DEF CoreInv
<1>10. CASE Arrived.what # "result"
  <2>1. server' = "exited" /\ toServer' = <<>>
    BY <1>1, <1>10
  <2>2. toServer' \in Seq(Sent) /\ Queued' = {}
    BY <2>1 DEF Queued, Range
  <2>3. Shapes'
    BY <1>1, <1>5, <1>6, <2>1, <2>2 DEF CoreInv, Shapes
  <2>4. IdInv'
    BY <1>1, <1>5, <1>6, <2>2, IdShrinks DEF CoreInv
  <2> QED
    BY <1>7, <1>8, <2>1, <2>3, <2>4, CoreGone
<1> QED
  BY <1>9, <1>10

\* What only takes from the pipes, or puts an exit on one, keeps the rest.
LEMMA CoreTakes ==
  ASSUME CoreInv, Shapes', FitInv', ControlInv',
         server' = server, initialized' = initialized, shutdownRequested' = shutdownRequested,
         store' = store, ready' = ready, stopping' = stopping, nextId' = nextId,
         pending' \in SUBSET pending, Arriving' \in SUBSET Arriving,
         toServer' = toServer \/ \E m \in Sent : m.kind = "exit" /\ stopping /\ toServer' = Append(toServer, m)
  PROVE  CoreInv'
<1>1. toServer \in Seq(Sent)
  BY DEF CoreInv, Shapes
<1>2. \A m \in Queued' : m \in Queued \/ (m.kind = "exit" /\ stopping)
  <2>1. ASSUME NEW m \in Sent, m.kind = "exit", stopping, toServer' = Append(toServer, m)
        PROVE  Queued' = Queued \cup {m}
    BY <1>1, <2>1, AppendFacts DEF Queued
  <2>2. CASE toServer' = toServer
    BY <2>2 DEF Queued
  <2> QED
    BY <2>1, <2>2
<1>3. IdInv'
  BY <1>2, IdShrinks DEF CoreInv, Identified, Requests
<1>4. HandshakeInv'
  BY DEF CoreInv, HandshakeInv, Greets
<1>5. FreshInv'
  <2>1. \A m \in Queued' : m.kind = "exit" => ~IsDoc(m) /\ m.kind # "shutdown"
    BY DEF IsDoc, DocKinds
  <2> QED
    BY <1>2, <2>1 DEF CoreInv, FreshInv
<1>6. OrderInv'
  <2> SUFFICES ASSUME server' = "running" PROVE OrderInv'
    BY DEF OrderInv
  <2>1. DocsPrecede(toServer')
    <3>1. DocsPrecede(toServer)
      BY DEF CoreInv, OrderInv
    <3>2. ASSUME NEW m \in Sent, m.kind = "exit", toServer' = Append(toServer, m)
          PROVE  DocsPrecede(toServer')
      <4>1. ~IsDoc(m)
        BY <3>2 DEF IsDoc, DocKinds
      <4> QED
        BY <1>1, <3>1, <3>2, <4>1, AppendOrder
    <3> QED
      BY <3>1, <3>2
  <2>2. \A m \in Queued' : m.kind = "exit" => ~IsDoc(m)
    BY DEF IsDoc, DocKinds
  <2>3. shutdownRequested' => stopping' /\ \A m \in Queued' : ~IsDoc(m)
    BY <1>2, <2>2 DEF CoreInv, OrderInv
  <2>4. \A m \in Queued' : m.kind \in {"shutdown", "exit"} => stopping'
    BY <1>2 DEF CoreInv, OrderInv
  <2> QED
    BY <2>1, <2>3, <2>4 DEF OrderInv
<1> QED
  BY <1>3, <1>4, <1>5, <1>6 DEF CoreInv

LEMMA CoreDelivers ==
  ASSUME CoreInv, DeliverShutdown \/ DeliverAnswer \/ DeliverDiagnostics
  PROVE  CoreInv'
<1>1. /\ Deliver /\ documents' = documents /\ folders' = folders
      /\ initialized' = initialized /\ shutdownRequested' = shutdownRequested /\ store' = store
      /\ process' = process /\ ready' = ready /\ stopping' = stopping /\ nextId' = nextId
      /\ crashes' = crashes
      /\ pending' \in SUBSET pending
  BY DEF DeliverShutdown, DeliverAnswer, DeliverDiagnostics, stateVars, mirror, control, requests, history
<1>2. toClient' \in Seq(Received) /\ Arrived \in Received /\ Arriving' \in SUBSET Arriving
  BY <1>1, DeliverFacts DEF CoreInv
<1>3. shown' \in [Documents -> Seq(Pieces) \cup {None}]
  <2>1. CASE DeliverShutdown \/ DeliverAnswer
    BY <2>1 DEF DeliverShutdown, DeliverAnswer, mirror, CoreInv, Shapes
  <2>2. CASE DeliverDiagnostics
    <3>1. Arrived.doc \in Documents /\ Arrived.text \in Seq(Pieces) \cup {None}
      BY <1>2, <2>2, ReceivedFacts DEF DeliverDiagnostics
    <3>2. shown \in [Documents -> Seq(Pieces) \cup {None}]
      BY DEF CoreInv, Shapes
    <3> QED
      BY <2>2, <3>1, <3>2 DEF DeliverDiagnostics
  <2> QED
    BY <2>1, <2>2
<1>4. FitInv'
  BY <1>1 DEF CoreInv, FitInv
<1>5. toServer \in Seq(Sent) /\ server \in {"running", "exited"}
  BY DEF CoreInv, Shapes
<1>6. \/ /\ server' = server
         /\ toServer' = toServer \/ \E m \in Sent : m.kind = "exit" /\ stopping /\ toServer' = Append(toServer, m)
      \/ server' = "exited" /\ toServer' = <<>>
  <2>1. CASE DeliverAnswer \/ DeliverDiagnostics
    BY <2>1 DEF DeliverAnswer, DeliverDiagnostics
  <2>2. CASE DeliverShutdown
    <3>1. stopping
      BY <2>2 DEF DeliverShutdown, Settled, CoreInv, ControlInv
    <3>2. CASE Arrived.what # "result"
      BY <2>2, <3>2 DEF DeliverShutdown, Kill
    <3>3. CASE Arrived.what = "result"
      <4> DEFINE m == [kind |-> "exit"]
      <4>1. m \in Sent /\ m.kind = "exit"
        BY DEF Sent
      <4>2. Notify(<<m>>) /\ server' = server
        BY <2>2, <3>3 DEF DeliverShutdown, Farewell
      <4> HIDE DEF m
      <4>3. toServer' = IF process /\ server = "running" THEN Append(toServer, m) ELSE toServer
        BY <4>1, <4>2, NotifyFacts DEF CoreInv
      <4> QED
        BY <3>1, <4>1, <4>2, <4>3
    <3> QED
      BY <3>2, <3>3
  <2> QED
    BY <2>1, <2>2
<1>7. toServer' \in Seq(Sent) /\ server' \in {"running", "exited"} /\ (server' = "running" => server = "running")
  <2>1. ASSUME NEW m \in Sent PROVE Append(toServer, m) \in Seq(Sent)
    BY <1>5, AppendProperties
  <2> QED
    <3>1. <<>> \in Seq(Sent)
      OBVIOUS
    <3> QED
      BY <1>5, <1>6, <2>1, <3>1
<1>8. Shapes'
  BY <1>1, <1>2, <1>3, <1>7 DEF CoreInv, Shapes
<1>9. ControlInv'
  BY <1>1, <1>7 DEF CoreInv, ControlInv
<1>10. CASE /\ server' = server
            /\ toServer' = toServer \/ \E m \in Sent : m.kind = "exit" /\ stopping /\ toServer' = Append(toServer, m)
  BY <1>1, <1>2, <1>4, <1>8, <1>9, <1>10, CoreTakes
<1>11. CASE server' = "exited" /\ toServer' = <<>>
  <2>1. Queued' = {}
    BY <1>11 DEF Queued, Range
  <2>2. IdInv'
    BY <1>1, <1>2, <2>1, IdShrinks DEF CoreInv
  <2> QED
    BY <1>4, <1>8, <1>9, <1>11, <2>2, CoreGone
<1> QED
  BY <1>6, <1>10, <1>11

LEMMA CoreEnds ==
  ASSUME CoreInv, Exited \/ Crash
  PROVE  CoreInv'
<1>1. /\ toClient' = toClient /\ store' = store /\ documents' = documents
      /\ folders' = folders /\ shown' = shown /\ nextId' = nextId
      /\ server' = "exited" /\ pending' \in SUBSET pending
      /\ stopping' = stopping
      /\ toServer' = toServer \/ toServer' = <<>>
  BY DEF Exited, Crash, Kill, serverVars, stateVars, mirror, control, requests
<1>2. /\ crashes' \in Nat
      /\ ready' => process'
      /\ ~process' => pending' = {}
      /\ ready' => ready
  <2>1. CASE Exited
    <3>1. crashes' = crashes /\ process' = FALSE /\ ready' = FALSE /\ pending' = {}
      BY <2>1 DEF Exited, history, Rejected
    <3> QED
      BY <3>1 DEF CoreInv, Shapes
  <2>2. CASE Crash
    <3>1. crashes' = crashes + 1
      BY <2>2 DEF Crash
    <3>2. process' = process /\ ready' = ready /\ pending' = pending
      BY <2>2 DEF Crash, control, requests
    <3>3. crashes' \in Nat
      BY <3>1 DEF CoreInv, Shapes
    <3> QED
      BY <3>2, <3>3 DEF CoreInv, ControlInv
  <2> QED
    BY <2>1, <2>2
<1>3. toServer' \in Seq(Sent) /\ Queued' \in SUBSET Queued
  <2>1. Range(<<>>) = {}
    BY DEF Range
  <2> QED
    <3>1. CASE toServer' = toServer
      BY <3>1 DEF CoreInv, Shapes, Queued
    <3>2. CASE toServer' = <<>>
      BY <2>1, <3>2 DEF Queued
    <3> QED
      BY <1>1, <3>1, <3>2
<1>4. Arriving' = Arriving
  BY <1>1 DEF Arriving
<1>5. Shapes'
  BY <1>1, <1>2, <1>3 DEF CoreInv, Shapes
<1>6. FitInv'
  BY <1>1 DEF CoreInv, FitInv
<1>7. ControlInv'
  BY <1>1, <1>2 DEF CoreInv, ControlInv
<1>8. IdInv'
  BY <1>1, <1>3, <1>4, IdShrinks DEF CoreInv
<1> QED
  BY <1>1, <1>5, <1>6, <1>7, <1>8, CoreGone

\* A message of the client's that comes in time keeps the rest.
LEMMA CoreSays ==
  ASSUME CoreInv, Shapes', FitInv', ControlInv', IdInv', NEW m \in Sent,
         server' = server, initialized' = initialized, shutdownRequested' = shutdownRequested,
         store' = store, toClient' = toClient, ready' = ready, stopping => stopping',
         \A p \in pending' : p.kind = "initialize" => p \in pending,
         toServer' = toServer \/ toServer' = Append(toServer, m),
         IsDoc(m) /\ toServer' # toServer => ready /\ ~stopping,
         m.kind = "shutdown" => ready,
         m.kind \in {"shutdown", "exit"} => stopping'
  PROVE  CoreInv'
<1>1. toServer \in Seq(Sent)
  BY DEF CoreInv, Shapes
<1>2. toServer' = toServer \/ (toServer' = Append(toServer, m) /\ toServer' # toServer)
  OBVIOUS
<1>3. \A n \in Queued' : n \in Queued \/ (n = m /\ toServer' # toServer)
  <2>1. CASE toServer' = Append(toServer, m) /\ toServer' # toServer
    <3>1. Queued' = Queued \cup {m}
      BY <1>1, <2>1, AppendFacts DEF Queued
    <3> QED
      BY <2>1, <3>1
  <2>2. CASE toServer' = toServer
    BY <2>2 DEF Queued
  <2> QED
    BY <1>2, <2>1, <2>2
<1>4. HandshakeInv'
  BY DEF CoreInv, HandshakeInv, Greets, Arriving
<1>5. FreshInv'
  BY <1>3 DEF CoreInv, FreshInv
<1>6. OrderInv'
  <2> SUFFICES ASSUME server' = "running" PROVE OrderInv'
    BY DEF OrderInv
  <2>1. /\ DocsPrecede(toServer)
        /\ shutdownRequested => stopping /\ \A n \in Queued : ~IsDoc(n)
        /\ \A n \in Queued : n.kind \in {"shutdown", "exit"} => stopping
    BY DEF CoreInv, OrderInv
  <2>2. DocsPrecede(toServer')
    <3>1. CASE toServer' = toServer
      BY <2>1, <3>1
    <3>2. CASE toServer' = Append(toServer, m) /\ toServer' # toServer
      <4>1. IsDoc(m) => \A n \in Range(toServer) : n.kind # "shutdown"
        BY <2>1, <3>2 DEF Queued
      <4> QED
        BY <1>1, <2>1, <3>2, <4>1, AppendOrder
    <3> QED
      BY <1>2, <3>1, <3>2
  <2>3. shutdownRequested' => stopping' /\ \A n \in Queued' : ~IsDoc(n)
    BY <1>3, <2>1
  <2>4. \A n \in Queued' : n.kind \in {"shutdown", "exit"} => stopping'
    BY <1>3, <2>1
  <2> QED
    BY <2>2, <2>3, <2>4 DEF OrderInv
<1> QED
  BY <1>4, <1>5, <1>6 DEF CoreInv

\* A new request has a number of its own.
LEMMA NewRequest ==
  ASSUME Shapes, IdInv, NEW m \in Sent, m.kind \in Requests, m.id = nextId,
         NEW q \in [id : Nat, kind : Requests], q.id = nextId, q.kind = m.kind,
         pending' = pending \cup {q}, nextId' = nextId + 1, Arriving' = Arriving,
         \A n \in Queued' : n \in Queued \/ n = m
  PROVE  IdInv'
<1>0. /\ nextId \in Nat /\ pending \in SUBSET [id : Nat, kind : Requests]
      /\ m.kind \in Requests /\ m.id = nextId /\ q.id = nextId /\ q.kind = m.kind
      /\ pending' = pending \cup {q} /\ nextId' = nextId + 1 /\ Arriving' = Arriving
      /\ \A n \in Queued' : n \in Queued \/ n = m
  BY DEF Shapes
<1>7. \A e \in Arriving : e.kind = "response" => e.id \in Nat
  <2>1. \A e \in Arriving : e \in Received
    BY RangeFacts DEF Arriving, Shapes
  <2> QED
    BY <2>1, ReceivedFacts
<1>8. \A n \in Queued : n.kind \in Identified => n.id \in Nat
  <2>1. \A n \in Queued : n \in Sent
    BY RangeFacts DEF Queued, Shapes
  <2> QED
    BY <2>1, SentFacts
<1>1. \A p \in pending : p.id \in Nat /\ p.id < nextId
  BY <1>0 DEF IdInv
<1>2. \A p \in pending' : p.id < nextId'
  BY <1>0, <1>1
<1>3. \A p, r \in pending' : p.id = r.id => p = r
  <2>1. \A p, r \in pending : p.id = r.id => p = r
    BY DEF IdInv
  <2>2. \A p \in pending : p.id # nextId
    BY <1>0, <1>1
  <2> QED
    BY <1>0, <2>1, <2>2
<1>4. \A n \in Queued' : n.kind \in Identified => n.id < nextId'
  <2> SUFFICES ASSUME NEW n \in Queued', n.kind \in Identified PROVE n.id < nextId'
    OBVIOUS
  <2>1. CASE n \in Queued
    <3>1. n.id < nextId /\ n.id \in Nat
      BY <1>8, <2>1 DEF IdInv
    <3> QED
      BY <1>0, <3>1
  <2>2. CASE n = m
    BY <1>0, <2>2
  <2> QED
    BY <1>0, <2>1, <2>2
<1>5. \A n \in Queued', p \in pending' : n.kind \in Requests /\ p.id = n.id => p.kind = n.kind
  <2> SUFFICES ASSUME NEW n \in Queued', NEW p \in pending', n.kind \in Requests, p.id = n.id
               PROVE  p.kind = n.kind
    OBVIOUS
  <2>1. CASE n = m
    <3>1. p = q
      BY <1>0, <1>1, <2>1
    <3> QED
      BY <1>0, <2>1, <3>1
  <2>2. CASE n \in Queued
    <3>1. n.id < nextId /\ n.id \in Nat
      BY <1>8, <2>2 DEF IdInv, Identified
    <3>2. p # q
      BY <1>0, <3>1
    <3> QED
      BY <1>0, <2>2, <3>2 DEF IdInv
  <2> QED
    BY <1>0, <2>1, <2>2
<1>6. \A e \in Arriving' : e.kind = "response" => e.id < nextId'
  <2> SUFFICES ASSUME NEW e \in Arriving, e.kind = "response" PROVE e.id < nextId'
    BY <1>0
  <2>1. e.id < nextId /\ e.id \in Nat
    BY <1>7 DEF IdInv
  <2> QED
    BY <1>0, <2>1
<1> QED
  BY <1>2, <1>3, <1>4, <1>5, <1>6 DEF IdInv

LEMMA CoreUser ==
  ASSUME CoreInv,
         (\E d \in Documents, m \in Sent : Edit(d, m)) \/ (\E m \in Sent : FolderStep(m))
  PROVE  CoreInv'
<1>1. toServer \in Seq(Sent)
  BY DEF CoreInv, Shapes
<1>2. ASSUME NEW m \in Sent, (\E d \in Documents : Edit(d, m)) \/ FolderStep(m)
      PROVE  CoreInv'
  <2>1. /\ server' = server /\ initialized' = initialized /\ shutdownRequested' = shutdownRequested
        /\ store' = store /\ toClient' = toClient /\ process' = process /\ ready' = ready
        /\ stopping' = stopping /\ pending' = pending /\ nextId' = nextId /\ crashes' = crashes
        /\ toServer' \in Seq(Sent)
    BY <1>2 DEF Edit, FolderStep, stateVars, control, requests
  <2>2. IsDoc(m) => ~stopping
    <3>1. CASE FolderStep(m)
      BY <3>1 DEF FolderStep, IsDoc, DocKinds
    <3>2. CASE \E d \in Documents : Edit(d, m)
      BY <3>2 DEF Edit
    <3> QED
      BY <1>2, <3>1, <3>2
  <2>3. m.kind \in DocKinds \cup {"folders"}
    BY <1>2 DEF Edit, FolderStep, IsDoc
  <2>4. toServer' = toServer \/ (ready /\ toServer' = Append(toServer, m))
    BY <1>2 DEF Edit, FolderStep
  <2>5. documents' \in Stores /\ FitInv' /\ folders' \in Seq(Roots) /\ folders' # <<>>
    <3>1. CASE FolderStep(m)
      BY <3>1 DEF FolderStep, CoreInv, Shapes, FitInv
    <3>2. CASE \E d \in Documents : Edit(d, m)
      BY <3>2 DEF Edit, CoreInv, Shapes
    <3> QED
      BY <1>2, <3>1, <3>2
  <2>6. shown' \in [Documents -> Seq(Pieces) \cup {None}]
    <3>1. shown \in [Documents -> Seq(Pieces) \cup {None}]
      BY DEF CoreInv, Shapes
    <3>2. CASE FolderStep(m)
      BY <3>1, <3>2 DEF FolderStep
    <3>3. ASSUME NEW d \in Documents, Edit(d, m) PROVE shown' \in [Documents -> Seq(Pieces) \cup {None}]
      <4>1. shown' = shown \/ shown' = [shown EXCEPT ![d] = None]
        BY <3>3 DEF Edit
      <4> QED
        BY <3>1, <4>1
    <3> QED
      BY <1>2, <3>2, <3>3
  <2>7. Shapes'
    BY <2>1, <2>5, <2>6 DEF CoreInv, Shapes
  <2>8. ControlInv'
    BY <2>1 DEF CoreInv, ControlInv
  <2>9. IdInv'
    <3>1. \A n \in Queued' : n \in Queued \/ n = m
      <4>1. CASE toServer' = Append(toServer, m)
        BY <1>1, <4>1, AppendFacts DEF Queued
      <4> QED
        BY <2>4, <4>1 DEF Queued
    <3>2. m.kind \notin Identified
      BY <2>3 DEF DocKinds, Identified, Requests
    <3> QED
      BY <2>1, <3>1, <3>2, IdShrinks DEF CoreInv, Arriving
  <2>10. m.kind \notin {"shutdown", "exit"}
    BY <2>3 DEF DocKinds
  <2> QED
    BY <2>1, <2>2, <2>4, <2>5, <2>7, <2>8, <2>9, <2>10, CoreSays
<1> QED
  BY <1>2

LEMMA CoreAsks ==
  ASSUME CoreInv, Request \/ \E p \in pending : CancelRequest(p)
  PROVE  CoreInv'
<1>1. /\ toServer \in Seq(Sent) /\ nextId \in Nat /\ nextId + 1 \in Nat /\ nextId < nextId + 1
      /\ pending \in SUBSET [id : Nat, kind : Requests]
  BY DEF CoreInv, Shapes
<1>2. /\ documents' = documents /\ folders' = folders /\ shown' = shown /\ server' = server
      /\ initialized' = initialized /\ shutdownRequested' = shutdownRequested
      /\ store' = store /\ toClient' = toClient /\ process' = process /\ ready' = ready
      /\ stopping' = stopping /\ crashes' = crashes
  BY DEF Request, CancelRequest, stateVars, mirror, control
<1>3. FitInv'
  BY <1>2 DEF CoreInv, FitInv
<1>4. Arriving' = Arriving
  BY <1>2 DEF Arriving
<1>7. CASE Request
  <2> DEFINE m == [kind |-> "request", id |-> nextId]
             q == [id |-> nextId, kind |-> "request"]
  <2>1. m \in Sent /\ m.kind = "request" /\ m.id = nextId
    BY <1>1 DEF Sent
  <2>2. q \in [id : Nat, kind : Requests] /\ q.id = nextId /\ q.kind = "request"
    BY <1>1 DEF Requests
  <2>3. process /\ pending' = pending \cup {q} /\ nextId' = nextId + 1 /\ Notify(<<m>>)
    BY <1>7 DEF Request
  <2> HIDE DEF m, q
  <2>4. toServer' = toServer \/ toServer' = Append(toServer, m)
    BY <2>1, <2>3, NotifyFacts DEF CoreInv
  <2>5. toServer' \in Seq(Sent) /\ \A n \in Queued' : n \in Queued \/ n = m
    <3>1. CASE toServer' = Append(toServer, m)
      BY <1>1, <2>1, <3>1, AppendFacts DEF Queued
    <3>2. CASE toServer' = toServer
      BY <1>1, <3>2 DEF Queued
    <3> QED
      BY <2>4, <3>1, <3>2
  <2>6. Shapes'
    BY <1>1, <1>2, <2>2, <2>3, <2>5 DEF CoreInv, Shapes
  <2>7. ControlInv'
    BY <1>2, <2>2, <2>3 DEF CoreInv, ControlInv
  <2>8. IdInv'
    BY <1>4, <2>1, <2>2, <2>3, <2>5, NewRequest DEF CoreInv, Requests
  <2>9. ~IsDoc(m)
    BY <2>1 DEF IsDoc, DocKinds
  <2> QED
    BY <1>2, <1>3, <2>1, <2>2, <2>3, <2>4, <2>6, <2>7, <2>8, <2>9, CoreSays
<1>8. ASSUME NEW p \in pending, CancelRequest(p) PROVE CoreInv'
  <2> DEFINE m == [kind |-> "cancel", id |-> p.id]
  <2>1. m \in Sent /\ m.kind = "cancel" /\ m.id = p.id
    BY <1>1 DEF Sent
  <2>2. pending' = pending \ {p} /\ nextId' = nextId /\ Notify(<<m>>)
    BY <1>8 DEF CancelRequest
  <2> HIDE DEF m
  <2>3. toServer' = toServer \/ toServer' = Append(toServer, m)
    BY <2>1, <2>2, NotifyFacts DEF CoreInv
  <2>4. toServer' \in Seq(Sent) /\ \A n \in Queued' : n \in Queued \/ n = m
    <3>1. CASE toServer' = Append(toServer, m)
      BY <1>1, <2>1, <3>1, AppendFacts DEF Queued
    <3>2. CASE toServer' = toServer
      BY <1>1, <3>2 DEF Queued
    <3> QED
      BY <2>3, <3>1, <3>2
  <2>5. Shapes'
    BY <1>1, <1>2, <2>2, <2>4 DEF CoreInv, Shapes
  <2>6. ControlInv'
    BY <1>2, <2>2 DEF CoreInv, ControlInv
  <2>7. IdInv'
    <3>1. m.id < nextId
      BY <2>1 DEF CoreInv, IdInv
    <3>2. m.kind \notin Requests
      BY <2>1 DEF Requests
    <3> QED
      BY <1>4, <2>2, <2>4, <3>1, <3>2 DEF CoreInv, IdInv
  <2>8. ~IsDoc(m)
    BY <2>1 DEF IsDoc, DocKinds
  <2> QED
    BY <1>2, <1>3, <2>1, <2>2, <2>3, <2>5, <2>6, <2>7, <2>8, CoreSays
<1> QED
  BY <1>7, <1>8

LEMMA CoreStop ==
  ASSUME CoreInv, Stop
  PROVE  CoreInv'
<1>1. /\ stopping' = TRUE /\ toClient' = toClient /\ documents' = documents /\ folders' = folders
      /\ shown' = shown /\ initialized' = initialized /\ shutdownRequested' = shutdownRequested
      /\ store' = store /\ process' = process /\ ready' = ready /\ crashes' = crashes
  BY DEF Stop, stateVars, mirror, history
<1>2. /\ toServer \in Seq(Sent) /\ nextId \in Nat /\ nextId + 1 \in Nat /\ nextId < nextId + 1
      /\ pending \in SUBSET [id : Nat, kind : Requests] /\ server \in {"running", "exited"}
  BY DEF CoreInv, Shapes
<1>3. FitInv'
  BY <1>1 DEF CoreInv, FitInv
<1>4. Arriving' = Arriving
  BY <1>1 DEF Arriving
<1>5. CASE ~process \/ (ready /\ Cardinality(pending) >= MaxPending)
  <2>1. /\ pending' = pending /\ nextId' = nextId
        /\ IF process THEN server' = "exited" /\ toServer' = <<>>
                      ELSE server' = server /\ toServer' = toServer
    BY <1>5 DEF Stop, Kill, requests
  <2>2. server' = "exited"
    <3>1. CASE process
      BY <2>1, <3>1
    <3>2. CASE ~process
      BY <1>2, <2>1, <3>2 DEF CoreInv, ControlInv
    <3> QED
      BY <3>1, <3>2
  <2>3. toServer' \in Seq(Sent) /\ Queued' \in SUBSET Queued
    <3>1. CASE toServer' = toServer
      BY <1>2, <3>1 DEF Queued
    <3>2. CASE toServer' = <<>>
      BY <3>2 DEF Queued, Range
    <3> QED
      BY <2>1, <3>1, <3>2
  <2>4. Shapes'
    BY <1>1, <1>2, <2>1, <2>2, <2>3 DEF CoreInv, Shapes
  <2>5. ControlInv'
    BY <1>1, <2>1, <2>2 DEF CoreInv, ControlInv
  <2>6. IdInv'
    BY <1>4, <2>1, <2>3, IdShrinks DEF CoreInv
  <2> QED
    BY <1>3, <2>2, <2>4, <2>5, <2>6, CoreGone
<1>6. CASE process /\ ~ready
  <2> DEFINE m == [kind |-> "exit"]
  <2>1. m \in Sent /\ m.kind = "exit"
    BY DEF Sent
  <2>2. pending' = pending /\ nextId' = nextId /\ server' = server /\ Notify(<<m>>)
    BY <1>6 DEF Stop, Farewell, requests
  <2> HIDE DEF m
  <2>3. toServer' = toServer \/ toServer' = Append(toServer, m)
    BY <2>1, <2>2, NotifyFacts DEF CoreInv
  <2>4. toServer' \in Seq(Sent) /\ \A n \in Queued' : n \in Queued \/ n = m
    <3>1. CASE toServer' = Append(toServer, m)
      BY <1>2, <2>1, <3>1, AppendFacts DEF Queued
    <3>2. CASE toServer' = toServer
      BY <1>2, <3>2 DEF Queued
    <3> QED
      BY <2>3, <3>1, <3>2
  <2>5. Shapes'
    BY <1>1, <1>2, <2>2, <2>4 DEF CoreInv, Shapes
  <2>6. ControlInv'
    BY <1>1, <2>2 DEF CoreInv, ControlInv
  <2>7. IdInv'
    <3>1. m.kind \notin Identified
      BY <2>1 DEF Identified, Requests
    <3> QED
      BY <1>4, <2>2, <2>4, <3>1, IdShrinks DEF CoreInv
  <2>8. ~IsDoc(m)
    BY <2>1 DEF IsDoc, DocKinds
  <2> QED
    BY <1>1, <1>3, <2>1, <2>2, <2>3, <2>5, <2>6, <2>7, <2>8, CoreSays
<1>7. CASE process /\ ready /\ ~(Cardinality(pending) >= MaxPending)
  <2> DEFINE m == [kind |-> "shutdown", id |-> nextId]
             q == [id |-> nextId, kind |-> "shutdown"]
  <2>1. m \in Sent /\ m.kind = "shutdown" /\ m.id = nextId
    BY <1>2 DEF Sent
  <2>2. q \in [id : Nat, kind : Requests] /\ q.id = nextId /\ q.kind = "shutdown"
    BY <1>2 DEF Requests
  <2>3. pending' = pending \cup {q} /\ nextId' = nextId + 1 /\ server' = server /\ Notify(<<m>>)
    BY <1>7 DEF Stop
  <2> HIDE DEF m, q
  <2>4. toServer' = toServer \/ toServer' = Append(toServer, m)
    BY <2>1, <2>3, NotifyFacts DEF CoreInv
  <2>5. toServer' \in Seq(Sent) /\ \A n \in Queued' : n \in Queued \/ n = m
    <3>1. CASE toServer' = Append(toServer, m)
      BY <1>2, <2>1, <3>1, AppendFacts DEF Queued
    <3>2. CASE toServer' = toServer
      BY <1>2, <3>2 DEF Queued
    <3> QED
      BY <2>4, <3>1, <3>2
  <2>6. Shapes'
    BY <1>1, <1>2, <2>2, <2>3, <2>5 DEF CoreInv, Shapes
  <2>7. ControlInv'
    BY <1>1, <1>7, <2>2, <2>3 DEF CoreInv, ControlInv
  <2>8. IdInv'
    BY <1>4, <2>1, <2>2, <2>3, <2>5, NewRequest DEF CoreInv, Requests
  <2>9. ~IsDoc(m)
    BY <2>1 DEF IsDoc, DocKinds
  <2> QED
    BY <1>1, <1>3, <1>7, <2>1, <2>2, <2>3, <2>4, <2>6, <2>7, <2>8, <2>9, CoreSays
<1> QED
  BY <1>5, <1>6, <1>7

LEMMA CoreInit ==
  ASSUME SessionInit
  PROVE  CoreInv
<1>1. /\ server = "exited" /\ toServer = <<>> /\ toClient = <<>>
      /\ store = [d \in Documents |-> None] /\ documents = [d \in Documents |-> None]
      /\ folders = Workspace /\ process = FALSE /\ ready = FALSE
      /\ pending = {} /\ nextId = 1 /\ shown = [d \in Documents |-> None] /\ crashes = 0
  BY DEF SessionInit, ServerInit
<1>2. Queued = {} /\ Arriving = {}
  BY <1>1 DEF Queued, Arriving, Range
<1>3. OpenIn(documents) = {}
  BY <1>1 DEF OpenIn
<1>4. Shapes
  <2>1. store \in Stores /\ documents \in Stores
    BY <1>1 DEF Stores
  <2>2. shown \in [Documents -> Seq(Pieces) \cup {None}]
    BY <1>1
  <2>3. pending \in SUBSET [id : Nat, kind : Requests]
    BY <1>1
  <2>4. toServer \in Seq(Sent) /\ toClient \in Seq(Received)
    BY <1>1
  <2> QED
    BY <1>1, <2>1, <2>2, <2>3, <2>4, SessionAssumption DEF Shapes
<1>5. FitInv
  <2>1. IsFiniteSet({}) /\ Cardinality({}) = 0
    BY FS_EmptySet
  <2> QED
    BY <1>3, <2>1, LimitsAssumption DEF FitInv
<1>6. ControlInv /\ IdInv
  BY <1>1, <1>2 DEF ControlInv, IdInv
<1>7. HandshakeInv /\ FreshInv /\ OrderInv
  BY <1>1 DEF HandshakeInv, FreshInv, OrderInv
<1> QED
  BY <1>4, <1>5, <1>6, <1>7 DEF CoreInv

LEMMA CoreStep ==
  ASSUME CoreInv, [Next]_vars
  PROVE  CoreInv'
<1>1. CASE UNCHANGED vars
  BY <1>1 DEF vars, serverVars, stateVars, clientVars, CoreInv, Shapes, FitInv, ControlInv, IdInv,
              HandshakeInv, Greets, FreshInv, OrderInv, Queued, Arriving
<1>2. CASE DeliverShutdown \/ DeliverAnswer \/ DeliverDiagnostics
  BY <1>2, CoreDelivers
<1>3. CASE Exited \/ Crash
  BY <1>3, CoreEnds
<1>4. CASE (\E d \in Documents, m \in Sent : Edit(d, m)) \/ (\E m \in Sent : FolderStep(m))
  BY <1>4, CoreUser
<1>5. CASE Request \/ \E p \in pending : CancelRequest(p)
  BY <1>5, CoreAsks
<1>6. \/ Start \/ Serve
      \/ DeliverInitialized \/ DeliverShutdown \/ DeliverAnswer \/ DeliverDiagnostics
      \/ Exited \/ Crash
      \/ \E d \in Documents, m \in Sent : Edit(d, m)
      \/ \E m \in Sent : FolderStep(m)
      \/ Request \/ (\E p \in pending : CancelRequest(p)) \/ Stop
      \/ UNCHANGED vars
  BY Steps DEF CoreInv
<1> QED
  BY <1>1, <1>2, <1>3, <1>4, <1>5, <1>6, CoreStart, CoreServe, CoreDeliverInitialized, CoreStop

(***************************************************************************)
(* The types of the session's state, the numbering of its requests, and    *)
(* the order of its messages hold in every state.                          *)
(***************************************************************************)
THEOREM CoreHolds == Spec => []CoreInv
<1>1. SessionInit => CoreInv
  BY CoreInit
<1>2. CoreInv /\ [Next]_vars => CoreInv'
  BY CoreStep
<1> QED
  BY <1>1, <1>2, PTL DEF Spec

(***************************************************************************)
(* A client that takes the server for ready is right, whatever answers of  *)
(* earlier servers still arrive.                                           *)
(***************************************************************************)
THEOREM TakesTheRightServer == Spec => []ReadyIsInitialized
<1>1. CoreInv => ReadyIsInitialized
  BY DEF CoreInv, HandshakeInv, ReadyIsInitialized
<1> QED
  BY <1>1, CoreHolds, PTL

-------------------------------------------------------------------------------
(* What is on its way makes the server's documents the client's. *)

LEMMA EffectElsewhere ==
  ASSUME NEW a \in Stores, NEW m, NEW b, Effect(a, m, b), NEW d \in Documents, ~About(m, d)
  PROVE  a[d] = b[d]
<1>1. a \in [Documents -> DocState \cup {None}]
  BY DEF Stores
<1>2. CASE ~IsDoc(m) /\ b = a
  BY <1>2
<1>3. CASE IsDoc(m) /\ m.doc # d
  <2>1. m.kind \in DocKinds
    BY <1>3 DEF IsDoc
  <2> QED
    BY <1>1, <1>3 DEF Effect, OpenIn
<1> QED
  BY <1>2, <1>3 DEF Effect, About, IsDoc, DocKinds

LEMMA LeadsAppend ==
  ASSUME NEW a \in Stores, NEW b \in Stores, NEW c \in Stores,
         NEW q \in Seq(Sent), NEW m \in Sent, Effect(b, m, c),
         NEW h \in [0 .. Len(q) -> Stores], Leads(h, a, q, b)
  PROVE  \E g \in [0 .. Len(Append(q, m)) -> Stores] : Leads(g, a, Append(q, m), c)
<1> DEFINE n == Len(q)
           p == Append(q, m)
           g == [i \in 0 .. n + 1 |-> IF i <= n THEN h[i] ELSE c]
<1>1. /\ n \in Nat /\ Len(p) = n + 1 /\ p[n + 1] = m
      /\ \A i \in 1 .. n : p[i] = q[i]
  BY AppendFacts
<1>2. /\ h[0] = a /\ h[n] = b
      /\ \A i \in 1 .. n : Effect(h[i - 1], q[i], h[i])
      /\ \A d \in Documents, i, j \in 0 .. n :
           i <= j /\ (\A k \in i + 1 .. j : ~About(q[k], d)) => h[i][d] = h[j][d]
  BY DEF Leads
<1> HIDE DEF p, n
<1>3. g \in [0 .. n + 1 -> Stores]
  <2>1. \A i \in 0 .. n + 1 : i <= n => h[i] \in Stores
    BY <1>1 DEF n
  <2> QED
    BY <2>1
<1>4. g[n + 1] = c /\ \A i \in 0 .. n : g[i] = h[i]
  BY <1>1
<1> HIDE DEF g
<1>5. \A i \in 1 .. n + 1 : Effect(g[i - 1], p[i], g[i])
  <2> SUFFICES ASSUME NEW i \in 1 .. n + 1 PROVE Effect(g[i - 1], p[i], g[i])
    OBVIOUS
  <2>1. CASE i \in 1 .. n
    <3>1. i - 1 \in 0 .. n /\ i \in 0 .. n
      BY <1>1, <2>1
    <3>2. g[i - 1] = h[i - 1] /\ g[i] = h[i] /\ p[i] = q[i]
      BY <1>1, <1>4, <2>1, <3>1
    <3> QED
      BY <1>2, <2>1, <3>2
  <2>2. CASE i = n + 1
    <3>1. i - 1 = n /\ n \in 0 .. n
      BY <1>1, <2>2
    <3>2. g[i - 1] = b /\ g[i] = c /\ p[i] = m
      BY <1>1, <1>2, <1>4, <2>2, <3>1
    <3> QED
      BY <3>2
  <2> QED
    BY <1>1, <2>1, <2>2
<1>6. ASSUME NEW d \in Documents, NEW i \in 0 .. n + 1, NEW j \in 0 .. n + 1, i <= j,
             \A k \in i + 1 .. j : ~About(p[k], d)
      PROVE  g[i][d] = g[j][d]
  <2>1. CASE j <= n
    <3>1. i \in 0 .. n /\ j \in 0 .. n /\ \A k \in i + 1 .. j : k \in 1 .. n
      BY <1>1, <1>6, <2>1
    <3>2. \A k \in i + 1 .. j : ~About(q[k], d)
      BY <1>1, <1>6, <3>1
    <3> QED
      BY <1>2, <1>4, <1>6, <3>1, <3>2
  <2>2. CASE i = n + 1
    BY <1>1, <1>6, <2>2
  <2>3. CASE i <= n /\ j = n + 1
    <3>1. /\ i \in 0 .. n /\ n \in 0 .. n /\ n + 1 \in i + 1 .. j
          /\ \A k \in i + 1 .. n : k \in 1 .. n /\ k \in i + 1 .. j
      BY <1>1, <1>6, <2>3
    <3>2. \A k \in i + 1 .. n : ~About(q[k], d)
      BY <1>1, <1>6, <3>1
    <3>3. h[i][d] = h[n][d]
      BY <1>2, <2>3, <3>1, <3>2
    <3>4. ~About(m, d)
      BY <1>1, <1>6, <3>1
    <3>5. b[d] = c[d]
      BY <3>4, EffectElsewhere
    <3> QED
      BY <1>2, <1>4, <2>3, <3>1, <3>3, <3>5
  <2> QED
    BY <1>1, <1>6, <2>1, <2>2, <2>3
<1>7. Leads(g, a, p, c)
  <2>1. 0 \in 0 .. n
    BY <1>1
  <2> QED
    BY <1>1, <1>2, <1>4, <1>5, <1>6, <2>1 DEF Leads
<1> QED
  BY <1>1, <1>3, <1>7 DEF p

LEMMA LeadsTail ==
  ASSUME NEW a, NEW b, NEW q \in Seq(Sent), q # <<>>,
         NEW h \in [0 .. Len(q) -> Stores], Leads(h, a, q, b)
  PROVE  /\ Effect(a, Head(q), h[1]) /\ h[1] \in Stores
         /\ \E g \in [0 .. Len(Tail(q)) -> Stores] : Leads(g, h[1], Tail(q), b)
<1> DEFINE n == Len(q)
           t == Tail(q)
           g == [i \in 0 .. n - 1 |-> h[i + 1]]
<1>1. /\ n \in Nat \ {0} /\ Len(t) = n - 1 /\ Head(q) = q[1]
      /\ \A i \in 1 .. n - 1 : t[i] = q[i + 1]
  BY TailFacts
<1>2. /\ h[0] = a /\ h[n] = b
      /\ \A i \in 1 .. n : Effect(h[i - 1], q[i], h[i])
      /\ \A d \in Documents, i, j \in 0 .. n :
           i <= j /\ (\A k \in i + 1 .. j : ~About(q[k], d)) => h[i][d] = h[j][d]
      /\ h \in [0 .. n -> Stores]
  BY DEF Leads
<1> HIDE DEF t, n
<1>3. Effect(a, Head(q), h[1]) /\ h[1] \in Stores
  <2>1. 1 \in 1 .. n /\ 1 \in 0 .. n /\ 1 - 1 = 0
    BY <1>1
  <2> QED
    BY <1>1, <1>2, <2>1
<1>4. g \in [0 .. n - 1 -> Stores] /\ \A i \in 0 .. n - 1 : g[i] = h[i + 1] /\ i + 1 \in 0 .. n
  <2>1. \A i \in 0 .. n - 1 : i + 1 \in 0 .. n
    BY <1>1
  <2> QED
    BY <1>2, <2>1
<1> HIDE DEF g
<1>5. g[0] = h[1] /\ g[n - 1] = b
  <2>1. 0 \in 0 .. n - 1 /\ n - 1 \in 0 .. n - 1 /\ 0 + 1 = 1 /\ n - 1 + 1 = n
    BY <1>1
  <2> QED
    BY <1>2, <1>4, <2>1
<1>6. \A i \in 1 .. n - 1 : Effect(g[i - 1], t[i], g[i])
  <2> SUFFICES ASSUME NEW i \in 1 .. n - 1 PROVE Effect(g[i - 1], t[i], g[i])
    OBVIOUS
  <2>1. i - 1 \in 0 .. n - 1 /\ i \in 0 .. n - 1 /\ i - 1 + 1 = i /\ i + 1 - 1 = i /\ i + 1 \in 1 .. n
    BY <1>1
  <2>2. g[i - 1] = h[i] /\ g[i] = h[i + 1] /\ t[i] = q[i + 1]
    BY <1>1, <1>4, <2>1
  <2>3. Effect(h[i + 1 - 1], q[i + 1], h[i + 1])
    BY <1>2, <2>1
  <2> QED
    BY <2>1, <2>2, <2>3
<1>7. ASSUME NEW d \in Documents, NEW i \in 0 .. n - 1, NEW j \in 0 .. n - 1, i <= j,
             \A k \in i + 1 .. j : ~About(t[k], d)
      PROVE  g[i][d] = g[j][d]
  <2>1. i + 1 \in 0 .. n /\ j + 1 \in 0 .. n /\ i + 1 <= j + 1
    BY <1>1, <1>7
  <2>2. ASSUME NEW k \in i + 1 + 1 .. j + 1 PROVE ~About(q[k], d)
    <3>1. k - 1 \in i + 1 .. j /\ k - 1 \in 1 .. n - 1 /\ k - 1 + 1 = k
      BY <1>1
    <3> QED
      BY <1>1, <1>7, <3>1
  <2>3. h[i + 1][d] = h[j + 1][d]
    BY <1>2, <2>1, <2>2
  <2> QED
    BY <1>4, <2>3
<1>8. Leads(g, h[1], t, b)
  BY <1>1, <1>5, <1>6, <1>7 DEF Leads
<1> QED
  BY <1>1, <1>3, <1>4, <1>8 DEF t

(***************************************************************************)
(* A server that can carry a message out makes of its documents what the   *)
(* client made of its own.                                                 *)
(***************************************************************************)
LEMMA ServeEffect ==
  ASSUME Shapes, Handle, initialized, IsDoc(Message) => ~shutdownRequested,
         NEW b \in Stores, Effect(store, Message, b)
  PROVE  store' = b
<1> DEFINE m == Message
<1>1. m \in Sent /\ (~IsDoc(m) => store' = store)
  BY ServeFacts
<1>2. CASE ~IsDoc(m)
  BY <1>1, <1>2 DEF Effect, IsDoc, DocKinds
<1>3. CASE m.kind = "didOpen"
  <2>1. IsDoc(m) /\ ~shutdownRequested
    BY <1>3 DEF IsDoc, DocKinds
  <2>2. HandleDidOpen
    BY <1>3, <2>1 DEF Handle, HandleExit, HandleAfterShutdown, HandleCancel, HandleCancelled,
         HandleInitialize, HandleInitializeAgain, HandleTooEarly, HandleFolders,
         HandleRemovedOnly, HandleShutdown, HandleDidChange,
         HandleDidClose, HandleRequest, Initialized, Serving, IsCancelled, IsRequest
  <2>3. store' = Placed(m.doc, [version |-> m.version, text |-> m.text])
    BY <2>2 DEF HandleDidOpen
  <2>4. /\ m.doc \in OpenIn(store) \/ Cardinality(OpenIn(store)) < MaxOpen
        /\ b = [store EXCEPT ![m.doc] = [version |-> m.version, text |-> m.text]]
    BY <1>3, <2>1 DEF Effect
  <2> QED
    BY <2>3, <2>4 DEF Placed, OpenInServer, OpenIn
<1>4. CASE m.kind = "didChange"
  <2>1. IsDoc(m) /\ ~shutdownRequested
    BY <1>4 DEF IsDoc, DocKinds
  <2>2. HandleDidChange
    BY <1>4, <2>1 DEF Handle, HandleExit, HandleAfterShutdown, HandleCancel, HandleCancelled,
         HandleInitialize, HandleInitializeAgain, HandleTooEarly, HandleFolders,
         HandleRemovedOnly, HandleShutdown, HandleDidOpen,
         HandleDidClose, HandleRequest, Initialized, Serving, IsCancelled, IsRequest
  <2>3. /\ m.doc \in OpenIn(store) /\ Accepted(store[m.doc], m)
        /\ b = [store EXCEPT ![m.doc] = [version |-> m.version, text |-> Applied(store[m.doc], m)]]
    BY <1>4, <2>1 DEF Effect
  <2> QED
    BY <2>2, <2>3 DEF HandleDidChange, OpenInServer, OpenIn
<1>5. CASE m.kind = "didClose"
  <2>1. IsDoc(m) /\ ~shutdownRequested
    BY <1>5 DEF IsDoc, DocKinds
  <2>2. HandleDidClose
    BY <1>5, <2>1 DEF Handle, HandleExit, HandleAfterShutdown, HandleCancel, HandleCancelled,
         HandleInitialize, HandleInitializeAgain, HandleTooEarly, HandleFolders,
         HandleRemovedOnly, HandleShutdown, HandleDidOpen,
         HandleDidChange, HandleRequest, Initialized, Serving, IsCancelled, IsRequest
  <2>3. b = [store EXCEPT ![m.doc] = None]
    BY <1>5, <2>1 DEF Effect
  <2> QED
    BY <2>2, <2>3 DEF HandleDidClose
<1> QED
  BY <1>2, <1>3, <1>4, <1>5 DEF IsDoc, DocKinds

\* A message of the client's that says what has become of its documents.
LEMMA ChainSays ==
  ASSUME CoreInv, ChainInv, NEW m \in Sent, documents' \in Stores, store' = store,
         server' = "running" /\ ready' => server = "running" /\ ready,
         server' = "running" /\ ready' =>
           \/ toServer' = toServer /\ documents' = documents
           \/ toServer' = Append(toServer, m) /\ Effect(documents, m, documents')
  PROVE  ChainInv'
<1> SUFFICES ASSUME server' = "running", ready' PROVE ChainInv'
  BY DEF ChainInv
<1>1. PICK h \in [0 .. Len(toServer) -> Stores] : Leads(h, store, toServer, documents)
  BY DEF ChainInv
<1>2. CASE toServer' = toServer /\ documents' = documents
  BY <1>1, <1>2 DEF ChainInv
<1>3. CASE toServer' = Append(toServer, m) /\ Effect(documents, m, documents')
  <2>1. toServer \in Seq(Sent) /\ store \in Stores /\ documents \in Stores
    BY DEF CoreInv, Shapes
  <2>2. \E g \in [0 .. Len(Append(toServer, m)) -> Stores] :
           Leads(g, store, Append(toServer, m), documents')
    BY <1>1, <1>3, <2>1, LeadsAppend
  <2> QED
    BY <1>3, <2>2 DEF ChainInv
<1> QED
  BY <1>2, <1>3

LEMMA ChainServe ==
  ASSUME CoreInv, ChainInv, Serve
  PROVE  ChainInv'
<1> SUFFICES ASSUME server' = "running", ready' PROVE ChainInv'
  BY DEF ChainInv
<1>1. Shapes /\ Handle /\ documents' = documents /\ ready' = ready
  BY DEF CoreInv, Serve, clientVars
<1>2. /\ server = "running" /\ toServer # <<>> /\ toServer' = Tail(toServer)
      /\ Message = Head(toServer)
  BY <1>1, ServeFacts
<1>3. initialized /\ ready
  BY <1>1, <1>2 DEF CoreInv, HandshakeInv
<1>4. PICK h \in [0 .. Len(toServer) -> Stores] : Leads(h, store, toServer, documents)
  BY <1>2, <1>3 DEF ChainInv
<1>5. /\ Effect(store, Head(toServer), h[1]) /\ h[1] \in Stores
      /\ \E g \in [0 .. Len(Tail(toServer)) -> Stores] : Leads(g, h[1], Tail(toServer), documents)
  BY <1>1, <1>2, <1>4, LeadsTail DEF Shapes
<1>6. IsDoc(Message) => ~shutdownRequested
  <2>1. Message \in Queued
    BY <1>1, <1>2, TailFacts DEF Queued, Shapes
  <2> QED
    BY <1>2, <2>1 DEF CoreInv, OrderInv
<1>7. store' = h[1]
  BY <1>1, <1>2, <1>3, <1>5, <1>6, ServeEffect
<1> QED
  BY <1>1, <1>2, <1>5, <1>7 DEF ChainInv

(***************************************************************************)
(* The snapshot leads from nothing to the client's documents: none of them *)
(* is opened twice, so the server has room for each.                       *)
(***************************************************************************)
LEMMA ChainSnapshot ==
  ASSUME CoreInv, MaxEdited <= MaxText, DeliverInitialized, server' = "running", ready'
  PROVE  ChainInv'
<1>1. /\ process' = process /\ documents' = documents /\ store' = store
      /\ Arrived.what = "result" /\ server = "running" /\ Notify(Snapshot)
  BY DEF DeliverInitialized, Kill, mirror, stateVars
<1>2. ~ready /\ process
  BY DEF DeliverInitialized, Settled, CoreInv, ControlInv
<1>3. store = [d \in Documents |-> None] /\ \A m \in Queued : ~IsDoc(m)
  BY <1>1, <1>2 DEF CoreInv, FreshInv
<1>4. toServer' = toServer \o Snapshot
  BY <1>1, <1>2 DEF Notify, Delivered
<1>5. PICK k \in Seq(Told) :
           /\ Snapshot \in Seq(Sent) /\ Len(Snapshot) = Len(k)
           /\ \A i \in 1 .. Len(k) : Snapshot[i] = DidOpen(k[i], documents[k[i]])
           /\ \A i, j \in 1 .. Len(k) : k[i] = k[j] => i = j
           /\ \A d \in Told : \E i \in 1 .. Len(k) : k[i] = d
  BY SnapshotFacts DEF CoreInv
<1> DEFINE n == Len(toServer)
           l == Len(k)
           q == toServer \o Snapshot
           After(c) == [d \in Documents |-> IF \E j \in 1 .. c : k[j] = d THEN documents[d] ELSE None]
           h == [i \in 0 .. n + l |-> After(i - n)]
<1>6. /\ n \in Nat /\ l \in Nat /\ q \in Seq(Sent) /\ Len(q) = n + l
      /\ \A i \in 1 .. n : q[i] = toServer[i] /\ ~IsDoc(q[i])
      /\ \A i \in 1 .. l : q[n + i] = DidOpen(k[i], documents[k[i]])
  <2> DEFINE s == Snapshot
             t == toServer
  <2>1. t \in Seq(Sent) /\ s \in Seq(Sent) /\ Len(s) = l
    BY <1>5 DEF CoreInv, Shapes
  <2>2. n \in Nat /\ l \in Nat
    BY <2>1, LenProperties
  <2> HIDE DEF s, t
  <2>3. /\ t \o s \in Seq(Sent) /\ Len(t \o s) = Len(t) + Len(s)
        /\ \A i \in 1 .. Len(t) + Len(s) : (t \o s)[i] = IF i <= Len(t) THEN t[i] ELSE s[i - Len(t)]
    BY <2>1, ConcatProperties
  <2>4. Len(t) = n /\ Len(s) = l /\ q = t \o s
    BY <2>1 DEF t, s
  <2> HIDE DEF n, l, q
  <2>5. \A i \in 1 .. n : q[i] = t[i]
    BY <2>2, <2>3, <2>4
  <2>6. \A i \in 1 .. l : q[n + i] = s[i]
    <3> SUFFICES ASSUME NEW i \in 1 .. l PROVE q[n + i] = s[i]
      OBVIOUS
    <3>1. n + i \in 1 .. n + l /\ ~(n + i <= n) /\ n + i - n = i
      BY <2>2
    <3> QED
      BY <2>3, <2>4, <3>1
  <2>7. \A i \in 1 .. n : ~IsDoc(t[i])
    <3>1. \A i \in 1 .. n : t[i] \in Range(t)
      BY <2>1, <2>4, RangeFacts
    <3> QED
      BY <1>3, <3>1 DEF Queued, t
  <2>8. \A i \in 1 .. l : s[i] = DidOpen(k[i], documents[k[i]])
    BY <1>5 DEF s, l
  <2> QED
    BY <2>2, <2>3, <2>4, <2>5, <2>6, <2>7, <2>8 DEF t
<1>7. \A i \in 1 .. l : /\ k[i] \in Told /\ k[i] \in Documents /\ documents[k[i]] # None
                        /\ documents[k[i]] \in DocState
  <2>1. \A i \in 1 .. l : k[i] \in Told
    BY <1>5, ElementOfSeq
  <2>2. \A d \in Told : d \in Documents /\ documents[d] # None
    BY DEF Told
  <2>3. \A d \in Told : documents[d] \in DocState
    BY <2>2, StoreFacts DEF CoreInv, Shapes
  <2> QED
    BY <2>1, <2>2, <2>3
<1>8. documents \in [Documents -> DocState \cup {None}] /\ documents \in Stores
  BY DEF CoreInv, Shapes, Stores
<1>9. \A i, j \in 1 .. l : k[i] = k[j] => i = j
  BY <1>5
<1>10. \A d \in Documents : documents[d] # None => \E i \in 1 .. l : k[i] = d
  <2> SUFFICES ASSUME NEW d \in Documents, documents[d] # None PROVE \E i \in 1 .. l : k[i] = d
    OBVIOUS
  <2>1. Len(documents[d].text) <= MaxEdited
    BY DEF CoreInv, FitInv, OpenIn
  <2>2. Len(documents[d].text) \in Nat
    <3>1. documents[d].text \in Seq(Pieces)
      BY <1>8, StoreFacts
    <3> QED
      BY <3>1, LenProperties
  <2>3. d \in Told
    BY <2>1, <2>2, SessionAssumption, LimitsAssumption DEF Told
  <2> QED
    BY <1>5, <2>3
<1> HIDE DEF n, l, q
<1>11. \A c : After(c) \in Stores /\ After(c) \in [Documents -> DocState \cup {None}]
  BY <1>8 DEF Stores
<1>12. ASSUME NEW c, NEW d \in Documents
       PROVE  After(c)[d] = IF \E j \in 1 .. c : k[j] = d THEN documents[d] ELSE None
  OBVIOUS
<1> HIDE DEF After
<1>20. h \in [0 .. n + l -> Stores] /\ \A i \in 0 .. n + l : h[i] = After(i - n)
  BY <1>11
<1> HIDE DEF h
<1>13. \A i \in 0 .. n : h[i] = store /\ i \in 0 .. n + l
  <2> SUFFICES ASSUME NEW i \in 0 .. n PROVE h[i] = store /\ i \in 0 .. n + l
    OBVIOUS
  <2>1. i \in 0 .. n + l /\ \A j \in 1 .. i - n : FALSE
    BY <1>6
  <2>2. \A d \in Documents : After(i - n)[d] = None
    BY <1>12, <2>1
  <2>3. After(i - n) = store
    BY <1>3, <1>11, <2>2
  <2> QED
    BY <1>20, <2>1, <2>3
<1>14. h[n + l] = documents
  <2>1. n + l \in 0 .. n + l /\ n + l - n = l
    BY <1>6
  <2>2. h[n + l] = After(l)
    BY <1>20, <2>1
  <2>3. \A d \in Documents : After(l)[d] = documents[d]
    BY <1>8, <1>10, <1>12
  <2> QED
    BY <1>8, <1>11, <2>2, <2>3
<1>15. ASSUME NEW i \in 1 .. l PROVE Effect(h[n + i - 1], q[n + i], h[n + i])
  <2> DEFINE d == k[i]
             a == h[n + i - 1]
             m == q[n + i]
  <2>1. n + i - 1 \in 0 .. n + l /\ n + i \in 0 .. n + l /\ n + i - 1 - n = i - 1 /\ n + i - n = i
    BY <1>6
  <2>2. a = After(i - 1)
    BY <1>6, <1>20, <2>1
  <2>3. h[n + i] = After(i)
    BY <1>6, <1>20, <2>1
  <2>4. d \in Documents /\ documents[d] # None /\ documents[d] \in DocState
    BY <1>7
  <2>5. m = DidOpen(d, documents[d])
    BY <1>6
  <2>6. /\ m.kind = "didOpen" /\ m.doc = d
        /\ documents[d] = [version |-> m.version, text |-> m.text]
    BY <2>4, <2>5 DEF DidOpen, DocState
  <2>7. \A j \in 1 .. i - 1 : k[j] # d
    <3> SUFFICES ASSUME NEW j \in 1 .. i - 1 PROVE k[j] # d
      OBVIOUS
    <3>1. j \in 1 .. l /\ j # i
      BY <1>6
    <3> QED
      BY <1>9, <3>1
  <2>8. h[n + i] = [a EXCEPT ![d] = documents[d]]
    <3>1. \A e \in Documents : (\E j \in 1 .. i : k[j] = e) <=> (e = d \/ \E j \in 1 .. i - 1 : k[j] = e)
      <4>1. 1 .. i = (1 .. i - 1) \cup {i}
        BY <1>6
      <4> QED
        BY <4>1
    <3>2. \A e \in Documents : After(i)[e] = IF e = d THEN documents[d] ELSE After(i - 1)[e]
      BY <1>12, <3>1
    <3> HIDE DEF a, d
    <3> QED
      BY <1>11, <2>2, <2>3, <2>4, <3>2
  <2>9. Cardinality(OpenIn(a)) < MaxOpen
    <3>1. OpenIn(a) \in SUBSET (OpenIn(documents) \ {d}) /\ d \in OpenIn(documents)
      <4>1. d \in OpenIn(documents)
        BY <2>4 DEF OpenIn
      <4>2. ASSUME NEW e \in Documents, a[e] # None PROVE documents[e] # None /\ e # d
        <5>1. After(i - 1)[e] # None
          BY <2>2, <4>2
        <5>2. \E j \in 1 .. i - 1 : k[j] = e
          BY <1>12, <5>1
        <5>3. documents[e] # None
          BY <1>12, <5>1
        <5> QED
          BY <2>7, <5>2, <5>3
      <4> QED
        BY <4>1, <4>2 DEF OpenIn
    <3>2. IsFiniteSet(OpenIn(documents)) /\ Cardinality(OpenIn(documents)) <= MaxOpen
      BY DEF CoreInv, FitInv
    <3>3. /\ IsFiniteSet(OpenIn(documents) \ {d})
          /\ Cardinality(OpenIn(documents) \ {d}) = Cardinality(OpenIn(documents)) - 1
      BY <3>1, <3>2, FS_RemoveElement
    <3>4. IsFiniteSet(OpenIn(a)) /\ Cardinality(OpenIn(a)) <= Cardinality(OpenIn(documents) \ {d})
      BY <3>1, <3>3, FS_Subset
    <3>5. Cardinality(OpenIn(documents)) \in Nat /\ Cardinality(OpenIn(a)) \in Nat /\ MaxOpen \in Nat
      BY <3>2, <3>4, FS_CardinalityType, LimitsAssumption
    <3> QED
      BY <3>2, <3>3, <3>4, <3>5
  <2> HIDE DEF d, a, m
  <2> QED
    BY <2>6, <2>8, <2>9 DEF Effect, a, m
<1>16. \A i \in 1 .. n + l : Effect(h[i - 1], q[i], h[i])
  <2> SUFFICES ASSUME NEW i \in 1 .. n + l PROVE Effect(h[i - 1], q[i], h[i])
    OBVIOUS
  <2>1. CASE i \in 1 .. n
    <3>1. i - 1 \in 0 .. n /\ i \in 0 .. n
      BY <1>6, <2>1
    <3>2. h[i - 1] = store /\ h[i] = store /\ ~IsDoc(q[i])
      BY <1>6, <1>13, <2>1, <3>1
    <3> QED
      BY <3>2 DEF Effect
  <2>2. CASE i \notin 1 .. n
    <3>1. i - n \in 1 .. l /\ n + (i - n) = i /\ n + (i - n) - 1 = i - 1
      BY <1>6, <2>2
    <3>2. Effect(h[n + (i - n) - 1], q[n + (i - n)], h[n + (i - n)])
      BY <1>15, <3>1
    <3> QED
      BY <3>1, <3>2
  <2> QED
    BY <2>1, <2>2
<1>17. ASSUME NEW d \in Documents, NEW i \in 0 .. n + l, NEW j \in 0 .. n + l, i <= j,
              \A c \in i + 1 .. j : ~About(q[c], d)
       PROVE  h[i][d] = h[j][d]
  <2>1. (\E c \in 1 .. i - n : k[c] = d) => \E c \in 1 .. j - n : k[c] = d
    <3>1. \A c \in 1 .. i - n : c \in 1 .. j - n
      BY <1>6, <1>17
    <3> QED
      BY <3>1
  <2>2. ASSUME NEW c \in 1 .. j - n, k[c] = d PROVE \E e \in 1 .. i - n : k[e] = d
    <3>1. CASE c \in 1 .. i - n
      BY <2>2, <3>1
    <3>2. CASE c \notin 1 .. i - n
      <4>1. c \in 1 .. l /\ n + c \in i + 1 .. j
        BY <1>6, <3>2
      <4>2. q[n + c] = DidOpen(d, documents[d])
        BY <1>6, <2>2, <4>1
      <4>3. About(q[n + c], d)
        BY <4>2 DEF About, IsDoc, DocKinds, DidOpen
      <4> QED
        BY <1>17, <4>1, <4>3
    <3> QED
      BY <3>1, <3>2
  <2>3. /\ h[i][d] = IF \E c \in 1 .. i - n : k[c] = d THEN documents[d] ELSE None
        /\ h[j][d] = IF \E c \in 1 .. j - n : k[c] = d THEN documents[d] ELSE None
    BY <1>12, <1>20
  <2> QED
    BY <2>1, <2>2, <2>3
<1>18. Leads(h, store, q, documents)
  <2>1. 0 \in 0 .. n
    BY <1>6
  <2> QED
    BY <1>6, <1>13, <1>14, <1>16, <1>17, <2>1 DEF Leads
<1>19. toServer' = q
  BY <1>4 DEF q
<1> QED
  BY <1>1, <1>6, <1>18, <1>19, <1>20 DEF ChainInv

LEMMA ChainStep ==
  ASSUME CoreInv, ChainInv, MaxEdited <= MaxText, [Next]_vars
  PROVE  ChainInv'
<1>1. /\ toServer \in Seq(Sent) /\ documents \in Stores /\ nextId \in Nat
      /\ pending \in SUBSET [id : Nat, kind : Requests]
  BY DEF CoreInv, Shapes
<1>2. ASSUME NEW m \in Sent, ~IsDoc(m), store' = store, documents' = documents,
             server' = "running" /\ ready' => server = "running" /\ ready,
             server' = "running" => toServer' = toServer \/ toServer' = Append(toServer, m)
      PROVE  ChainInv'
  <2>1. Effect(documents, m, documents')
    BY <1>2 DEF Effect
  <2> QED
    BY <1>1, <1>2, <2>1, ChainSays
<1>3. PICK exit \in Sent : exit.kind = "exit" /\ exit = [kind |-> "exit"]
  <2>1. [kind |-> "exit"] \in Sent
    BY DEF Sent
  <2> QED
    BY <2>1
<1>4. ~IsDoc(exit)
  BY <1>3 DEF IsDoc, DocKinds
<1>5. CASE Start
  BY <1>5 DEF Start, ChainInv, CoreInv, ControlInv
<1>6. CASE DeliverInitialized
  <2>1. CASE ready' /\ server' = "running"
    BY <1>6, <2>1, ChainSnapshot
  <2> QED
    BY <2>1 DEF ChainInv
<1>7. CASE DeliverShutdown
  <2>1. /\ store' = store /\ documents' = documents /\ ready' = ready
        /\ IF Arrived.what = "result" THEN Notify(<<exit>>) /\ server' = server ELSE server' = "exited"
    BY <1>3, <1>7 DEF DeliverShutdown, Kill, Farewell, stateVars, mirror, control
  <2>2. Notify(<<exit>>) => toServer' = toServer \/ toServer' = Append(toServer, exit)
    BY NotifyFacts DEF CoreInv
  <2> QED
    BY <1>2, <1>4, <2>1, <2>2
<1>8. CASE DeliverAnswer \/ DeliverDiagnostics
  BY <1>2, <1>4, <1>8 DEF DeliverAnswer, DeliverDiagnostics, stateVars, mirror, control
<1>9. CASE Exited \/ Crash
  BY <1>9 DEF Exited, Crash, Kill, serverVars, ChainInv
<1>10. ASSUME NEW d \in Documents, NEW m \in Sent, Edit(d, m) PROVE ChainInv'
  <2>1. /\ server' = server /\ ready' = ready /\ store' = store /\ documents' \in Stores
        /\ Effect(documents, m, documents')
        /\ ready /\ process /\ server = "running" => toServer' = Append(toServer, m)
    BY <1>10 DEF Edit, stateVars, control
  <2> QED
    BY <2>1, ChainSays DEF CoreInv, ControlInv
<1>11. ASSUME NEW m \in Sent, FolderStep(m) PROVE ChainInv'
  <2>1. ~IsDoc(m)
    BY <1>11 DEF FolderStep, IsDoc, DocKinds
  <2> QED
    BY <1>2, <1>11, <2>1 DEF FolderStep, stateVars, control
<1>12. ASSUME NEW m \in Sent, ~IsDoc(m), Notify(<<m>>), server' = server, ready' = ready,
              store' = store, documents' = documents
       PROVE  ChainInv'
  <2>1. toServer' = toServer \/ toServer' = Append(toServer, m)
    BY <1>12, NotifyFacts DEF CoreInv
  <2> QED
    BY <1>2, <1>12, <2>1
<1>13. ASSUME NEW kind \in {"request", "cancel", "shutdown"}, NEW id \in Nat
       PROVE  [kind |-> kind, id |-> id] \in Sent /\ ~IsDoc([kind |-> kind, id |-> id])
  BY DEF Sent, IsDoc, DocKinds
<1>14. CASE Request
  <2>1. /\ Notify(<<[kind |-> "request", id |-> nextId]>>)
        /\ server' = server /\ ready' = ready /\ store' = store /\ documents' = documents
    BY <1>14 DEF Request, stateVars, mirror, control
  <2> QED
    BY <1>1, <1>12, <1>13, <2>1
<1>15. ASSUME NEW p \in pending, CancelRequest(p) PROVE ChainInv'
  <2>1. /\ Notify(<<[kind |-> "cancel", id |-> p.id]>>) /\ p.id \in Nat
        /\ server' = server /\ ready' = ready /\ store' = store /\ documents' = documents
    BY <1>1, <1>15 DEF CancelRequest, stateVars, mirror, control
  <2> QED
    BY <1>12, <1>13, <2>1
<1>16. CASE Stop
  <2>1. /\ ready' = ready /\ store' = store /\ documents' = documents
    BY <1>16 DEF Stop, stateVars, mirror
  <2>2. CASE ~process \/ (ready /\ Cardinality(pending) >= MaxPending)
    <3>1. ~(server' = "running")
      BY <1>16, <2>2 DEF Stop, Kill, CoreInv, ControlInv
    <3> QED
      BY <3>1 DEF ChainInv
  <2>3. CASE process /\ ~ready
    BY <2>1, <2>3 DEF ChainInv
  <2>4. CASE process /\ ready /\ ~(Cardinality(pending) >= MaxPending)
    <3>1. server' = server /\ Notify(<<[kind |-> "shutdown", id |-> nextId]>>)
      BY <1>16, <2>4 DEF Stop
    <3> QED
      BY <1>1, <1>12, <1>13, <2>1, <3>1
  <2> QED
    BY <2>2, <2>3, <2>4
<1>17. CASE UNCHANGED vars
  BY <1>17 DEF vars, serverVars, stateVars, clientVars, ChainInv
<1> QED
  BY Steps, ChainServe, <1>5, <1>6, <1>7, <1>8, <1>9, <1>10, <1>11, <1>14, <1>15, <1>16, <1>17
     DEF CoreInv

(***************************************************************************)
(* When texts stay within the limit of a message, a ready server that has  *)
(* read what was sent holds the client's documents, after any edits and    *)
(* crashes.                                                                *)
(***************************************************************************)
THEOREM Converges ==
  ASSUME MaxEdited <= MaxText
  PROVE  Spec => []Converged
<1>1. SessionInit => CoreInv /\ ChainInv
  <2>1. SessionInit => ChainInv
    BY DEF SessionInit, ChainInv
  <2> QED
    BY <2>1, CoreInit
<1>2. (CoreInv /\ ChainInv) /\ [Next]_vars => (CoreInv /\ ChainInv)'
  BY CoreStep, ChainStep
<1>3. CoreInv /\ ChainInv => Converged
  <2> SUFFICES ASSUME CoreInv, ChainInv, ready, server = "running", toServer = <<>>
               PROVE  store = documents
    BY DEF Converged
  <2>1. PICK h \in [0 .. Len(toServer) -> Stores] : Leads(h, store, toServer, documents)
    BY DEF ChainInv
  <2>2. Len(toServer) = 0
    OBVIOUS
  <2> QED
    BY <2>1, <2>2 DEF Leads
<1> QED
  BY <1>1, <1>2, <1>3, PTL DEF Spec

-------------------------------------------------------------------------------
(* The news on the pipe to the client. *)

LEMMA NewsTail ==
  ASSUME NEW q \in Seq(Received), q # <<>>, NEW d
  PROVE  /\ \A i \in News(Tail(q), d) : i \in Nat /\ i + 1 \in News(q, d) /\ Tail(q)[i] = q[i + 1]
         /\ \A i \in News(q, d) : i \in Nat /\ (i # 1 => i - 1 \in News(Tail(q), d))
         /\ 1 \in News(q, d) <=> Head(q).kind = "diagnostics" /\ Head(q).doc = d
<1> DEFINE t == Tail(q)
<1>1. /\ t \in Seq(Received) /\ Len(t) = Len(q) - 1 /\ Len(q) \in Nat \ {0} /\ Head(q) = q[1]
      /\ \A i \in 1 .. Len(q) - 1 : t[i] = q[i + 1]
  BY TailFacts
<1> HIDE DEF t
<1>2. DOMAIN t = 1 .. Len(q) - 1 /\ DOMAIN q = 1 .. Len(q)
  BY <1>1, LenProperties
<1>3. ASSUME NEW i \in News(t, d) PROVE i \in Nat /\ i + 1 \in News(q, d) /\ t[i] = q[i + 1]
  <2>1. i \in 1 .. Len(q) - 1 /\ t[i].kind = "diagnostics" /\ t[i].doc = d
    BY <1>2 DEF News
  <2>2. i \in Nat /\ i + 1 \in DOMAIN q /\ t[i] = q[i + 1]
    BY <1>1, <1>2, <2>1
  <2> QED
    BY <2>1, <2>2 DEF News
<1>4. ASSUME NEW i \in News(q, d) PROVE i \in Nat /\ (i # 1 => i - 1 \in News(t, d))
  <2>1. i \in 1 .. Len(q) /\ q[i].kind = "diagnostics" /\ q[i].doc = d
    BY <1>2 DEF News
  <2>2. i \in Nat /\ (i # 1 => i - 1 \in DOMAIN t /\ t[i - 1] = q[i])
    BY <1>1, <1>2, <2>1
  <2> QED
    BY <2>1, <2>2 DEF News
<1>5. 1 \in News(q, d) <=> Head(q).kind = "diagnostics" /\ Head(q).doc = d
  <2>1. 1 \in DOMAIN q
    BY <1>1, <1>2
  <2> QED
    BY <1>1, <2>1 DEF News
<1> QED
  BY <1>3, <1>4, <1>5 DEF t

LEMMA NewsAppend ==
  ASSUME NEW q \in Seq(Received), NEW e \in Received, NEW d
  PROVE  /\ \A i : i \in News(Append(q, e), d) <=>
                   \/ i \in News(q, d)
                   \/ i = Len(q) + 1 /\ e.kind = "diagnostics" /\ e.doc = d
         /\ Append(q, e)[Len(q) + 1] = e
         /\ News(q, d) \in SUBSET (1 .. Len(q)) /\ Len(q) \in Nat
         /\ \A i \in 1 .. Len(q) : Append(q, e)[i] = q[i]
<1> DEFINE a == Append(q, e)
           n == Len(q)
<1>1. /\ a \in Seq(Received) /\ Len(a) = n + 1 /\ n \in Nat
      /\ \A i \in 1 .. n : a[i] = q[i]
      /\ a[n + 1] = e
  BY AppendFacts
<1>2. DOMAIN q = 1 .. n /\ n + 1 \notin 1 .. n
  BY <1>1, LenProperties
<1> HIDE DEF a, n
<1>3. DOMAIN a = 1 .. n + 1 /\ 1 .. n + 1 = (1 .. n) \cup {n + 1}
  BY <1>1, LenProperties
<1>4. \A i : i \in News(a, d) <=> \/ i \in News(q, d)
                                  \/ i = n + 1 /\ e.kind = "diagnostics" /\ e.doc = d
  BY <1>1, <1>2, <1>3 DEF News
<1>6. News(q, d) \in SUBSET (1 .. n)
  BY <1>2 DEF News
<1> QED
  BY <1>1, <1>4, <1>6 DEF a, n

\* What is said of another document, and an answer, leave the last word as it is.
LEMMA LastWordTail ==
  ASSUME NEW q \in Seq(Received), q # <<>>, NEW d, NEW displayed, NEW held,
         LastWord(q, d, displayed, held), ~(Head(q).kind = "diagnostics" /\ Head(q).doc = d)
  PROVE  LastWord(Tail(q), d, displayed, held)
<1> DEFINE t == Tail(q)
<1>1. /\ \A i \in News(t, d) : i \in Nat /\ i + 1 \in News(q, d) /\ t[i] = q[i + 1]
      /\ \A i \in News(q, d) : i \in Nat /\ i - 1 \in News(t, d)
  BY NewsTail
<1> HIDE DEF t
<1>2. CASE News(q, d) = {}
  BY <1>1, <1>2 DEF LastWord, t
<1>3. CASE News(q, d) # {}
  <2>1. PICK i \in News(q, d) : (\A j \in News(q, d) : j <= i) /\ Tells(q[i], held)
    BY <1>3 DEF LastWord
  <2>2. i \in Nat /\ i - 1 \in News(t, d) /\ i - 1 + 1 = i
    BY <1>1
  <2>3. t[i - 1] = q[i]
    BY <1>1, <2>2
  <2>4. \A j \in News(t, d) : j <= i - 1
    <3> SUFFICES ASSUME NEW j \in News(t, d) PROVE j <= i - 1
      OBVIOUS
    <3>1. j \in Nat /\ j + 1 <= i
      BY <1>1, <2>1
    <3> QED
      BY <2>2, <3>1
  <2> QED
    BY <2>1, <2>2, <2>3, <2>4 DEF LastWord, t
<1> QED
  BY <1>2, <1>3

\* The news that arrives is the last word, or another one follows.
LEMMA LastWordRead ==
  ASSUME NEW q \in Seq(Received), q # <<>>, NEW d, NEW displayed, NEW held, NEW now,
         LastWord(q, d, displayed, held), Head(q).kind = "diagnostics", Head(q).doc = d,
         Tells(Head(q), held) => now = TextOf(held)
  PROVE  LastWord(Tail(q), d, now, held)
<1> DEFINE t == Tail(q)
<1>1. /\ \A i \in News(t, d) : i \in Nat /\ i + 1 \in News(q, d) /\ t[i] = q[i + 1]
      /\ \A i \in News(q, d) : i \in Nat /\ (i # 1 => i - 1 \in News(t, d))
      /\ 1 \in News(q, d)
  BY NewsTail
<1>2. Head(q) = q[1]
  BY TailFacts
<1> HIDE DEF t
<1>3. PICK i \in News(q, d) : (\A j \in News(q, d) : j <= i) /\ Tells(q[i], held)
  BY <1>1 DEF LastWord
<1>4. CASE i = 1
  <2>1. News(t, d) = {}
    <3> SUFFICES ASSUME NEW j \in News(t, d) PROVE FALSE
      OBVIOUS
    <3>1. j + 1 <= 1 /\ j \in Nat /\ j + 1 \in News(q, d)
      BY <1>1, <1>3, <1>4
    <3>2. j = 0
      BY <3>1
    <3>3. j \in DOMAIN t /\ t = Tail(q) /\ Tail(q) \in Seq(Received)
      BY TailFacts DEF News, t
    <3>4. DOMAIN t = 1 .. Len(t)
      BY <3>3, LenProperties
    <3> QED
      BY <3>2, <3>3, <3>4
  <2> QED
    BY <1>2, <1>3, <1>4, <2>1 DEF LastWord, t
<1>5. CASE i # 1
  <2>1. i \in Nat /\ i - 1 \in News(t, d) /\ i - 1 + 1 = i
    BY <1>1, <1>5
  <2>2. t[i - 1] = q[i]
    BY <1>1, <2>1
  <2>3. \A j \in News(t, d) : j <= i - 1
    <3> SUFFICES ASSUME NEW j \in News(t, d) PROVE j <= i - 1
      OBVIOUS
    <3>1. j \in Nat /\ j + 1 <= i
      BY <1>1, <1>3
    <3> QED
      BY <2>1, <3>1
  <2> QED
    BY <1>3, <2>1, <2>2, <2>3 DEF LastWord, t
<1> QED
  BY <1>4, <1>5

LEMMA LastWordAppend ==
  ASSUME NEW q \in Seq(Received), NEW e \in Received, NEW d, NEW displayed, NEW held,
         \/ LastWord(q, d, displayed, held) /\ ~(e.kind = "diagnostics" /\ e.doc = d)
         \/ e.kind = "diagnostics" /\ e.doc = d /\ Tells(e, held)
  PROVE  LastWord(Append(q, e), d, displayed, held)
<1> DEFINE a == Append(q, e)
           n == Len(q)
<1>1. /\ \A i : i \in News(a, d) <=> \/ i \in News(q, d)
                                     \/ i = n + 1 /\ e.kind = "diagnostics" /\ e.doc = d
      /\ a[n + 1] = e
      /\ News(q, d) \in SUBSET (1 .. n) /\ n \in Nat
      /\ \A i \in 1 .. n : a[i] = q[i]
  BY NewsAppend
<1> HIDE DEF a, n
<1>2. \A i \in News(q, d) : i \in Nat /\ i <= n + 1 /\ a[i] = q[i]
  BY <1>1
<1>3. CASE LastWord(q, d, displayed, held) /\ ~(e.kind = "diagnostics" /\ e.doc = d)
  <2>1. News(a, d) = News(q, d)
    BY <1>1, <1>3
  <2> QED
    BY <1>2, <1>3, <2>1 DEF LastWord, a
<1>4. CASE e.kind = "diagnostics" /\ e.doc = d /\ Tells(e, held)
  <2>1. n + 1 \in News(a, d) /\ Tells(a[n + 1], held)
    BY <1>1, <1>4
  <2>2. \A j \in News(a, d) : j <= n + 1
    BY <1>1, <1>2, <1>4
  <2> QED
    BY <2>1, <2>2 DEF LastWord, a
<1> QED
  BY <1>3, <1>4

-------------------------------------------------------------------------------
(* Before the server is ready there is nothing to show. *)

\* What is taken from the pipe, or is no news, brings no news.
LEMMA NoNews ==
  ASSUME Shapes, NEW d \in Documents, News(toClient, d) = {},
         \/ toClient' = toClient
         \/ toClient # <<>> /\ toClient' = Tail(toClient)
         \/ \E e \in Received : toClient' = Append(toClient, e) /\ e.kind # "diagnostics"
  PROVE  News(toClient', d) = {}
<1>1. toClient \in Seq(Received)
  BY DEF Shapes
<1>2. CASE toClient' = toClient
  BY <1>2
<1>3. CASE toClient # <<>> /\ toClient' = Tail(toClient)
  BY <1>1, <1>3, NewsTail
<1>4. ASSUME NEW e \in Received, toClient' = Append(toClient, e), e.kind # "diagnostics"
      PROVE  News(toClient', d) = {}
  BY <1>1, <1>4, NewsAppend
<1> QED
  BY <1>2, <1>3, <1>4

LEMMA BlankStep ==
  ASSUME CoreInv, BlankInv, [Next]_vars
  PROVE  BlankInv'
<1> SUFFICES ASSUME crashes' = 0 PROVE BlankInv'
  BY DEF BlankInv
<1> DEFINE Blank == \A d \in Documents : shown[d] = None /\ News(toClient, d) = {}
           Starting == ready \/ \E p \in pending : p.kind = "initialize"
<1>1. Shapes /\ ControlInv /\ server \in {"running", "exited"}
  BY DEF CoreInv, Shapes
<1>2. ASSUME crashes = 0
      PROVE  /\ ~ready /\ (server = "running" \/ ~stopping) => Blank
             /\ server = "exited" /\ Starting => stopping
  BY <1>2 DEF BlankInv
<1>3. ASSUME shown' = shown, toClient' = toClient, Blank PROVE Blank'
  BY <1>3
<1>4. ASSUME /\ ~ready' /\ (server' = "running" \/ ~stopping') => Blank'
             /\ server' = "exited" /\ Starting' => stopping'
      PROVE  BlankInv'
  BY <1>4 DEF BlankInv
<1>5. CASE Start
  <2>1. /\ ~process /\ ~stopping /\ server' = "running" /\ shown' = shown /\ toClient' = toClient
        /\ crashes' = crashes
    BY <1>5 DEF Start, mirror
  <2>2. ~ready
    BY <1>1, <2>1 DEF ControlInv
  <2> HIDE DEF Blank, Starting
  <2> QED
    BY <1>2, <1>3, <1>4, <2>1, <2>2
<1>6. CASE Serve
  <2>1. /\ crashes' = crashes /\ ready' = ready /\ stopping' = stopping /\ pending' = pending
        /\ shown' = shown
    BY <1>6 DEF Serve, clientVars
  <2>2. /\ server = "running" /\ toServer # <<>> /\ Message = Head(toServer)
        /\ server' = IF Message.kind = "exit" THEN "exited" ELSE "running"
        /\ \/ toClient' = toClient
           \/ \E e \in Received : toClient' = Append(toClient, e) /\ Reply(Message, e)
    BY <1>1, <1>6, ServeFacts DEF Serve
  <2>3. Message \in Queued
    BY <1>1, <2>2, TailFacts DEF Queued, Shapes
  <2>4. server' = "exited" => stopping
    BY <2>2, <2>3 DEF CoreInv, OrderInv
  <2>5. ASSUME ~ready PROVE Blank'
    <3>1. Blank
      BY <1>2, <2>1, <2>2, <2>5
    <3>2. ~IsDoc(Message)
      BY <2>2, <2>3, <2>5 DEF CoreInv, FreshInv
    <3>3. \/ toClient' = toClient
          \/ \E e \in Received : toClient' = Append(toClient, e) /\ e.kind # "diagnostics"
      BY <2>2, <3>2 DEF Reply
    <3>4. \A d \in Documents : News(toClient', d) = {}
      BY <1>1, <3>1, <3>3, NoNews
    <3> QED
      BY <2>1, <3>1, <3>4
  <2> HIDE DEF Blank, Starting
  <2> QED
    BY <1>4, <2>1, <2>4, <2>5
<1>7. CASE DeliverInitialized
  <2>1. /\ Deliver /\ crashes' = crashes /\ stopping' = stopping /\ shown' = shown
        /\ IF Arrived.what = "result" THEN ready' = TRUE /\ server' = server
           ELSE server' = "exited" /\ ready' = ready
        /\ pending' = pending \ Settled
    BY <1>7 DEF DeliverInitialized, Kill, mirror, history
  <2>2. PICK p \in pending : p \in Settled /\ p.kind = "initialize"
    BY <1>7 DEF DeliverInitialized, Settled
  <2>3. ~ready /\ Starting
    BY <1>1, <2>2 DEF ControlInv
  <2>4. CASE Arrived.what = "result"
    <3>1. ready' /\ server' = server
      BY <2>1, <2>4
    <3> HIDE DEF Blank, Starting
    <3> QED
      BY <1>2, <1>4, <2>1, <2>3, <3>1
  <2>5. CASE Arrived.what # "result"
    <3>1. ready' = ready /\ server' = "exited"
      BY <2>1, <2>5
    <3>2. ~Starting'
      BY <1>1, <2>1, <2>2, <2>3, <3>1 DEF ControlInv
    <3>3. ASSUME ~stopping PROVE Blank'
      <4>1. Blank
        BY <1>2, <2>1, <2>3, <3>3
      <4>2. \A d \in Documents : News(toClient', d) = {}
        BY <1>1, <2>1, <4>1, NoNews DEF Deliver
      <4> QED
        BY <2>1, <4>1, <4>2
    <3> HIDE DEF Blank, Starting
    <3> QED
      BY <1>4, <2>1, <3>1, <3>2, <3>3
  <2> QED
    BY <2>4, <2>5
<1>8. CASE DeliverShutdown \/ DeliverAnswer
  <2>1. /\ Deliver /\ crashes' = crashes /\ stopping' = stopping /\ ready' = ready /\ shown' = shown
        /\ pending' \in SUBSET pending
        /\ server' = server \/ stopping
        /\ server' = "running" => server = "running"
    <3>1. CASE DeliverAnswer
      BY <3>1 DEF DeliverAnswer, mirror, control, history
    <3>2. CASE DeliverShutdown
      <4>1. stopping
        BY <1>1, <3>2 DEF DeliverShutdown, Settled, ControlInv
      <4> QED
        BY <3>2, <4>1 DEF DeliverShutdown, Kill, mirror, control, history
    <3> QED
      BY <1>8, <3>1, <3>2
  <2>2. Starting' => Starting
    BY <2>1
  <2>3. ASSUME Blank PROVE Blank'
    <3>1. \A d \in Documents : News(toClient', d) = {}
      BY <1>1, <2>1, <2>3, NoNews DEF Deliver
    <3> QED
      BY <2>1, <2>3, <3>1
  <2> HIDE DEF Blank, Starting
  <2> QED
    BY <1>2, <1>4, <2>1, <2>2, <2>3
<1>9. CASE DeliverDiagnostics
  <2>1. /\ Deliver /\ crashes' = crashes /\ stopping' = stopping /\ ready' = ready
        /\ pending' = pending /\ server' = server /\ Arrived.kind = "diagnostics"
    BY <1>9 DEF DeliverDiagnostics, control, requests, history
  <2>2. ~Blank
    <3>1. toClient \in Seq(Received) /\ toClient # <<>> /\ Arrived = Head(toClient) /\ Arrived \in Received
      BY <1>1, <2>1, DeliverFacts DEF Shapes, Deliver
    <3>2. Arrived.doc \in Documents
      BY <2>1, <3>1, ReceivedFacts
    <3>3. 1 \in News(toClient, Arrived.doc)
      BY <2>1, <3>1, NewsTail
    <3> QED
      BY <3>2, <3>3
  <2>3. Starting' => Starting
    BY <2>1
  <2> HIDE DEF Blank, Starting
  <2> QED
    BY <1>2, <1>4, <2>1, <2>2, <2>3
<1>10. CASE Exited
  <2>1. /\ crashes' = crashes /\ stopping' = stopping /\ shown' = shown /\ toClient' = toClient
        /\ server = "exited" /\ server' = server /\ ready' = FALSE /\ pending' = {}
    BY <1>10 DEF Exited, Rejected, serverVars, mirror, history
  <2>2. ~Starting'
    BY <2>1
  <2>3. ready => Starting
    OBVIOUS
  <2> HIDE DEF Blank, Starting
  <2> QED
    BY <1>2, <1>3, <1>4, <2>1, <2>2, <2>3
<1>11. CASE Crash
  <2>1. crashes' = crashes + 1 /\ crashes \in Nat
    BY <1>1, <1>11 DEF Crash, Shapes
  <2> QED
    BY <2>1
<1>12. ASSUME NEW d \in Documents, NEW m \in Sent, Edit(d, m) PROVE BlankInv'
  <2>1. /\ crashes' = crashes /\ stopping' = stopping /\ ready' = ready /\ pending' = pending
        /\ server' = server /\ toClient' = toClient
        /\ shown' = shown \/ shown' = [shown EXCEPT ![d] = None]
    BY <1>12 DEF Edit, control, requests
  <2>2. shown \in [Documents -> Seq(Pieces) \cup {None}]
    BY <1>1 DEF Shapes
  <2>3. ASSUME Blank PROVE Blank'
    BY <2>1, <2>2, <2>3
  <2>4. Starting' => Starting
    BY <2>1
  <2> HIDE DEF Blank, Starting
  <2> QED
    BY <1>2, <1>4, <2>1, <2>3, <2>4
<1>13. ASSUME crashes' = crashes, ready' = ready, shown' = shown, toClient' = toClient,
              server' = "running" => server = "running",
              (server' = server /\ stopping' = stopping) \/ stopping',
              \A p \in pending' : p.kind = "initialize" => p \in pending
       PROVE  BlankInv'
  <2>1. Starting' => Starting
    BY <1>13
  <2> HIDE DEF Blank, Starting
  <2> QED
    BY <1>2, <1>3, <1>4, <1>13, <2>1
<1>14. CASE \E m \in Sent : FolderStep(m)
  BY <1>13, <1>14 DEF FolderStep, control, requests
<1>15. CASE Request
  BY <1>13, <1>15 DEF Request, control, mirror
<1>16. CASE \E p \in pending : CancelRequest(p)
  BY <1>13, <1>16 DEF CancelRequest, control, mirror
<1>17. CASE Stop
  <2>1. /\ crashes' = crashes /\ ready' = ready /\ shown' = shown /\ toClient' = toClient /\ stopping'
    BY <1>17 DEF Stop, mirror, history
  <2>2. server' = "running" => server = "running"
    BY <1>17 DEF Stop, Kill
  <2>3. \A p \in pending' : p.kind = "initialize" => p \in pending
    BY <1>17 DEF Stop, requests
  <2> QED
    BY <1>13, <2>1, <2>2, <2>3
<1>18. CASE UNCHANGED vars
  BY <1>18 DEF vars, serverVars, stateVars, clientVars, BlankInv
<1> HIDE DEF Blank, Starting
<1> QED
  BY <1>1, Steps, <1>5, <1>6, <1>7, <1>8, <1>9, <1>10, <1>11, <1>12, <1>14, <1>15, <1>16, <1>17, <1>18
     DEF CoreInv

-------------------------------------------------------------------------------
(* The last that the server says of a document is right. *)

(***************************************************************************)
(* Every change of a document is told to the client, as it was made.       *)
(***************************************************************************)
LEMMA ServeNews ==
  ASSUME Shapes, PayloadsFit, Handle, initialized, IsDoc(Message), ~shutdownRequested,
         NEW b \in Stores, Effect(store, Message, b)
  PROVE  \E e \in Received : /\ toClient' = Append(toClient, e)
                             /\ e.kind = "diagnostics" /\ e.doc = Message.doc
                             /\ Tells(e, b[Message.doc])
<1> DEFINE m == Message
           d == m.doc
<1>1. m \in Sent /\ d \in Documents /\ store' = b
  BY ServeFacts, SentFacts, ServeEffect
<1>2. store \in [Documents -> DocState \cup {None}] /\ store \in Stores
  BY DEF Shapes, Stores
<1>3. CASE m.kind = "didOpen"
  <2> DEFINE e == [kind |-> "diagnostics", doc |-> d, version |-> m.version, text |-> m.text]
             state == [version |-> m.version, text |-> m.text]
  <2>1. HandleDidOpen
    BY <1>3 DEF Handle, HandleExit, HandleAfterShutdown, HandleCancel, HandleCancelled,
         HandleInitialize, HandleInitializeAgain, HandleTooEarly, HandleFolders,
         HandleRemovedOnly, HandleShutdown, HandleDidChange,
         HandleDidClose, HandleRequest, Initialized, Serving, IsCancelled, IsRequest
  <2>2. b = [store EXCEPT ![d] = state]
    BY <1>3 DEF Effect, IsDoc, DocKinds
  <2>3. b[d] = state
    BY <1>1, <1>2, <2>2
  <2>4. MayPublish(d, m.version, m.text)
    BY <1>1, <2>1, <2>3 DEF HandleDidOpen
  <2>5. toClient' = Append(toClient, e)
    BY <2>4 DEF MayPublish, Publish
  <2>6. e \in Received
    BY <1>1, <1>3, SentFacts DEF Received
  <2>7. state # None
    BY <1>1, <1>3, SentFacts, SessionAssumption
  <2>8. Tells(e, b[d])
    BY <2>3, <2>7 DEF Tells, TextOf
  <2> QED
    BY <2>5, <2>6, <2>8
<1>4. CASE m.kind = "didChange"
  <2> DEFINE text == Applied(store[d], m)
             e == [kind |-> "diagnostics", doc |-> d, version |-> m.version, text |-> text]
             state == [version |-> m.version, text |-> text]
  <2>1. HandleDidChange
    BY <1>4 DEF Handle, HandleExit, HandleAfterShutdown, HandleCancel, HandleCancelled,
         HandleInitialize, HandleInitializeAgain, HandleTooEarly, HandleFolders,
         HandleRemovedOnly, HandleShutdown, HandleDidOpen,
         HandleDidClose, HandleRequest, Initialized, Serving, IsCancelled, IsRequest
  <2>2. /\ b = [store EXCEPT ![d] = state]
        /\ d \in OpenIn(store) /\ Accepted(store[d], m)
    BY <1>4 DEF Effect, IsDoc, DocKinds
  <2>3. MayPublish(d, m.version, text)
    BY <2>1, <2>2 DEF HandleDidChange, OpenIn, OpenInServer
  <2>4. text \in Seq(Pieces) /\ m.version \in Nat
    <3>1. store[d] \in DocState
      BY <1>1, <1>2, <2>2, StoreFacts DEF OpenIn
    <3>2. /\ m.version \in Nat /\ m.whole \in BOOLEAN
          /\ m.first \in Nat /\ m.last \in Nat /\ m.first <= m.last /\ m.put \in Seq(Pieces)
      BY <1>1, <1>4, SentFacts
    <3>3. m.whole \/ (m.first <= m.last /\ m.last <= Len(store[d].text))
      BY <2>2, <3>2 DEF Accepted
    <3> QED
      BY <3>1, <3>2, <3>3, AppliedFacts
  <2> HIDE DEF text
  <2>5. b[d] = state
    BY <1>1, <1>2, <2>2
  <2>6. toClient' = Append(toClient, e)
    BY <2>3 DEF MayPublish, Publish
  <2>7. e \in Received
    BY <1>1, <2>4 DEF Received
  <2>8. state # None
    BY <2>4, SessionAssumption
  <2>9. Tells(e, b[d])
    BY <2>5, <2>8 DEF Tells, TextOf
  <2> QED
    BY <2>6, <2>7, <2>9
<1>5. CASE m.kind = "didClose"
  <2> DEFINE e == [kind |-> "diagnostics", doc |-> d, version |-> store[d].version, text |-> None]
  <2>1. HandleDidClose
    BY <1>5 DEF Handle, HandleExit, HandleAfterShutdown, HandleCancel, HandleCancelled,
         HandleInitialize, HandleInitializeAgain, HandleTooEarly, HandleFolders,
         HandleRemovedOnly, HandleShutdown, HandleDidOpen,
         HandleDidChange, HandleRequest, Initialized, Serving, IsCancelled, IsRequest
  <2>2. d \in OpenIn(store) /\ b = [store EXCEPT ![d] = None]
    BY <1>5 DEF Effect, IsDoc, DocKinds
  <2>3. Publish(d, store[d].version, None)
    BY <2>1, <2>2 DEF HandleDidClose, OpenIn, OpenInServer
  <2>4. toClient' = Append(toClient, e)
    BY <2>3 DEF Publish
  <2>5. e \in Received
    <3>1. store[d].version \in Nat
      BY <1>1, <1>2, <2>2, StoreFacts DEF OpenIn
    <3> QED
      BY <1>1, <3>1 DEF Received
  <2>6. b[d] = None
    BY <1>1, <1>2, <2>2
  <2>7. Tells(e, b[d])
    BY <2>6 DEF Tells, TextOf
  <2> QED
    BY <2>4, <2>5, <2>7
<1> QED
  BY <1>3, <1>4, <1>5 DEF IsDoc, DocKinds

\* What is quiet is as the client has it.
LEMMA QuietAgrees ==
  ASSUME CoreInv, ChainInv, server = "running", ready, NEW d \in Documents, Quiet(d)
  PROVE  store[d] = documents[d]
<1>1. PICK h \in [0 .. Len(toServer) -> Stores] : Leads(h, store, toServer, documents)
  BY DEF ChainInv
<1>2. /\ toServer \in Seq(Sent) /\ Len(toServer) \in Nat
      /\ \A k \in 1 .. Len(toServer) : toServer[k] \in Queued
  BY RangeFacts DEF CoreInv, Shapes, Queued
<1>3. \A k \in 0 + 1 .. Len(toServer) : ~About(toServer[k], d)
  BY <1>2 DEF Quiet
<1>4. 0 \in 0 .. Len(toServer) /\ Len(toServer) \in 0 .. Len(toServer) /\ 0 <= Len(toServer)
  BY <1>2
<1>5. h[0][d] = h[Len(toServer)][d]
  BY <1>1, <1>3, <1>4 DEF Leads
<1> QED
  BY <1>1, <1>5 DEF Leads

LEMMA NewsServe ==
  ASSUME CoreInv, ChainInv, NewsInv, PayloadsFit, Serve
  PROVE  NewsInv'
<1>1. /\ Shapes /\ Handle /\ ready' = ready /\ shown' = shown /\ crashes' = crashes
  BY DEF CoreInv, Serve, clientVars
<1> SUFFICES ASSUME server' = "running", ready, NEW d \in Documents, Quiet(d)',
                    store'[d] # None \/ crashes = 0
             PROVE  LastWord(toClient', d, shown[d], store'[d])
  BY <1>1 DEF NewsInv
<1> DEFINE m == Message
<1>2. /\ server = "running" /\ toServer # <<>> /\ toServer' = Tail(toServer)
      /\ m = Head(toServer)
      /\ \/ toClient' = toClient
         \/ \E e \in Received : toClient' = Append(toClient, e) /\ Reply(m, e)
  BY <1>1, ServeFacts
<1>3. toServer \in Seq(Sent) /\ toClient \in Seq(Received) /\ store \in Stores
  BY <1>1 DEF Shapes
<1>4. initialized
  BY <1>2 DEF CoreInv, HandshakeInv
<1>5. m \in Queued /\ (IsDoc(m) => ~shutdownRequested)
  BY <1>2, <1>3, TailFacts DEF Queued, CoreInv, OrderInv
<1>6. PICK h \in [0 .. Len(toServer) -> Stores] : Leads(h, store, toServer, documents)
  BY <1>2 DEF ChainInv
<1>7. Effect(store, m, h[1]) /\ h[1] \in Stores
  BY <1>2, <1>3, <1>6, LeadsTail
<1>8. store' = h[1]
  BY <1>1, <1>4, <1>5, <1>7, ServeEffect
<1>9. CASE About(m, d)
  <2>1. IsDoc(m) /\ m.doc = d
    BY <1>9 DEF About
  <2>2. \E e \in Received : /\ toClient' = Append(toClient, e)
                            /\ e.kind = "diagnostics" /\ e.doc = m.doc
                            /\ Tells(e, h[1][m.doc])
    BY <1>1, <1>4, <1>5, <1>7, <2>1, ServeNews
  <2> QED
    BY <1>3, <1>8, <2>1, <2>2, LastWordAppend
<1>10. CASE ~About(m, d)
  <2>1. store'[d] = store[d]
    BY <1>3, <1>7, <1>8, <1>10, EffectElsewhere
  <2>2. Quiet(d)
    <3>1. \A n \in Queued : n = m \/ n \in Queued'
      <4> SUFFICES ASSUME NEW n \in Queued PROVE n = m \/ n \in Queued'
        OBVIOUS
      <4>1. PICK i \in 1 .. Len(toServer) : toServer[i] = n
        BY <1>3, RangeFacts DEF Queued
      <4> DEFINE t == Tail(toServer)
      <4>2. /\ t \in Seq(Sent) /\ Len(t) = Len(toServer) - 1 /\ Len(toServer) \in Nat \ {0}
            /\ \A j \in 1 .. Len(toServer) - 1 : t[j] = toServer[j + 1]
            /\ m = toServer[1]
        BY <1>2, <1>3, TailFacts
      <4> HIDE DEF t
      <4>3. CASE i = 1
        BY <4>1, <4>2, <4>3
      <4>4. CASE i # 1
        <5>1. i - 1 \in 1 .. Len(t) /\ t[i - 1] = n
          BY <4>1, <4>2, <4>4
        <5>2. n \in Range(t)
          BY <4>2, <5>1, RangeFacts
        <5> QED
          BY <1>2, <5>2 DEF Queued, t
      <4> QED
        BY <4>3, <4>4
    <3> QED
      BY <1>10, <3>1 DEF Quiet
  <2>3. LastWord(toClient, d, shown[d], store[d])
    BY <1>2, <2>1, <2>2 DEF NewsInv
  <2>4. CASE toClient' = toClient
    BY <2>1, <2>3, <2>4
  <2>5. ASSUME NEW e \in Received, toClient' = Append(toClient, e), Reply(m, e)
        PROVE  LastWord(toClient', d, shown[d], store'[d])
    <3>1. ~(e.kind = "diagnostics" /\ e.doc = d)
      BY <1>10, <2>5 DEF Reply, About
    <3> QED
      BY <1>3, <2>1, <2>3, <2>5, <3>1, LastWordAppend
  <2> QED
    BY <1>2, <2>4, <2>5
<1> QED
  BY <1>9, <1>10

\* The diagnostics of the version that the client has are displayed.
LEMMA NewsArrive ==
  ASSUME CoreInv, ChainInv, NewsInv, DeliverDiagnostics
  PROVE  NewsInv'
<1>1. /\ Deliver /\ Arrived.kind = "diagnostics"
      /\ server' = server /\ store' = store /\ toServer' = toServer /\ ready' = ready
      /\ crashes' = crashes /\ documents' = documents
      /\ shown' = IF IsCurrent(Arrived) THEN [shown EXCEPT ![Arrived.doc] = Arrived.text] ELSE shown
  BY DEF DeliverDiagnostics, stateVars, control, history
<1> SUFFICES ASSUME server = "running", ready, NEW d \in Documents, Quiet(d),
                    store[d] # None \/ crashes = 0
             PROVE  LastWord(toClient', d, shown'[d], store[d])
  BY <1>1 DEF NewsInv, Quiet, Queued
<1>2. /\ toClient \in Seq(Received) /\ toClient # <<>> /\ toClient' = Tail(toClient)
      /\ Arrived = Head(toClient) /\ Arrived \in Received
      /\ shown \in [Documents -> Seq(Pieces) \cup {None}]
  BY <1>1, DeliverFacts DEF CoreInv, Shapes
<1>3. LastWord(toClient, d, shown[d], store[d])
  BY DEF NewsInv
<1>4. CASE Arrived.doc # d
  <2>1. shown'[d] = shown[d]
    BY <1>1, <1>2, <1>4
  <2> QED
    BY <1>2, <1>3, <1>4, <2>1, LastWordTail
<1>5. CASE Arrived.doc = d
  <2>1. ASSUME Tells(Arrived, store[d]) PROVE shown'[d] = TextOf(store[d])
    <3>1. store[d] = documents[d]
      BY QuietAgrees
    <3>2. IsCurrent(Arrived)
      BY <1>5, <2>1, <3>1 DEF IsCurrent, Tells
    <3> QED
      BY <1>1, <1>2, <1>5, <2>1, <3>2 DEF Tells
  <2> QED
    BY <1>1, <1>2, <1>3, <1>5, <2>1, LastWordRead
<1> QED
  BY <1>4, <1>5

\* Answers, and messages of the client's, leave it at what has been said.
LEMMA NewsKept ==
  ASSUME CoreInv, NewsInv, crashes' = crashes, store' = store,
         server' = "running" /\ ready' =>
           /\ server = "running" /\ ready
           /\ Queued \in SUBSET Queued'
           /\ \A d \in Documents : Quiet(d)' => shown'[d] = shown[d]
           /\ \/ toClient' = toClient
              \/ toClient # <<>> /\ toClient' = Tail(toClient) /\ Head(toClient).kind # "diagnostics"
  PROVE  NewsInv'
<1> SUFFICES ASSUME server' = "running", ready', NEW d \in Documents, Quiet(d)',
                    store[d] # None \/ crashes = 0
             PROVE  LastWord(toClient', d, shown'[d], store[d])
  BY DEF NewsInv
<1>1. Quiet(d)
  BY DEF Quiet
<1>2. LastWord(toClient, d, shown[d], store[d])
  BY <1>1 DEF NewsInv
<1>3. shown'[d] = shown[d] /\ toClient \in Seq(Received)
  BY DEF CoreInv, Shapes
<1>4. CASE toClient' = toClient
  BY <1>2, <1>3, <1>4
<1>5. CASE toClient # <<>> /\ toClient' = Tail(toClient) /\ Head(toClient).kind # "diagnostics"
  BY <1>2, <1>3, <1>5, LastWordTail
<1> QED
  BY <1>4, <1>5

LEMMA NewsStep ==
  ASSUME CoreInv, ChainInv, BlankInv, NewsInv, PayloadsFit, MaxEdited <= MaxText, [Next]_vars
  PROVE  NewsInv'
<1>1. /\ toServer \in Seq(Sent) /\ nextId \in Nat /\ pending \in SUBSET [id : Nat, kind : Requests]
      /\ shown \in [Documents -> Seq(Pieces) \cup {None}]
  BY DEF CoreInv, Shapes
<1>2. ASSUME NEW m \in Sent, toServer' = toServer \/ toServer' = Append(toServer, m)
      PROVE  Queued \in SUBSET Queued'
  <2>1. CASE toServer' = Append(toServer, m)
    BY <1>1, <2>1, AppendFacts DEF Queued
  <2> QED
    BY <1>2, <2>1 DEF Queued
<1>3. ASSUME NEW m \in Sent, Notify(<<m>>)
      PROVE  Queued \in SUBSET Queued'
  <2>1. toServer' = toServer \/ toServer' = Append(toServer, m)
    BY <1>3, NotifyFacts DEF CoreInv
  <2> QED
    BY <1>2, <2>1
<1>4. ASSUME NEW kind \in {"request", "cancel", "shutdown"}, NEW id \in Nat
      PROVE  [kind |-> kind, id |-> id] \in Sent
  BY DEF Sent
<1>5. CASE Start
  BY <1>5 DEF Start, NewsInv, CoreInv, ControlInv
<1>6. CASE DeliverInitialized
  <2> SUFFICES ASSUME server' = "running", ready', NEW d \in Documents,
                      store'[d] # None \/ crashes' = 0
               PROVE  LastWord(toClient', d, shown'[d], store'[d])
    BY DEF NewsInv
  <2>1. /\ Deliver /\ Arrived.kind = "response" /\ server = "running" /\ store' = store
        /\ crashes' = crashes /\ shown' = shown
    BY <1>6 DEF DeliverInitialized, Kill, mirror, stateVars, history
  <2>2. ~ready
    BY <1>6 DEF DeliverInitialized, Settled, CoreInv, ControlInv
  <2>3. store[d] = None
    BY <2>1, <2>2 DEF CoreInv, FreshInv
  <2>4. shown[d] = None /\ News(toClient, d) = {}
    BY <2>1, <2>2, <2>3 DEF BlankInv
  <2>5. News(toClient', d) = {}
    BY <2>1, <2>4, NoNews DEF Deliver, CoreInv
  <2> QED
    BY <2>1, <2>3, <2>4, <2>5 DEF LastWord, TextOf
<1>7. CASE DeliverShutdown \/ DeliverAnswer
  <2>1. /\ Deliver /\ Arrived.kind = "response" /\ store' = store /\ crashes' = crashes
        /\ shown' = shown /\ ready' = ready
    BY <1>7 DEF DeliverShutdown, DeliverAnswer, mirror, control, stateVars, history
  <2>2. toClient # <<>> /\ toClient' = Tail(toClient) /\ Head(toClient).kind # "diagnostics"
    BY <2>1 DEF Deliver, Arrived
  <2>3. server' = "running" => server = "running" /\ Queued \in SUBSET Queued'
    <3>1. CASE DeliverAnswer
      BY <3>1 DEF DeliverAnswer, Queued
    <3>2. CASE DeliverShutdown
      <4>1. \/ server' = server /\ Notify(<<[kind |-> "exit"]>>)
            \/ server' = "exited"
        BY <3>2 DEF DeliverShutdown, Kill, Farewell
      <4>2. [kind |-> "exit"] \in Sent
        BY DEF Sent
      <4> QED
        BY <1>3, <4>1, <4>2
    <3> QED
      BY <1>7, <3>1, <3>2
  <2> QED
    BY <2>1, <2>2, <2>3, NewsKept
<1>8. CASE Exited \/ Crash
  BY <1>8 DEF Exited, Crash, Kill, serverVars, NewsInv
<1>9. ASSUME NEW d \in Documents, NEW m \in Sent, Edit(d, m) PROVE NewsInv'
  <2>1. /\ server' = server /\ ready' = ready /\ store' = store /\ crashes' = crashes
        /\ toClient' = toClient /\ About(m, d)
        /\ ready /\ process /\ server = "running" => toServer' = Append(toServer, m)
        /\ shown' = shown \/ shown' = [shown EXCEPT ![d] = None]
    BY <1>9 DEF Edit, About, stateVars, control
  <2>2. ASSUME server' = "running", ready'
        PROVE  /\ Queued \in SUBSET Queued'
               /\ \A c \in Documents : Quiet(c)' => shown'[c] = shown[c]
    <3>1. toServer' = Append(toServer, m)
      BY <2>1, <2>2 DEF CoreInv, ControlInv
    <3>2. Queued' = Queued \cup {m}
      BY <1>1, <3>1, AppendFacts DEF Queued
    <3>3. ~Quiet(d)'
      BY <2>1, <3>2 DEF Quiet
    <3>4. \A c \in Documents : c # d => shown'[c] = shown[c]
      BY <1>1, <2>1
    <3> QED
      BY <3>2, <3>3, <3>4
  <2> QED
    BY <2>1, <2>2, NewsKept
<1>10. ASSUME NEW m \in Sent, FolderStep(m) PROVE NewsInv'
  <2>1. /\ server' = server /\ ready' = ready /\ store' = store /\ crashes' = crashes
        /\ toClient' = toClient /\ shown' = shown
        /\ toServer' = toServer \/ toServer' = Append(toServer, m)
    BY <1>10 DEF FolderStep, stateVars, control
  <2>2. Queued \in SUBSET Queued'
    BY <1>2, <2>1
  <2> QED
    BY <2>1, <2>2, NewsKept
<1>11. CASE Request
  <2>1. /\ Notify(<<[kind |-> "request", id |-> nextId]>>)
        /\ server' = server /\ ready' = ready /\ store' = store /\ crashes' = crashes
        /\ toClient' = toClient /\ shown' = shown
    BY <1>11 DEF Request, stateVars, mirror, control
  <2>2. Queued \in SUBSET Queued'
    BY <1>1, <1>3, <1>4, <2>1
  <2> QED
    BY <2>1, <2>2, NewsKept
<1>12. ASSUME NEW p \in pending, CancelRequest(p) PROVE NewsInv'
  <2>1. /\ Notify(<<[kind |-> "cancel", id |-> p.id]>>) /\ p.id \in Nat
        /\ server' = server /\ ready' = ready /\ store' = store /\ crashes' = crashes
        /\ toClient' = toClient /\ shown' = shown
    BY <1>1, <1>12 DEF CancelRequest, stateVars, mirror, control
  <2>2. Queued \in SUBSET Queued'
    BY <1>3, <1>4, <2>1
  <2> QED
    BY <2>1, <2>2, NewsKept
<1>13. CASE Stop
  <2>1. /\ ready' = ready /\ store' = store /\ crashes' = crashes
        /\ toClient' = toClient /\ shown' = shown
    BY <1>13 DEF Stop, stateVars, mirror, history
  <2>2. CASE ~process \/ (ready /\ Cardinality(pending) >= MaxPending)
    <3>1. ~(server' = "running")
      BY <1>13, <2>2 DEF Stop, Kill, CoreInv, ControlInv
    <3> QED
      BY <3>1 DEF NewsInv
  <2>3. CASE process /\ ~ready
    BY <2>1, <2>3 DEF NewsInv
  <2>4. CASE process /\ ready /\ ~(Cardinality(pending) >= MaxPending)
    <3>1. server' = server /\ Notify(<<[kind |-> "shutdown", id |-> nextId]>>)
      BY <1>13, <2>4 DEF Stop
    <3>2. Queued \in SUBSET Queued'
      BY <1>1, <1>3, <1>4, <3>1
    <3> QED
      BY <2>1, <3>1, <3>2, NewsKept
  <2> QED
    BY <2>2, <2>3, <2>4
<1>14. CASE UNCHANGED vars
  BY <1>14 DEF vars, serverVars, stateVars, clientVars, NewsInv, Quiet, Queued
<1> QED
  BY Steps, NewsServe, NewsArrive, <1>5, <1>6, <1>7, <1>8, <1>9, <1>10, <1>11, <1>12, <1>13, <1>14
     DEF CoreInv

(***************************************************************************)
(* When nothing is under way, each document shows the diagnostics of its   *)
(* text, in every session whose texts and answers fit their buffers, and   *)
(* a closed one shows none unless a server crashed.                        *)
(***************************************************************************)
THEOREM ShowsTheCurrent ==
  ASSUME MaxEdited <= MaxText, PayloadsFit
  PROVE  Spec => []DiagnosticsAreCurrent
<1> DEFINE EInv == CoreInv /\ ChainInv /\ BlankInv /\ NewsInv
<1>1. SessionInit => EInv
  <2> SUFFICES ASSUME SessionInit PROVE EInv
    OBVIOUS
  <2>1. ready = FALSE /\ server = "exited" /\ pending = {} /\ toClient = <<>>
        /\ shown = [d \in Documents |-> None]
    BY DEF SessionInit, ServerInit
  <2>2. ChainInv /\ NewsInv
    BY <2>1 DEF ChainInv, NewsInv
  <2>3. BlankInv
    <3>1. \A d : News(<<>>, d) = {}
      BY DEF News
    <3> QED
      BY <2>1, <3>1 DEF BlankInv
  <2> QED
    BY <2>2, <2>3, CoreInit
<1>2. EInv /\ [Next]_vars => EInv'
  BY CoreStep, ChainStep, BlankStep, NewsStep
<1>3. EInv => DiagnosticsAreCurrent
  <2> SUFFICES ASSUME EInv, ready, server = "running", toServer = <<>>, toClient = <<>>,
                      NEW d \in Documents
               PROVE  IF documents[d] = None THEN crashes = 0 => shown[d] = None
                      ELSE shown[d] = documents[d].text
    BY DEF DiagnosticsAreCurrent
  <2>1. Quiet(d)
    BY DEF Quiet, Queued, Range
  <2>2. store[d] = documents[d]
    BY <2>1, QuietAgrees
  <2>3. News(toClient, d) = {}
    BY DEF News
  <2>4. store[d] # None \/ crashes = 0 => shown[d] = TextOf(store[d])
    BY <2>1, <2>3 DEF NewsInv, LastWord
  <2> QED
    BY <2>2, <2>4 DEF TextOf
<1> QED
  BY <1>1, <1>2, <1>3, PTL DEF Spec

-------------------------------------------------------------------------------
(* The server's answers, in a session. *)

LEMMA NothingNew ==
  ASSUME Shapes, toClient' = toClient \/ (toClient # <<>> /\ toClient' = Tail(toClient))
  PROVE  DOMAIN toClient' \ DOMAIN toClient = {}
<1>1. toClient \in Seq(Received)
  BY DEF Shapes
<1>2. CASE toClient' = toClient
  BY <1>2
<1>3. CASE toClient # <<>> /\ toClient' = Tail(toClient)
  <2>1. /\ toClient' \in Seq(Received)
        /\ Len(toClient') = Len(toClient) - 1 /\ Len(toClient) \in Nat
    BY <1>1, <1>3, TailFacts
  <2>2. DOMAIN toClient' = 1 .. Len(toClient') /\ DOMAIN toClient = 1 .. Len(toClient)
    BY <1>1, <2>1, RangeFacts
  <2> QED
    BY <2>1, <2>2
<1> QED
  BY <1>2, <1>3

LEMMA OneNew ==
  ASSUME Shapes, NEW e, toClient' = Append(toClient, e)
  PROVE  /\ DOMAIN toClient' \ DOMAIN toClient = {Len(toClient) + 1}
         /\ toClient'[Len(toClient) + 1] = e
<1> DEFINE S == Received \cup {e}
<1>1. toClient \in Seq(S) /\ e \in S
  BY DEF Shapes
<1> HIDE DEF S
<1>2. /\ toClient' \in Seq(S) /\ Len(toClient') = Len(toClient) + 1 /\ Len(toClient) \in Nat
      /\ toClient'[Len(toClient) + 1] = e
  BY <1>1, AppendFacts
<1>3. DOMAIN toClient' = 1 .. Len(toClient') /\ DOMAIN toClient = 1 .. Len(toClient)
  BY <1>1, <1>2, RangeFacts
<1> QED
  BY <1>2, <1>3

\* The message is one that is answered.
Answered == IsRequest \/ (Message.kind = "cancel" /\ shutdownRequested)

(***************************************************************************)
(* A handler answers what is to be answered, and nothing else; diagnostics *)
(* are no answer.                                                          *)
(***************************************************************************)
LEMMA HandlersAnswer ==
  ASSUME Handle, PayloadsFit
  PROVE  \/ Answered /\ \E what : Answer(what)
         \/ ~Answered /\ toClient' = toClient
         \/ ~Answered /\ \E d, version, text : Publish(d, version, text)
<1> USE DEF Answered, IsRequest
<1>1. CASE HandleExit
  BY <1>1 DEF HandleExit
<1>2. CASE HandleAfterShutdown
  BY <1>2 DEF HandleAfterShutdown, HasId
<1>3. CASE HandleCancel
  BY <1>3 DEF HandleCancel
<1>4. CASE HandleCancelled
  BY <1>4 DEF HandleCancelled, IsCancelled
<1>5. CASE HandleInitialize \/ HandleInitializeAgain
  BY <1>5 DEF HandleInitialize, HandleInitializeAgain, Serving
<1>6. CASE HandleTooEarly
  BY <1>6 DEF HandleTooEarly, HasId
<1>7. CASE HandleFolders \/ HandleRemovedOnly
  BY <1>7 DEF HandleFolders, HandleRemovedOnly, Initialized, Serving
<1>8. CASE HandleShutdown
  BY <1>8 DEF HandleShutdown, Initialized, Serving
<1>9. CASE HandleDidOpen
  <2>1. ~Answered
    BY <1>9 DEF HandleDidOpen, Initialized, Serving
  <2>2. \/ MayPublish(Message.doc, Message.version, Message.text)
        \/ UNCHANGED toClient
    BY <1>9 DEF HandleDidOpen
  <2> QED
    BY <2>1, <2>2, PayloadsFit DEF MayPublish
<1>10. CASE HandleDidChange
  <2>1. ~Answered
    BY <1>10 DEF HandleDidChange, Initialized, Serving
  <2>2. \/ MayPublish(Message.doc, Message.version, Applied(store[Message.doc], Message))
        \/ UNCHANGED toClient
    BY <1>10 DEF HandleDidChange
  <2> QED
    BY <2>1, <2>2, PayloadsFit DEF MayPublish
<1>11. CASE HandleDidClose
  BY <1>11 DEF HandleDidClose, Initialized, Serving
<1>12. CASE HandleRequest
  BY <1>12 DEF HandleRequest, MayAnswer, Initialized, Serving
<1> QED
  BY <1>1, <1>2, <1>3, <1>4, <1>5, <1>6, <1>7, <1>8, <1>9, <1>10, <1>11, <1>12 DEF Handle

(***************************************************************************)
(* Whoever acts but the server: nothing is added to what it has said and   *)
(* its state is as it was, and unless it ends nothing is taken from what   *)
(* it has to read.                                                         *)
(***************************************************************************)
LEMMA OthersSayNothing ==
  ASSUME CoreInv, [Next]_vars, ~Serve, server = "running"
  PROVE  /\ toClient' = toClient \/ (toClient # <<>> /\ toClient' = Tail(toClient))
         /\ UNCHANGED stateVars
         /\ server' = "running" => Len(toServer') >= Len(toServer)
<1> DEFINE Said == /\ toClient' = toClient \/ (toClient # <<>> /\ toClient' = Tail(toClient))
                   /\ UNCHANGED stateVars
           Kept == server' = "running" => Len(toServer') >= Len(toServer)
<1>1. toServer \in Seq(Sent) /\ Len(toServer) \in Nat
      /\ \A m \in Sent : Len(Append(toServer, m)) = Len(toServer) + 1
  BY AppendFacts, LenProperties DEF CoreInv, Shapes
<1>2. ASSUME NEW q \in Seq(Sent), Notify(q) PROVE Kept
  <2>1. <<>> \in Seq(Sent) /\ Delivered(q) \in Seq(Sent)
    BY <1>2 DEF Delivered
  <2>2. Len(toServer \o Delivered(q)) = Len(toServer) + Len(Delivered(q)) /\ Len(Delivered(q)) \in Nat
    BY <1>1, <2>1, ConcatProperties, LenProperties
  <2> QED
    BY <1>1, <1>2, <2>2 DEF Notify
<1>3. process
  BY DEF CoreInv, ControlInv
<1>4. CASE Start
  BY <1>3, <1>4 DEF Start
<1>5. CASE DeliverInitialized
  <2>1. Said
    BY <1>5 DEF DeliverInitialized, Deliver
  <2>2. Snapshot \in Seq(Sent)
    BY SnapshotFacts DEF CoreInv
  <2>3. Notify(Snapshot) \/ server' = "exited"
    BY <1>5 DEF DeliverInitialized, Kill
  <2> QED
    BY <1>2, <2>1, <2>2, <2>3
<1>6. <<[kind |-> "exit"]>> \in Seq(Sent)
  <2>1. [kind |-> "exit"] \in Sent
    BY DEF Sent
  <2> QED
    BY <2>1, OneFacts
<1>7. CASE DeliverShutdown
  <2>1. Said
    BY <1>7 DEF DeliverShutdown, Deliver
  <2>2. Notify(Farewell) \/ server' = "exited"
    BY <1>7 DEF DeliverShutdown, Kill
  <2> QED
    BY <1>2, <1>6, <2>1, <2>2 DEF Farewell
<1>8. CASE DeliverAnswer \/ DeliverDiagnostics
  BY <1>1, <1>8 DEF DeliverAnswer, DeliverDiagnostics, Deliver
<1>9. CASE Exited
  BY <1>9 DEF Exited
<1>10. CASE Crash
  BY <1>10 DEF Crash, Kill
<1>11. ASSUME NEW d \in Documents, NEW m \in Sent, Edit(d, m) PROVE Said /\ Kept
  BY <1>1, <1>11 DEF Edit
<1>12. ASSUME NEW m \in Sent, FolderStep(m) PROVE Said /\ Kept
  BY <1>1, <1>12 DEF FolderStep
<1>13. nextId \in Nat
  BY DEF CoreInv, Shapes
<1>14. CASE Request
  <2>1. Said
    BY <1>14 DEF Request
  <2>2. [kind |-> "request", id |-> nextId] \in Sent
    BY <1>13 DEF Sent
  <2>3. <<[kind |-> "request", id |-> nextId]>> \in Seq(Sent)
    BY <2>2, OneFacts
  <2>4. Notify(<<[kind |-> "request", id |-> nextId]>>)
    BY <1>14 DEF Request
  <2> QED
    BY <1>2, <2>1, <2>3, <2>4
<1>15. ASSUME NEW p \in pending, CancelRequest(p) PROVE Said /\ Kept
  <2>1. Said
    BY <1>15 DEF CancelRequest
  <2>2. [kind |-> "cancel", id |-> p.id] \in Sent
    <3>1. p.id \in Nat
      BY DEF CoreInv, Shapes
    <3> QED
      BY <3>1 DEF Sent
  <2>3. <<[kind |-> "cancel", id |-> p.id]>> \in Seq(Sent)
    BY <2>2, OneFacts
  <2>4. Notify(<<[kind |-> "cancel", id |-> p.id]>>)
    BY <1>15 DEF CancelRequest
  <2> QED
    BY <1>2, <2>1, <2>3, <2>4
<1>16. CASE Stop
  <2>1. Said
    BY <1>16 DEF Stop
  <2>2. [kind |-> "shutdown", id |-> nextId] \in Sent
    BY <1>13 DEF Sent
  <2>3. <<[kind |-> "shutdown", id |-> nextId]>> \in Seq(Sent)
    BY <2>2, OneFacts
  <2>4. \/ server' = "exited" \/ toServer' = toServer
        \/ Notify(<<[kind |-> "shutdown", id |-> nextId]>>) \/ Notify(Farewell)
    BY <1>3, <1>16 DEF Stop, Kill
  <2>5. CASE Notify(<<[kind |-> "shutdown", id |-> nextId]>>)
    BY <1>2, <2>1, <2>3, <2>5
  <2>6. CASE Notify(Farewell)
    <3>1. Farewell \in Seq(Sent)
      BY <1>6 DEF Farewell
    <3> QED
      BY <1>2, <2>1, <2>6, <3>1
  <2>7. CASE server' = "exited" \/ toServer' = toServer
    BY <1>1, <2>1, <2>7
  <2> QED
    BY <2>4, <2>5, <2>6, <2>7
<1>17. CASE UNCHANGED vars
  BY <1>1, <1>17 DEF vars, serverVars
<1> QED
  BY Steps, <1>4, <1>5, <1>7, <1>8, <1>9, <1>10, <1>11, <1>12, <1>14, <1>15, <1>16, <1>17
     DEF CoreInv

(***************************************************************************)
(* Every request that the server of a session takes up is answered once,   *)
(* under its id, and nothing else is, if the answers fit their buffers.    *)
(***************************************************************************)
THEOREM AnswersOnce ==
  ASSUME PayloadsFit
  PROVE  Spec => ExactlyOneAnswer
<1> DEFINE Answers == {i \in DOMAIN toClient' \ DOMAIN toClient :
                         toClient'[i].kind = "response"}
           Right == /\ Cardinality(Answers) = IF Answered THEN 1 ELSE 0
                    /\ \A i \in Answers : toClient'[i].id = Message.id
<1>1. ASSUME CoreInv, [Next]_vars, TakesUp PROVE Right
  <2>0. Shapes /\ server = "running" /\ toServer # <<>> /\ toServer' = Tail(toServer)
    BY <1>1 DEF TakesUp, CoreInv
  <2>1. CASE toClient' = toClient \/ (toClient # <<>> /\ toClient' = Tail(toClient))
    <3>1. Answers = {}
      BY <2>0, <2>1, NothingNew
    <3>2. ASSUME ~Answered PROVE Right
      <4>1. Cardinality(Answers) = 0
        BY <3>1, FS_EmptySet
      <4> HIDE DEF Answers
      <4> QED
        BY <3>1, <3>2, <4>1
    <3>3. ASSUME Serve, Answered PROVE FALSE
      <4>1. PICK what : Answer(what)
        BY <3>3, <1>1, HandlersAnswer DEF Serve
      <4>2. Len(toClient) + 1 \in DOMAIN toClient' \ DOMAIN toClient
        BY <2>0, <4>1, OneNew DEF Answer
      <4> QED
        BY <2>0, <2>1, <4>2, NothingNew
    <3>4. ASSUME ~Serve PROVE ~Answered
      <4>1. server' # "running"
        <5>1. Len(toServer') = Len(toServer) - 1 /\ Len(toServer) \in Nat
          BY <2>0, TailFacts DEF Shapes
        <5>2. server' = "running" => Len(toServer') >= Len(toServer)
          BY <1>1, <2>0, <3>4, OthersSayNothing
        <5> QED
          BY <5>1, <5>2
      <4>2. Message.kind = "exit"
        BY <1>1, <4>1 DEF TakesUp
      <4> QED
        BY <4>2 DEF Answered, IsRequest
    <3> QED
      BY <3>2, <3>3, <3>4
  <2>2. ASSUME Serve PROVE Right
    <3>1. CASE Answered /\ \E what : Answer(what)
      <4>1. PICK what : Answer(what)
        BY <3>1
      <4>2. /\ DOMAIN toClient' \ DOMAIN toClient = {Len(toClient) + 1}
            /\ toClient'[Len(toClient) + 1] =
                 [kind |-> "response", id |-> Message.id, what |-> what]
        BY <2>0, <4>1, OneNew DEF Answer
      <4>3. Answers = {Len(toClient) + 1} /\ \A i \in Answers : toClient'[i].id = Message.id
        BY <4>2
      <4>4. Cardinality({Len(toClient) + 1}) = 1
        BY FS_Singleton
      <4> HIDE DEF Answers
      <4> QED
        BY <3>1, <4>3, <4>4
    <3>2. CASE ~Answered /\ toClient' = toClient
      BY <2>1, <3>2
    <3>3. CASE ~Answered /\ \E d, version, text : Publish(d, version, text)
      <4>1. PICK d, version, text : Publish(d, version, text)
        BY <3>3
      <4>2. /\ DOMAIN toClient' \ DOMAIN toClient = {Len(toClient) + 1}
            /\ toClient'[Len(toClient) + 1] =
                 [kind |-> "diagnostics", doc |-> d, version |-> version, text |-> text]
        BY <2>0, <4>1, OneNew DEF Publish
      <4>3. Answers = {}
        BY <4>2
      <4>4. Cardinality({}) = 0
        BY FS_EmptySet
      <4> HIDE DEF Answers
      <4> QED
        BY <3>3, <4>3, <4>4
    <3> QED
      BY <2>2, <3>1, <3>2, <3>3, HandlersAnswer DEF Serve
  <2> QED
    BY <1>1, <2>0, <2>1, <2>2, OthersSayNothing
<1>2. CoreInv /\ [Next]_vars =>
        [TakesUp =>
           LET answers == {i \in DOMAIN toClient' \ DOMAIN toClient :
                             toClient'[i].kind = "response"} IN
           /\ Cardinality(answers) =
                IF IsRequest \/ (Message.kind = "cancel" /\ shutdownRequested)
                THEN 1 ELSE 0
           /\ \A i \in answers : toClient'[i].id = Message.id]_serverVars
  BY <1>1 DEF Answered
<1> QED
  BY <1>2, CoreHolds, PTL DEF Spec, ExactlyOneAnswer

(***************************************************************************)
(* The server of a session that has taken up a shutdown changes nothing    *)
(* more and says nothing but errors.                                       *)
(***************************************************************************)
THEOREM ObeysShutdown == Spec => NothingAfterShutdown
<1> DEFINE Still == /\ UNCHANGED stateVars
                    /\ \A i \in DOMAIN toClient' \ DOMAIN toClient :
                         toClient'[i].kind = "response" /\ toClient'[i].what = "error"
<1>1. ASSUME CoreInv, [Next]_vars, shutdownRequested, server = "running" PROVE Still
  <2>0. Shapes
    BY <1>1 DEF CoreInv
  <2>1. CASE ~Serve
    BY <1>1, <2>0, <2>1, OthersSayNothing, NothingNew
  <2>2. CASE Serve
    <3>1. HandleExit \/ HandleAfterShutdown
      BY <1>1, <2>2
         DEF Serve, Handle, HandleCancel, HandleCancelled, HandleInitialize,
             HandleInitializeAgain, HandleTooEarly, HandleFolders, HandleRemovedOnly,
             HandleShutdown, HandleDidOpen, HandleDidChange, HandleDidClose, HandleRequest,
             Initialized, Serving
    <3>2. UNCHANGED stateVars /\ (Answer("error") \/ toClient' = toClient)
      BY <3>1 DEF HandleExit, HandleAfterShutdown
    <3>3. CASE Answer("error")
      <4>1. /\ DOMAIN toClient' \ DOMAIN toClient = {Len(toClient) + 1}
            /\ toClient'[Len(toClient) + 1] =
                 [kind |-> "response", id |-> Message.id, what |-> "error"]
        BY <2>0, <3>3, OneNew DEF Answer
      <4> QED
        BY <3>2, <4>1
    <3>4. CASE toClient' = toClient
      BY <2>0, <3>2, <3>4, NothingNew
    <3> QED
      BY <3>2, <3>3, <3>4
  <2> QED
    BY <2>1, <2>2
<1>2. CoreInv /\ [Next]_vars =>
        [shutdownRequested /\ server = "running" =>
           /\ UNCHANGED stateVars
           /\ \A i \in DOMAIN toClient' \ DOMAIN toClient :
                toClient'[i].kind = "response" /\ toClient'[i].what = "error"]_serverVars
  BY <1>1
<1> QED
  BY <1>2, CoreHolds, PTL DEF Spec, NothingAfterShutdown

-------------------------------------------------------------------------------
(* Whoever waits has something to wait for. *)

Asks(m, p) == m.kind \in Requests /\ m.id = p.id
Settles(m, p) == m.kind = "response" /\ m.id = p.id

\* The request p is on its way, or its answer is.
UnderWay(p) == (\E m \in Queued : Asks(m, p)) \/ (\E m \in Arriving : Settles(m, p))

WaitInv == server = "running" => \A p \in pending : UnderWay(p)

LEMMA RangeSplits ==
  ASSUME NEW S, NEW q \in Seq(S), q # <<>>
  PROVE  \A m \in Range(q) : m = Head(q) \/ m \in Range(Tail(q))
<1> DEFINE t == Tail(q)
<1>1. /\ t \in Seq(S) /\ Len(t) = Len(q) - 1 /\ Len(q) \in Nat \ {0} /\ Head(q) = q[1]
      /\ \A i \in 1 .. Len(q) - 1 : t[i] = q[i + 1]
  BY TailFacts
<1> HIDE DEF t
<1>2. ASSUME NEW m \in Range(q), m # Head(q) PROVE m \in Range(t)
  <2>1. PICK i \in 1 .. Len(q) : q[i] = m
    BY RangeFacts
  <2>2. i - 1 \in 1 .. Len(t) /\ t[i - 1] = m
    BY <1>1, <1>2, <2>1
  <2> QED
    BY <1>1, <2>2, RangeFacts
<1> QED
  BY <1>2 DEF t

LEMMA ConcatKeeps ==
  ASSUME NEW S, NEW q \in Seq(S), NEW r \in Seq(S)
  PROVE  Range(q) \in SUBSET Range(q \o r)
<1> DEFINE c == q \o r
<1>1. /\ c \in Seq(S) /\ Len(c) = Len(q) + Len(r) /\ Len(q) \in Nat /\ Len(r) \in Nat
      /\ \A i \in 1 .. Len(q) + Len(r) : c[i] = IF i <= Len(q) THEN q[i] ELSE r[i - Len(q)]
  BY ConcatProperties, LenProperties
<1> HIDE DEF c
<1>2. ASSUME NEW m \in Range(q) PROVE m \in Range(c)
  <2>1. PICK i \in 1 .. Len(q) : q[i] = m
    BY RangeFacts
  <2>2. i \in 1 .. Len(c) /\ c[i] = m
    BY <1>1, <2>1
  <2> QED
    BY <1>1, <2>2, RangeFacts
<1> QED
  BY <1>2 DEF c

\* A message that is sent takes the place of none.
LEMMA SendingKeeps ==
  ASSUME Shapes, NEW q \in Seq(Sent), Notify(q)
  PROVE  Queued \in SUBSET Queued'
<1>1. Delivered(q) \in Seq(Sent) /\ toServer \in Seq(Sent)
  BY DEF Delivered, Shapes
<1>2. toServer' = toServer \o Delivered(q)
  BY DEF Notify
<1> QED
  BY <1>1, <1>2, ConcatKeeps DEF Queued

(***************************************************************************)
(* Whoever still waits does so for what was on its way before: nothing is  *)
(* taken from the server's pipe, and an answer that is taken settles those *)
(* it is for.                                                              *)
(***************************************************************************)
LEMMA WaitsOn ==
  ASSUME WaitInv, server' = server, pending' \in SUBSET pending, Queued \in SUBSET Queued',
         \A m \in Arriving : m \in Arriving' \/ \A p \in pending' : ~Settles(m, p)
  PROVE  WaitInv'
<1> SUFFICES ASSUME server = "running", NEW p \in pending' PROVE UnderWay(p)'
  BY DEF WaitInv
<1>1. UnderWay(p)
  BY DEF WaitInv
<1> QED
  BY <1>1 DEF UnderWay, Asks, Settles

LEMMA WaitServe ==
  ASSUME PayloadsFit, CoreInv, WaitInv, Serve
  PROVE  WaitInv'
<1>1. Shapes /\ Handle /\ pending' = pending
  BY DEF CoreInv, Serve, clientVars
<1>2. /\ server = "running" /\ toServer # <<>> /\ toServer' = Tail(toServer)
      /\ Message = Head(toServer)
      /\ server' = IF Message.kind = "exit" THEN "exited" ELSE "running"
      /\ toServer \in Seq(Sent) /\ toClient \in Seq(Received)
      /\ \/ toClient' = toClient
         \/ \E e \in Received : toClient' = Append(toClient, e)
  BY <1>1, ServeFacts DEF Shapes
<1>3. Arriving \in SUBSET Arriving'
  <2>1. \A e \in Received : Range(Append(toClient, e)) = Range(toClient) \cup {e}
    BY <1>2, AppendFacts
  <2> QED
    BY <1>2, <2>1 DEF Arriving
<1>4. \A m \in Queued : m = Message \/ m \in Queued'
  BY <1>2, RangeSplits DEF Queued
<1>5. ASSUME NEW p \in pending, Asks(Message, p)
      PROVE  \E m \in Arriving' : Settles(m, p)
  <2>1. Answered
    BY <1>5 DEF Asks, Requests, Answered, IsRequest
  <2>2. PICK what : Answer(what)
    BY <1>1, <2>1, HandlersAnswer
  <2> DEFINE e == [kind |-> "response", id |-> Message.id, what |-> what]
  <2>3. toClient' = Append(toClient, e)
    BY <2>2 DEF Answer
  <2>4. e \in Arriving'
    <3> DEFINE S == Received \cup {e}
    <3>1. toClient \in Seq(S) /\ e \in S
      BY <1>2
    <3> HIDE DEF S, e
    <3>2. Range(Append(toClient, e)) = Range(toClient) \cup {e}
      BY <3>1, AppendFacts
    <3> QED
      BY <2>3, <3>2 DEF Arriving
  <2>5. Settles(e, p)
    BY <1>5 DEF Asks, Settles
  <2> QED
    BY <2>4, <2>5
<1> SUFFICES ASSUME server' = "running", NEW p \in pending PROVE UnderWay(p)'
  BY <1>1 DEF WaitInv
<1>6. UnderWay(p)
  BY <1>2 DEF WaitInv
<1>7. CASE \E m \in Queued : Asks(m, p)
  BY <1>4, <1>5, <1>7 DEF UnderWay, Asks
<1>8. CASE \E m \in Arriving : Settles(m, p)
  BY <1>3, <1>8 DEF UnderWay, Settles
<1> QED
  BY <1>6, <1>7, <1>8 DEF UnderWay

LEMMA WaitDelivers ==
  ASSUME CoreInv, WaitInv,
         DeliverInitialized \/ DeliverShutdown \/ DeliverAnswer \/ DeliverDiagnostics
  PROVE  WaitInv'
<1>1. Shapes /\ toServer \in Seq(Sent) /\ toClient \in Seq(Received)
  BY DEF CoreInv, Shapes
<1>2. Deliver
  BY DEF DeliverInitialized, DeliverShutdown, DeliverAnswer, DeliverDiagnostics
<1>3. /\ toClient # <<>> /\ toClient' = Tail(toClient) /\ Arrived = Head(toClient)
  BY <1>1, <1>2, DeliverFacts
<1>4. pending' = pending \ Settled \/ (pending' = pending /\ Arrived.kind = "diagnostics")
  BY DEF DeliverInitialized, DeliverShutdown, DeliverAnswer, DeliverDiagnostics, requests
<1>5. \A p \in pending' : ~Settles(Arrived, p)
  BY <1>4 DEF Settles, Settled
<1>6. \A m \in Arriving : m \in Arriving' \/ \A p \in pending' : ~Settles(m, p)
  <2>1. \A m \in Arriving : m = Arrived \/ m \in Arriving'
    BY <1>1, <1>3, RangeSplits DEF Arriving
  <2> QED
    BY <1>5, <2>1
<1>7. \/ server' = "exited"
      \/ server' = server /\ (toServer' = toServer \/ Notify(Snapshot) \/ Notify(Farewell))
  BY DEF DeliverInitialized, DeliverShutdown, DeliverAnswer, DeliverDiagnostics, Kill
<1>8. Snapshot \in Seq(Sent) /\ Farewell \in Seq(Sent)
  <2>1. Snapshot \in Seq(Sent)
    BY SnapshotFacts DEF CoreInv
  <2>2. [kind |-> "exit"] \in Sent
    BY DEF Sent
  <2> QED
    BY <2>1, <2>2, OneFacts DEF Farewell
<1>9. ASSUME server' # "exited" PROVE Queued \in SUBSET Queued'
  BY <1>1, <1>7, <1>8, <1>9, SendingKeeps DEF Queued
<1>10. pending' \in SUBSET pending
  BY <1>4
<1> QED
  BY <1>6, <1>7, <1>9, <1>10, WaitsOn DEF WaitInv

LEMMA WaitAsks ==
  ASSUME CoreInv, WaitInv, server' = server, toClient' = toClient,
         NEW m \in Sent, m.kind \in Requests,
         NEW q, q.id = m.id, pending' = pending \cup {q},
         process /\ server = "running" => toServer' = Append(toServer, m)
  PROVE  WaitInv'
<1> SUFFICES ASSUME server = "running", NEW p \in pending' PROVE UnderWay(p)'
  BY DEF WaitInv
<1>1. toServer' = Append(toServer, m) /\ toServer \in Seq(Sent)
  BY DEF CoreInv, ControlInv, Shapes
<1>2. Queued' = Queued \cup {m} /\ Arriving' = Arriving
  BY <1>1, AppendFacts DEF Queued, Arriving
<1>3. CASE p \in pending
  <2>1. UnderWay(p)
    BY <1>3 DEF WaitInv
  <2> QED
    BY <1>2, <2>1 DEF UnderWay, Asks, Settles
<1>4. CASE p = q
  BY <1>2, <1>4 DEF UnderWay, Asks
<1> QED
  BY <1>3, <1>4

LEMMA WaitStop ==
  ASSUME CoreInv, WaitInv, Stop
  PROVE  WaitInv'
<1>1. Shapes /\ nextId \in Nat /\ toClient' = toClient
  BY DEF CoreInv, Shapes, Stop
<1> DEFINE m == [kind |-> "shutdown", id |-> nextId]
<1>2. m \in Sent /\ m.kind \in Requests /\ m.id = nextId
  BY <1>1 DEF Sent, Requests
<1>3. \/ server' = "exited"
      \/ server' = server /\ pending' = pending /\ (toServer' = toServer \/ Notify(Farewell))
      \/ /\ server' = server /\ pending' = pending \cup {[id |-> nextId, kind |-> "shutdown"]}
         /\ Notify(<<m>>)
  BY DEF Stop, Kill, requests
<1>4. CASE server' = "exited"
  BY <1>4 DEF WaitInv
<1>5. CASE server' = server /\ pending' = pending /\ (toServer' = toServer \/ Notify(Farewell))
  <2>1. [kind |-> "exit"] \in Sent
    BY DEF Sent
  <2>2. Farewell \in Seq(Sent)
    BY <2>1, OneFacts DEF Farewell
  <2>3. Queued \in SUBSET Queued' /\ Arriving' = Arriving
    BY <1>1, <1>5, <2>2, SendingKeeps DEF Queued, Arriving
  <2> QED
    BY <1>5, <2>3, WaitsOn
<1>6. CASE /\ server' = server /\ pending' = pending \cup {[id |-> nextId, kind |-> "shutdown"]}
           /\ Notify(<<m>>)
  <2>1. process /\ server = "running" => toServer' = Append(toServer, m)
    BY <1>1, <1>2, <1>6, NotifyFacts
  <2>2. [id |-> nextId, kind |-> "shutdown"].id = m.id
    OBVIOUS
  <2> HIDE DEF m
  <2> QED
    BY <1>1, <1>2, <1>6, <2>1, <2>2, WaitAsks
<1> QED
  BY <1>3, <1>4, <1>5, <1>6

LEMMA WaitStart ==
  ASSUME CoreInv, Start
  PROVE  WaitInv'
<1> DEFINE m == [kind |-> "initialize", id |-> nextId, root |-> Head(folders)]
<1>1. /\ toServer' = <<m>>
      /\ pending' = pending \cup {[id |-> nextId, kind |-> "initialize"]}
  BY DEF Start, StartId
<1>2. pending = {}
  BY DEF CoreInv, ControlInv, Start
<1>3. m \in Queued'
  <2> HIDE DEF m
  <2>1. Range(<<m>>) = {m}
    BY OneFacts
  <2> QED
    BY <1>1, <2>1 DEF Queued
<1>4. m.kind = "initialize" /\ m.id = nextId
  OBVIOUS
<1> QED
  BY <1>1, <1>2, <1>3, <1>4 DEF WaitInv, UnderWay, Asks, Requests

LEMMA WaitStep ==
  ASSUME PayloadsFit, CoreInv, WaitInv, [Next]_vars
  PROVE  WaitInv'
<1>1. Shapes /\ FitInv /\ toServer \in Seq(Sent) /\ nextId \in Nat
      /\ pending \in SUBSET [id : Nat, kind : Requests]
  BY DEF CoreInv, Shapes
<1>2. CASE Start
  BY <1>2, WaitStart
<1>3. CASE Serve
  BY <1>3, WaitServe
<1>4. CASE DeliverInitialized \/ DeliverShutdown \/ DeliverAnswer \/ DeliverDiagnostics
  BY <1>4, WaitDelivers
<1>5. CASE Exited \/ Crash
  BY <1>5 DEF WaitInv, Exited, Crash, Kill, serverVars
<1>6. ASSUME NEW m \in Sent, (\E d \in Documents : Edit(d, m)) \/ FolderStep(m)
      PROVE  WaitInv'
  <2>1. /\ server' = server /\ toClient' = toClient /\ pending' = pending
        /\ toServer' = toServer \/ toServer' = Append(toServer, m)
    BY <1>6 DEF Edit, FolderStep, requests
  <2>2. Range(Append(toServer, m)) = Range(toServer) \cup {m}
    BY <1>1, AppendFacts
  <2>3. Queued \in SUBSET Queued' /\ Arriving' = Arriving
    BY <2>1, <2>2 DEF Queued, Arriving
  <2> QED
    BY <2>1, <2>3, WaitsOn
<1>7. CASE Request
  <2> DEFINE m == [kind |-> "request", id |-> nextId]
             q == [id |-> nextId, kind |-> "request"]
  <2>1. /\ server' = server /\ toClient' = toClient /\ pending' = pending \cup {q} /\ Notify(<<m>>)
    BY <1>7 DEF Request
  <2>2. m \in Sent /\ m.kind \in Requests /\ q.id = m.id
    BY <1>1 DEF Sent, Requests
  <2> HIDE DEF m, q
  <2>3. process /\ server = "running" => toServer' = Append(toServer, m)
    BY <1>1, <2>1, <2>2, NotifyFacts
  <2> QED
    BY <2>1, <2>2, <2>3, WaitAsks
<1>8. ASSUME NEW p \in pending, CancelRequest(p) PROVE WaitInv'
  <2>1. /\ server' = server /\ toClient' = toClient /\ pending' \in SUBSET pending
        /\ Notify(<<[kind |-> "cancel", id |-> p.id]>>)
    BY <1>8 DEF CancelRequest
  <2>2. [kind |-> "cancel", id |-> p.id] \in Sent
    <3>1. p.id \in Nat
      BY <1>1
    <3> QED
      BY <3>1 DEF Sent
  <2>3. <<[kind |-> "cancel", id |-> p.id]>> \in Seq(Sent)
    BY <2>2, OneFacts
  <2>4. Queued \in SUBSET Queued' /\ Arriving' = Arriving
    BY <1>1, <2>1, <2>3, SendingKeeps DEF Arriving
  <2> QED
    BY <2>1, <2>4, WaitsOn
<1>9. CASE Stop
  BY <1>9, WaitStop
<1>10. CASE UNCHANGED vars
  BY <1>10 DEF vars, serverVars, clientVars, WaitInv, UnderWay, Queued, Arriving, Asks, Settles
<1> QED
  BY Steps, <1>1, <1>2, <1>3, <1>4, <1>5, <1>6, <1>7, <1>8, <1>9, <1>10

(***************************************************************************)
(* If answers fit their buffers, whoever waits for one has something to    *)
(* wait for, across any number of crashes, restarts and cancellations.     *)
(***************************************************************************)
THEOREM NoRequestIsLost ==
  ASSUME PayloadsFit
  PROVE  Spec => []NobodyWaitsInVain
<1>1. SessionInit => WaitInv
  BY DEF SessionInit, ServerInit, WaitInv
<1>2. CoreInv /\ WaitInv /\ [Next]_vars => WaitInv'
  BY WaitStep
<1>3. CoreInv /\ WaitInv => NobodyWaitsInVain
  BY DEF CoreInv, ControlInv, WaitInv, UnderWay, Asks, Settles, Queued, Arriving, Requests,
         NobodyWaitsInVain
<1> QED
  BY <1>1, <1>2, <1>3, CoreHolds, PTL DEF Spec
===============================================================================
