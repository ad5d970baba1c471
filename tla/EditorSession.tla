----------------------------- MODULE EditorSession -----------------------------
(***************************************************************************)
(* The language server together with its client, the OpenCClient of        *)
(* editors/vscode/extension.js: a session that is kept across crashes.     *)
(*                                                                         *)
(* The client is one JavaScript thread.  Each action is one event that the *)
(* editor, the operating system or the pipe delivers to it, with the       *)
(* continuations that run before the next event.  The pipe from the server *)
(* can still hold messages when the server is gone.                        *)
(***************************************************************************)
EXTENDS LanguageServer, SequencesExt

CONSTANTS
  Pieces,        \* what texts are made of
  Workspace,     \* the folders of the workspace at the start
  MaxRestarts,   \* MAX_RESTARTS, 3
  MaxPending,    \* MAX_PENDING_REQUESTS, 128
  MaxEdited,     \* bound: the longest text that the user writes
  MaxVersion,    \* bound: versions of a document
  MaxEvents,     \* bound: events of the user
  MaxCrashes     \* bound: crashes of the server

ASSUME SessionAssumption ==
  /\ Workspace \in Seq(Roots) /\ Workspace # <<>>
  /\ None \notin [version : Nat, text : Seq(Pieces)]
  /\ MaxEdited \in Nat

VARIABLES
  documents,     \* the client's copy: the state of every synchronized document
  folders,       \* vscode.workspace.workspaceFolders
  process,       \* this.process is set
  ready, stopping, restartCount, restartTimer,
  pending,       \* requests without an answer: their ids and kinds
  nextId,
  shown,         \* the diagnostics the editor displays, per document
  events,        \* history: events of the user
  crashes        \* history: crashes

clientVars == <<documents, folders, process, ready, stopping, restartCount,
                restartTimer, pending, nextId, shown, events, crashes>>
vars == <<serverVars, clientVars>>

history == <<events, crashes>>
mirror == <<documents, folders, shown>>
control == <<process, ready, stopping, restartCount, restartTimer>>
requests == <<pending, nextId>>

Texts == SeqOf(Pieces, MaxEdited)

SessionInit ==
  /\ ServerInit
  /\ documents = [d \in Documents |-> None]
  /\ folders = Workspace
  /\ process = FALSE /\ ready = FALSE /\ stopping = FALSE
  /\ restartCount = 0 /\ restartTimer = FALSE
  /\ pending = {} /\ nextId = 1
  /\ shown = [d \in Documents |-> None]
  /\ events = 0 /\ crashes = 0

-------------------------------------------------------------------------------
(***************************************************************************)
(* Sending.  A message beyond the limit, or to no process, is dropped with *)
(* a line in the log; what is written to a dead server is lost.            *)
(***************************************************************************)
Carried(m) ==
  CASE m.kind = "didOpen" -> Len(m.text)
    [] m.kind = "didChange" -> Len(m.put)
    [] OTHER -> 0

Fitting(m) == IF Carried(m) <= MaxText THEN <<m>> ELSE <<>>

Delivered(messages) == IF process /\ server = "running" THEN messages ELSE <<>>

Notify(messages) == toServer' = toServer \o Delivered(messages)

DidOpen(d, state) ==
  [kind |-> "didOpen", doc |-> d, version |-> state.version,
   text |-> state.text]

\* A mistake Snapshot could hold: a new server is not told of the documents.
NoSnapshot == <<>>

\* resynchronize: every document of the client's copy is opened again.
Snapshot ==
  LET known == SetToSeq({d \in Documents : /\ documents[d] # None
                                           /\ Len(documents[d].text) <= MaxText})
  IN  [i \in DOMAIN known |-> DidOpen(known[i], documents[known[i]])]

\* child.kill(): what the server had not read is lost.
Kill == server' = "exited" /\ toServer' = <<>>

\* A mistake StartId could hold: every server's requests are numbered from 1.
FirstId == 1

\* The ids go on across restarts.
StartId == nextId

\* start, at activation or when the restart timer fires.
Start ==
  /\ ~process /\ ~stopping
  /\ nextId = 1 \/ restartTimer
  /\ process' = TRUE
  /\ server' = "running"
  /\ FreshState
  /\ toServer' = <<[kind |-> "initialize", id |-> StartId,
                    root |-> Head(folders)]>>
  /\ pending' = pending \union {[id |-> StartId, kind |-> "initialize"]}
  /\ nextId' = StartId + 1
  /\ restartTimer' = FALSE
  /\ UNCHANGED <<toClient, mirror, ready, stopping, restartCount, events, crashes>>

-------------------------------------------------------------------------------
(***************************************************************************)
(* The user.  When the extension is disposed its listeners go with it.     *)
(***************************************************************************)
UserEvent == ~stopping /\ events < MaxEvents /\ events' = events + 1

\* open: at most MaxOpen documents are synchronized.
Open(d, text) ==
  LET state == [version |-> 1, text |-> text] IN
  /\ UserEvent
  /\ documents[d] = None
  /\ Cardinality({e \in Documents : documents[e] # None}) < MaxOpen
  /\ documents' = [documents EXCEPT ![d] = state]
  /\ IF ready THEN Notify(Fitting(DidOpen(d, state))) ELSE UNCHANGED toServer
  /\ UNCHANGED <<server, stateVars, toClient, folders, shown, control, requests,
                 crashes>>

\* change: the client's copy advances whether or not the message is sent.
ChangeBy(d, edit) ==
  LET state == documents[d]
      next == [version |-> state.version + 1, text |-> Applied(state, edit)]
      message == [kind |-> "didChange", doc |-> d, version |-> next.version,
                  whole |-> edit.whole, first |-> edit.first,
                  last |-> edit.last, put |-> edit.put] IN
  /\ UserEvent
  /\ state.version < MaxVersion
  /\ Len(next.text) <= MaxEdited
  /\ documents' = [documents EXCEPT ![d] = next]
  /\ IF ready THEN Notify(Fitting(message)) ELSE UNCHANGED toServer
  /\ UNCHANGED <<server, stateVars, toClient, folders, shown, control, requests,
                 crashes>>

\* An event with one change sends its range, one with several the whole text.
Change(d) ==
  /\ documents[d] # None
  /\ \/ \E first, last \in 0 .. Len(documents[d].text),
           put \in {<<>>} \union {<<p>> : p \in Pieces} :
          /\ first <= last
          /\ ChangeBy(d, [whole |-> FALSE, first |-> first, last |-> last,
                          put |-> put])
     \/ \E text \in Texts :
          ChangeBy(d, [whole |-> TRUE, first |-> 0, last |-> 0, put |-> text])

Close(d) ==
  /\ UserEvent
  /\ documents[d] # None
  /\ documents' = [documents EXCEPT ![d] = None]
  /\ shown' = [shown EXCEPT ![d] = None]
  /\ IF ready THEN Notify(<<[kind |-> "didClose", doc |-> d]>>)
              ELSE UNCHANGED toServer
  /\ UNCHANGED <<server, stateVars, toClient, folders, control, requests,
                 crashes>>

\* workspaceChanged.  The editor restarts its extensions when the first folder
\* changes or a workspace of one folder gets a second.
FolderEvent(message) ==
  /\ UserEvent
  /\ IF ready THEN Notify(<<message>>) ELSE UNCHANGED toServer
  /\ UNCHANGED <<server, stateVars, toClient, documents, shown, control,
                 requests, crashes>>

AddFolder(r) ==
  /\ Len(folders) >= 2 /\ ~Contains(folders, r)
  /\ folders' = Append(folders, r)
  /\ FolderEvent([kind |-> "folders", added |-> <<r>>, removed |-> <<>>])

RemoveFolder(i) ==
  /\ Len(folders) >= 3 /\ i > 1
  /\ folders' = RemoveAt(folders, i)
  /\ FolderEvent([kind |-> "folders", added |-> <<>>,
                  removed |-> <<folders[i]>>])

\* The providers are registered when the first start has settled.
Registered == nextId > 1 /\ \A p \in pending : p.id # 1

\* request, from a provider; beyond the limit, or without a process, it is
\* refused at once.
Request ==
  /\ UserEvent
  /\ Registered /\ process /\ Cardinality(pending) < MaxPending
  /\ pending' = pending \union {[id |-> nextId, kind |-> "request"]}
  /\ nextId' = nextId + 1
  /\ Notify(<<[kind |-> "request", id |-> nextId]>>)
  /\ UNCHANGED <<server, stateVars, toClient, mirror, control, crashes>>

\* The token of a request is cancelled.
CancelRequest(p) ==
  /\ UserEvent
  /\ p.kind = "request"
  /\ pending' = pending \ {p}
  /\ Notify(<<[kind |-> "cancel", id |-> p.id]>>)
  /\ UNCHANGED <<server, stateVars, toClient, mirror, control, nextId, crashes>>

\* A mistake Farewell could hold: the answer is all that is awaited.
NoFarewell == <<>>

Farewell == <<[kind |-> "exit"]>>

\* stop, when the extension is disposed.
Stop ==
  /\ ~stopping /\ nextId > 1
  /\ stopping' = TRUE
  /\ restartTimer' = FALSE
  /\ IF ~process \/ (ready /\ Cardinality(pending) >= MaxPending)
     THEN /\ UNCHANGED requests
          /\ IF process THEN Kill ELSE UNCHANGED <<server, toServer>>
     ELSE /\ UNCHANGED server
          /\ IF ready
             THEN /\ pending' = pending
                       \union {[id |-> nextId, kind |-> "shutdown"]}
                  /\ nextId' = nextId + 1
                  /\ Notify(<<[kind |-> "shutdown", id |-> nextId]>>)
             ELSE /\ UNCHANGED requests
                  /\ Notify(Farewell)
  /\ UNCHANGED <<stateVars, toClient, mirror, process, ready, restartCount,
                 history>>

-------------------------------------------------------------------------------
(***************************************************************************)
(* The server's messages, and its end.                                     *)
(***************************************************************************)
Arrived == Head(toClient)
Deliver == toClient # <<>> /\ toClient' = Tail(toClient)

Settled == {p \in pending : p.id = Arrived.id}

\* The rest of start: the server is told of every document.
DeliverInitialized ==
  /\ Deliver /\ Arrived.kind = "response"
  /\ \E p \in Settled : p.kind = "initialize"
  /\ pending' = pending \ Settled
  /\ IF Arrived.what = "result"
     THEN /\ ready' = TRUE
          /\ restartCount' = 0
          /\ Notify(Snapshot)
          /\ UNCHANGED server
     ELSE Kill /\ UNCHANGED <<ready, restartCount>>
  /\ UNCHANGED <<stateVars, mirror, process, stopping, restartTimer, nextId,
                 history>>

\* The rest of stop.
DeliverShutdown ==
  /\ Deliver /\ Arrived.kind = "response"
  /\ \E p \in Settled : p.kind = "shutdown"
  /\ pending' = pending \ Settled
  /\ IF Arrived.what = "result" THEN Notify(Farewell) /\ UNCHANGED server
                                ELSE Kill
  /\ UNCHANGED <<stateVars, mirror, control, nextId, history>>

\* An answer to a provider, or to a request that was given up.
DeliverAnswer ==
  /\ Deliver /\ Arrived.kind = "response"
  /\ \A p \in Settled : p.kind = "request"
  /\ pending' = pending \ Settled
  /\ UNCHANGED <<server, stateVars, toServer, mirror, control, nextId, history>>

\* A mistake IsCurrent could hold: only news of a later version is taken.
IsCurrentLater(diagnostics) ==
  LET state == documents[diagnostics.doc]
  IN  state = None \/ state.version < diagnostics.version

\* Diagnostics of another version of a document are dropped.
IsCurrent(diagnostics) ==
  LET state == documents[diagnostics.doc]
  IN  state = None \/ state.version = diagnostics.version

DeliverDiagnostics ==
  /\ Deliver /\ Arrived.kind = "diagnostics"
  /\ shown' = IF IsCurrent(Arrived)
              THEN [shown EXCEPT ![Arrived.doc] = Arrived.text] ELSE shown
  /\ UNCHANGED <<server, stateVars, toServer, documents, folders, control,
                 requests, history>>

\* The server dies, or the client kills it for a malformed message.
Crash ==
  /\ server = "running" /\ crashes < MaxCrashes
  /\ crashes' = crashes + 1
  /\ Kill
  /\ UNCHANGED <<stateVars, toClient, mirror, control, requests, events>>

\* A mistake Rejected could hold: only the handshake is given up.
RejectedHandshake == {p \in pending : p.kind = "initialize"}

\* Nothing that a dead server was asked is still waited for.
Rejected == pending

Exited ==
  /\ process /\ server = "exited"
  /\ process' = FALSE
  /\ ready' = FALSE
  /\ pending' = pending \ Rejected
  /\ IF ~stopping /\ restartCount < MaxRestarts
     THEN restartCount' = restartCount + 1 /\ restartTimer' = TRUE
     ELSE UNCHANGED <<restartCount, restartTimer>>
  /\ UNCHANGED <<serverVars, mirror, stopping, nextId, history>>

-------------------------------------------------------------------------------
Serve == Handle /\ UNCHANGED clientVars

Receiving ==
  \/ DeliverInitialized \/ DeliverShutdown \/ DeliverAnswer
  \/ DeliverDiagnostics

UserActs ==
  \/ \E d \in Documents : (\E text \in Texts : Open(d, text))
                            \/ Change(d) \/ Close(d)
  \/ \E r \in Roots : AddFolder(r)
  \/ \E i \in DOMAIN folders : RemoveFolder(i)
  \/ Request
  \/ \E p \in pending : CancelRequest(p)
  \/ Stop

Next == Start \/ Serve \/ Receiving \/ Exited \/ Crash \/ UserActs

Spec == SessionInit /\ [][Next]_vars

(***************************************************************************)
(* The server takes up what it is sent, the event loop delivers what       *)
(* arrives, the exit event and the timer, and the extension is activated.  *)
(* Nobody has to type, to stop, or to crash.                               *)
(***************************************************************************)
FairSpec ==
  Spec /\ WF_vars(Serve) /\ WF_vars(Receiving) /\ WF_vars(Exited)
       /\ WF_vars(Start)

-------------------------------------------------------------------------------
(***************************************************************************)
(* A client that takes the server for ready is right: the server it is     *)
(* talking to has been initialized.  No late answer of an earlier server   *)
(* settles the handshake of this one.                                      *)
(***************************************************************************)
ReadyIsInitialized == ready /\ server = "running" => initialized

(***************************************************************************)
(* When a ready server has read everything, the documents it holds are the *)
(* client's, in text and version, whatever was edited, opened, closed, and *)
(* however often the server crashed: what users see as answers to their    *)
(* own text.                                                               *)
(***************************************************************************)
Converged ==
  ready /\ server = "running" /\ toServer = <<>> => store = documents

(***************************************************************************)
(* The same for documents that may have outgrown the limit: one that is    *)
(* within it again is as the server has it.                                *)
(***************************************************************************)
FittingConverged ==
  ready /\ server = "running" /\ toServer = <<>> =>
    \A d \in Documents :
      documents[d] # None /\ Len(documents[d].text) <= MaxText
        => store[d] = documents[d]

(***************************************************************************)
(* When nothing is under way, every synchronized document shows the        *)
(* diagnostics of its text.  A closed one shows none, unless the server    *)
(* died before it could take back what it had published.                   *)
(***************************************************************************)
DiagnosticsAreCurrent ==
  ready /\ server = "running" /\ toServer = <<>> /\ toClient = <<>> =>
    \A d \in Documents :
      IF documents[d] = None THEN crashes = 0 => shown[d] = None
                             ELSE shown[d] = documents[d].text

(***************************************************************************)
(* The root that decides which documents a query sees is a folder of the   *)
(* workspace.                                                              *)
(***************************************************************************)
RootIsAFolder ==
  ready /\ server = "running" /\ toServer = <<>> => Contains(folders, root)

(***************************************************************************)
(* Whoever waits for an answer has something to wait for: the request is   *)
(* still on its way to a server that runs, or its answer is on its way     *)
(* back, or the server has ended and the client has yet to be told.  No    *)
(* step of the handshake, of a cancellation or of a crash loses a request. *)
(***************************************************************************)
NobodyWaitsInVain ==
  /\ ~process => pending = {}
  /\ server = "running" => \A p \in pending :
       \/ \E m \in Range(toServer) :
            m.kind \in {"initialize", "shutdown", "request"} /\ m.id = p.id
       \/ \E m \in Range(toClient) : m.kind = "response" /\ m.id = p.id

(***************************************************************************)
(* Every request settles: it is answered, or it is rejected when the       *)
(* server goes.                                                            *)
(***************************************************************************)
EverySettles ==
  \A id \in 1 .. MaxEvents + MaxCrashes + 1 :
    (\E p \in pending : p.id = id) ~> ~(\E p \in pending : p.id = id)

(***************************************************************************)
(* After the extension is disposed, the server ends and stays ended.       *)
(***************************************************************************)
StopEndsServer == stopping ~> [](server = "exited")
===============================================================================
