---------------------------- MODULE LanguageServer ----------------------------
(***************************************************************************)
(* The language server, `openc lsp --stdio`: cli_lsp.p, cli_lsp_dispatch.p *)
(* and cli_lsp_document.p in compiler/selfhost/source.                     *)
(*                                                                         *)
(* One process, one thread: it reads a message, handles it to the end,     *)
(* and reads the next.  Its messages come and go on two pipes that keep    *)
(* their order.  What a request computes from the documents is left out;   *)
(* whether it is answered, and as what, is not.                            *)
(*                                                                         *)
(* A text is a sequence of pieces.  A change replaces the pieces from      *)
(* `first` up to `last` by others, or, without a range, the whole text.    *)
(***************************************************************************)
EXTENDS Integers, Sequences, FiniteSets

CONSTANTS
  Documents,      \* document URIs
  Roots,          \* folder URIs
  None,           \* no document, no root
  MaxOpen,        \* lsp_max_documents and the client's MAX_DOCUMENTS, 8
  MaxText,        \* lsp_max_message_bytes and MAX_MESSAGE_BYTES, in pieces
  MaxCancelled,   \* lsp_max_cancelled_requests, 8
  PayloadsFit     \* every answer fits the buffer that it is written to

ASSUME LimitsAssumption ==
  /\ MaxOpen \in Nat \ {0} /\ MaxText \in Nat /\ MaxCancelled \in Nat \ {0}
  /\ PayloadsFit \in BOOLEAN

VARIABLES
  server,              \* "running", or "exited"
  initialized,
  shutdownRequested,
  root,                \* root_uri
  store,               \* the open documents: text and version
  cancelled,           \* cancelled0 .. cancelled7
  cancellationCursor,
  toServer, toClient   \* the pipes

stateVars == <<initialized, shutdownRequested, root, store, cancelled,
               cancellationCursor>>
serverVars == <<server, stateVars, toServer, toClient>>

CancelSlot == 0 .. MaxCancelled - 1

\* A LspState just created.
FreshState ==
  /\ initialized' = FALSE
  /\ shutdownRequested' = FALSE
  /\ root' = None
  /\ store' = [d \in Documents |-> None]
  /\ cancelled' = [s \in CancelSlot |-> 0]
  /\ cancellationCursor' = 0

ServerInit ==
  /\ server = "exited"
  /\ initialized = FALSE
  /\ shutdownRequested = FALSE
  /\ root = None
  /\ store = [d \in Documents |-> None]
  /\ cancelled = [s \in CancelSlot |-> 0]
  /\ cancellationCursor = 0
  /\ toServer = <<>>
  /\ toClient = <<>>

(***************************************************************************)
(* Reading and answering.  A handler builds its answer in a buffer of a    *)
(* computed size and sends it if it fits; otherwise nothing is sent.       *)
(***************************************************************************)
Message == Head(toServer)

IsRequest == Message.kind \in {"initialize", "shutdown", "request"}

\* The first "id" anywhere in the message counts: a cancellation has the one
\* of the request that it is about.
HasId == IsRequest \/ Message.kind = "cancel"

Receive == server = "running" /\ toServer # <<>> /\ toServer' = Tail(toServer)

Answer(what) ==
  toClient' = Append(toClient,
                     [kind |-> "response", id |-> Message.id, what |-> what])

MayAnswer(what) == Answer(what) \/ (~PayloadsFit /\ UNCHANGED toClient)

\* The diagnostics of a text stand for the text itself.
Publish(d, version, text) ==
  toClient' = Append(toClient, [kind |-> "diagnostics", doc |-> d,
                                version |-> version, text |-> text])

MayPublish(d, version, text) ==
  Publish(d, version, text) \/ (~PayloadsFit /\ UNCHANGED toClient)

(***************************************************************************)
(* lsp_handle_message, in the order of its checks.                         *)
(***************************************************************************)

HandleExit ==
  /\ Receive /\ Message.kind = "exit"
  /\ server' = "exited"
  /\ UNCHANGED <<stateVars, toClient>>

\* A mistake HandleAfterShutdown could hold: requests are ignored as well.
HandleAfterShutdownSilently ==
  /\ Receive /\ Message.kind # "exit" /\ shutdownRequested
  /\ UNCHANGED <<server, stateVars, toClient>>

HandleAfterShutdown ==
  /\ Receive /\ Message.kind # "exit" /\ shutdownRequested
  /\ IF HasId THEN Answer("error") ELSE UNCHANGED toClient
  /\ UNCHANGED <<server, stateVars>>

NextSlot == (cancellationCursor + 1) % MaxCancelled

\* The slots are used in turn; the oldest id is forgotten first.
HandleCancel ==
  /\ Receive /\ Message.kind = "cancel" /\ ~shutdownRequested
  /\ cancelled' = [cancelled EXCEPT ![cancellationCursor] = Message.id]
  /\ cancellationCursor' = NextSlot
  /\ UNCHANGED <<server, initialized, shutdownRequested, root, store, toClient>>

IsCancelled == IsRequest /\ \E s \in CancelSlot : cancelled[s] = Message.id

\* lsp_take_cancelled_request forgets the first slot with the id.
HandleCancelled ==
  /\ Receive /\ ~shutdownRequested /\ IsCancelled
  /\ LET first == CHOOSE s \in CancelSlot :
                    /\ cancelled[s] = Message.id
                    /\ \A t \in CancelSlot : t < s => cancelled[t] # Message.id
     IN  cancelled' = [cancelled EXCEPT ![first] = 0]
  /\ Answer("cancelled")
  /\ UNCHANGED <<server, initialized, shutdownRequested, root, store,
                 cancellationCursor>>

\* The message reaches the handler of its own kind.
Serving(kind) ==
  /\ Receive /\ Message.kind = kind
  /\ ~shutdownRequested /\ ~IsCancelled

HandleInitialize ==
  /\ Serving("initialize") /\ ~initialized
  /\ initialized' = TRUE
  /\ root' = Message.root
  /\ Answer("result")
  /\ UNCHANGED <<server, shutdownRequested, store, cancelled,
                 cancellationCursor>>

HandleInitializeAgain ==
  /\ Serving("initialize") /\ initialized
  /\ Answer("error")
  /\ UNCHANGED <<server, stateVars>>

\* Everything else has to wait for initialize.
HandleTooEarly ==
  /\ Receive /\ Message.kind \notin {"exit", "cancel", "initialize"}
  /\ ~shutdownRequested /\ ~IsCancelled /\ ~initialized
  /\ IF HasId THEN Answer("error") ELSE UNCHANGED toClient
  /\ UNCHANGED <<server, stateVars>>

Initialized(kind) == Serving(kind) /\ initialized

(***************************************************************************)
(* lsp_change_workspace_folders looks for the word "added", and takes the  *)
(* first folder after it: one that was removed, when none was added.  Only *)
(* an event without the word can take the root away.                       *)
(***************************************************************************)
Named == Message.added \o Message.removed

HandleFolders ==
  /\ Initialized("folders")
  /\ root' = IF Named # <<>> THEN Head(Named) ELSE root
  /\ UNCHANGED <<server, initialized, shutdownRequested, store, cancelled,
                 cancellationCursor, toClient>>

HandleRemovedOnly ==
  /\ Initialized("removedOnly")
  /\ root' = IF Head(Message.removed) = root THEN None ELSE root
  /\ UNCHANGED <<server, initialized, shutdownRequested, store, cancelled,
                 cancellationCursor, toClient>>

HandleShutdown ==
  /\ Initialized("shutdown")
  /\ shutdownRequested' = TRUE
  /\ Answer("result")
  /\ UNCHANGED <<server, initialized, root, store, cancelled,
                 cancellationCursor>>

OpenInServer == {d \in Documents : store[d] # None}

\* The store with a document in its own slot or a free one, if there is one.
Placed(d, state) ==
  IF d \in OpenInServer \/ Cardinality(OpenInServer) < MaxOpen
  THEN [store EXCEPT ![d] = state] ELSE store

\* lsp_update_document(..., true)
HandleDidOpen ==
  LET d == Message.doc
      state == [version |-> Message.version, text |-> Message.text] IN
  /\ Initialized("didOpen")
  /\ store' = Placed(d, state)
  /\ IF store'[d] = state THEN MayPublish(d, Message.version, Message.text)
                          ELSE UNCHANGED toClient
  /\ UNCHANGED <<server, initialized, shutdownRequested, root, cancelled,
                 cancellationCursor>>

\* A mistake Accepted could hold: the version is not compared.
AcceptedAlways(prior, change) ==
  change.whole \/ /\ change.last <= Len(prior.text)
                  /\ change.first + Len(change.put) + Len(prior.text)
                       - change.last <= MaxText

\* lsp_apply_incremental_change: the version is newer, the range lies in the
\* text, and the result is not too long.
Accepted(prior, change) ==
  /\ change.version > prior.version
  /\ \/ change.whole
     \/ /\ change.last <= Len(prior.text)
        /\ change.first + Len(change.put) + Len(prior.text) - change.last
             <= MaxText

Applied(prior, change) ==
  IF change.whole THEN change.put
  ELSE SubSeq(prior.text, 1, change.first) \o change.put
         \o SubSeq(prior.text, change.last + 1, Len(prior.text))

HandleDidChange ==
  LET d == Message.doc
      text == Applied(store[d], Message) IN
  /\ Initialized("didChange")
  /\ IF d \in OpenInServer /\ Accepted(store[d], Message)
     THEN /\ store' = [store EXCEPT ![d] = [version |-> Message.version,
                                            text |-> text]]
          /\ MayPublish(d, Message.version, text)
     ELSE UNCHANGED <<store, toClient>>
  /\ UNCHANGED <<server, initialized, shutdownRequested, root, cancelled,
                 cancellationCursor>>

\* The empty list of diagnostics is published, then the slot is given up.
HandleDidClose ==
  LET d == Message.doc IN
  /\ Initialized("didClose")
  /\ store' = [store EXCEPT ![d] = None]
  /\ IF d \in OpenInServer THEN Publish(d, store[d].version, None)
                           ELSE UNCHANGED toClient
  /\ UNCHANGED <<server, initialized, shutdownRequested, root, cancelled,
                 cancellationCursor>>

\* A formatting, symbol, hover, definition, references, completion or rename
\* request.  An error settles it as a result does.
HandleRequest ==
  /\ Initialized("request")
  /\ MayAnswer("result")
  /\ UNCHANGED <<server, stateVars>>

Handle ==
  \/ HandleExit \/ HandleAfterShutdown \/ HandleCancel \/ HandleCancelled
  \/ HandleInitialize \/ HandleInitializeAgain \/ HandleTooEarly
  \/ HandleFolders \/ HandleRemovedOnly \/ HandleShutdown
  \/ HandleDidOpen \/ HandleDidChange \/ HandleDidClose \/ HandleRequest

-------------------------------------------------------------------------------
\* A message is read by the server, and not lost with it.
TakesUp ==
  /\ server = "running" /\ toServer # <<>> /\ toServer' = Tail(toServer)
  /\ server' = "running" \/ Message.kind = "exit"

(***************************************************************************)
(* Every request is answered once, under its id, in whatever state it      *)
(* arrives.  Nothing else is answered, but for one oddity: a cancellation  *)
(* that comes after shutdown is answered like the request that it names.   *)
(***************************************************************************)
ExactlyOneAnswer ==
  [][TakesUp =>
       LET answers == {i \in DOMAIN toClient' \ DOMAIN toClient :
                         toClient'[i].kind = "response"} IN
       /\ Cardinality(answers) =
            IF IsRequest \/ (Message.kind = "cancel" /\ shutdownRequested)
            THEN 1 ELSE 0
       /\ \A i \in answers : toClient'[i].id = Message.id]_serverVars

(***************************************************************************)
(* A client that has asked for the end gets nothing but errors: no change, *)
(* cancellation or query is still carried out.                             *)
(***************************************************************************)
NothingAfterShutdown ==
  [][shutdownRequested /\ server = "running" =>
       /\ UNCHANGED stateVars
       /\ \A i \in DOMAIN toClient' \ DOMAIN toClient :
            toClient'[i].kind = "response" /\ toClient'[i].what = "error"
    ]_serverVars
===============================================================================
