----------------------------- MODULE ServerPage -----------------------------
(***************************************************************************)
(* MCP servers, the connectors assigned to them and their keys, as the two  *)
(* places of the frontend that write them see them:                        *)
(*   frontend/src/app/mcp-server/[id]/page.tsx                             *)
(*   frontend/src/components/mcp-assign-modal.tsx                          *)
(*   backend/src/mcp-servers/*, backend/src/roles/mcp-api-keys.*           *)
(*                                                                         *)
(* The page of one server is open in a tab, and the modal that assigns a    *)
(* connector may be open in others: both write the whole list.  Requests   *)
(* are served and answered in any order.  All users are of one workspace    *)
(* and may write its servers; a key is touched by its owner only.  The      *)
(* sessions that an assignment refreshes are those of McpSessions.         *)
(***************************************************************************)
EXTENDS Naturals, FiniteSets

CONSTANTS
  Servers, Home,     \* the servers there may be, the one whose page is open
  Linkable,          \* the connectors
  Keys, OwnKeys,     \* bound: the keys there may be, those of the user of the page
  Words, Blank,      \* what the description can hold, and the field left empty
  MaxSteps,          \* bound: what the users do
  MaxServerFaults,   \* bound: requests that fail, answers that are lost
  Deleted, Anywhere  \* a row that is not there, the server of an unscoped key

\* The rows, and what the page shows of a server.
KeyRow    == [on : BOOLEAN, scope : Servers \union {Anywhere}]
ServerRow == [active : BOOLEAN, words : Words, links : SUBSET Linkable]
KeyLists  == [Keys -> KeyRow \union {Deleted}]
Views     == [active : BOOLEAN, words : Words, keys : KeyLists]

ASSUME ServerPageAssumption ==
  /\ {MaxSteps, MaxServerFaults} \subseteq Nat
  /\ Home \in Servers /\ OwnKeys \subseteq Keys /\ Blank \notin Words
  /\ Anywhere \notin Servers
  /\ Deleted \notin KeyRow /\ Deleted \notin ServerRow /\ Deleted \notin Views

VARIABLES
  servers,    \* rows of servers with their assignments, or Deleted
  keys,       \* rows of keys, or Deleted
  linkable,   \* the connectors that exist
  asks,       \* the requests of the page under way
  view,       \* server: what the page shows of it, or Deleted before the load
  ticks,      \* assignedIds: the boxes ticked
  onPage,     \* allConnectors: the boxes there are
  modal,      \* per connector: the modal that assigns it
  left,       \* the page has been left
  steps, serverFaults,
  aged,       \* history: requests of the page overlapped, or an answer was lost,
              \* since the last load that was alone
  known,      \* history: the assignments there were when the page was loaded
  unticked,   \* history: the boxes the user cleared
  given       \* history: the assignments made that nobody took back and that no
              \* list read before them overwrote

pageVars == <<view, ticks, onPage, left, known, unticked>>
serverPageVars == <<servers, keys, linkable, asks, pageVars, modal, steps,
                    serverFaults, aged, given>>

KeysOf(s) == [k \in Keys |-> IF keys[k] = Deleted \/ keys[k].scope # s
                             THEN Deleted ELSE keys[k]]

\* findById: the server with its assignments and its keys.
findById(s) == [active |-> servers[s].active, words |-> servers[s].words,
                links |-> servers[s].links, keys |-> KeysOf(s)]

\* What the page fetches when it is opened: the server and all connectors, two requests
\* whose answers are taken for those of one moment.
Loaded == [server |-> findById(Home), boxes |-> linkable]

ServerWrites == {"update", "assign", "generate", "revoke", "deleteKey", "delete"}

-----------------------------------------------------------------------------
(* Faulty variants of definitions below: bugs the properties must catch.   *)

\* The modal sends its connector and not the ones that are there.
ListOfOne(existing, c) == {c}

-----------------------------------------------------------------------------
(* assignConnectors: replace all.  An assignment that is not in the list is  *)
(* given no more when it was made after what the list was built from was     *)
(* read, or when the user cleared it.                                       *)

assignConnectors(s, list, read, cleared) ==
  /\ servers' = [servers EXCEPT ![s].links = list]
  /\ given' = [given EXCEPT ![s] = (@ \ ((servers[s].links \ read) \union cleared))
                                      \union list]

\* The count of the controller: every connector of the list is there.
Assignable(s, list) == servers[s] # Deleted /\ list \subseteq linkable

-----------------------------------------------------------------------------
(* The modal: handleSubmit, in a tab of its own for every connector.       *)

Listed(existing, c) == existing \union {c}

modalUnchanged == UNCHANGED <<keys, linkable, asks, pageVars, aged>>

\* A server of the list or a new one, which has no connectors.
handleSubmit(c) ==
  /\ modal[c].pc = "open" /\ steps < MaxSteps /\ steps' = steps + 1
  /\ \E s \in Servers :
       /\ modal' = [modal EXCEPT ![c] = [pc |-> "reading", server |-> s, list |-> {}]]
       /\ IF servers[s] # Deleted THEN UNCHANGED servers
          ELSE s # Home /\ \E w \in Words :
                 servers' = [servers EXCEPT ![s] = [active |-> TRUE, words |-> w, links |-> {}]]
  /\ UNCHANGED <<serverFaults, given>> /\ modalUnchanged

\* The list of the server is answered, and the list to write is made of it.
ModalReads(c) ==
  LET s == modal[c].server IN
  /\ modal[c].pc = "reading" /\ servers[s] # Deleted
  /\ modal' = [modal EXCEPT ![c] = [@ EXCEPT !.pc = "assigning", !.list = servers[s].links]]
  /\ UNCHANGED <<servers, serverFaults, steps, given>> /\ modalUnchanged

\* The modal writes and is closed, or the answer is lost and it stays open.
ModalWrites(c) ==
  LET m == modal[c]
      list == Listed(m.list, c)
  IN /\ m.pc = "assigning" /\ Assignable(m.server, list)
     /\ assignConnectors(m.server, list, m.list, {})
     /\ \/ modal' = [modal EXCEPT ![c].pc = "closed"] /\ UNCHANGED serverFaults
        \/ /\ serverFaults < MaxServerFaults /\ serverFaults' = serverFaults + 1
           /\ modal' = [modal EXCEPT ![c].pc = "open"]
     /\ UNCHANGED steps /\ modalUnchanged

\* A connector or the server is gone, or a request fails: the modal stays open
\* with the error.
ModalFails(c) ==
  LET m == modal[c] IN
  /\ m.pc \in {"reading", "assigning"}
  /\ IF servers[m.server] = Deleted \/ (m.pc = "assigning" /\ ~Assignable(m.server, Listed(m.list, c)))
     THEN UNCHANGED serverFaults
     ELSE serverFaults < MaxServerFaults /\ serverFaults' = serverFaults + 1
  /\ modal' = [modal EXCEPT ![c].pc = "open"]
  /\ UNCHANGED <<servers, steps, given>> /\ modalUnchanged

-----------------------------------------------------------------------------
(* The page.  What is typed is the user's choice at every click.           *)

SentAsk(op, arg, w) ==
  [op |-> op, arg |-> arg, pc |-> "sent", answer |-> Deleted,
   tainted |-> \E q \in w : {q.op, op} \cap ServerWrites # {}]

\* A further request; a write taints those it overlaps.
Asking(w, op, arg) ==
  {[q EXCEPT !.tainted = @ \/ op \in ServerWrites] : q \in w} \union {SentAsk(op, arg, w)}

Request(op, arg) ==
  /\ view # Deleted /\ ~left /\ steps < MaxSteps /\ steps' = steps + 1
  /\ ~ \E q \in asks : q.op = op /\ q.arg = arg
  /\ asks' = Asking(asks, op, arg)
  /\ UNCHANGED <<servers, keys, linkable, pageVars, modal, serverFaults, aged, given>>

OnList(k) == view # Deleted /\ view.keys[k] # Deleted

handleSaveDetails(w) == Request("update", [words |-> w])
handleToggleActive   == Request("update", [active |-> ~view.active])
handleSaveConnectors == (\A q \in asks : q.op # "assign") /\ Request("assign", ticks)
handleGenerateKey    == Request("generate", Anywhere)
handleRevokeKey(k)   == OnList(k) /\ view.keys[k].on /\ Request("revoke", k)
handleDeleteKey(k)   == OnList(k) /\ Request("deleteKey", k)
handleDeleteServer   == Request("delete", Anywhere)

Ticking(now) ==
  /\ view # Deleted /\ ~left /\ steps < MaxSteps /\ steps' = steps + 1
  /\ ticks' = now /\ unticked' = unticked \union (ticks \ now)
  /\ UNCHANGED <<servers, keys, linkable, asks, view, onPage, left, known, modal,
                 serverFaults, aged, given>>

handleToggleConnector(c) ==
  c \in onPage /\ Ticking(IF c \in ticks THEN ticks \ {c} ELSE ticks \union {c})

TickAll   == Ticking(onPage)
TickNone  == Ticking({})

-----------------------------------------------------------------------------
(* The server, for the requests of the page.                               *)

Moves(q, pc, answer) ==
  asks' = (asks \ {q}) \union {[q EXCEPT !.pc = pc, !.answer = answer]}

\* An emptied description or instructions are not sent: the row keeps what it has.
FieldsWritten(data) ==
  [servers EXCEPT ![Home] =
     [active |-> IF "active" \in DOMAIN data THEN data.active ELSE @.active,
      words  |-> IF "words" \in DOMAIN data /\ data.words # Blank THEN data.words ELSE @.words,
      links  |-> @.links]]

\* A key is written by its owner; for another one nothing is done, and the
\* answer is the same.
KeyWritten(k, value) ==
  keys' = IF k \in OwnKeys /\ keys[k] # Deleted THEN [keys EXCEPT ![k] = value] ELSE keys

generate(q) ==
  /\ \E k \in OwnKeys : /\ keys[k] = Deleted
                        /\ keys' = [keys EXCEPT ![k] = [on |-> TRUE, scope |-> Home]]
  /\ UNCHANGED <<servers, given>>

revoke(q)    == KeyWritten(q.arg, [keys[q.arg] EXCEPT !.on = FALSE]) /\ UNCHANGED <<servers, given>>
deleteKey(q) == KeyWritten(q.arg, Deleted) /\ UNCHANGED <<servers, given>>

\* The assignments go with the server, its keys are unlinked.
delete(q) ==
  /\ servers' = [servers EXCEPT ![Home] = Deleted]
  /\ keys' = [k \in Keys |-> IF keys[k] # Deleted /\ keys[k].scope = Home
                             THEN [keys[k] EXCEPT !.scope = Anywhere] ELSE keys[k]]
  /\ given' = [given EXCEPT ![Home] = {}]

Effect(q) ==
  CASE q.op = "update"    -> servers' = FieldsWritten(q.arg) /\ UNCHANGED <<keys, given>>
    [] q.op = "assign"    -> assignConnectors(Home, q.arg, known, unticked \ q.arg) /\ UNCHANGED keys
    [] q.op = "generate"  -> generate(q)
    [] q.op = "revoke"    -> revoke(q)
    [] q.op = "deleteKey" -> deleteKey(q)
    [] q.op = "delete"    -> delete(q)
    [] OTHER              -> UNCHANGED <<servers, keys, given>>

\* The key handlers do not look for the server.
Accepted(q) ==
  CASE q.op \in {"revoke", "deleteKey"} -> TRUE
    [] q.op = "assign"                  -> Assignable(Home, q.arg)
    [] OTHER                            -> servers[Home] # Deleted

Answer(q) ==
  /\ q.pc = "sent" /\ Accepted(q) /\ Effect(q)
  /\ Moves(q, "answered", CASE q.op \in {"load", "reload"} -> Loaded
                            [] q.op = "update"             -> servers'[Home]
                            [] OTHER                       -> Deleted)
  /\ UNCHANGED <<linkable, pageVars, modal, steps, serverFaults, aged>>

\* The server refuses or throws, or the answer is lost after its work.
AskFails(q) ==
  /\ q.pc \in {"sent", "answered"}
  /\ IF q.pc = "sent" /\ ~Accepted(q) THEN UNCHANGED serverFaults
     ELSE serverFaults < MaxServerFaults /\ serverFaults' = serverFaults + 1
  /\ Moves(q, "failed", Deleted)
  /\ aged' = (aged \/ (q.pc = "answered" /\ q.op \in ServerWrites \union {"reload"}))
  /\ UNCHANGED <<servers, keys, linkable, pageVars, modal, steps, given>>

\* A connector is deleted on its own page: its assignments go with it.
ConnectorDeleted(c) ==
  /\ c \in linkable /\ steps < MaxSteps /\ steps' = steps + 1
  /\ linkable' = linkable \ {c}
  /\ servers' = [s \in Servers |-> IF servers[s] = Deleted THEN Deleted
                                   ELSE [servers[s] EXCEPT !.links = @ \ {c}]]
  /\ given' = [s \in Servers |-> given[s] \ {c}]
  /\ UNCHANGED <<keys, asks, pageVars, modal, serverFaults, aged>>

-----------------------------------------------------------------------------
(* The rest of the handlers of the page, when the answer is there.         *)

Shown(a) == [active |-> a.active, words |-> a.words, keys |-> a.keys]
Settled(w) == UNCHANGED <<servers, keys, linkable, modal, steps, serverFaults, given>> /\ asks' = w

\* The effect that loads the page.  A failure leaves "not found".
PageLoaded(q) ==
  /\ q.op = "load" /\ q.pc \in {"answered", "failed"} /\ Settled(asks \ {q})
  /\ IF q.pc = "failed" THEN left' = TRUE /\ UNCHANGED <<view, ticks, onPage, known>>
     ELSE /\ view' = Shown(q.answer.server) /\ ticks' = q.answer.server.links
          /\ onPage' = q.answer.boxes /\ known' = q.answer.server.links
          /\ UNCHANGED left
  /\ aged' = q.tainted /\ UNCHANGED unticked

\* The handlers of the keys fetch the server again; the boxes stay as they are.
Reloaded(q) ==
  /\ q.op = "reload" /\ q.pc = "answered" /\ Settled(asks \ {q})
  /\ view' = Shown(q.answer.server) /\ aged' = q.tainted
  /\ UNCHANGED <<ticks, onPage, left, known, unticked>>

KeyDone(q) ==
  /\ q.op \in {"generate", "revoke", "deleteKey"} /\ q.pc = "answered"
  /\ Settled(Asking(asks \ {q}, "reload", Anywhere))
  /\ aged' = (aged \/ q.tainted) /\ UNCHANGED pageVars

\* The answer of an update is merged into what is shown.
UpdateDone(q) ==
  /\ q.op = "update" /\ q.pc = "answered" /\ Settled(asks \ {q})
  /\ view' = [view EXCEPT !.active = q.answer.active, !.words = q.answer.words]
  /\ aged' = (aged \/ q.tainted)
  /\ UNCHANGED <<ticks, onPage, left, known, unticked>>

\* Saving the assignments, and the failures, only leave a message; deleting the
\* server leaves the page.
OnlySaid(q) ==
  /\ \/ q.op \in {"assign", "delete"} /\ q.pc = "answered"
     \/ q.op # "load" /\ q.pc = "failed"
  /\ Settled(asks \ {q})
  /\ left' = (left \/ (q.op = "delete" /\ q.pc = "answered"))
  /\ aged' = (aged \/ (q.op \in ServerWrites /\ q.tainted) \/ (q.op = "reload"))
  /\ UNCHANGED <<view, ticks, onPage, known, unticked>>

-----------------------------------------------------------------------------
ServerPageInit ==
  /\ linkable = Linkable
  /\ \E words \in Words, links \in SUBSET Linkable, there \in SUBSET (Servers \ {Home}) :
       servers = [s \in Servers |-> IF s = Home \/ s \in there
                                    THEN [active |-> TRUE, words |-> words,
                                          links |-> IF s = Home THEN links ELSE {}]
                                    ELSE Deleted]
  /\ keys = [k \in Keys |-> IF k \in OwnKeys THEN Deleted ELSE [on |-> TRUE, scope |-> Home]]
  /\ asks = {SentAsk("load", Anywhere, {})}
  /\ view = Deleted /\ ticks = {} /\ onPage = {} /\ left = FALSE
  /\ modal = [c \in Linkable |-> [pc |-> "open", server |-> Home, list |-> {}]]
  /\ steps = 0 /\ serverFaults = 0 /\ aged = FALSE
  /\ known = {} /\ unticked = {}
  /\ given = [s \in Servers |-> IF servers[s] = Deleted THEN {} ELSE servers[s].links]

ServerPageNext ==
  \/ \E c \in Linkable :
       \/ handleSubmit(c) \/ ModalReads(c) \/ ModalWrites(c) \/ ModalFails(c)
       \/ handleToggleConnector(c) \/ ConnectorDeleted(c)
  \/ \E w \in Words \union {Blank} : handleSaveDetails(w)
  \/ \E k \in Keys : handleRevokeKey(k) \/ handleDeleteKey(k)
  \/ handleToggleActive \/ handleSaveConnectors \/ handleGenerateKey
  \/ handleDeleteServer \/ TickAll \/ TickNone
  \/ \E q \in asks :
       \/ Answer(q) \/ AskFails(q) \/ PageLoaded(q) \/ Reloaded(q) \/ KeyDone(q)
       \/ UpdateDone(q) \/ OnlySaid(q)

ServerPageSpec == ServerPageInit /\ [][ServerPageNext]_serverPageVars

-----------------------------------------------------------------------------
(* Properties.                                                             *)

\* Every variable has its type.
ServerPageTypeOK ==
  /\ servers \in [Servers -> ServerRow \union {Deleted}]
  /\ keys \in KeyLists /\ view \in Views \union {Deleted}
  /\ ticks \subseteq Linkable /\ linkable \subseteq Linkable
  /\ \A q \in asks : q.pc \in {"sent", "answered", "failed"}
  /\ \A c \in Linkable : modal[c].pc \in {"open", "reading", "assigning", "closed"}

\* An assignment that the page or the modal wrote stays until the user clears it,
\* its connector or its server is deleted, or somebody writes a list that was read
\* before: the modal adds to what there is, and the page starts from what there
\* was.
AssignmentsAdd ==
  \A s \in Servers : servers[s] # Deleted => given[s] \subseteq servers[s].links

\* When nothing is under way the page shows the server as it is in the database:
\* the answers merged into what is shown, and the load after a key was written,
\* come to the same.  Only requests of the page that overlapped or were lost
\* leave it otherwise.
ServerPageShowsRow ==
  view # Deleted /\ asks = {} /\ ~aged /\ servers[Home] # Deleted =>
    view = Shown(findById(Home))
=============================================================================
