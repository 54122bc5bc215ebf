--------------------------- MODULE ConnectorPage ---------------------------
(***************************************************************************)
(* The page of one connector and the handlers it calls:                    *)
(*   frontend/src/app/connectors/[id]/page.tsx                             *)
(*   backend/src/connectors/connectors.controller.ts, tools.controller.ts  *)
(*                                                                         *)
(* Each click that needs the server is a request; requests are served and  *)
(* answered in any order, and what the page does with an answer is the     *)
(* rest of its handler.  One page is open and nobody else writes the rows. *)
(* Left out: messages, layout, the reload of the registry (ToolRegistry),   *)
(* the output schema a test infers, which the page does not show, and the  *)
(* test that runs by itself when the page is reached from /welcome.        *)
(***************************************************************************)
EXTENDS Naturals, FiniteSets

CONSTANTS
  PageTools,    \* rows of tools, there or not yet
  PageTexts,        \* what a field can hold
  MaxClicks,    \* bound: requests the user makes
  MaxPageFaults,\* bound: requests that fail, answers that are lost
  Gone, NoTool

ToolRow == [on : BOOLEAN, proxy : BOOLEAN, def : PageTexts]
Fields  == [{"save", "env"} -> PageTexts]   \* the settings, the environment variables
Rows    == [fields : Fields, assigned : BOOLEAN,
            tools : [PageTools -> ToolRow \union {Gone}]]

ASSUME ConnectorPageAssumption ==
  /\ {MaxClicks, MaxPageFaults} \subseteq Nat /\ NoTool \notin PageTools
  /\ Gone \notin ToolRow /\ Gone \notin Rows

VARIABLES
  row,       \* the connector and its tools in the database, or Gone
  wire,      \* the requests under way
  page,      \* "loading", "open" or "left"
  shown,     \* connector: what the last fetch answered of its fields
  toolList,  \* the tools the page shows
  assign,    \* showAssignModal
  busy,      \* the flags that disable buttons
  testing,   \* testingToolId
  result,    \* toolTestResult: the tool it is of
  clicks, pageFaults,
  stale,     \* history: no fetch has been taken alone since requests overlapped
  switched   \* history: the playground moved to another tool during a test

viewVars == <<page, shown, toolList, assign, busy, testing, result>>
connectorPageVars == <<row, wire, viewVars, clicks, pageFaults, stale, switched>>

WriteOps == {"save", "env", "import", "create", "edit", "enable", "proxy", "drop", "remove"}
ReadOps  == {"get", "assigned", "run", "authorize"}

There(ts) == {t \in PageTools : ts[t] # Gone}

-----------------------------------------------------------------------------
(* Faulty variants of definitions below: bugs the properties must catch.   *)

\* The optimistic flip stays although the server said no.
FlipStays(q) == UNCHANGED toolList

\* The result of the last test stays when another playground is opened.
ResultStays(t) == result' = result

-----------------------------------------------------------------------------
(* Requests.                                                               *)

Writing(w) == \E q \in w : q.op \in WriteOps

\* A request, tainted when it overlaps a write or is a write that overlaps.
NewRequest(op, t, val, w) ==
  [op |-> op, tool |-> t, val |-> val, pc |-> "sent", answer |-> Gone,
   tainted |-> Writing(w) \/ (op \in WriteOps /\ w # {})]

\* The requests of w with a further one.
With(w, op, t, val) ==
  (IF op \in WriteOps THEN {[q EXCEPT !.tainted = TRUE] : q \in w} ELSE w)
    \union {NewRequest(op, t, val, w)}

\* The user makes a request from the open page.  Two equal requests under way
\* are one (bound).
Click(op, t, val) ==
  /\ page = "open" /\ clicks < MaxClicks
  /\ ~ \E q \in wire : q.op = op /\ q.tool = t /\ q.val = val
  /\ clicks' = clicks + 1
  /\ wire' = With(wire, op, t, val)
  /\ UNCHANGED <<row, page, shown, pageFaults, stale>>

\* fetchConnector, and promptMcpAssignIfNeeded after it.
Refetch(w)  == With(w, "get", NoTool, Gone)
Prompted(w) == With(Refetch(w), "assigned", NoTool, Gone)

-----------------------------------------------------------------------------
(* The user.  What is unfolded and what is typed is his choice at every     *)
(* click, so a request carries any value its form can hold.                *)

ResultReset(t) == result' = NoTool

OpenPlayground(t) ==
  /\ page = "open" /\ toolList[t] # Gone
  /\ IF testing = t THEN testing' = NoTool /\ UNCHANGED <<result, switched>>
     ELSE /\ testing' = t /\ ResultReset(t)
          /\ switched' = (switched \/ "run" \in busy)
  /\ UNCHANGED <<row, wire, page, shown, toolList, assign, busy, clicks, pageFaults, stale>>

\* The handlers that only disable their button: handleSave, handleDelete and
\* handleImportSpec have no flag, the others one each.
Submit(op, flag, t, val) ==
  /\ flag \cap busy = {} /\ busy' = busy \union flag
  /\ Click(op, t, val)
  /\ UNCHANGED <<toolList, assign, testing, result, switched>>

\* The credentials, which the page never shows, are left out.
handleSave(text) == Submit("save", {}, NoTool, text)

handleSaveEnvVars(text) == Submit("env", {"env"}, NoTool, text)

\* handleImportSpec, handleImportTools and handleDiscoverTools.
handleImport(kind) == Submit("import", {kind} \ {"spec"}, NoTool, kind)

handleCreateTool(text) == Submit("create", {"tool"}, NoTool, text)

handleUpdateTool(t, text) == toolList[t] # Gone /\ Submit("edit", {"tool"}, t, text)

\* From what the page shows: the other value of the switch.
handleToggleTool(t) == toolList[t] # Gone /\ Submit("enable", {}, t, ~toolList[t].on)

handleDeleteTool(t) == toolList[t] # Gone /\ Submit("drop", {}, t, Gone)

handleOAuthAuthorize == Submit("authorize", {"authorize"}, NoTool, Gone)

handleDelete == Submit("remove", {}, NoTool, Gone)

\* Optimistic: the page shows the new value before the server has it.
handleToggleProxy(t) ==
  /\ toolList[t] # Gone
  /\ Click("proxy", t, ~toolList[t].proxy)
  /\ toolList' = [toolList EXCEPT ![t].proxy = ~@]
  /\ UNCHANGED <<assign, busy, testing, result, switched>>

handleTestTool(t) ==
  /\ testing = t /\ toolList[t] # Gone /\ "run" \notin busy
  /\ Click("run", t, Gone)
  /\ busy' = busy \union {"run"} /\ result' = NoTool
  /\ UNCHANGED <<toolList, assign, testing, switched>>

\* The assignment is made in McpAssignModal (ServerPage), or not.
CloseAssign ==
  /\ page = "open" /\ assign /\ assign' = FALSE
  /\ \E done \in BOOLEAN :
       row' = IF done /\ row # Gone THEN [row EXCEPT !.assigned = TRUE] ELSE row
  /\ UNCHANGED <<wire, page, shown, toolList, busy, testing, result, clicks,
                 pageFaults, stale, switched>>

-----------------------------------------------------------------------------
(* The server.                                                             *)

NewTool(text) == [on |-> TRUE, proxy |-> FALSE, def |-> text]

\* What an import may leave: the tools of the document new or rewritten, the
\* others disabled (SpecImport has the detail), or nothing done.
ImportOf(S, text) ==
  [t \in PageTools |->
     IF row.tools[t] = Gone THEN IF t \in S THEN NewTool(text) ELSE Gone
     ELSE IF t \in S THEN [row.tools[t] EXCEPT !.def = text]
     ELSE [row.tools[t] EXCEPT !.on = FALSE]]

Imported ==
  {row.tools} \union {ImportOf(S, text) : S \in SUBSET PageTools, text \in PageTexts}

\* What each handler makes of the row.
update(q)        == {[row EXCEPT !.fields["save"] = q.val]}
createTool(q)    == {[row EXCEPT !.tools[t] = NewTool(q.val)] :
                       t \in PageTools \ There(row.tools)}
updateTool(q)    == IF q.op = "edit" THEN {[row EXCEPT !.tools[q.tool].def = q.val]}
                    ELSE {[row EXCEPT !.tools[q.tool].on = q.val]}
setProxy(q)      == {[row EXCEPT !.tools[q.tool].proxy = q.val]}
removeTool(q)    == {[row EXCEPT !.tools[q.tool] = Gone]}

\* A connector of the catalog has its address and headers from its variables.
updateEnvVars(q) == {[row EXCEPT !.fields = [save |-> s, env |-> q.val]] :
                       s \in {row.fields["save"], q.val}}

RowAfter(q) ==
  CASE q.op = "save"              -> update(q)
    [] q.op = "env"               -> updateEnvVars(q)
    [] q.op = "create"            -> createTool(q)
    [] q.op = "import"            -> {[row EXCEPT !.tools = ts] : ts \in Imported}
    [] q.op \in {"edit", "enable"} -> updateTool(q)
    [] q.op = "proxy"             -> setProxy(q)
    [] q.op = "drop"              -> removeTool(q)
    [] q.op = "remove"            -> {Gone}
    [] OTHER                      -> {row}

\* The handlers find the connector, and the tool of the request, or throw.
Found(q) == row # Gone /\ (q.tool # NoTool => row.tools[q.tool] # Gone)

Moved(q, pc, answer) ==
  wire' = (wire \ {q}) \union {[q EXCEPT !.pc = pc, !.answer = answer]}

Serve(q) ==
  /\ q.pc = "sent" /\ Found(q)
  /\ \E r \in RowAfter(q) : row' = r
  /\ Moved(q, "answered", IF q.op \in {"get", "assigned"} THEN row ELSE Gone)
  /\ UNCHANGED <<viewVars, clicks, pageFaults, stale, switched>>

\* An import and the authorization may answer { error } and have done nothing.
AnswerError(q) ==
  /\ q.pc = "sent" /\ Found(q)
  /\ q.op = "authorize" \/ (q.op = "import" /\ q.val # "spec")
  /\ Moved(q, "error", Gone)
  /\ UNCHANGED <<row, viewVars, clicks, pageFaults, stale, switched>>

Refuse(q) ==
  /\ q.pc = "sent" /\ ~Found(q)
  /\ Moved(q, "failed", Gone)
  /\ UNCHANGED <<row, viewVars, clicks, pageFaults, stale, switched>>

\* The server throws, or the answer is lost after it did its work.
Fails(q) ==
  /\ q.pc \in {"sent", "answered"}
  /\ pageFaults < MaxPageFaults /\ pageFaults' = pageFaults + 1
  /\ Moved(q, "failed", Gone)
  /\ stale' = (stale \/ q.pc = "answered")
  /\ UNCHANGED <<row, viewVars, clicks, switched>>

-----------------------------------------------------------------------------
(* The rest of the handlers, when the answer is there.                     *)

Answered(op, q) == q.op = op /\ q.pc = "answered"
Flag(q) == CASE q.op = "import" -> {q.val} [] q.op \in {"create", "edit"} -> {"tool"}
             [] OTHER -> {q.op}
Taken(q) == wire' = wire \ {q} /\ UNCHANGED <<row, clicks, pageFaults, switched>>

FetchAnswered(q) ==
  /\ Answered("get", q) /\ Taken(q)
  /\ page' = "open" /\ shown' = q.answer.fields /\ toolList' = q.answer.tools
  /\ stale' = q.tainted
  /\ UNCHANGED <<assign, busy, testing, result>>

FetchFailed(q) ==
  /\ q.op = "get" /\ q.pc = "failed" /\ Taken(q)
  /\ page' = "left"
  /\ UNCHANGED <<shown, toolList, assign, busy, testing, result, stale>>

\* promptMcpAssignIfNeeded: two answers of the same server.
PromptAnswered(q) ==
  /\ Answered("assigned", q) /\ Taken(q)
  /\ assign' = (assign \/ (~q.answer.assigned /\ There(q.answer.tools) # {}))
  /\ UNCHANGED <<page, shown, toolList, busy, testing, result, stale>>

\* Handlers that fold their panel and fetch the connector again.
SaveAnswered(q) ==
  /\ q.op \in {"save", "env", "import", "create", "edit"} /\ Answered(q.op, q)
  /\ busy' = busy \ Flag(q)
  /\ wire' = IF q.op = "create" \/ (q.op = "import" /\ q.val # "discover")
             THEN Prompted(wire \ {q}) ELSE Refetch(wire \ {q})
  /\ stale' = (stale \/ q.tainted)
  /\ UNCHANGED <<row, clicks, pageFaults, switched, page, shown, toolList, assign,
                 testing, result>>

\* Handlers that change the list of the page by themselves.
ListAnswered(q) ==
  /\ q.op \in {"enable", "proxy", "drop"} /\ Answered(q.op, q) /\ Taken(q)
  /\ toolList' = IF toolList[q.tool] = Gone \/ q.op = "proxy" THEN toolList
                 ELSE IF q.op = "drop" THEN [toolList EXCEPT ![q.tool] = Gone]
                 ELSE [toolList EXCEPT ![q.tool].on = q.val]
  /\ stale' = (stale \/ q.tainted)
  /\ UNCHANGED <<page, shown, assign, busy, testing, result>>

RunAnswered(q) ==
  /\ q.op = "run" /\ q.pc \in {"answered", "failed"} /\ Taken(q)
  /\ result' = q.tool /\ busy' = busy \ {"run"}
  /\ UNCHANGED <<page, shown, toolList, assign, testing, stale>>

\* The browser goes to the authorization server, or back to the list.
LeaveAnswered(q) ==
  /\ q.op \in {"authorize", "remove"} /\ Answered(q.op, q) /\ Taken(q)
  /\ page' = "left"
  /\ busy' = busy \ Flag(q)
  /\ UNCHANGED <<shown, toolList, assign, testing, result, stale>>

FlipReverted(q) ==
  toolList' = IF q.op = "proxy" /\ toolList[q.tool] # Gone
              THEN [toolList EXCEPT ![q.tool].proxy = ~q.val] ELSE toolList

\* The catch and finally of a handler, or an answer that is only a message.
HandlerFails(q) ==
  /\ q.pc \in {"failed", "error"} /\ q.op \notin {"get", "run"} /\ Taken(q)
  /\ FlipReverted(q)
  /\ busy' = busy \ Flag(q)
  /\ stale' = (stale \/ (q.op \in WriteOps /\ q.tainted))
  /\ UNCHANGED <<page, shown, assign, testing, result>>

-----------------------------------------------------------------------------
ConnectorPageInit ==
  /\ \E text \in PageTexts, T \in SUBSET PageTools, assigned \in BOOLEAN :
       /\ row = [fields |-> [f \in {"save", "env"} |-> text], assigned |-> assigned,
                 tools |-> [t \in PageTools |-> IF t \in T THEN NewTool(text) ELSE Gone]]
       /\ shown = row.fields
  /\ wire = {NewRequest("get", NoTool, Gone, {})}
  /\ page = "loading" /\ toolList = [t \in PageTools |-> Gone]
  /\ assign = FALSE /\ busy = {}
  /\ testing = NoTool /\ result = NoTool
  /\ clicks = 0 /\ pageFaults = 0 /\ stale = FALSE /\ switched = FALSE

PageUserActs ==
  \/ \E text \in PageTexts :
       handleSave(text) \/ handleSaveEnvVars(text) \/ handleCreateTool(text)
  \/ \E kind \in {"spec", "import", "discover"} : handleImport(kind)
  \/ handleOAuthAuthorize \/ handleDelete \/ CloseAssign
  \/ \E t \in PageTools :
       \/ OpenPlayground(t) \/ handleToggleTool(t) \/ handleToggleProxy(t)
       \/ handleDeleteTool(t) \/ handleTestTool(t)
       \/ \E text \in PageTexts : handleUpdateTool(t, text)

\* What happens to the rows after the page is left is seen by no page.
ConnectorPageNext ==
  /\ page # "left"
  /\ \/ PageUserActs
     \/ \E q \in wire :
          \/ Serve(q) \/ AnswerError(q) \/ Refuse(q) \/ Fails(q)
          \/ FetchAnswered(q) \/ FetchFailed(q) \/ PromptAnswered(q) \/ SaveAnswered(q)
          \/ ListAnswered(q) \/ RunAnswered(q) \/ LeaveAnswered(q) \/ HandlerFails(q)

ConnectorPageSpec == ConnectorPageInit /\ [][ConnectorPageNext]_connectorPageVars

-----------------------------------------------------------------------------
(* Properties.                                                             *)

\* Every variable has its type.
ConnectorPageTypeOK ==
  /\ row \in Rows \union {Gone}
  /\ \A q \in wire : q.op \in ReadOps \union WriteOps /\ q.pc \in {"sent", "answered", "error", "failed"}
  /\ page \in {"loading", "open", "left"} /\ shown \in Fields /\ assign \in BOOLEAN
  /\ toolList \in [PageTools -> ToolRow \union {Gone}]
  /\ busy \subseteq {"tool", "env", "import", "discover", "run", "authorize"}
  /\ {testing, result} \subseteq PageTools \union {NoTool}
  /\ clicks \in 0..MaxClicks /\ pageFaults \in 0..MaxPageFaults
  /\ {stale, switched} \subseteq BOOLEAN

\* When nothing is under way, the page shows what the database holds: what a
\* handler does to the list by itself, the flip it takes back when the server
\* says no, and the fetch after the others come to the same.  Only requests that
\* overlapped, or an answer that was lost, leave it otherwise, and the next
\* fetch that runs alone repairs that.
PageShowsRows ==
  page = "open" /\ wire = {} /\ ~stale /\ row # Gone =>
    toolList = row.tools /\ shown = row.fields

\* The result in the playground is of the tool the playground is open for,
\* unless it was opened for another tool while a test ran.
ResultIsOfTool ==
  testing # NoTool /\ result # NoTool => result = testing \/ switched
=============================================================================
