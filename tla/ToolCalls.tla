----------------------------- MODULE ToolCalls -----------------------------
(***************************************************************************)
(* A tool call from the request to its answer:                             *)
(*   auth/mcp-rate-limit.middleware.ts      the window of a client         *)
(*   mcp-server/mcp-server.service.ts       the handler of the global /mcp *)
(*   mcp-server/mcp-endpoint.controller.ts  the handler of /mcp/:serverId  *)
(*   mcp-server/dynamic-mcp-tools.ts        executeTool                    *)
(*   connectors/engines/rest.engine.ts      the request and its retries    *)
(*   audit/audit.service.ts, common/redis.service.ts                       *)
(*                                                                         *)
(* What lies between two awaits is one step.  The registry is kept as the  *)
(* order of registration, which decides between tools of one name; its     *)
(* reload is modelled in ToolRegistry.                                     *)
(***************************************************************************)
EXTENDS Naturals, Sequences, FiniteSets

CONSTANTS
  Calls,          \* requests, each made once
  Tools,          \* rows of mcp_tools; all of them have the same name
  ConnectorOf,    \* the connector of a tool
  OrgOf,          \* the organization of a connector
  CachedTools,    \* tools with responseMapping.cacheTtl > 0
  ProxiedTools,   \* tools with useProxy
  BridgedTools,   \* tools of connectors of type MCP
  StaticTools,    \* tools whose endpointMapping is edited to a static response and back
  Callers,        \* authenticated clients
  CallerOrg,      \* organizationId of a client
  CallerScope,    \* connectors of the MCP server its key or its URL names
  CallerTools,    \* tools the role of a client allows
  ServerCallers,  \* clients of /mcp/:serverId; the others call /mcp
  Params,         \* arguments of a call
  Digest,         \* what buildCacheKey keeps of them: nested values are lost
  Nothing,        \* no tool, no answer, no client
  RateLimit,      \* MCP_RATE_LIMIT_PER_MINUTE
  ProxyLimit,     \* organizations.proxy_rate_limit
  MaxReloads,     \* bound: reloads of a connector
  MaxFaults       \* bound: crashes and failures of Redis and the database

Connectors == {ConnectorOf[t] : t \in Tools}
Orgs       == {OrgOf[k] : k \in Connectors}
Keys       == {Digest[p] : p \in Params}

ASSUME CallsAssumption ==
  /\ CachedTools \subseteq Tools /\ ProxiedTools \subseteq Tools
  /\ BridgedTools \subseteq Tools /\ StaticTools \subseteq Tools /\ ServerCallers \subseteq Callers
  /\ CallerOrg \in [Callers -> Orgs]
  /\ CallerScope \in [Callers -> SUBSET Connectors]
  /\ CallerTools \in [Callers -> SUBSET Tools]
  /\ \A u \in Callers : \A k \in CallerScope[u] : OrgOf[k] = CallerOrg[u]
  /\ IsFiniteSet(Tools) /\ Nothing \notin Tools \union Callers \union Params
  /\ Nothing \notin [tool : Tools, with : Params]
  /\ {RateLimit, ProxyLimit, MaxReloads, MaxFaults} \subseteq Nat

VARIABLES
  registered,   \* toolsByName of the name: tools in order of registration
  cache,        \* tool_cache:<name>:<digest>, the answer stored under a key
  window,       \* mcp:rate:<client>, its count and whether it has an expiry
  quota,        \* proxy_rl:<org>, its count and whether it has an expiry
  call,         \* the requests
  rows,         \* rows of tool_invocations of a request, by status
  milestone,    \* clients with firstSuccessfulInvocationAt
  processed,    \* external: how often the origin executed a request
  reloads,      \* reloads made, bounded by MaxReloads
  faults,       \* faults so far, bounded by MaxFaults
  endless       \* history: counters whose expire was not carried out

redisVars == <<cache, window, quota, endless>>
auditVars == <<rows, milestone>>
callsVars == <<registered, redisVars, call, auditVars, processed, reloads, faults>>

Unset == [n |-> 0, ttl |-> FALSE]
New   == [pc |-> "new", by |-> Nothing, with |-> Nothing, tool |-> Nothing,
          answer |-> Nothing, hit |-> FALSE, tries |-> 0, slow |-> FALSE,
          lost |-> FALSE, reply |-> "none"]
Ended == {"answered", "failed", "refused", "gone"}

AtStep(c, pc) == call[c].pc = pc
Goto(c, pc)   == call' = [call EXCEPT ![c].pc = pc]
Fault         == faults < MaxFaults /\ faults' = faults + 1

\* The first tool of the registry that is in ts.
FirstIn(ts) ==
  LET at == {i \in DOMAIN registered : registered[i] \in ts}
  IN IF at = {} THEN Nothing
     ELSE registered[CHOOSE i \in at : \A j \in at : i <= j]

ToolsOfConnectors(ks) == {t \in Tools : ConnectorOf[t] \in ks}
ToolsOfOrg(o)         == {t \in Tools : OrgOf[ConnectorOf[t]] = o}
Orders(S) == {s \in [1..Cardinality(S) -> S] : {s[i] : i \in DOMAIN s} = S}

-----------------------------------------------------------------------------
(* Faulty variants of definitions below: bugs the properties must catch.   *)

\* The scope of the server's connectors does not reach executeTool.
ResolvedAnywhere(u) == FirstIn(Tools)

\* A 500 is retried as a 503 is.
RetriedAsTransient(c) ==
  call' = [call EXCEPT ![c].tries = IF @ < 2 THEN @ + 1 ELSE 0,
             ![c].pc = IF call[c].tries < 2 THEN @ ELSE "reject"]

\* A call that timed out before it succeeded is recorded as an error.
RecordedByTries(c) ==
  rows' = IF call[c].slow THEN [rows EXCEPT ![c].ERROR = @ + 1]
          ELSE [rows EXCEPT ![c].SUCCESS = @ + 1]

\* The expiry is set by the request that is refused first.
FirstIsRefused(n, limit) == n = limit + 1

\* The attempts are not counted.
TriesUncounted(c) == call

-----------------------------------------------------------------------------
(* ToolRegistry, as the calls see it.                                      *)

getTool(ks)      == FirstIn(ToolsOfConnectors(ks))
getToolForOrg(o) == FirstIn(ToolsOfOrg(o))

\* t was registered before u.
Before(s, t, u) == \E i, j \in DOMAIN s : i < j /\ s[i] = t /\ s[j] = u

\* The tools of other connectors stay, in their order.
Unregister(k) ==
  /\ reloads < MaxReloads /\ reloads' = reloads + 1
  /\ LET rest == {registered[i] : i \in DOMAIN registered} \ ToolsOfConnectors({k})
     IN /\ registered' \in Orders(rest)
        /\ \A t, u \in rest : Before(registered', t, u) => Before(registered, t, u)
  /\ UNCHANGED <<redisVars, call, auditVars, processed, faults>>

Register(k) ==
  /\ getTool({k}) = Nothing
  /\ \E s \in Orders(ToolsOfConnectors({k})) : registered' = registered \o s
  /\ UNCHANGED <<redisVars, call, auditVars, processed, reloads, faults>>

-----------------------------------------------------------------------------
(* The window of a client and the quota of an organization: one counter.   *)

\* incr created the key: expire is still to be called.
IsFirst(n, limit) == n = 1

\* Where a request goes with the n-th place of a window.
Placed(n, limit, next, over) ==
  IF n > limit THEN over ELSE next

\* A request enters the middleware.
Arrive(c, u, p) ==
  /\ AtStep(c, "new")
  /\ LET n == window[u].n + 1
         pc == IF IsFirst(n, RateLimit) THEN "windowExpire"
               ELSE Placed(n, RateLimit, "handle", "refused")
     IN /\ window' = [window EXCEPT ![u].n = n]
        /\ call' = [call EXCEPT ![c].pc = pc, ![c].by = u, ![c].with = p]
  /\ UNCHANGED <<registered, cache, quota, endless, auditVars, processed, reloads, faults>>

\* Redis is not connected, or rejects the incr: the request is let through.
ArriveUncounted(c, u, p) ==
  /\ AtStep(c, "new") /\ Fault
  /\ call' = [call EXCEPT ![c].pc = "handle", ![c].by = u, ![c].with = p]
  /\ UNCHANGED <<registered, redisVars, auditVars, processed, reloads>>

WindowExpire(c) ==
  /\ AtStep(c, "windowExpire")
  /\ window' = [window EXCEPT ![call[c].by].ttl = window[call[c].by].n > 0]
  /\ Goto(c, Placed(1, RateLimit, "handle", "refused"))
  /\ UNCHANGED <<registered, cache, quota, endless, auditVars, processed, reloads, faults>>

\* expire fails: the request is let through and the key stays as it is.
WindowExpireFails(c) ==
  /\ AtStep(c, "windowExpire") /\ Fault
  /\ endless' = endless \union {call[c].by}
  /\ Goto(c, "handle")
  /\ UNCHANGED <<registered, cache, window, quota, auditVars, processed, reloads>>

\* Redis drops a key whose time has come.
WindowEnds(u) ==
  /\ window[u].ttl
  /\ window' = [window EXCEPT ![u] = Unset]
  /\ UNCHANGED <<registered, cache, quota, endless, call, auditVars, processed, reloads, faults>>
QuotaEnds(o) ==
  /\ quota[o].ttl
  /\ quota' = [quota EXCEPT ![o] = Unset]
  /\ UNCHANGED <<registered, cache, window, endless, call, auditVars, processed, reloads, faults>>
AnswerExpires(k) ==
  /\ cache[k] # Nothing
  /\ cache' = [cache EXCEPT ![k] = Nothing]
  /\ UNCHANGED <<registered, window, quota, endless, call, auditVars, processed, reloads, faults>>

-----------------------------------------------------------------------------
(* The handlers.                                                           *)

\* /mcp/:serverId offers the tools of the server's connectors the role allows.
Offered(u) ==
  {t \in ToolsOfConnectors(CallerScope[u]) \intersect CallerTools[u] :
     \E i \in DOMAIN registered : registered[i] = t}

\* The handler of /mcp: the role first, on the tool of the organization; then
\* a client without a server must have a tool of its own organization.
PassesGlobal(u) ==
  LET t == getToolForOrg(CallerOrg[u])
  IN /\ t # Nothing => t \in CallerTools[u]
     /\ CallerScope[u] = {} => t # Nothing

Handle(c) ==
  /\ AtStep(c, "handle")
  /\ LET u == call[c].by
         passes == IF u \in ServerCallers THEN Offered(u) # {} ELSE PassesGlobal(u)
     IN Goto(c, IF passes THEN "license" ELSE "refused")
  /\ UNCHANGED <<registered, redisVars, auditVars, processed, reloads, faults>>

-----------------------------------------------------------------------------
(* executeTool.                                                            *)

\* The connectors of a server are in the context of /mcp/:serverId only; with
\* none of them the first tool of the name is taken, and the organization is
\* asked for when there is no tool at all.
Resolved(u) ==
  LET t == IF u \in ServerCallers THEN getTool(CallerScope[u])
           ELSE FirstIn(Tools)
  IN IF t # Nothing THEN t ELSE getToolForOrg(CallerOrg[u])

AfterLookup(t) == IF t \in ProxiedTools THEN "proxy" ELSE "request"

\* checkLicenseActive answers; the tool is looked up in the same stretch.
License(c) ==
  /\ AtStep(c, "license")
  /\ LET t == Resolved(call[c].by)
         pc == IF t = Nothing THEN "refused"
               ELSE IF t \in CachedTools THEN "lookup" ELSE AfterLookup(t)
     IN call' = [call EXCEPT ![c].pc = pc, ![c].tool = t]
  /\ UNCHANGED <<registered, redisVars, auditVars, processed, reloads, faults>>

LicenseExpired(c) ==
  /\ AtStep(c, "license") /\ Goto(c, "refused")
  /\ UNCHANGED <<registered, redisVars, auditVars, processed, reloads, faults>>

\* The response cache: a hit ends the call, without quota and without audit.
Lookup(c) ==
  /\ AtStep(c, "lookup")
  /\ LET found == cache[Digest[call[c].with]]
     IN call' = IF found # Nothing
                THEN [call EXCEPT ![c].pc = "answered", ![c].hit = TRUE,
                                  ![c].answer = found]
                ELSE [call EXCEPT ![c].pc = AfterLookup(call[c].tool)]
  /\ UNCHANGED <<registered, redisVars, auditVars, processed, reloads, faults>>

\* Redis is away (a miss) or rejects the get, which no try surrounds.
LookupFails(c) ==
  /\ AtStep(c, "lookup") /\ Fault
  /\ \/ Goto(c, AfterLookup(call[c].tool))
     \/ call' = [call EXCEPT ![c].pc = "failed", ![c].lost = TRUE]
  /\ UNCHANGED <<registered, redisVars, auditVars, processed, reloads>>

\* resolveProxy in the cloud.
Charge(c) ==
  /\ AtStep(c, "proxy")
  /\ LET o == CallerOrg[call[c].by]
         n == quota[o].n + 1
     IN /\ quota' = [quota EXCEPT ![o].n = n]
        /\ Goto(c, IF IsFirst(n, ProxyLimit) THEN "quotaExpire"
                   ELSE Placed(n, ProxyLimit, "request", "reject"))
  /\ UNCHANGED <<registered, cache, window, endless, auditVars, processed, reloads, faults>>

\* Redis is away (the count is 0) or rejects the incr (inside the try).
ChargeFails(c) ==
  /\ AtStep(c, "proxy") /\ Fault
  /\ \/ Goto(c, "request")
     \/ Goto(c, "reject")
  /\ UNCHANGED <<registered, redisVars, auditVars, processed, reloads>>

QuotaExpire(c) ==
  /\ AtStep(c, "quotaExpire")
  /\ LET o == CallerOrg[call[c].by]
     IN quota' = [quota EXCEPT ![o].ttl = quota[o].n > 0]
  /\ Goto(c, Placed(1, ProxyLimit, "request", "reject"))
  /\ UNCHANGED <<registered, cache, window, endless, auditVars, processed, reloads, faults>>

QuotaExpireFails(c) ==
  /\ AtStep(c, "quotaExpire") /\ Fault
  /\ endless' = endless \union {CallerOrg[call[c].by]}
  /\ Goto(c, "reject")
  /\ UNCHANGED <<registered, cache, window, quota, auditVars, processed, reloads>>

-----------------------------------------------------------------------------
(* The request to the origin: requestWithRetry, three attempts.  The bridge *)
(* to another MCP server makes one.                                        *)

\* delaysMs has two delays.
Retries(c) == call[c].tries < 2 /\ call[c].tool \notin BridgedTools

Retried(c) ==
  [call EXCEPT ![c].tries = IF Retries(c) THEN @ + 1 ELSE 0,
               ![c].pc = IF Retries(c) THEN @ ELSE "reject"]

Executed(c) == processed' = [processed EXCEPT ![c] = @ + 1]

\* The engine returns: a result, an isError in it, or a static response.
Returned(c, reply) ==
  /\ AtStep(c, "request")
  /\ call' = [call EXCEPT ![c].pc = "record", ![c].tries = 0, ![c].reply = reply,
                ![c].answer = [tool |-> call[c].tool, with |-> call[c].with]]
  /\ UNCHANGED <<registered, redisVars, auditVars, reloads, faults>>

Respond(c) == Executed(c) /\ Returned(c, "result")

\* The remote tool of a bridge says in its result that it failed, before it did
\* anything or after.
RespondIsError(c) ==
  /\ call[c].tool \in BridgedTools /\ Returned(c, "isError")
  /\ Executed(c) \/ UNCHANGED processed

\* A static response goes to no origin.
RespondStatic(c) ==
  /\ call[c].tool \in StaticTools /\ Returned(c, "static") /\ UNCHANGED processed

\* An answer that is not transient (4xx, 500), the request executed or not.
NotRetried(c) ==
  call' = [call EXCEPT ![c].pc = "reject", ![c].tries = 0]

RespondError(c) ==
  /\ AtStep(c, "request")
  /\ Executed(c) \/ UNCHANGED processed
  /\ NotRetried(c)
  /\ UNCHANGED <<registered, redisVars, auditVars, reloads, faults>>

\* 429, 502, 503, 504 or a connection that failed: the origin did nothing.
\* A timeout or a reset counts as such, and there it may have executed.
Transient(c) ==
  /\ AtStep(c, "request")
  /\ \E slow \in BOOLEAN :
       /\ IF slow THEN Executed(c) ELSE UNCHANGED processed
       /\ call' = [Retried(c) EXCEPT ![c].slow = @ \/ slow]
  /\ UNCHANGED <<registered, redisVars, auditVars, reloads, faults>>

-----------------------------------------------------------------------------
(* logInvocation, the response cache, the answer.                          *)

\* The content of a remote tool goes on as it is, an isError with it, and is not kept.
AfterRecord(c) ==
  IF call[c].reply = "isError" THEN "failed"
  ELSE IF call[c].tool \in CachedTools
          /\ (call[c].tool \in BridgedTools => call[c].reply = "static") THEN "store"
  ELSE "answered"

Recorded(c) == rows' = [rows EXCEPT ![c].SUCCESS = @ + 1]

Record(c) ==
  /\ AtStep(c, "record") /\ Recorded(c) /\ Goto(c, "stamp")
  /\ UNCHANGED <<registered, redisVars, milestone, processed, reloads, faults>>

\* The insert fails and is only logged; or the look-up of the user fails,
\* outside of any try: the call turns into an error.
RecordFails(c) ==
  /\ AtStep(c, "record") /\ Fault
  /\ \E pc \in {AfterRecord(c), "reject"} :
       call' = [call EXCEPT ![c].pc = pc, ![c].lost = TRUE]
  /\ UNCHANGED <<registered, redisVars, auditVars, processed, reloads>>

Stamp(c) ==
  /\ AtStep(c, "stamp")
  /\ milestone' = milestone \union {call[c].by}
  /\ Goto(c, AfterRecord(c))
  /\ UNCHANGED <<registered, redisVars, rows, processed, reloads, faults>>

Store(c) ==
  /\ AtStep(c, "store")
  /\ cache' = [cache EXCEPT ![Digest[call[c].with]] = call[c].answer]
  /\ Goto(c, "answered")
  /\ UNCHANGED <<registered, window, quota, endless, auditVars, processed, reloads, faults>>

\* Redis is away, or rejects the set: the catch records an ERROR and answers it.
StoreFails(c) ==
  /\ AtStep(c, "store") /\ Fault
  /\ \/ Goto(c, "answered")
     \/ call' = [call EXCEPT ![c].pc = "reject", ![c].lost = TRUE]
  /\ UNCHANGED <<registered, redisVars, auditVars, processed, reloads>>

Reject(c) ==
  /\ AtStep(c, "reject")
  /\ rows' = [rows EXCEPT ![c].ERROR = @ + 1]
  /\ Goto(c, "failed")
  /\ UNCHANGED <<registered, redisVars, milestone, processed, reloads, faults>>

RejectUnrecorded(c) ==
  /\ AtStep(c, "reject") /\ Fault
  /\ call' = [call EXCEPT ![c].pc = "failed", ![c].lost = TRUE]
  /\ UNCHANGED <<registered, redisVars, auditVars, processed, reloads>>

-----------------------------------------------------------------------------
\* The process stops and comes back: loadAllTools registers every tool anew.
CallsCrash ==
  /\ Fault
  /\ \E c \in Calls : call[c].pc \notin Ended \union {"new"}
  /\ registered' \in Orders(Tools)
  /\ endless' = endless
       \union {call[c].by : c \in {d \in Calls : AtStep(d, "windowExpire")}}
       \union {CallerOrg[call[c].by] : c \in {d \in Calls : AtStep(d, "quotaExpire")}}
  /\ call' = [c \in Calls |-> IF call[c].pc \in Ended \union {"new"} THEN call[c]
                              ELSE [call[c] EXCEPT !.pc = "gone"]]
  /\ UNCHANGED <<cache, window, quota, auditVars, processed, reloads>>

CallsInit ==
  /\ registered \in Orders(Tools)
  /\ cache = [k \in Keys |-> Nothing]
  /\ window = [u \in Callers |-> Unset]
  /\ quota = [o \in Orgs |-> Unset]
  /\ call = [c \in Calls |-> New]
  /\ rows = [c \in Calls |-> [SUCCESS |-> 0, ERROR |-> 0]]
  /\ milestone = {}
  /\ processed = [c \in Calls |-> 0]
  /\ reloads = 0 /\ faults = 0
  /\ endless = {}

\* The steps a call takes by itself.
CallStep(c) ==
  \/ WindowExpire(c) \/ Handle(c) \/ License(c) \/ LicenseExpired(c)
  \/ Lookup(c) \/ Charge(c) \/ QuotaExpire(c)
  \/ Respond(c) \/ RespondIsError(c) \/ RespondStatic(c)
  \/ RespondError(c) \/ Transient(c)
  \/ Record(c) \/ Stamp(c) \/ Store(c) \/ Reject(c)

CallFault(c) ==
  \/ WindowExpireFails(c) \/ LookupFails(c) \/ ChargeFails(c)
  \/ QuotaExpireFails(c) \/ RecordFails(c) \/ StoreFails(c)
  \/ RejectUnrecorded(c)

CallsNext ==
  \/ \E c \in Calls, u \in Callers, p \in Params :
       Arrive(c, u, p) \/ ArriveUncounted(c, u, p)
  \/ \E c \in Calls : CallStep(c) \/ CallFault(c)
  \/ \E k \in Connectors : Unregister(k) \/ Register(k)
  \/ \E u \in Callers : WindowEnds(u)
  \/ \E o \in Orgs : QuotaEnds(o)
  \/ \E k \in Keys : AnswerExpires(k)
  \/ CallsCrash

CallsSpec == CallsInit /\ [][CallsNext]_callsVars

-----------------------------------------------------------------------------
(* Properties.                                                             *)

\* Every variable has its type; a call that has not been made has no client.
CallsTypeOK ==
  /\ registered \in UNION {Orders(S) : S \in SUBSET Tools}
  /\ cache \in [Keys -> [tool : Tools, with : Params] \union {Nothing}]
  /\ window \in [Callers -> [n : Nat, ttl : BOOLEAN]]
  /\ quota \in [Orgs -> [n : Nat, ttl : BOOLEAN]]
  /\ call \in [Calls ->
       [pc : Ended \union {"new", "windowExpire", "handle", "license", "lookup",
          "proxy", "quotaExpire", "request", "record", "stamp", "store", "reject"},
        by : Callers \union {Nothing}, with : Params \union {Nothing},
        tool : Tools \union {Nothing},
        answer : [tool : Tools, with : Params] \union {Nothing},
        hit : BOOLEAN, tries : 0..2, slow : BOOLEAN, lost : BOOLEAN,
        reply : {"none", "result", "isError", "static"}]]
  /\ rows \in [Calls -> [SUCCESS : 0..1, ERROR : 0..1]]
  /\ milestone \subseteq Callers
  /\ processed \in [Calls -> 0..3]
  /\ reloads \in 0..MaxReloads /\ faults \in 0..MaxFaults
  /\ endless \subseteq Callers \union Orgs

\* tool_invocations tells how the request to the origin ended: a call that ended
\* has one row, ERROR when the engine threw and SUCCESS when it returned, unless the
\* row or the answer of the cache was lost on the way; a call answered from the
\* cache or refused has none.  What the caller is told is the same, but for the
\* isError of a remote tool, whose row says SUCCESS; and SUCCESS is recorded for no
\* other request that the origin did not execute, but a static response.
RowsTellCalls ==
  \A c \in Calls :
    LET k == call[c]
        r == rows[c]
    IN /\ k.pc \in {"answered", "failed"} /\ ~k.hit /\ ~k.lost =>
            IF k.pc = "answered" \/ k.reply = "isError" THEN r.SUCCESS = 1 /\ r.ERROR = 0
            ELSE r.SUCCESS = 0 /\ r.ERROR = 1
       /\ k.hit \/ k.pc = "refused" => r.SUCCESS = 0 /\ r.ERROR = 0
       /\ r.SUCCESS = 1 => processed[c] > 0 \/ k.reply \in {"isError", "static"}
       /\ r.SUCCESS + r.ERROR = 2 => k.lost

\* A call over the URL of an MCP server is executed by a tool of the
\* organization of its client, whatever the reloads of connectors did between
\* the time the tool was offered and the time it is looked up again by name.
ServerCallStaysInOrg ==
  \A c \in Calls :
    call[c].by \in ServerCallers /\ call[c].tool # Nothing =>
      OrgOf[ConnectorOf[call[c].tool]] = CallerOrg[call[c].by]

\* The origin executes a request once: it is sent again only after an answer
\* that says it did nothing.  The exception is a timeout or a reset, which
\* isTransientError counts among these answers.
ExecutedOnce == \A c \in Calls : processed[c] > 1 => call[c].slow

\* A counter of Redis that counts has an end, or the call that created it is
\* about to give it one, or that call was cut off between incr and expire: then
\* the client or the organization stays refused once it is over the limit.
CountersEnd ==
  /\ \A u \in Callers : window[u].n > 0 /\ ~window[u].ttl =>
       u \in endless \/ \E c \in Calls : AtStep(c, "windowExpire") /\ call[c].by = u
  /\ \A o \in Orgs : quota[o].n > 0 /\ ~quota[o].ttl =>
       \/ o \in endless
       \/ \E c \in Calls : AtStep(c, "quotaExpire") /\ CallerOrg[call[c].by] = o
=============================================================================
