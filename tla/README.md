# A TLA+ model of AnythingMCP

AnythingMCP turns REST, GraphQL, SOAP, database and MCP *connectors* into MCP
tools.  Its backend (`src/anythingmcp/packages/backend/src`, NestJS on one
Node.js process) keeps three kinds of state: rows in PostgreSQL, maps in memory
(the tool registry, the MCP sessions, the token caches), and keys in Redis.  Its
frontend (`packages/frontend/src`, Next.js) keeps the state of a browser tab.
Code between two `await`s runs undisturbed; everything that can go wrong goes
wrong at the awaits, where the steps of other requests, a failed query, an
answer out of order or a restart fall.  That is what these modules model: **one
action per stretch of code between two awaits**, with the database, the remote
servers, the user and the clock as actions of their own.

Paths below are relative to the backend's `src`, or start with `frontend/`.

## 1. Inventory

| Part | Code | State | What makes it correct | Module |
|---|---|---|---|---|
| Tool registry and its reload | `mcp-server/tool-registry.ts`, `mcp-server.service.ts` | two maps, the names of the upstream registry | listing and calling agree; the registry comes to serve the rows; no connector takes a name from another | `ToolRegistry` |
| Admin requests | `connectors/connectors.controller.ts`, `tools.controller.ts` | rows | every stored change is followed by the reload it needs; a merge leaves the rows the document says | `ToolRegistry`, `SpecImport`, `ConnectorPage` |
| Stateful sessions | `mcp-server/mcp-endpoint.controller.ts`, `mcp-servers/mcp-session.manager.ts` | table, index, tools shown | cap, index, one binding for life, no resurrection, tools come to be the current ones | `McpSessions`, `SessionTable` |
| Servers, assignments, keys | `mcp-servers/`, `roles/mcp-api-keys.*` | rows | an assignment stays until somebody takes it back | `McpSessions`, `ServerPage` |
| Roles and tool access | `roles/roles.*` | rows | a session shows what its principal is allowed | `McpSessions` |
| OAuth2 tokens | `connectors/engines/oauth2-token.service.ts`, `connectors/mcp-oauth-callback.controller.ts` | cache, mutex, `authConfig` | one proactive refresh at a time, nobody waits for ever, the rotating refresh token is not lost | `OAuth2Token` |
| Login tokens | `connectors/engines/login-token.service.ts` | cache, login in flight, row | a call that was refused comes out with a newer token | `LoginToken` |
| Tool executor, rate limit, audit | `mcp-server/dynamic-mcp-tools.ts`, `auth/mcp-rate-limit.*`, `audit/` | Redis keys, audit rows | the audit rows tell how a request ended, windows end, a call stays in its organization | `ToolCalls` |
| Engines | `connectors/engines/*.engine.ts` | one call | a repetition does not repeat an effect | `EngineCalls` |
| Catalog | `adapters/`, `connectors/catalog-resync.service.ts`, `catalog-reconciler.service.ts` | rows, version stamps | what the operator decided survives; a stamp is true | `CatalogSync` |
| Accounts, organizations, users, invitations | `auth/auth.controller.ts`, `jwt.strategy.ts`, `organizations/`, `users/` | rows | active organization and role are those of a membership, an organization keeps an admin | `Workspaces` |
| Mailed codes and links | `auth/auth.controller.ts` | rows | each works once, the newest code only | `MailedTokens` |
| OAuth server of the MCP endpoint | `auth/prisma-oauth.store.ts`, `local-oauth.strategy.ts`, `login.controller.ts`, `client-credentials.middleware.ts` | rows, cookies | a code is traded once | `OAuthServer` |
| Licenses | `license/` | rows, settings | the row tells the last verdict | `Licensing` |
| Knowledge graph | `knowledge-graph/` | edges, watermarks, skills | each audit row is counted once, a person's verdict is a person's to change, what agents follow was approved or answered to a merge | `Observations`, `GraphEdges`, `KgSkills` |
| Crons of the cloud | `ee/cloud/` | flags, batches | a mail goes out once, a batch is applied once | `CloudCrons` |
| Page of a connector | `frontend/app/connectors/[id]` | one page | it shows what is stored | `ConnectorPage` |
| Page of a server, assign modal | `frontend/app/mcp-server/[id]`, `components/mcp-assign-modal.tsx` | pages | the same, and both writers add | `ServerPage` |
| Session of a tab | `frontend/lib/auth-context.tsx`, `lib/api.ts`, `app/login`, `components/onboarding-redirect.tsx` | `localStorage`, context | token, user and organization are of one login | `BrowserSession` |
| Parsers, settings, mail, other pages, scripts | | | conversions, single row operations, lists and forms | section 8 |

How the parts meet:

```
 page --request--> handler --write--> rows --read--> ToolRegistry --notify--> sessions --rebuild--> client
                                                  clear / register  (not awaited)   (3 awaits)
 assignment, role --------------------------------------------------^ assignment only
 tool call --> rate limit --> executor --> engine --> OAuth2TokenService / LoginTokenService --> origin
                                 |            (401: once more, transient: up to three times)
                                 +--> audit row --> ingest --> edges --> skills --> instructions
 OAuth callback, catalog resync, import --> rows --reload--> ToolRegistry
```

Everything in this code that a test would hardly reach is listed at its line
under "hazards" in `PROJECT.json`, with the properties that watch it.

## 2. The modules

Each module says at its head which files it models; `PROJECT.json` maps every
definition to its lines.  Common conventions: a request is a record with a `pc`
named for the await it stands at; a name, text or payload is a model value; a
random id is a value not used before; `Max...` constants bound behaviours and
are no limits of the code; variables commented as *history* are read by
properties only.

**ToolRegistry.**  `byId` and `byName` are the two maps; `upstream` the names
held by the single-tenant library registry; `dbConn`, `dbName` the rows.  A
request walks through `written`/`removed`, `cleared` (`ReloadStart`: up to the
await of `findUnique`), `read` (`ReloadRead`), and back to `idle`
(`ReloadFinish`, or a failure).  `Restart` runs `loadAllTools`.  `PUT` of a
connector reloads nothing, as in the code; `unreloaded` remembers connectors
whose last change was not followed by a read of the rows.

**SessionTable, McpSessions.**  `SessionTable` says in three actions what a
client may rely on.  `McpSessions` extends `ToolRegistry` with assignments,
roles and sessions: the stretches of opening and those of the closure made by
`makeRebuild`.  A notification starts one rebuild per live session and is not
awaited.  `behind` holds the sessions whose surface the code does not promise:
changes nobody announces (a role, a deleted server), announcements that fell
while the session was opening, rebuilds that failed or raced.

**OAuth2Token.**  One connector, any number of calls: `getAccessToken`, the
refresh, its persistence, the refresh past the mutex after a 401, and the other
writers of the row (`EditRead`/`EditWrite`, the callback).  The server rotates
refresh tokens or does not.  Tokens are numbered in the order of issue and are
fresh, near (5 minutes) or expired.  `excused` records the losses the code has
no guard for: a lost answer, a failed write, a crash between answer and write,
an edit or callback that overlaps a refresh.

**LoginToken.**  The sibling for tokens obtained by a login: cache, row, one
login in flight, `forceRelogin` after a refusal, which clears the cache and may
join a login that was already under way.

**ToolCalls.**  Both endpoints: the window of a client, the look-up of the tool
by name (twice over `/mcp/:serverId`: offered, then looked up again), licence,
response cache, proxy quota (`incr`, then `expire`), the request, audit row,
milestone, cache write; with failures of Redis and the database, reloads and a
restart.  `reply` is what the engine returned: a result, a result of a remote MCP
tool that says `isError`, or the static response of a tool that calls nobody.
The row is written from the return alone, the answer of the caller from `reply`.

**EngineCalls.**  One call: credentials, `requestWithRetry`, the repetition
after a 401, in the engines that retry (`rest`), renew only (`graphql`, `mcp`)
or send once.  `blurred` says the origin acted and the engine could not know.

**CatalogSync, SpecImport, GraphEdges, ConnectorPage, ServerPage.**  Five views
of a connector: installed from a catalog that is part of the program (a
deployment is a restart with another release); merged row by row from a parsed
document; as the source of knowledge-graph edges with three writers (static,
observed, model) beside people; as its own page shows it; assigned to servers
by a page and by modals that write whole lists.

**Workspaces, MailedTokens, Licensing, KgSkills, OAuthServer.**  Handlers that
write several rows without a transaction, with every query a step: accounts,
organizations, memberships and invitations, with the healing of a stale
organization by the JWT strategy; verification codes and reset links; trial,
key and verification; skills of a server, a connector or neither, suggested and
merged by a model that may answer anything while people edit them; clients,
flows and codes of the authorization code flow.

**CloudCrons, Observations.**  Runs that a scheduler starts and nothing keeps
apart: mails before their flag, a batch before its row, an ingest that pages
through audit rows while retention deletes some and moves a watermark.

**BrowserSession.**  One tab: sign-in, sign-up, verification, switch of
organization, reload, logout, a 401 from anywhere with the `catch` of the handler
that met it, the onboarding gate.  Answers
come in any order; the React effects that follow a change of state belong to the
action that makes the change (`Become`).

## 3. What TLC checks

The parts named together in a run share no state (they are one program's parts
with disjoint tables and maps): a variable `part`, chosen at the start and never
changed, makes a behaviour one of them, so one run covers several modules
without multiplying their states.

| Run | Parts | Properties |
|---|---|---|
| `services` | registry; OAuth2 tokens; login tokens | `ServicesTypeOK`, `IndexAgrees`, `UpstreamAgrees`, `SettledServesRows`, `OthersUntouched`, `EventuallyServed`; `ForcedLoginIsNew`, `RowIsNewest`; `EveryCallEnds` |
| `sessions` | sessions over the registry | `SessionsTypeOK`, `SessionCap`, `IndexIsTable`, `SettledSessionsCurrent`, `ImplementsTable` |
| `tokens_tabs` | OAuth2 tokens; crons; a tab | `TabsTypeOK`, `MutexIsRefresh`, `StoredRefreshAccepted`, `ExpiredOnlyAfterFailure`; `CronsActOnce`; `SessionIsOfOneLogin` |
| `calls` | tool calls; engines; ingests | `RunTypeOK`, `RowsTellCalls`, `ServerCallStaysInOrg`, `CountersEnd`; `CallsActOnce`; `RowsCountedOnce` |
| `catalog` | resync; import; edges; two pages | `CatalogRunTypeOK`, `StampIsTrue`, `ManualDisableKept`; `ImportIsComplete`; `VerdictKept`; `PageIsTrue`, `AssignmentsAdd` |
| `accounts` | workspaces; mailed tokens; licenses; skills; codes | `AccountsTypeOK`, `ActiveOrgIsJoined`, `UsedInviteJoined`, `SelfDeletionLeavesAdmin`; `OneTimeWorksOnce`; `RowTellsVerdict`; `ActiveRulesWereApproved` |
| `registry_overlap`, `sessions_race`, `oauth_reauthorize`, `catalog_instructions`, `welcome`, `skills_wipe` | | one property each, violated: section 4 |

Each property is stated beside the code it is about, and names its exceptions:
where the code has no guard, the module keeps a history variable for exactly the
overlap, loss or crash that defeats it (`overlapped`, `cutOff`, `shifted`,
`crossed`, `doubled`, `broken`, `stale`, `aged`, `overtaken`, `excused`, ...),
and the property holds outside of it.  What these exceptions say is the
second result of the checks:

* a counter of Redis whose `expire` was not carried out never ends, and refuses
  its client or organization for good (`CountersEnd`);
* an audit row is counted twice when two ingests overlap or one stops, and
  passed over when retention deletes rows between two pages, which are read by
  offset, or when it shares its millisecond with one read before it
  (`RowsCountedOnce`);
* a writer of an edge that read it before a person's verdict writes over it, a
  writer that takes an edge confirmed without a note for one nobody has looked
  at makes it a suggestion again on the kinds that are bumped as suggested, and
  an edge a sync deletes takes the verdict with it (`VerdictKept`);
* a rule no person approved is in force when the answer to a merge has it
  (`ActiveRulesWereApproved`);
* the row of a call whose remote tool answered `isError` says SUCCESS
  (`RowsTellCalls`);
* an account is verified by an invitation only if the acceptance that marks the
  invitation made the account: one that finds it made by another acceptance,
  overlapping or broken off, takes it for an existing user (`UsedInviteJoined`);
* what a tab holds is mixed when `users.me` or the fetch of the organization is
  answered for another session than the tab has by then (`SessionIsOfOneLogin`);
* two sends of a code that cross leave two good codes (`OneTimeWorksOnce`);
* two runs of a cron mail twice and submit or apply a batch twice
  (`CronsActOnce`);
* an account whose creation stopped half way has an active organization it is
  not a member of (`ActiveOrgIsJoined`);
* two administrators who delete themselves at once leave none
  (`SelfDeletionLeavesAdmin`);
* a call may come out of `forceRelogin` with the token it was refused with, if
  it joined a login already under way (`ForcedLoginIsNew`);
* two tabs that each write the whole list of assignments lose one
  (`AssignmentsAdd`).

**Bounds, and why they are enough.**

* Registry: two connectors that can hold the same name, one with two tools, give
  every case of `reloadConnectorTools` (no, one or two owners of a name before
  and after, a rename, a reload between two steps of another).
* Sessions: two sessions at a cap of one make every second opening evict; two
  rebuilds are the fewest that race; two changes, one announced and one that
  overtakes it.
* OAuth2 tokens: of two calls one can hold the mutex while the other joins it or
  goes past it; three answers allow an original pair, a rotated one and one that
  invalidates it.  For liveness two answers, with every call.
* Tool calls: two calls meet at limits of one (window and quota), and two tools
  of one name in two organizations are the case that look-up by name confuses;
  one fault, since a second only hides the first.  One is bridged to a remote
  MCP server, the other may be edited to a static response.
* Ingests: two, three rows of two connectors, chunks of one row so that every
  page boundary occurs.  `MaxPerIngest = 2` is reached.
* Engines: all engines, credentials, schemes and answers; the code's own three
  attempts.
* Catalog: a release that changes a text, one an endpoint and the instructions,
  one that drops a tool, and the way back; two deployments and one edit.
  Import: documents that rename, move, exchange names and drop; two imports.
* Pages: two or three clicks and one lost request; two tools or two connectors.
* Accounts: three requests, two at a time, over an empty database, a shared
  organization with an open invitation, and an organization with two admins;
  one interruption.  Codes: two codes, two trades at a time.  Skills: two rows
  of two rules, a server and a connector, two requests to the model, two edits.
* Crons: two runs at a time, four in all for batches, and a trial of three days.
* Tab: three sign-ins of two accounts, three clicks, one lost answer.

**Fairness.**  `RegistryFairness`, `OAuthFairness` and `LoginFairness` are weak
fairness of the steps of a running reload or call: the event loop runs every
continuation, the database answers or rejects, requests to token servers time
out after ten seconds.  Nothing makes an administrator, a client or a clock act,
and nothing makes a bulk request stop writing (`EventuallyServed` assumes it).
Each step is fair as the disjunction of its outcomes, so a fair run may fail for
ever, and failures are outcomes the properties allow for.  In a run of several
parts the fairness of the absent ones asks for nothing, as their actions are
disabled.  All other runs check safety only.

**Deadlock** is checked where a system always has a next step; it is not checked
in runs in which the bounds end every behaviour (`CHECK_DEADLOCK FALSE`).
**Symmetry** is used where no liveness property is checked, over sets that every
constant keeps (a start that names one element stands for those that name
another).

**Mutants.**  The operators under "Faulty variants" are not used by a module:
each is the form a plausible bug would give to a definition below it, and put in
its place it makes TLC report the property listed with it in `PROJECT.json`.

## 4. Findings

1. `registry_overlap` (`connectors/connectors.controller.ts:636`).  The DELETE
   handler reloads the connector to unregister its tools.  A tool request on the
   same connector that has already read its rows registers them afterwards; they
   stay callable until a restart.
2. `sessions_race` (`mcp-server/mcp-endpoint.controller.ts:568`).  Two
   assignments start two rebuilds of a session; the older may read first and
   reconcile last, and removed tools stay.
3. `oauth_reauthorize` (`connectors/engines/oauth2-token.service.ts:60`).
   Connectors are said to "pick up the new accessToken immediately" after a
   re-authorization; the token cache is not told.
4. `catalog_instructions` (`connectors/catalog-resync.service.ts:282`).
   Instructions are refreshed "only if the user hasn't edited them"; the first
   resync after an edit makes the user's text the baseline, the second
   overwrites it.
5. `welcome` (`frontend/components/onboarding-redirect.tsx:59`).  In the cloud
   the answer of `server.info` cancels the running gate, and its rerun takes
   itself for a duplicate: a new user stays on the dashboard.
6. `skills_wipe` (`knowledge-graph/kg-skill.service.ts:335`).  "Never let a
   bad/empty model response wipe live skills": an answer of items without a
   title or an instruction passes the guard and deletes every active skill.

Read while modelling, and part of the models, but without a run of their own:

* `rest.engine.ts:258`: a timeout and a gateway's 502 and 504 count as "not
  processed"; a write is then sent again though the origin may have acted.
  `CallsActOnce` holds for calls that are not `blurred` only.
* `rest.engine.ts:208`: the request after a 401 carries `Bearer`, also for
  connectors whose `tokenPrefix` is another one.
* `mcp-client.engine.ts`: an expired token is recognised by the text of the
  error, so a tool that answers with "401" in its text is called twice.
* `kg-skill.service.ts:349`: "consolidation never silently activates or revives
  anything" (:286-290), but whatever the model returns is stored as applied, also
  a rule that no active skill had or one dismissed while the model was busy
  (`answered` in `KgSkills`; `ActiveRulesWereApproved` says what is left).
* `dynamic-mcp-tools.ts:258`: the operations guide calls the audit table "the
  source of truth for tool success rate" (`docs/operations/slo.md:29`); the
  `isError` of a remote tool is looked at after its row has said SUCCESS.
* `kg.service.ts:422`: "editing marks the edge MANUAL so later rebuilds never
  silently overwrite it" (:380), and a confirmed edge is not downgraded
  (`kg-observational.service.ts:412`); only an edit with a note marks it, and a
  link confirmed without one is a suggestion again after the next observation.
* `auth.controller.ts:576`: "invited users don't need to verify" (:599); an
  acceptance that finds the account another acceptance of the same invitation has
  just made, or has left behind, marks the invitation used and leaves the account
  unverified and without a server.
* `users.service.ts:118`: `PUT` of a role writes the cached role and not the
  membership (`overruled` in `Workspaces`).

## 5. What TLAPS proves

For any connectors, tools, names, requests and any overlap of requests
(`ToolRegistryProofs`, from `RegistryAssumption`: each tool has a connector, the
placeholders are no members, the slots are finite):

* `TypeCorrect`: `RegistryTypeOK`, which also says that a slot is bound exactly
  while its handler runs and holds rows of its own connector;
* `IndexAgreesWithListing`: `IndexAgrees`, what is listed is callable and what is
  callable is listed;
* `UpstreamIsNeverShort`: a reload takes no name away that another connector
  needs.

For requests that do not overlap on one connector (the second part of
`ToolRegistryProofs`, assuming `MaxPerConnector = 1`; finding 1 shows that this
cannot be dropped):

* `SettledRegistryServesRows`: `SettledServesRows`;
* `UpstreamKeepsNoOldName`: `UpstreamAgrees`;
* `OtherConnectorsAreUntouched`: `OthersUntouched`.

None of these is inductive as it stands.  The serial invariant, `Serial`, is a
conjunction of named parts: at most one slot per connector (`Alone`), `byName`
is exactly the index of `byId` (`IndexExact`), a connector being reloaded has
nothing registered (`Cleared`), what a slot has read is what is stored unless
the connector was changed since (`ReadIsCurrent`), a connector at rest serves its
rows (`IdsServed`), a connector that does not exist has no rows (`NoRowsYet`),
and the upstream names are those of the index (`UpstreamExact`).  `IndexExact` is
the heart of it: without it a reload could not decide by a count of names what
to take down upstream.

For any number of servers, principals, sessions, rebuilds and changes
(`McpSessionsProofs`, from `RegistryAssumption` and `SessionsAssumption`):
`SessionTypes` (`SessionsTypeOK`), `IndexFollowsTable` (`IndexIsTable`),
`TableIsBounded` (`SessionCap`) and `TableImplemented` (`ImplementsTable`, the
implementation of `SessionTable` under the refinement mapping `Table`).  Every
step of `McpSessions` is a step of `ToolRegistry` or leaves the registry alone
(`RegistrySteps`), so its types carry over; they need one fact more, that only a
session that is or was live has rebuilds.  The three facts about the table rest
on `TableEffect`: every action keeps the table, closes some sessions, or enters
one and evicts at most one.  `IndexIsTable` is needed there, since a restart
drops the index as a whole.

`SettledAreCurrent` (`SettledSessionsCurrent`) adds the invariant `CatchesUp`.  A
rebuild marked as lone is the only one of its session, and a live session with
any other is behind (`RacesAreBehind`).  Unless a change is on its way
(`Unsettled`), what a lone rebuild or an opening session has read so far is what
it would read again, and a live session at rest that is not behind shows its
surface (`Current`).  The condition had to be weaker than `Quiet`: a request that
has written rows and stops without a reload tells nobody, and need not, since the
sessions read the registry and not the rows.  A step that ends a change either
starts a rebuild of every live session (`NotifyEffect`), which is lone or leaves
it behind, or puts behind whom it fell on (`UnannouncedCatchesUp`).

For any number of calls and token answers (`OAuth2TokenProofs`, from
`OAuthAssumption`): `TokensTyped`, `MutexStandsForRefresh` (`MutexIsRefresh`),
`ConnectorStaysConnected` (`StoredRefreshAccepted`) and `ExpiredAfterFailure`
(`ExpiredOnlyAfterFailure`).  `StoredRefreshAccepted` speaks of the
moments when nothing is under way; its invariant, `RefreshInv`, follows each
answer from the server to the row: a token that was issued and not stored yet is
held by one call or the callback and known to nobody else (`Unspent`); an answer
carries the new refresh token if the server rotates them and the old one if not
(`Answers`); and, unless something was lost, the refresh tokens of all answers
are accepted, and so is the stored one unless an answer has just replaced it
(`AllAccepted`).  Concurrent refreshes are harmless because of the re-read before
each of them (`Rehydrate`): the token it sends is the stored one, and if an
answer has just replaced that, the server refuses and nothing is overwritten.
For the action property: a token is fresh until its answer has been stored or
given up (`NewIsFresh`), so waiting for a refresh never ends with an expired one.

For any users, organizations, invitations and overlapping requests
(first part of `AccountsProofs`, from `WorkspacesAssumption`): `WorkspacesTyped`,
`ActiveIsJoined`, `UsedHasJoined` and `SelfDeletionKeepsAdmin`.  The invariant,
`WorkspacesInv`, says what each request has established by the await it stands
at: who accepts an invitation holds what it says, from the join on the
membership is there as long as its user and its organization are, one request at
most has made an account, who deletes an organization sends users to
memberships they have, and who deletes itself knows its organizations as they
are unless memberships changed since.  `Moves` says what a step must leave to
users and requests that do not make it; `StepKept` gives the invariant back from
that.

The rest of `AccountsProofs` adds the other parts of the run `accounts` and the
theorems of the composition, from the assumptions of the five modules:
`AccountsTyped`, `AccountsOnce`, `AccountsRowTells`, `AccountsRulesApproved`,
`AccountsJoined`, `AccountsKeepAdmin`. Codes: whoever deletes the row of a code
was not overtaken and alone grants tokens for it (`GrantHolds`), and a code is
drawn once. Mails: a link is marked after its password is written, so it works
once only for who has it to itself (`AloneHasLink`). Skills: the model's answers
are not trusted, so each rule in force is traced to an approval in its place or to
the answer of a merge (`RuleHasSource`), and a merge begins only where something
had been approved (`MergesOfApproved`). Licenses: while the answers about a key
are in order, one request at most speaks of it (`OneSpeaks`), it holds the last
answer (`HoldsAnswer`), and the row tells that one unless it is about to be
written (`RowTold`).

For any calls, tools, engines, ingests and audit rows (`CallsProofs`): `RunTyped`,
`CallsTold`, `CallsStayInOrg`, `CallsOnce`, `CountersReset`, `RowsCounted`. Calls:
rows, counters and what was asked of the engine follow from the place a call is
at, what the engine replied and the faults it met (`Done`, `Held`). Engines:
before a request is sent, and after an answer that asks for another, the origin
has done nothing (`EngineInv`). Ingests page by offset, so the argument counts:
the rows an ingest has passed are those at or before its floor and the pages it
read (`Ahead`, `Passed`); it has taken them, up to the watermarks it is about to
write (`Reads`, `Taken`), and ingests that run one at a time have taken no row
twice (`InTurn`).

For any releases, documents, rows, links, requests and servers (`CatalogProofs`):
`StampTrue`, `ManualDisableStays`, `ImportsComplete`, `VerdictStays`, `PageShows`,
`AssignmentsOnlyAdd`, and of the composition `CatalogRunTyped` and `PagesTrue`.
Catalog: the rows meet the release of the stamp, or what the resync under way will
write makes them meet the one it will stamp (`JobInv`). Import: each tool an
import has got past has a row or is excused, and every row is one it passed or one
it found (`Progress`). Edges: what a writer found is there still, or its update
will fail (`FoundIn`), and a status that changes is a person's doing or that of a
writer that found nothing to spare (`Kept`). Page of a connector: at most one
test is under way, that of the open playground (`RunsInv`); a request that will
fetch the connector again is under way (`Mending`), or what is under way settles
what is shown (`Settles`). Page of a server: what a modal writes has what it
read (`AddInv`), and an answer is of the row as it is unless requests overlapped
(`ShowInv`).

For any calls, logins and faults (`ServicesProofs`): `ServicesTyped`,
`ForcedIsNew` (`ForcedLoginIsNew`) and `RowHasNewest` (`RowIsNewest`), for the
composition `ServicesSpec`.  The invariant, `LoginInv`, adds what a call knows at
each place (`UserFits`): who waits after a refusal has a login in flight to wait
for, and once that login has its token and is storing it, the token is newer than
the refused one, unless the call joined the login after it was answered.

For any runs, days, batches and mails, and any logins and requests of a tab
(`TabsProofs`): `TabsTyped`, `CronsDoItOnce` (`CronsActOnce`) and
`TabIsOfOneLogin` (`SessionIsOfOneLogin`), for the composition `TabsSpec`.  Crons:
how often a mail went out, or a batch was applied, plus the runs that may still do
it, is at most the number of runs that began (`Counted`, which gives the types);
while nothing overlapped or broke off, one run at most is under way, and its
place and the row together tell what went out (`MailedOnce`, `AppliedOnce`).  A
tab: at every moment, not only once it has loaded, the storage is the context and
every request of the session carries its token (`OneLogin`), also in the step in
which a 401 ends the session and its handler goes on.

Assumptions on constants that these proofs use say that a placeholder is no
member of the set it stands beside (`Absent`, `NoRow`, `NoEdge`, `NoNode`,
`Gone`, `Deleted`, `NoUser`, `Idling`, ...), that sets of slots and rows are
finite, that bounds are naturals, and, for imports, that a document is a sequence
of tools and the rows it starts from have unique names, as the index of the table
demands.  TLC evaluates all of them in the runs.

The proofs speak of the components' own specifications (`RegistrySpec`,
`OAuthSpec`, ...) or of the composition the run checks (`AccountsSpec`,
`RunSpec`, `CatalogRunSpec`); in a run of several parts each part's behaviours
are those of its specification.

**Model-checked only.**  `EventuallyServed` and `EveryCallEnds` are liveness
under fairness, which is out of the prover's reach.  Every other property of a
passing run is a theorem, for every value of the constants that its assumptions
admit.

## 6. Plan

1. The guards of the MCP endpoint (`mcp-auth.middleware.ts`,
   `mcp-combined-auth.guard.ts`) as operators compared over all modes and
   credentials; the wizard that makes a connector
   (`frontend/app/connectors/new`); the round trip of the tool editor.

## 7. Abstractions within the modelled parts

OAuth2: the grant `client_credentials` has no refresh token to lose. Sessions:
the messages of the transport, and stateless requests (one request, one server
object, nothing shared). The least recently active session is evicted; the model
lets any live session be that one. The index by name is a set. The tables of
pending OAuth flows and of discovery are not modelled. Roles: a role is what it
allows; system roles are not told apart. Knowledge graph: what an extraction or
a model makes of its input is any value. Workspaces: VIEWER and EDITOR are one
role. Licensing: the portal and the community request. Workspaces: the look-ups
of all who move when an organization is deleted are one step. ServerPage: the
two requests of its first load are answered at one moment. OAuthServer: the
endpoints are those of `@rekog/mcp-nest`, known from how the store is called;
refresh tokens are made and checked there without a row. Pages: layout, messages,
and fields that no property tells apart.

## 8. Not modelled

* **Conversions**: the parsers of OpenAPI, Postman, cURL, GraphQL and WSDL,
  building requests, SQL and SOAP envelopes, mapping responses, JSON schemas,
  instructions, mails.  They are functions of one document, deterministic and
  without shared state; their tests state them better than a model that would
  have to repeat them line by line.
* **Single row operations**: settings, categories, exports, reports, search.
* **Pages** that only list or submit (dashboard, settings, categories, logs, the
  marketing pages) and the layout of the modelled ones, which is most of the
  frontend's lines: they have no state that a second actor could disturb.
* **Adapter catalog**: JSON data.
* **Deployment scripts and documentation**: no program state.

These make up most of the repository's lines, which is why the map covers a
sixth of them: the files with the handlers, services and effects that keep state
over an await are covered, the text around them is not.

## 9. Running

```
tlc -workers 2 -config MCServices.cfg MCServices
tlc -workers 2 -config MCMcpSessions.cfg MCMcpSessions
tlc -workers 2 -config MCTokensAndTabs.cfg MCTokensAndTabs
tlc -workers 2 -config MCToolCalls.cfg MCToolCalls
tlc -workers 2 -config MCCatalog.cfg MCCatalog
tlc -workers 2 -config MCAccounts.cfg MCAccounts
tlc -workers 2 -config MCToolRegistryOverlap.cfg MCToolRegistry
tlc -workers 2 -config MCMcpSessionsRace.cfg MCMcpSessions
tlc -workers 2 -config MCOAuth2TokenReauthorize.cfg MCOAuth2Token
tlc -workers 2 -config MCCatalogInstructions.cfg MCCatalog
tlc -workers 2 -config MCBrowserSessionWelcome.cfg MCBrowserSession
tlc -workers 2 -config KgSkillsWipe.cfg KgSkills
tlapm ToolRegistryProofs.tla
tlapm McpSessionsProofs.tla
tlapm OAuth2TokenProofs.tla
tlapm AccountsProofs.tla
tlapm CallsProofs.tla
tlapm CatalogProofs.tla
tlapm ServicesProofs.tla
tlapm TabsProofs.tla
```

`AccountsProofs`, `CallsProofs`, `CatalogProofs` and `TabsProofs` take four to
nine minutes each.
