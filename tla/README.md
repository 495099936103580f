# A verification of mcp-weather

mcp-weather is a Go service. AI agents call its weather tools over MCP with a
bearer token, every call is kept in an audit log, and humans who sign in
through Keycloak read that log and administer the agents' tokens. This directory
holds TLA+ modules of that service, TLC configurations that check them on small
instances, and proofs that TLAPS checks for every instance. `PROJECT.json` lists
the runs, the lines of the source each definition stands for, the hazards of the
code and the properties that cover them.

    tlc -workers 2 -config MCAgentTokens.cfg MCAgentTokens.tla
    tlapm AgentTokensProofs.tla

Each module has an instance `MC...` with its `.cfg`, and `...Proofs` hold its theorems.

## 1. Inventory

### Components, their state and their operations

| component (source) | state | operations |
|---|---|---|
| agent tokens (`internal/auth`, `internal/storage/actor_repo.go`, `internal/restapi/agents.go`) | tables `actors`, `agent_credentials` | create agent, issue token, revoke one, revoke all ("delete actor"), authenticate, detached update of `last_used_at`, listings |
| recorder (`internal/mcpserver`) | table `tool_calls` | wrap a tool: run it, insert one row, answer |
| weather tools (`internal/tools/weather`, `internal/httpclient`) | none | geocode, current weather, forecast, with retries and one time budget |
| human provisioning (`internal/storage/human_repo.go`, `internal/humanauth/middleware.go`) | tables `actors`, `user_identities` | get or create the actor of a signed-in human, on every request |
| browser sessions (`internal/humanauth/oidc_*.go`) | table `sessions`, two cookies | login, callback, logout, authenticate with cached claims or a refresh |
| history (`internal/storage/history_repo.go`, `internal/restapi/history.go`) | table `tool_calls` | record, list a page, get one, distinct tools |
| lifecycle (`cmd/weather/main.go`) | the current handler, the HTTP server | serve a placeholder, open the database, swap the handler, shut down |
| roles and routes of the REST API (`internal/restapi/router.go`, `me.go`, `internal/humanauth/middleware.go`) | the role in a request's context | authenticate, provision, admit or forbid |
| refresh token encryption (`internal/humanauth/crypto.go`) | none: the key is the process's | seal, open |
| health, storage set-up, stub provider | none of their own | |
| web UI (`web/src`) | the list on the screen, its names, a cursor, filters | load, load more, filter; manage agents |

### How they interact

`/mcp` passes `RequireBearer`, which reads two tables and starts a goroutine that
writes one column; the actor it found travels in the request's context to the
recorder, which writes `tool_calls` before the answer leaves. `/api` passes
`RequireHumanAuth`: a session row, perhaps a round trip to Keycloak, then
`GetOrCreateHumanActor`; administrators then write `actors` and
`agent_credentials`, everybody reads `tool_calls`. `actors` is shared: agents and
humans have unique names in one table and a token is issued for any actor id. No
component calls another asynchronously, no table has a foreign key: what
they share is the database, and what makes them hard is that each request is
several statements, most of them outside a transaction.

### What is hard, and what makes each component correct

* *Tokens.* Revocation against requests in flight and against the detached
  update. Correct: a request that comes after a revocation is refused, an admitted
  one acts as the owner of its token, a revocation is never undone.
* *Recorder.* Outage, disconnect, crash and deletion between tool, row and answer.
  Correct: one row for each call, attributable, append-only, and a database that
  fails never holds an answer back.
* *Provisioning.* Concurrent first logins, shared names, renames, a failure between
  two INSERTs. Correct: a subject is one actor, a human has exactly one identity,
  an agent never becomes a human.
* *Sessions.* Overlapping refreshes, rotation of refresh tokens, logout during a
  refresh, lost answers, a changed key. Correct: nobody is served on claims nobody
  vouches for, the stored token is the one Keycloak accepts, a logout is final.
* *Roles.* The role a request acts with was asserted at some exchange, cached in a row
  that overlapping refreshes replace, and written to a table by whoever comes last.
  Correct: a change in Keycloak takes effect with the next exchange.
* *History.* Rows appear out of the order of their times while a client pages, and
  in the browser the answers to several requests come in any order.
  Correct: the pages, and what the page shows, make one ordered list.
* *Data.* Days out of range, arrays of different lengths, a text cut inside a character.
  Correct: each row holds its own day's values, the preview is the longest that fits.
* *Lifecycle and outbound HTTP.* Requests before the service is ready, a shutdown
  shorter than a tool call, retries inside one time budget.

## 2. The modules

One action is one SQL statement, one exchange with Keycloak or one local step
between two of them; statements of different requests interleave freely. Every
SQL statement is atomic, and a transaction's writes appear at its commit: that is
assumed of the database. GORM, Keycloak, the clients and the clock are external
and modelled from how the source uses them.

**AgentTokens** - `kind` is the table `actors`; `owner`, `revokedAt`, `lastUsed`
are the columns of `agent_credentials`; a token is named by its credential (32
random bytes against a SHA-256). `auth[r]` is where request `r` stands in
`RequireBearer`/`Authenticate`: `lookup` before the query of the credential,
`load` before the query of the actor. `touch[r]` is its goroutine, which takes
the time (`TouchStamp`) and then commits it (`TouchCommit`); it outlives the
request. `late[r]` is history: the token had been revoked when `r` arrived.
Statements that fail while they write nothing (creating an agent with a blank or
taken name, a failed issue or revocation) are stuttering steps.

**BearerGate** - the abstract specification of AgentTokens: which tokens are live, which
requests were vouched for while their token was, who is in. Its `Vouch` is the query of
the credential, its `Admit` the query of the actor; clock, columns, goroutines and crashes
are gone. AgentTokens states the mapping (`ImplementsGate`).

**ToolCalls** - instantiates AgentTokens and follows an admitted request through
the tool, the INSERT of `Recorder.record` and the answer; `dbUp`, `client` and
crashes interrupt it at every point. It has one row format: actor, request, error
or not. An INSERT that reports an error may have been carried out (`Record`).
That the context a tool gets is the one `RequireBearer` made for that very
request is an assumption about the MCP library: `recorder.go:55` relies on it, nothing
in the repository shows it.

**AuditLog** - the abstract specification of ToolCalls: a log and the calls that are
closed, answered or dead. Its `Write` adds the row of a call that is neither logged nor
closed, its `Close` ends calls. ToolCalls states the mapping (`ImplementsLog`): a call is
closed when its answer leaves, so that an answer never overtakes its row.

**HumanActors** - `GetOrCreateHumanActor`, one action per statement: the lookup, the
update of the role, the upsert of the actor, the reload, the insert of the identity,
the commit, the read after it. `wrote[p]` is what the open transaction did to
`actors`; a statement that meets another transaction's uncommitted unique key waits
(`NameHeld`, `SubjectHeld`). The reload restricts by `actor.ID` too, since GORM
adds the primary key of a non-zero model to `First`: this is why
`ReloadMiss` exists.

**HumanSessions** - `session[n]` is the row of the session that login `n` made.
A request copies the row (`ReadExpired`), asks Keycloak (`Exchange...`), then
saves its copy (`Save`, which inserts when no row is left) or deletes
(`Drop`). Claims and tokens are named by the number of the exchange that
produced them. Keycloak either rotates refresh tokens or does not (`rotates`, fixed
in a behaviour). A failed exchange may have been carried out. A stored token is sealed
under the key of the process that wrote it (`Encrypted`), and a process with another
key cannot open it (`Decrypts`): of AES-GCM only this outcome is modelled. `hopeless[r]`
is history: when `r` began no claims of its session were left and none could come
(`NoneLeft`), because the grant was revoked, or because neither the row nor a copy of it
could still be used: gone, sealed under another key, or holding a token that an exchange
has replaced whose answer was lost or not saved.

**AdminAccess** - composes HumanSessions, whose sessions are all one human's here, with
the middleware and the routes. `present` is the role Keycloak's groups give and may change
at any time; `asserted[n][v]` is the role in the claims of exchange `v`; `role[r]` is what
`OIDCProvider.Authenticate` returned to request `r` (here `Authenticate`, but for the
`Exchange` with Keycloak), `stored` the column `user_identities.role`;
`stage[r]` is where `r` stands behind the provider. `RequireAdmin` looks at `role[r]`
alone. `settled[r]` is history: when `r` began only claims of the present role were cached
or on their way, and Keycloak has not changed its mind since.

**HistoryPages** - `ListToolCalls` with its order, cursor condition, filter and limit,
and `RecordToolCall` in two steps, since `called_at` is taken before the INSERT.
Ids are random strings; the model takes numbers and lets every assignment of times
to ids occur. A cursor always names a row, because no row is ever deleted and only
the service hands out cursors, so the unknown cursor's 400 is not modelled.

**HistoryView** - `History.jsx` over the handler of the list: `calls`, `actorMap`,
`nextCursor` and `loading` are its state, `requests` the fetches under way, each answered
with HistoryPages' own query (by INSTANCE) and its names. A changed filter cancels the
effect's request, not a further page under way, as in the source. `careless` is history:
the reader did one of the things that may mix up the list, and no first page has
mended it yet.

**WeatherCalls** - a tool call from its handler to Open-Meteo: geocoding, then the
weather, each an exchange with its own `client.Timeout` and up to `RetryMax`
retries (`resting` is the back-off between two attempts). Time is a `Tick` that
no running call's deadline lets pass. What was asked and what came back is left out.
It has no specification of its own.

**CallData** - the data that WeatherCalls leaves out: `Clamp` is the days asked for, `Assemble` turns
parallel arrays into rows with `SafeSlice`, `Encode` and `Strip` are `truncateUTF8` on
texts of characters of one to four bytes, U+FFFD among them, whose decoding looks like an
error. Of the five arrays of values two stand for all: a number and a code.

**Lifecycle** - `run` of `main.go` beside the goroutine that listens, composed
with WeatherCalls: `main` is where `run` stands, `handler` the pointer that is swapped,
`waited` the time `srv.Shutdown` has used. Every path out of `run` is an `Exit` with
the status the process returns, under which running calls are cut. A call arrives
while the listener listens and is turned away by the placeholder or begins.
An MCP event stream may keep a connection active for as long as it likes.

Each module defines operators named `Faulty_...`: slips the code could have made,
which no behaviour of the module takes. They show of each property that a faulty
program would violate it.

## 3. What the runs check

| run | instance | states | shows |
|---|---|---|---|
| agent_tokens | 2 actors, 2 credentials, 2 requests, clock 0..1, symmetry | 394,764 | `TypeOK`, `NoLateAdmission`, `AdmittedAsOwner`, `NoFalseRefusal`, `LastUsedIsEarned`, `RevocationIsFinal`, `ImplementsGate` |
| tool_calls | 1 actor, 1 credential, 2 requests | 260,250 | `TypeOK`, `HistoryIsAttributable`, `HistoryIsAppendOnly`, `ImplementsLog`, `ReturnedCallsAreLogged`, `CallsAreAnswered`, `AuthenticationUnchanged` |
| human_actors | 3 calls, 1 agent, 2 subjects, 2 names | 320,719 | `TypeOK`, `SubjectsAreActors`, `ProvisioningIsAtomic`, `AgentsStayAgents`, `CallsEnd` |
| human_sessions | 1 session, 3 requests, 4 exchanges | 361,341 | `LogoutIsFinal`, `HopelessRequestsAreRefused`, `StoredTokenIsCurrent`, `ClaimsNeverGoBack` |
| admin_access | 1 session, 2 requests, 2 exchanges | 575,128 | `TypeOK`, `RoleChangesTakeEffect`, `SessionsUnchanged`, `RequestsAreAnswered` |
| history_pages | 4 calls, clock 0..1, page sizes 1, 2, 3 | 423,672 | `TypeOK`, `PagesAreOneList`, `NothingIsPassedOver`, `ReadersFinish` |
| history_view | 3 calls of 2 actors, page size 1, 2 filters, 4 requests | 225,517 | `ShownCallsAreOneList`, `EveryCallHasAName`, `LoadingEnds` |
| lifecycle | 2 calls, budget 2 ticks, grace 1 tick, 1 retry | 482,895 | `TypeOK`, `CallsAreBounded`, `CutOnlyAfterGrace`, `EverythingEnds` |
| call_data | days around 0, 7 and 16, arrays of up to 2, texts of up to 4 characters | 56,580 | `ForecastIsUpstreams`, `PreviewIsLongestPrefix` |

*Why the bounds are enough.* Every race in these modules is between two actors at a
time. Two requests give a last_used_at update of an earlier request beside a
later request; two credentials and actors let a statement hit the wrong row; two
clock values tell an early stamp from a late one. In ToolCalls a second
actor only adds what agent_tokens covers, and time stands still: no row of the log
depends on it. Three provisioning calls are a first login, its twin and a third that
meets both; the claims combine each subject with each name. A session's requests meet
only through its row and its token: three requests give two overlapping refreshes and a
request that sees their result, and as each request makes at most one exchange, four
exchanges are all there can be. In AdminAccess two requests and two exchanges (the login
and a refresh) give a request decided by new claims beside one that still carries the old
role; its safety is proved for all numbers. Four calls and
pages of one to three rows put ties, late rows and a full last page at every
position. In HistoryView pages of one call make every call a page of its own, and four
requests are a first page, a further one, another filter and its further page. The budget
of a call and the grace period of the shutdown stand as 2 to 1, as their defaults of 10 s
and 5 s do, and one retry is enough to tell a budget of the exchange from one of the
attempt. CallData has the real bounds on days; arrays of length 0 to 2 differ in every way
two arrays can; limits of 1 to 6 bytes cut a character of four bytes at each of its bytes.

*Fairness.* Only the program's own steps are fair: a goroutine that can run is
scheduled, a statement ends with a result or an error, a tool ends since its HTTP
client gives up at its timeout. Nothing is assumed of agents, browsers, administrators,
outages or crashes, nor of Keycloak: a refresh runs on `context.Background` with a client
that has no timeout (`oidc_handlers.go:47`), so that `Exchange` is not fair and a request may
wait for ever. `RequestsAreAnswered` says what holds all the same: every request gets as far as
Keycloak or to its end, every one that Keycloak has answered ends, and none waits for
another, of the same session or not. In
HistoryPages the client that has a cursor asks for the next page; since this
is an assumption about the client, `ReadersFinish` says that paging ends for those who
go on. In
HistoryView each request ends with an answer or is given up by the browser; that
`LoadingEnds` is about a reader who stops changing the filter is a consequence of the
bound on requests. In Lifecycle
`storage.Open` and `buildHandler` end and time passes; Open-Meteo need not answer,
and a client need not close its stream. CallData, BearerGate and AuditLog have no fairness.
Deadlock is not checked: requests, credentials and sessions are finite sets, so
every behaviour may come to a stop.

`CallsAreBounded` also says what the comments do not agree on: `httpclient.go:23` has the
timeout bound each attempt, `:41` the whole exchange and with it the life of a request
goroutine. The code bounds the exchange, and a call has two of them when its
place is given by name.

### Where code and documentation disagree

Three have a run that finds the counterexample.

* `SafeUnderConcurrentCalls`: of two concurrent first logins of one human the second may fail
  (`internal/storage/human_repo.go:10`). It leaves nothing behind, and the next request succeeds.
* `RolloutsCutNoCall`: the shutdown's 5 s are less than the 10 s of an exchange, of which a
  call may have two, so that a SIGTERM still cuts calls (`main.go:284`).
* `SessionsComeFromLogin`: a refresh under way at a logout inserts the session again
  (`models.go:27`, `oidc_provider.go:93`).

Four are seen in a single definition, and need no run:

* a token can be issued for a human's actor id (`auth.go:81`: admins see no such ids in the UI,
  the REST route takes any), and the log then holds a human's calls, although
  `internal/humanauth/provider.go:1` says that agents produce it;
* the display name of a human is never updated (`human_repo.go:10`, `:17`);
* a full last page has a cursor (`history_repo.go:41`);
* days of zero or less become 7, not 1 (`client.go:163`).

## 4. What is proved

Eight modules hold theorems, which between them state every invariant of the runs that pass
and every property of single steps. Each is for any sets of actors, requests, calls and so on, and
for any value of the bounds: the assumptions are the ones the modules declare (bounds
are natural numbers, days and limits integers, `Null` is none of the values it is told from), and TLC
evaluates them in the runs. `PROJECT.json` names the theorems.

| module | theorems about | rests on |
|---|---|---|
| AgentTokensProofs | `TypeOK`, `RevocationIsFinal`, `NoLateAdmission`, `AdmittedAsOwner`, `NoFalseRefusal`, `LastUsedIsEarned`, `ImplementsGate` | `Inv`; a step simulation |
| ToolCallsProofs | authentication kept, `TypeOK`, `HistoryIsAttributable`, `HistoryIsAppendOnly`, `ImplementsLog` | `Inv`, on top of AgentTokens'; a step simulation |
| HumanActorsProofs | `TypeOK`, `SubjectsAreActors`, `ProvisioningIsAtomic`, `AgentsStayAgents` | `IInv` |
| HumanSessionsProofs | `LogoutIsFinal`, `HopelessRequestsAreRefused`, `StoredTokenIsCurrent`, `ClaimsNeverGoBack` | `LogoutInv`, `KeyInv`, `HopelessInv`, `IInv` |
| AdminAccessProofs | `SessionsUnchanged`, `TypeOK`, `RoleChangesTakeEffect` | `AccessInv`, on top of HumanSessions' |
| HistoryPagesProofs | `TypeOK`, `PagesAreOneList`, `NothingIsPassedOver` | `Inv` |
| HistoryViewProofs | `ShownCallsAreOneList`, `EveryCallHasAName` | `IInv`, on top of the lemmas on pages |
| WeatherProofs, of Lifecycle | `TypeOK`, `CallsAreBounded`, `CutOnlyAfterGrace` | `IInv` |
| WeatherProofs, of CallData | `ForecastIsUpstreams`, `PreviewIsLongestPrefix` | `DataInv` |

*AgentTokens.* The properties are not inductive by themselves: that a late request is never
admitted needs that a request
which is late holds a credential whose revocation is stored and stays
(`LateInv`, with `RevocationIsFinal` step by step); that an admitted request acts as the owner
needs that whoever is past the lookup remembers the owner, which never changes
afterwards (`HolderInv`), and that tokens presented are issued ones (`TokenInv`).

*The gate.* Every step maps to a step of BearerGate or to none: the lookup to
`Vouch`, the load to `Admit`, deletion of an actor to a `Revoke` of all its live tokens, a
crash to a `Refuse` of all who wait. It needs that only issued credentials are revoked. As BearerGate
has no fairness, this is the whole refinement.

*ToolCalls.* Its steps are steps of AgentTokens or leave it alone, so that `Inv` of
AgentTokensProofs, reached by INSTANCE, holds in the composition. A row of the log needs in addition
that a call has a row only once its tool is noted, with the outcome of that tool (`RowInv`), and
that calls belong to admitted requests (`CallInv`). The same invariant maps its steps to those of
AuditLog: an INSERT that is carried out is a `Write`, since its call is not answered yet and has no
row; an answer and a crash are a `Close`.

*HumanActors.* Subjects are actors because identities are unique by subject and by
actor (`IdentityInv`), which the writes of an open transaction must not break at their commit
(`CommitInv`); what a call has found belongs to its subject (`FoundInv`).

*HumanSessions.* A logout in peace leaves nobody waiting for Keycloak, and none can begin to, for
want of a row (`LogoutInv`). The stored token is current for a reason that involves all requests:
with rotation at most one request holds the answer of the latest exchange, and every other copy of
the row is older (`AloneInv`), so that whoever asks with an older copy is refused; and the row is
current, or somebody is about to save the token that is, or an answer was lost (`LatestInv`).
The answer a request has still to save is later than the row it had read (`ReplyInv`): this is what is
left of `ClaimsNeverGoBack` without rotation, where a refresh that was overtaken may put its answer
over a newer one. Where no claims are left none come (`HopelessInv`), because no exchange succeeds, so that
the token Keycloak accepts stays the one nobody has, and a key that was replaced does not come
back (`KeyInv`).

*AdminAccess.* While Keycloak does not change its mind, every exchange asserts the present role
under a new number, and numbers of fresh rows and of answers under way are never given again; so
a settled request finds no other role (`SettledInv`). Its sessions are those of HumanSessions by
`SessionsKept`, whose invariant is reused.

*Lifecycle.* `CallsAreBounded` is a product and not inductive: `CallInv` says it exchange by
exchange, with the ticks and attempts of the present one, and that a resting call has a
retry left. `CutOnlyAfterGrace` needs that no call runs while the placeholder is served and that a
start is only abandoned behind it (`StartInv`).

*HistoryPages.* What a page holds comes first. That a finite set of calls can be listed from the
newest to the oldest looks like an induction over sets, which the provers cannot do; instead
the place of a call is the number of calls newer than it, and counting does the rest: ranks of
different calls differ (`RankGrows`), there are as many as calls, so each position is the rank
of exactly one (`RankIsAPosition`), and `InOrder` lists them (`OrderedRows`). A page is then a prefix
of what lies behind the cursor (`PageIsNewest`). The properties need, besides types, that what was read
was in the table and that the cursor is the last of it (`ReadInv`).

*HistoryView.* An answer holds a page of its own query (`AnswerInv`); at most one first page that
will still be shown is under way, and it is of the present filter (`FirstInv`); unless the reader was
careless, so is at most one further page, which goes on from the present cursor (`MoreInv`). The lemmas on pages come from HistoryPagesProofs by INSTANCE,
with the whole set of calls that pass as the table.

*CallData.* Two arguments. Rows: `SafeSlice` gives day `i` of an array or zero, so that the shape of a
reply (`ReplyInv`) is all that is needed. The preview: `Bytes` is defined by recursion over the
characters of a text; that such a function exists (`Flattened`) and where it puts the bytes of each
character (`BytesLayout`) follow from the least counterexample, `LeastElement`, as a set of numbers
can be an argument where a predicate cannot. While bytes are stripped, what is left ends within
the first character that does not fit or just before it (`CutInv`); bytes that end within a character
decode as a broken rune, and those that end with one do not, U+FFFD included (`LastRune`). So
stripping stops at the end of a character and not before. The module calls its specification
`DataSpec`, so that WeatherProofs can extend it beside Lifecycle.

*Only model-checked.* Liveness, which TLAPS does not do under fairness: `ReturnedCallsAreLogged`,
`CallsAreAnswered`, `CallsEnd`, `ReadersFinish`, `RequestsAreAnswered`, `EverythingEnds`,
`LoadingEnds`, and of `AuthenticationUnchanged` the fairness; its safety part is `AuthenticationKept`.

## 5. What is not modelled

The listings and `GetToolCall`, `DistinctTools`, which read and store nothing; the agents page of
the web UI, which shows what it reads last; the error message of the history page; the formatting
of inputs and outputs, and of `get_current_weather`, which copies one record.
What a human's id_token is checked for (issuer, signature, nonce) is the library's: it is right or
the callback fails. Health probes and the stub provider have no state; flags are checked before
anything runs; storage set-up runs once, before anything is served, as one action of Lifecycle.
Redirects that `net/http` follows inside an attempt are not counted by `CallsAreBounded`; an
encryption key that was replaced does not come back in HumanSessions.
ToolCalls and Lifecycle are not composed: a cut of Lifecycle is a crash of ToolCalls. The MCP
protocol is the library's. SQLite may refuse to upgrade a reading transaction
that another has overtaken (BUSY_SNAPSHOT): in HumanActors it is one of the
reasons for `DatabaseError`. Provisioning is one action of AdminAccess, and statement by statement
in HumanActors only.

## 6. Plan

Order: what everything else rests on first.

1. AgentTokens, BearerGate, with their proofs (done): the gate before every tool call.
2. ToolCalls, with its proofs (done): the audit log, composed with 1.
3. HumanActors, HumanSessions, AdminAccess, with their proofs (done): who may read and administer.
4. HistoryPages, HistoryView, with their proofs (done): what is read, and what is shown of it.
5. WeatherCalls, Lifecycle, with their proofs (done): what bounds a call, and what cuts it.
6. CallData, with its proofs (done): what a call says.
7. AuditLog, the abstract specification of ToolCalls, with its proof (done).
8. Open: the agents page.
