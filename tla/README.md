# A TLA+ model of docker-ai-proxy

docker-ai-proxy (the `ai-hub` binary) is a gateway: clients call `/v1/*` with a
bearer token in the OpenAI, Anthropic or Gemini protocol, and the gateway picks
a provider, translates, forwards, streams the answer back and logs the call.
A dashboard edits its configuration and its accounts.  The modules here model
the parts of it that keep state or order, TLC checks them on small instances,
and TLAPS proves for every instance all that is not about liveness.

Paths below are relative to `src/`.

## 1. Inventory

| Part | State | Operations | Meets |
| --- | --- | --- | --- |
| Client gate, `internal/server/server.go` (`requireAccessToken`, `enforceClientPolicy`, `tryAcquireClient`) | `activeClients`, a counter per client name under a mutex | authenticate, daily count, minute count, take a slot, serve, log, give the slot back | configuration (a snapshot per request), call log (two counts, one insert), proxy handlers |
| Proxy handlers, `internal/proxy/proxy.go` | the call record of the request | route, build the upstream request, forward, `ServeModels` | configuration, key rotation, response streams, call log |
| Key rotation, `internal/providers/keys.go` | a map of cursors under an RW lock; each cursor an atomic word | `Pick` | every proxy handler at once |
| Configuration store, `internal/config/config.go` | `current` in memory under a lock; the file, under nothing | `load`, `Reload`, three `Save*`, three `Replace*` | dashboard handlers; read by all |
| Accounts and sessions, `internal/server/auth.go`, `internal/store/user.go` | the tables `users` and `bootstrap_state`; signed cookies; a session secret | register, bootstrap the first administrator, log in, verify | configuration (the secret), the database pool |
| Response streams, `internal/proxy/stream.go`, `usage.go` | the `streamEmitter`, the wire, the call record with its tokens | scan, translate, emit, close, add up usage; copy verbatim | upstream, client, `withRecover` |
| Protocol translation, `internal/protocol`, `internal/proxy/translate.go` | none of its own: each request brings the whole conversation | route, decode a request to a common form, encode it for the upstream, and an answer back | proxy handlers; the client's history, which holds the answers of earlier providers |
| Call log, `internal/store/store.go`, `dialect.go` | the table `calls` | `LogCall`, `CountClientCallsSince`, `ApplyRetention`, `Summarize`, `RecentCalls` | gate, dashboard, retention job |
| Process, `cmd/ai-hub/main.go` | the retention goroutine, the HTTP server | start, drain on a signal, close | everything |
| Dashboard, `internal/server/web` | in the browser | a client of `/api/*` | not modelled |

What is hard in it:

* **Check, then act.** A quota is checked against the log, and the row that
  counts is written when the call ends, possibly minutes later.  A listing is
  filtered by a second snapshot of the configuration.
* **Edits under way.** A limit, a client, a key list, the session secret change
  while requests that saw the old ones are in flight.
* **No lock on the file.** A save is a read, a merge, a truncation, a write and
  two installs in memory.
* **Crashes.** Counters and a made-up secret are lost, rows and files stay;
  a file may be left empty or torn, a transaction rolls back.
* **Two bootstraps.** The table is counted before the password is hashed, and
  again in a transaction; what decides is the unique key of a sentinel row.
* **Conversations.** Every request of a conversation is routed anew and may go
  to a provider of another protocol; ids, roles and results are then read by one
  protocol that another has written.
* **Streams.** The end of a stream, its finish reason and its usage come in
  different orders in three protocols; an upstream, a write or the handler may
  fail between any two frames.

`PROJECT.json` lists each hazard at its line with the property that covers it.

What makes each part correct, in a sentence: a slot is taken and given back
exactly once and never beyond a limit; a quota is exceeded by no more than the
requests that raced through its check; keys are handed out in turn whatever the
race; a save that was acknowledged is not lost; one administrator founds the
database, and everyone else is vouched for; a provider is told what was said,
called and answered in a conversation, and the client what the provider
answered; a stream is well formed, closed once and complete, and the log has its
tokens and whether a read or a write of it failed.

## 2. Modules

| Module | Models | Abstract specification it implements |
| --- | --- | --- |
| `ClientGate` | gate, handler, call log, retention, reload, clock, kill | `SlotPool` |
| `KeyPicker` | `KeyPicker.Pick` and `cursorFor` | `RoundRobin` |
| `ConfigStore` | file and memory of the configuration | |
| `Accounts` | registration, bootstrap, sessions | `Registry` |
| `Protocols` | the decoders and encoders of the three protocols, as operators | |
| `Conversation` | `Protocols` in use: a client's history, routing, requests and answers | |
| `ResponseStream` | one streamed answer, its token usage, and `withRecover` | |
| `Lifecycle` | start, retention job, drain, close and exit, with handlers in flight | |
| `CallSummary` | `Summarize` and `summarySeries` over a log in use | |
| `MC*` | instances for TLC | |
| `*_proofs` | theorems and proofs of the module they extend | |

**ClientGate.** A handler is a goroutine of `/v1/*`; `pc` names the place in
`requireAccessToken` and in the wrapped handler, and each action is the code
between two accesses to shared state, with its early returns as actions of
their own (`DailyRefused`, `RPMRefused`, `AcquireRefused`, `RouteRefused`,
`LogCallFails`).  `activeClients` is the map of the source, `calls` the rows of
the log per client and tick, `client`, `want` and `ts` the locals a request
carries.  `Install` is any change of the configuration, `ApplyRetention`
removes rows, `Crash` forgets the memory and keeps the rows.  `WaitsForClient`
names the places where a handler may wait for its client for ever: the server
limits the time of a request's headers and of nothing else.  The clock does
not step back.  A panic of a handler takes the way of a failed log: the
deferred release still runs.

**SlotPool** says what `concurrent_limit` promises without a counter: a set of
held slots, a slot taken only while fewer than the limit are held for its name.

**KeyPicker** splits `cursorFor` at its two locks, so that several requests miss
the first lookup together.  Cursors live at pointers on a heap: the map and a
request may hold different ones, which is what the second lookup prevents.  The
word wraps at `WordSize`, as `uint64` does.  **RoundRobin** is one turn counter
per provider.

**ConfigStore** steps through a save: read and merge, truncate, write (or fail
at either), install, replace in the handler.  `Reload` reads, then installs.
The file is a content, absent, empty or torn; `WriteFails` and `Crash` may leave
any of what a write goes through, the whole content included.  History variables
say whether operations have overlapped, since the code keeps its promises only
for operations that have not; a failing write or a kill is no overlap.  `unsure`
are the values of saves that were cut short, of which nobody was told, and
`whole` is the file before it was last truncated.

**Accounts** steps through `handleRegister` query by query.  `single` is chosen
initially: a pool of one connection (SQLite) shuts everyone else out while a
transaction is open; a larger pool (MySQL, PostgreSQL) lets transactions
overlap, and the second insert of the sentinel waits for the end of the first.
Cookies are records of name, role and secret.  The history variable `sponsor`
remembers who opened an account.  **Registry** is the promise: found once, then
enrol with a voucher.

**Protocols** translates one turn, choice of tools or finish reason at a time,
through the common form (`Message`) as the source does, with its roles, its two
places for calls and its tables.  Text is a sequence of lines; a call has a
number, and a result the number of the call it answers.  An id is known by who
made it: an upstream, or the gateway out of a function's name (`CallPrefix`),
which `StripCallPrefix` takes apart again.  An attachment is known by how it is
held (`CanAttach`): the decoders drop what they have no case for, and the
encoders may leave remains, a document as an image part and audio without data
(`Remains`).  A finish reason that no table has is passed on.  A turn that comes to nothing, sent
to Anthropic with an empty text and to Gemini not at all, is an empty turn here.

**Conversation** is a client, its history in its own protocol, and requests that
carry all of it.  `Forward` routes by `ProviderForModel` (a provider's name
before a slash, else the first that lists the model), takes the protocol from
`ProviderKindOf` (name first, then host) and what is needed of the keys from
`CanBuild` (name alone), and translates every turn; `Answer` translates what
comes back, whole or as a stream, and the client appends it.  `Install` changes
the providers at any time, `Failed` is any error of an upstream, after which the
client may send the request again.  `Refused` is a request that cannot be routed
or read: one of Anthropic's with a plain string for a content is an error.  An
upstream may end for a reason that the gateway does not know (`Untabled`), and
Gemini's may leave out the role.  Clients and upstreams are not in `src/`:
they keep to their own protocols, and a client answers each call.

**ResponseStream** follows one answer.  An upstream event is the delta
`parseStreamDelta` makes of it (a numbered text, a finish, a usage, the end);
`AnthropicFrames`, `OpenAIFrames` and `GeminiFrames` are the emitters;
`Delivered` writes frames one by one up to a write that fails, after which none
succeeds.  `orderly` says that the upstream keeps to its own protocol
(`InOrder`); without it any delta may come at any time.  A usage report counts
one token for the prompt and one for each text, and Gemini's total also hidden
thoughts, which grow; when and how often it comes depends on the protocol, and
`ApplyTokenUsage` makes the record of it.  An error event is a delta that
carries nothing.

**Lifecycle** follows the main goroutine from `ListenAndServe` to the exit, and
`startRetentionJob` beside it.  A handler is where it stands when the process
goes down: upstream, or about to log.  `DrainExpires` is the deadline of
`httpSrv.Shutdown`: handlers still run, the database closes under them, and the
process may exit before they end.  `ListenFails` is an error of `ListenAndServe`,
before or after it has served: the process exits at once, without a drain.  The
history variable `late` counts the handlers that were in flight.

**CallSummary** takes the three queries of a summary one by one, with rows
logged and deleted between them.  A call is stamped when it begins, so that it
may be logged into the past of a summary.  `Bucket` is the integer division of
the source with its two clamps.  Calls and errors stand for the tokens and
latencies, which are sums of the same shape.

Definitions that begin with `Mutant` are plausible slips in the definition they
stand before.  No action uses them.  `PROJECT.json` pairs each property with one:
put in the place of the correct definition, it makes TLC find that property
violated, so that no property holds for lack of anything to break it.

## 3. Runs

Checked with `tlc -config <run>.cfg <module>`; with two workers `conversation`
and `gate_slots` take two to three minutes, the others less than one.

| Run | Shows |
| --- | --- |
| `gate_slots` | `SlotAccounting`: each counter is the number of requests holding a slot. `ConcurrentLimitHolds`: of the requests let in under a limit of k or less, at most k run at once. `ImplementsPool`. `EveryRequestReturns`: a request whose own client goes on sending and reading is answered, also while others stall and hold their slots. |
| `gate_quota` | `DailyOvershootBounded`, `RPMOvershootBounded`: a client exceeds a quota by at most its own concurrency less one; one request at a time keeps it exactly. `ListingFiltered`: a settled client sees its models only. |
| `key_picker` | `OneCursorPerProvider`, `EvenRotation`, `ImplementsRoundRobin`. |
| `config_store` | With failing writes and a kill at any step: `AckedSavesDurable`: while saves do not overlap, a field is lost only with the whole file, to a save cut short, and what cannot be read is not saved over. `MemoryMatchesFile`: while nothing overlaps, the memory follows the file, or the last one that could be read. |
| `config_lost_update` | Violated: a save acknowledged while another was under way may not be in the file. |
| `accounts` | `OneFounder`, `SentinelMeansAdmin`, `SessionsMatchAccounts`, `ImplementsRegistry`. |
| `conversation` | `TypeOK`: a client is told a reason of its protocol, or what no table has as it came. `TextsReach`, `CallsReach`: a provider is told every text, call and result of the history, but for named cases, and every attachment but those in `Mislaid`. `ResultsCorrelate`: a result is taken as the answer to its own call, by Gemini unless another provider minted the id. `ChoiceKept`: the model is permitted what the client permits. `AnswerKept`: the client is given what was answered. |
| `conversation_claim` | Violated: converters find results whatever the role of their turn, the comment in `DecodeAnthropicChat`. |
| `stream` | `AnthropicWellFormed`, `ClosedOnce`, `AlwaysClosed`, `TextKept`, `RecordTells` (errors and tokens; of a growing total, the first guess), `UsageTold`. |
| `lifecycle` | `LossBounded`: a call is lost only by a handler that outlived the drain, or was in flight when the listener broke, each at most one. `RetentionBeforeClose`, `ShutdownCompletes`. |
| `call_summary` | `PartsAgree`: the parts of a summary differ by no more than what was logged and deleted while it was made. `PointsTile`: each call is counted once, where the chart shows it. |
| `stream_recover_claim` | Violated: "only write a response if the inner handler hasn't already started one", the comment in `withRecover`. |

Bounds, and why they are enough:

* `gate_slots`: two handlers, a limit of one that is raised to two, lifted and
  set again, and a configuration in which the client's token is a legacy one.
  Two handlers are one more than the limit, so that it can be exceeded, and
  can hold slots taken under different limits; three requests and one kill let
  a handler be used again after an edit or a restart.  No symmetry, since one
  property is temporal.  For more handlers and other limits there is the proof.
* `gate_quota`: two handlers and a quota of two: two requests pass the check
  together, a third and fourth meet the full quota; five ticks span two
  midnights of a three-tick day, with retention of one day.
* `key_picker`: three callers, since the race needs one to create, one to come
  late and one to arrive afterwards; a word of four values and eight picks wrap
  it; one provider has two keys, the other two or three.
* `config_store`: two administrators, three operations, one kill: a save, one
  that overlaps it or follows, and one to see the outcome.
* `accounts`: two handlers, two names, four requests, one kill: two racing
  founders, a login, and an enrolment by the winner.
* `conversation`: three questions or replies and three calls, so that a history
  holds answers of three providers; answers that call nothing, one function, one
  function twice, or two; two configurations, with providers of every protocol
  by name and by host, one disabled and one without keys; a question without
  attachments or with one of every kind its protocol knows, since they are
  translated one by one; every finish reason of the tables and five besides.
* `stream`: five events are a text, a second one, a finish, a usage and an end.
  All nine pairs of protocols, orderly and not; up to two hidden tokens, so that
  they can grow after a guess was made from one.
* `lifecycle`: three handlers, so that one may end in the drain, one be logging
  and one upstream when it expires; four requests, so that one is used again;
  two ticks, one before the signal and one that races it.
* `call_summary`: a window of three ticks in two points, so that the division
  leaves a remainder; three calls, one for each gap between queries; retention
  of one tick, shorter than the window, so that deletions fall inside it.

`CHECK_DEADLOCK FALSE` stands only where a bounded run stops by itself: all
requests used up, or the one stream over.  The gate never stops (an
administrator can always install a configuration), and its runs check deadlock.

**Fairness.** `gate_slots` assumes weak fairness of each handler's steps at the
places where it does not wait for its client.  The Go scheduler runs every
goroutine that can run; the database calls of a handler return.  Where it reads
the body or writes the answer nothing is assumed: there is no deadline
(`main.go:60-64`), and a client that stalls holds its slot for ever.
`EveryRequestReturns` assumes of the one handler it speaks of that its own client
goes on or hangs up (`ClientGoesOn`); the wait for the upstream, in between, ends
at the provider's timeout, through the context of `proxy.go:160`.  Arrivals,
edits, the clock and the kill are not fair.  `lifecycle` assumes weak fairness of the
main goroutine after the signal and of a retention query (bounded by 30 s and by
the cancelled context, `main.go:92`), and strong fairness of the retention
goroutine's return: the tick, a day apart, and the cancellation are cases of one
`select`, which picks among the ready ones at random.  Nothing is assumed of the
handlers there.  No other run is temporal but for refinement and action
properties.

## 4. Disagreements found

* Two saves at once lose one of them from the file (`config.go:460`).
* `withRecover` is the outermost wrapper, so that the check for a started
  response never succeeds (`server.go:546`).
* An OpenAI upstream is never sent the tool results of an Anthropic client,
  which come in user turns (`openai.go:335`, against `anthropic.go:171`).

Met on the way and not claimed by a run:

* `daily_limit` counts logged calls, so that requests which overlap exceed it
  (`server.go:366`); `DailyOvershootBounded` says by how many.
* The listing of a client that an administrator disables, removes or renames
  between the gate and `ServeModels` is not filtered (`proxy.go:802`).
* Every failure of the sentinel insert is answered as "initial admin already
  exists" (`store.go:236`).
* A stream between protocols leaves out tool calls, from Anthropic to Anthropic
  too (`stream.go:164-273`); the finish may still say that there are some.
* Two calls of one function by Gemini share an id (`gemini.go:335`); an id
  minted elsewhere gives Gemini a name no function has (`gemini.go:549`).
* Attachments are lost on the way: documents, but from OpenAI to OpenAI and from
  Gemini, which sends other providers an image part in their place
  (`anthropic.go:127`, `gemini.go:315-333`); images in a result of Anthropic's
  (`anthropic.go:458`); audio to Anthropic; and audio in a file, which OpenAI is
  sent without data (`openai.go:580-588`).
* A content that is a plain string, which Anthropic's protocol allows, is
  answered 400 (`anthropic.go:28`, `86-90`).
* A candidate of Gemini without a role becomes a turn of the user, and OpenAI
  clients are told so (`gemini.go:302`, `openai.go:444`).
* A finish reason in no table is passed on to clients whose protocol does not
  have it (`openai.go:656`, `anthropic.go:508`, `gemini.go:512`).
* Gemini's `STOP` with calls is told to other clients as an ordinary stop
  (`gemini.go:502`); `content_filter` reaches Anthropic clients
  (`anthropic.go:513`) and, by a stream, `TOOL_CALLS` Gemini clients
  (`stream.go:505`), which are no reasons of those protocols.
* Of several results in a Gemini client's turn, OpenAI is sent the first, and
  no text beside it (`openai.go:335`).
* The protocol of a provider goes by name or host (`translate.go:42`), its
  authentication header by name alone (`proxy.go:825`).
* An `error` event in an Anthropic stream is dropped, and the stream closed as
  if complete (`stream.go:199`).
* Output tokens guessed from Gemini's total are not corrected when only the total
  grows (`usage.go:53-62`).
* A client that stalls in its body or does not read its answer holds its handler
  and its slot for ever (`main.go:60-64`, `server.go:418`, `proxy.go:79`, `703`).
* A save that fails in `os.WriteFile` may have emptied the file, torn it or
  written it whole: the memory has the old value in every case
  (`config.go:412`).
* The usage of an OpenAI stream copied to an OpenAI client is not recorded
  (`proxy.go:690`); of a translated one, an Anthropic client is told only if it
  comes with the finish (`stream.go:372`); and the prompt's tokens that
  Anthropic reports in `message_start` are not read (`stream.go:225`).

## 5. Proofs

`tlapm <module>.tla`.  Assumptions are the `ASSUME`s of the modules: what markers
are distinct, what bounds are natural numbers, that the set of handlers is
finite, that `WordSize` and key counts are positive.

Every safety invariant and every refinement that a passing run checks is a
theorem, for every value of the constants, the bounds among them: any number of
handlers, clients, keys, events and calls, and any configurations.

* **ClientGate_proofs.** `TypeCorrect`, `SlotsCounted`, `ConcurrencyLimited`,
  `GateImplementsPool`.  The inductive invariant joins the type, the finiteness
  of the held slots, `SlotAccounting`, `ConcurrentLimitHolds`, and that every
  attached client has a limit some configuration gives it.  `SlotAccounting` is
  needed to know what a counter below the limit says of the held slots; the
  proof then counts a set before and after one element is added or removed.
  `ModelsFiltered`: a handler that is free has listed nothing (`Listed`), or the
  next client of the handler would answer for the last one's listing.
  `DailyLimitKept`, `RPMLimitKept`: rows that count and requests that may still
  add one are one sum (`QuotaInv`).  A step shrinks it or leaves it, as a kill,
  the clock, the retention job and every refusal do; or turns a request into its
  row; or lets a request past the check, which then has seen fewer rows than the
  limit and joins fewer than `peak` others.
* **KeyPicker_proofs.** `PickerTypeCorrect`, `CursorUnique`,
  `PickerImplementsRoundRobin`.  The invariant adds that busy callers have a
  provider and a key count, and that a cursor in use is allocated; then adding
  through a pointer is advancing one provider's turn.  `RotationEven`: the turn
  is the number of picks from the provider modulo the word, and every key was
  handed out equally often, those before the turn once more (`RoundInv`); the
  remainder by the number of keys survives the wrap because that number divides
  the word, or the word has not wrapped.
* **ConfigStore_proofs.** `StoreTypeCorrect`, `SerialSavesDurable`.  The
  invariant says, while saves have not overlapped, that there is one saver and
  what its buffer and the file hold at each place; a file that cannot be read is
  one that a save cut short, which then is in `unsure`.  `MemoryKept`: while
  nothing overlaps, the memory follows the file, or `whole` if it cannot be read,
  with nobody busy, and the one who is (`AloneInv`) has a buffer that follows the
  memory in all fields but its own up to the write, and the file after it.
* **Accounts_proofs.** `AccountsTypeCorrect`, `FounderIsUnique`, `NoLockout`,
  `SessionsSound`, `AccountsImplementRegistry`.  The invariant adds that at most
  one handler claims the sentinel, only while it is not committed, and that
  whoever is past the first count with a session names an account.
* **Lifecycle_proofs.** `LifecycleTypeCorrect`, `DrainInTimeLosesNothing`,
  `RetentionNeverMeetsClosedStore`.  The invariant says what is known at each
  place of the main goroutine: up to the close the open calls are exactly the
  busy handlers; from then on they are at least the busy ones and at most the
  late ones, since nobody is accepted any more.  A listener that breaks makes
  every busy handler late at once.
* **Conversation_proofs.** `ConversationTypeCorrect`, `EveryTextReaches`,
  `EveryCallReaches`, `ResultsFindTheirCalls`, `ChoiceIsKept`, `AnswersAreKept`,
  with the exceptions that the properties name: all invariants of the run, for any functions, providers, offers and lengths.
  The inductive invariant says of the history that its turns have the shape of
  the client's protocol (`Shaped`), that calls are numbered below the counter and
  no two alike, each under an id that tells it (`Numbered`, `Distinct`), and that
  a result answers a call of an earlier turn by id or name (`Correlated`); and of
  a request under way that it is the translation of the history and the choice
  (`Sent`).  Lemmas say what each translation does to texts, calls, results,
  choices and finish reasons; the properties of a request follow from those two.
* **ResponseStream_proofs.** `StreamTypeCorrect`, `MessageWellFormed`,
  `StreamClosedOnce`, `StreamAlwaysClosed`, `TextsInOrder`, `RecordIsTrue`,
  `UsagePassedOn`: all invariants of the run, over any number of events.  Lemmas
  say of each emitter which frames it makes of a delta (`AnthropicShape`,
  `FramesShape`), and of `Delivered` that a prefix of them is written, all of
  them if no write fails (`DeliveredGrows`).  The inductive invariant ties the
  emitter's flags to the last frame on the wire (`MessageRead`, `Reached`), says
  that no closing frame is there before the emitter is finished (`ClosedInv`),
  where an orderly upstream is in its own order (`InStep`), and what the record
  has counted of the reports so far (`Counted`).
* **CallSummary_proofs.** `SummaryTypeCorrect`, `PartsNeverDrift`,
  `PointsDivideCalls`, for any window, number of points, providers and log.
  `PartsAgree` is not inductive: it says nothing before the second query.  The
  invariant compares each part that is done with the log as it is *now*
  (`Tracked`), so that whatever the next query counts is near it; a row logged
  or deleted moves the log by as much as the history variables.  That the sums
  over providers and over points count each row once is `TallyCounts`, a
  bijection between the rows and the marks of a tally, and that the clamped
  integer division gives each point its interval is `BucketTiles`.

Only model-checked: `EveryRequestReturns` and `ShutdownCompletes`, which as
liveness under fairness are beyond the prover; and the three disagreements of
section 4 that a run shows.

## 6. What is left out

Password hashing, cookie encoding and HMAC (a cookie is a record and verifies
under the secret it was signed with), `last_login_at`, logout (the browser drops
its cookie), the same-origin check, the dashboard, schema migration, logging.
Environment overrides are one constant in `ConfigStore`.  Request bodies are the
model they name.  `Accounts` has no disabling of users: no operation does it.
Of requests and answers: system text (gathered into one field, and back), the
sampling options, a missing `max_tokens` that becomes 4096 for Anthropic, schemas
of tools, whether an image is data or a URL, images that Anthropic keeps by a
file's id, the second and later choices of an answer, an answer without any
finish reason.  The media, embedding and `completions` endpoints forward a body in which
they replace the model, through the same routing, record and copy.  SQL dialects
are statements run once.
`Lifecycle` begins when the handler of signals is installed, and leaves out the
connections that are open at the shutdown without having sent a request, for
which `net/http` waits up to five seconds.

## 7. Plan

1. **Theorems**: what liveness rests on, as action properties: a rank that falls
   with every step of a request and with every step of the shutdown, and that a
   kill or an edit never raises; that a file is torn only by a write that failed
   or was killed, whoever else was saving.
2. **Composition**: the gate with the lifecycle, so that the slots and quotas of
   a handler that outlives the drain are seen by the next process.
