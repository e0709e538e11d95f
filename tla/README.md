# A TLA+ model of freegate

freegate is an LLM gateway in Go: clients speak the OpenAI, Claude, Gemini or Responses protocol, the gateway picks an
upstream (built-in free tiers, custom providers, or a *combo* of several), translates the request, fails over between
upstreams and translates the answer back, often chunk by chunk. An admin interface changes providers, combos, relay
pools and client keys while requests run. This directory holds TLA+ modules for its stateful core, the TLC
configurations that check them on small instances, and TLAPS proofs for every value of the constants.

    tlc -workers 2 -config MCChat.cfg MCChat      # one run; PROJECT.json lists them all
    tlapm ClientKeyCacheProofs.tla                # one module of proofs (a minute or two)

`PROJECT.json` is the index: components, runs, mutants (a plausible bug for every checked property, which the property
must catch), the map from definitions to source lines, findings, hazards and theorems.

## 1. Inventory

Paths are relative to `src/internal/`.

| Part | State it keeps | Operations | Shared with / hard because | Correct when |
|---|---|---|---|---|
| Client-key cache (`infrastructure/registry/apikey_cache.go`, `apikeys.go`) | map of verified hashes with expiry, a generation counter | VerifyClientKey; Create, Update, DeleteClientKey | requests read the database outside the lock while admins commit and invalidate | a revoke that returned is seen by every later verification; the map keeps to its bound |
| Client-key usage recorder (`apikeys.go`, `store.go`) | bounded channel, pending batch, closed flag | Enqueue, the batching goroutine, Close | a send races the closing of the channel; a transaction may fail | accepted touches are stored once or counted as lost; Close drains, then closes the database, and returns |
| Registry (`infrastructure/registry`) | provider, combo, pool and built-in rows in SQLite | one transaction per admin change | handlers read a row, think, and write it back | no pin and no combo tier dangles |
| Admin API (`delivery/admin`) | none | changes rows, then rebuilds; probes and deploys relays | seconds of network between read and write | an edit changes what it names and nothing else |
| Live configuration (`server/server.go` rebuild, `upstream/relay.go`, `combo.go`) | relay selector, built-in pins, custom upstreams, combos | the rebuild closure: a dozen reads and stores | any read may fail; two admins may rebuild at once | what runs is what the database says |
| Provider manager (`upstream/manager.go`, `refresher.go`, `custom.go`) | live custom upstreams, one refresher goroutine each | Start, Rebuild, Stop | Rebuild decides under one lock and acts under the next; Stop waits for a wait group | one refresher per provider, on the routed object; Stop joins all |
| Combo (`upstream/combo_upstream.go`) | cooldown per tier, shared by requests | ChatCompletion over the tiers | tiers are judged at different moments; clients disconnect | some tier is always called; only faults cool; bodies are closed |
| HTTP client (`upstream/client.go`, `relay.go`) | key rotation, key cooldowns, relay counter | doWithHeaders | keys and relays are shared; an admin swaps the pool list | a strict relay is never bypassed; all keys are tried before a 429 is passed on |
| Chat pipeline (`application/chat.go`, `delivery/handler/chat.go`, `metrics/counter.go`) | counters, request log, open bodies | ProxyChat | concurrent requests, cancellation at any moment | first success or last failure; log and counters agree; nothing leaks |
| Ring buffer, recorder (`infrastructure/ringbuffer`, `recorder`) | circular array | Push, Clear, Snapshot | wrap-around | it is a bounded log |
| Rate limiter (`delivery/middleware/middleware.go`) | sharded map of visitors | Allow, the sweeper, Stop | eviction and sweep race requests | at most the limit per minute; a refusal ends |
| Authentication throttle (`delivery/middleware/throttle.go`) | map of failures per address | Blocked, Fail, Reset | check and update are separate sections | waits double and hold |
| OpenAI to Claude stream (`translate/claude/stream.go`, `orphan_invoke.go`, `translate/response_writer.go`) | open blocks, hold-back buffer, pending queue, argument buffers | ProcessChunk, Finalize; the writer that cuts lines and drives them | any order of text, reasoning, tool fragments, usage; markers split over chunks | well-formed events; nothing lost, repeated or reordered |
| Other stream translators (`translate/claude/stream_claude_to_openai.go`, `responses/stream.go`, `gemini/stream.go`) | items, indices and buffers per call | one ProcessChunk each | parallel calls, repeated ends; two writers in a row | the same, behind each other too |
| Normalisers (`infrastructure/proxy`) | tool argument buffers, a finish flag | one per protocol | a stream may end anywhere | one finish chunk, arguments once |
| Request converters (`translate/claude/request.go`, `fromopenai.go`, `responses/request.go`, `gemini/request.go`) and preparation (`translate/internal/prepost`) | none | functions on requests, a dozen passes in a fixed order; a combo runs them again for each tier | histories are cut, ids reused, results missing; each pass may undo another | calls and results pair up, nothing said is lost, the target API's rules hold and it is sent only roles and parts it knows |
| OpenCode (`upstream/opencode*.go`) | aliases of a request, hold-back of the restoring reader | request rewriting, alias restoring, identity, TLS | names may collide; a name may lie across two reads | the free gate accepts the request; the caller sees its own names |
| KiloCode, LLM7 (`upstream`) | catalog cache | adapters over the HTTP client | | |
| Server (`server/server.go`, `cmd/server`) | background goroutines | New, Run | order of shutdown, time limit | joins are checked; Run as a whole planned |
| Web interface, sessions, configuration | stateless | templates, signed cookies, environment | I/O | not modelled |

How they meet: a request passes the rate limiter and the throttle or the client-key cache, enters ProxyChat, walks a
chain of upstreams (each possibly a combo, each combo tier using an HTTP client with keys and relays), and its answer is
normalised, translated and logged in a ring buffer; its key's use is queued with the recorder. An admin request runs a
registry transaction and then the rebuild closure, which replaces what the first kind of request reads. Shutdown cancels
the refreshers, joins them, drains the recorder and stops the limiter's sweeper.

## 2. Modules and the code

Each action is one critical section, one database transaction or one outside call of the code; goroutines interleave
between actions. History variables (named so in the modules) record the past for a property and guard nothing.

* **ClientKeyCache.** `hist` is every version of each row, `entries` and `generation` the cache, `req` and `adm` the
  program counters of verifications and admin calls. `VerifyGet`, `CurrentGeneration`, `VerifyQuery`, `VerifyEvict`,
  `VerifySet` are the steps of VerifyClientKey; a change commits and invalidates in two steps, as UpdateClientKey does.
* **ClientKeyUsage.** `queue` is the channel; Enqueue is split at the lock it releases before sending, including the
  panic of a send on a closed channel that the code recovers from. `closer` is Store.Close behind its sync.Once.
* **ProviderManager.** `customs` and `runs` are the manager's two maps, `refs` every refresher ever started. Rebuild is
  ReadRows, Publish, Reconcile: its three critical sections. Refresh steps are those of the refresher's select loop.
* **Registry.** The tables as functions from primary keys, with AUTOINCREMENT (`issued`), the transactions, and handlers
  (`updateProvider`, `testPool`) that keep a copy of a row between reading and writing.
* **LiveConfig.** The rebuild closure, one read or store per step, with `Failures` naming the reads that may fail.
* **ComboUpstream, HTTPClient.** A program counter per request over the shared cooldowns, keys and relay counter.
* **ChatService.** ProxyChat per candidate: `TryNext`, `FailCanceled`, `FailLast` and `Keep` are the outcomes of a call,
  `PassThrough`, `Normalize` and `WriteChatError` the ends. Counter lookup and insertion are the two lock sections. A call
  that starts after the client left is at `refused`: every upstream returns the finished context's error. ProxyChat looks at
  the context only after an error, so after a nil response or a retryable status a gone client still costs one such call,
  which IncrUpstream counts (chat.go:195-216); `left` remembers when the client left, for GoneClientEndsChain.
* **RateLimiter, AuthThrottle.** Lock sections of the maps; the sweeper goes shard by shard with the time it read first.
* **RingBuffer, BoundedLog.** The code and the promise: a sequence that keeps its newest entries.
* **StreamText, ClaudeStream, OpenAINormalizer, ClaudeDecoder, ResponsesStream, GeminiStream, ResponseWriter,
  StreamPipeline.** Each stage of a streamed answer is an operator from its state and one item to its next state and
  what it passes on; StreamText has the vocabulary they share and the handling of invoke markers in text. ResponseWriter
  chains the translators between two formats (through OpenAI where the code does), and StreamPipeline is the composition
  that a request really has: upstream, normaliser, ProxyChat's writer, the handler's writer, client. Its actions are one
  item from the upstream, its end, and the client leaving. Text is a sequence of pieces with a place in the stream, so
  that loss, repetition and reordering are visible; JSON repair and wording are left out.
* **RequestBody, ClaudeRequest, ResponsesRequest, GeminiRequest, PrePost, OpenCodeRequest, RequestPipeline.** One record
  for a request of any format (RequestBody), one operator per function that rewrites it, one per pass of `prepost`, and
  RequestPipeline as the way of a request: a client composes a conversation turn by turn (`Compose`), the handler
  translates and prepares it (`Chat`), and a provider (`Direct`) or any sequence of a combo's tiers (`TryTier`) gets it,
  each tier from the body the handler made. A text is a number that tells its turn and its kind; an id is a record, so that
  scrubbing, suffixing and inventing ids are what they are in the code. A limit on the answer has three fields, as in the
  code: max_tokens (`max`), max_completion_tokens (`completion`) and a max_output_tokens left in an OpenAI body (`kept`);
  which of them wins differs from target to target (`ClaudeMaxTokens`, `MaxOutputTokens`). A filter of the code is `Keep`,
  a loop that carries state from one message to the next is `Loop` with its body as an operator of its own (`PushMessage`,
  `ConvertItem`, `EnsureMessage`, `MergeSameRole`, `ConcealTool`), so that the proofs can speak of one round.
* **AliasRestore.** The reader that takes tool aliases back from a stream, byte by byte.

Proofs are in modules of their own, named after the run: `ClientKeyCacheProofs`, `RegistryProofs`, `LiveConfigProofs`,
`UpstreamProofs`, `ShutdownProofs`, `GateProofs`, `ChatProofs` (with the ring) and `RequestProofs`.

`MCShutdown`, `MCUpstream`, `MCChat` and `MCGate` put two components next to each other: the components share no state, and a variable
of the MC module (`part`, `level`, `subject`, `traffic`) says which of them a behaviour is about. The state space is the union of
the two, not their product.

## 3. Runs

| Run | Shows |
|---|---|
| `client_key_cache` | RevokeTakesEffect, CacheCoherent, CacheTypeOK with two requests, two admins, two keys, a cache of one entry |
| `shutdown` | refreshers: OneRefresher, NoAddDuringWait, StopJoins; recorder: TouchesConserved (with the drain before the database closes); both: ShutdownEnds |
| `upstreams` | combo, two requests and three tiers: NeverFailsFast, OnlyFaultsCool, ResponsesAccounted; client, one or two keys and changing relays: StrictFailureIsFinal, RotatesBeforeGivingUp (and only the rejected key cools) |
| `registry` | PinsResolve and TiersIntact around a handler in mid-request |
| `live_config` | LiveMatchesStore with one admin at a time and failing reads |
| `gate` | limiter: AtMostLimitPerMinute, DenialEnds; throttle: WaitHolds, WaitsDouble |
| `chat` | BodiesClosed, CountersExact, FirstSuccessOrLastFailure, GoneClientEndsChain, EveryRequestLogged; the ring implements the bounded log |
| `streams` | EventGrammar, ContentDelivered, ToolCallsComplete, TurnReported on the 40 routes from three wire formats over three asked formats to four kinds of client, for every stream of three or four items (Claude: seven) |
| `requests` | ToolTurnsPaired, ContentKept, ClaudeAccepts, SpeaksFormat, GateAccepts, NamesRestored, BudgetFits for every conversation of two turns of fourteen kinds, from four kinds of client, to every model and every sequence of tiers |
| `registry_omitted_models` | violation: an update that omits models can restore an older selection |
| `live_two_admins` | violation: of two rebuilds at once, the one that read first may store last |
| `alias_split` | violation: a quoted alias across the point where the restoring reader cuts its data reaches the caller |

`client_key_cache`, `registry`, `gate` and `chat` also check a type invariant, which includes the bounds of their maps.

**Bounds.** Two of each kind of goroutine: the code's conflicts are between a reader and a writer or between two
writers, and a third would only repeat one of them. Capacities are one or two so that full, empty and wrapped are all
reached within a few steps; the ring has four slots, so that it wraps with entries before and behind the write position.
Clocks run a little beyond the longest interval (TTL + 1, the sweep period, the capped wait). Four items are a split
opener, its rest, something that interferes, and the finish; a Claude stream needs seven for two blocks with a delta, the
finish and a repeated end. `HoldTail` and `HoldMax` are 2 and 4 pieces so that both limits of the hold-back buffer are
passed. Two turns of up to two messages each give every pair of neighbours that the passes over messages tell apart; the
`requests` run was also made once with `MaxTurns = 3` (511,456 states over eleven kinds of turn, no violation), which
takes too long to repeat each time. Ids of calls: one of their own per turn, one shared in a message and in several turns,
one that is the number another one is given (`taken`: x, x, x_1), one whose call stays without result in a turn before it is
used again (`held`, then `same`). The settings of `requests` have no tools, tools that collide with OpenCode's, an alias that
is taken, a tool declared twice, a budget above and one equal to max_tokens, and a max_completion_tokens above and one below
the budget. Every bound is a named constant (`Max...`).

**Deadlock** is checked except where the system may stop: after shutdown (`shutdown`), at the end of all requests
(`chat`), at the end of the clock (`gate`), after the last rebuild (`live_*`), at the end of the stream
(`streams`), when every tier was tried (`requests`).

**Fairness.** Weak fairness of steps that a goroutine takes without waiting for anyone outside: the recorder's loop, the
refreshers (an HTTP client with a timeout ends every call), Stop and Close once called, the goroutine of a request (its
upstream call ends, by the client's timeout). Arrivals, disconnects, admin requests and the clock are never forced.
`ShutdownEnds` and `EveryRequestLogged` are the properties that use it.

## 4. Proofs

All are for every value of the constants that the named ASSUMEs admit; the clocks' and counters' bounds are constants
like the others. A module of proofs belongs to a run: its last theorem says that a behaviour of the run's composed
specification is one of each component (BothLevels, BothParts, BothGuards, BothSubjects), so the theorems about the
components hold of what TLC checks. Fairness is not used anywhere.

* **ClientKeyCacheProofs**: TypeCorrect, RevokeVisible, CacheAgreesWithRows, CacheNeverOverflows, CacheTypes. The invariant `IInv`
  is needed because RevokeTakesEffect speaks only of finished calls: an answer in flight that still carries the current
  generation was read at a version no finished change has overtaken, every cached answer likewise, and the newest
  version of a row is acknowledged or its change is on its way to the invalidation. One lemma per action. The bound on
  the cache is an invariant of its own, proved with the finite-set theorems from what `set` makes room for.
* **RegistryProofs**: InvHolds, TypeCorrect, PinsNeverDangle, TiersNeverDangle. Referential integrity becomes inductive
  with the typing of what handlers remember (`HandlersOK`) and with `KeysIssued`: a primary key is never given out twice,
  so a row a handler remembers cannot be another row of the same key. `NamesUnique` is needed for renames, because
  combos refer to providers by name.
* **LiveConfigProofs**: TakesEffect (LiveMatchesStore) under the hypothesis `Serial`, that admin requests do not overlap.
  The hypothesis cannot be dropped: `live_two_admins` is the counterexample. The invariant says, for each point of the
  rebuild closure (`Progress`), which live structures it has already made right and that what it read and has yet to
  store is still what the database says; a rebuild that broke off claims nothing until the next one passes, which is why
  the property speaks of the last successful one. `PinsExist` (a pinned pool has a row) is what DeletePool provides.
* **UpstreamProofs**: NoFailFast, CoolingIsEarned, NoBodyLeaks for the combo, from `CallOK`: a tier whose answer is being
  handled was called, is to blame only if it faulted, and its body is open exactly then. The last tier is
  never skipped, because no tier below it can be fresh; nothing is said about the cooldown map
  staying as it was, so other requests may change it at will. StrictIsFinal and AllKeysTried for the HTTP client: the
  attempts made so far are exactly the rejections seen, for any number of keys.
* **ShutdownProofs**: TouchesKept for the recorder. The channel's contents are counted by `Occurrences`, with lemmas on
  Append and Tail, and the invariant relates the closer's position to what is left: the database closes after the batching
  goroutine ended, which it does with the channel closed and empty and an empty batch, so a sender between its check and its
  send adds nothing any more. OneRefresherPerName, StopHasJoined and the action property NothingAdded for the manager: `ManagerInv` adds
  that a cancel function belongs to a refresher that was started (`HandlesValid`) and the order of Stop (`StopOrder`): it
  takes context and cancel functions in one critical section and cancels every refresher before it waits, so a Rebuild
  that stands between its critical sections meanwhile finds no context to start one with.
* **GateProofs**: LimitHolds, RefusalEnds for the limiter. An entry holds only a count and a time, so the invariant
  (`Counted`) reconstructs what they mean: the last `count` admissions are those counted, they all came more than a minute
  after the earlier ones, and without an entry every admission is more than a minute ago. WaitsHold and the
  action property WaitsGrow for the throttle, from `Remembered`: an entry carries the wait of the latest failure, or it was
  pruned when that wait was long over. `Doubled` is a recursive function; that a function with these
  equations exists is proved by least counterexample (from the library's well-foundedness of the naturals), which needs no
  induction rule with an operator as parameter; `WaitIs` then gives the doubling up to the cap. GateTypes bounds both maps.
* **ChatProofs**: BodiesAreClosed and FirstOrLast come from `Way`, which relates, for each place in ProxyChat, the
  candidates asked, their answers, the log and what the client got. GoneEndsChain needs `GoneInv` besides: a call that runs
  was started before the client left, so what is asked later is refused, and a refused call ends the request with a 499
  whatever place of the chain it has. CountersAreExact needs two
  more invariants. `CountInv`: no two names share a counter object, an object that has counted is in the map, and its value
  is the number of calls that passed IncrUpstream; so the second look under the write lock is what keeps a counter from being
  replaced (and `FreeObject` shows that the model never runs out of objects). `SumInv`: the totals are at every step the
  numbers of requests begun, refused and of tokens logged. ChatTypes follows.
  The same module has the ring: TypeCorrect, SnapshotOfPushed and Refinement (the ring implements the bounded log, with
  `Snapshot` as refinement mapping). Remainders are removed once, in `Wrap` and `SlotOf`; the rest is linear arithmetic.
* **RequestProofs**: ClaudeAlwaysAccepts, FormatAlwaysSpoken, GateAlwaysAccepts, NamesAlwaysRestored and BudgetAlwaysFits,
  for conversations of any length and any models, settings and tiers. `PipelineAssumption` gives the settings their types
  (tools are a list of names with the caller's or OpenCode's definition, the two limits and the budget natural numbers), and says
  that `AliasNames`, which lists the first few of the names that the code tries without end, has one that is free.

  The first four follow from `RequestInv` (RequestsKept). None of them is inductive, because what a tier gets is made of
  the body the handler made, and the passes rely on each other. `RequestInv` says for the body that the handler hands over and for
  what is sent: it is `Formed`, that is, its messages are of its format (`OpenAIForm`, `ClaudeForm`, `ResponsesForm`,
  `GeminiForm`: for each role the types of parts and whether calls may be there); it is `Tidy` if a translation made it
  (in Claude form merged and with alternating roles; in Responses form of items); and it is `Clean` (no empty text, and no empty
  message but a last assistant) if it is a Claude body, translated or not. `Told` says that tools and choice are the client's or
  none. `Posted` says what `Send` made of it: with a key tools, choice and messages are as they were; without one
  (`Keyless`) tools, earlier calls and choice go through the same aliases. One lemma per function says from which form to which it leads:
  FixToolUseOrdering makes assistants `Tailed` (calls last), merging makes users `Headed` (results first) and neighbours
  differ in role, dropping empty messages comes before that and could not come after.

  Loops over messages and tools are proved from their round: `Loop` is a function on 0 .. Len, and a property that the
  base has and every round keeps holds at its end by least counterexample, on the well-founded naturals. The library's
  induction rule has an operator as a parameter and cannot be used; each loop has the argument for its own invariant.
  `Concealed` is the longest of them: for each prefix of the caller's tools, what is sent, which names are taken, seen and
  aliased, and that what was seen is offered.

  For BudgetAlwaysFits one lemma per pass says whether it leaves the six fields in question alone (`Alike`) or makes them
  fit (`Fits`: the limit that Claude would be given, max_completion_tokens before max_tokens, is above the budget). `Sized`
  goes through all of them: there is a limit, and a max_completion_tokens, which only an OpenAI body has, is above the
  budget. AdjustMaxTokens does nothing for that one, so the theorem has to assume it of the client (`NamesLimit`);
  without that BudgetFits is violated in the run `requests` (section 5). For a client that gives max_tokens only, nothing is assumed
  of the number. The invariant `BudgetInv` adds `Handed`: the body that the handler hands over, from which every tier starts,
  fits already if it was translated to Claude.

  Two properties had to be said more exactly than TLC's instance showed. GateAccepts: names that are not OpenCode's are
  passed on as the caller sent them, so one that is twice in its list is sent twice. NamesRestored: of two definitions of
  one of OpenCode's names only the first is sent, so the property is about lists that give a name one definition.

Only model-checked, and why:

* ShutdownEnds and EveryRequestLogged are liveness: fairness and ENABLED are beyond the prover used.
* ToolTurnsPaired counts, over the whole conversation, the calls and results that have one id behind passes of
  which some rename ids and others drop or invent partners. It needs the injectivity of scrubbing, numbering and clamping
  ids, which does not hold in general (section 5). The instance has no ids that collide in scrubbing; those that collide in
  numbering it has, and the property leaves them out by name (`TakesNumber`, `ReusesOpenID`). A theorem would have to assume that there are none.
* ContentKept relates what is sent to what was composed, text for text and in order, so its invariant would have to
  repeat every pass as a statement about positions.
* EventGrammar, ContentDelivered, ToolCallsComplete and TurnReported are about four stages in a row, each with a state of
  its own, and what they hold back at any moment; an inductive invariant would list these combinations for forty routes.

## 5. What the code does against its own comments

The three violation runs are findings, with the quoted lines in PROJECT.json. Other disagreements and limits met while
modelling, which no run checks. Where one of them touches a property, the property says so in its comment and leaves
that case out.

Configuration and upstreams:

* `upstream/relay.go`, ResolveRelayPools: every error of the pool lookup is taken for a missing pool, so a built-in
  pinned to a disabled pool follows the rotation after a database error, though the comment says a disabled pool "must
  never re-route" (LiveMatchesStore leaves out a rebuild whose lookup failed).
* `upstream/combo_upstream.go`: a retryable status of the last tier takes the success path and clears its cooldown.
* `upstream/client.go`: with requests in parallel, len(keys) probes of the shared counter need not be len(keys) different
  keys, so a limited key may be used although another is free.
* `delivery/admin/pools.go`: testPool writes back a row it read up to ten seconds earlier and undoes an edit made meanwhile.
* The rate limiter's window starts anew after a minute without admission; the README and `docs/ENV.md` speak of requests
  per minute, which holds, but the count is not reset at fixed minutes. An evicted visitor starts a new allowance.
* `delivery/middleware/throttle.go` says the login form and the API share one throttle; each makes its own.
* `upstream/opencode_identity.go`: genOpencodeIDWithClock reads the clock before it takes the lock.

Streams:

* `translate/claude/stream.go`, closeOpenToolBlocks: blocks are "strictly sequential", yet parallel tool_use blocks are
  open at the same time. EventGrammar therefore asks for sequence only where a text or thinking block takes part.
* `translate/claude/stream.go`, holdTextContent: an invoke opener that is not alone in its delta may be cut at the length
  of the hold-back tail and shown as text although the buffer has room.
* `proxy/normalize_openai.go`: a stream that ends with [DONE] and no finish chunk gets a second synthesized finish chunk
  behind [DONE]. The normaliser also strips invoke markers that the Claude translator behind it would have recovered.
* `proxy/normalize_claude.go` looks for the usage of message_start in the wrong place; the prompt tokens are not recorded.
  They are lost for the client when an OpenAI stream is made a Claude one and then an OpenAI one.
* `translate/responses/stream.go`: arguments in the very delta that adds a function_call item are lost. The Responses and
  Gemini encoders drop usage that comes behind the finish reason.
* `upstream/opencode_tools.go`: after a read error with data in hand the reader ends with EOF instead of the error
  ("surface the error next read"), and restored bytes beyond len(p) are then lost.

Requests:

* `prepost/sanitize_history.go` strips leading orphaned results only when they come first, not behind a system message.
* `prepost/adjust_max_tokens.go`: with tools, no max_tokens and a budget above 4096 the default is smaller than the
  budget; a budget made of reasoning_effort comes after the comparison. A max_completion_tokens is not compared at all,
  and `translate/claude/fromopenai.go` (198-202) lets it win afterwards: max_tokens 8000, max_completion_tokens 1000 and a
  budget of 5000 are sent as 1000 and 5000, though the file promises a limit "strictly greater than" the budget. TLC
  finds this in `requests` when BudgetFits asks for any named limit instead of `NamesLimit`.
* `upstream/opencode_tools.go`, aliasHistoryToolCalls renames OpenAI calls only; tool_use blocks of a Claude history keep
  the caller's name, which may be OpenCode's own.
* `translate/claude/fromopenai.go`: concatenated arguments become two calls while the result keeps the one id; a third
  object is lost, and two equal ones make the whole request fail.
* `translate/claude/request.go`: an image beside a tool_result is dropped ("Will be handled by content block
  conversion"); TLC found it as an OpenAI client's image behind results, lost when a Claude body fails over to an OpenAI
  tier. A Claude tool_choice of none becomes auto.
* A call id used again in a later turn while the earlier call has no result: the real result goes to the earlier call, and
  results are invented for both, although `ensure_ids_test.go` (81) has duplicates "de-duplicated and paired". TLC finds
  this in `requests` when `~ReusesOpenID` is taken out of ToolTurnsPaired. Of three calls x, x and x_1 two are sent as x_1. Ids that
  differ only in scrubbed characters collide. Results of Gemini requests never meet their calls: both sides get
  invented partners.
* `translate/responses/request.go` keeps the first of several system messages; a tool_choice of Responses shape is not
  understood by the Claude translator; max_output_tokens left in the OpenAI body wins over the adjusted max_tokens.

## 6. Not modelled

* *Answers in one piece* (`json.go`, `json_to_openai.go`, `responses/response.go`, `normalize_json.go`): field by field
  copies of one object without state or order; their tests state the same tables.
* *Gemini upstreams* (`gemini/fromopenai.go`, `stream_gemini_to_openai.go`): no upstream of the gateway speaks Gemini.
* *OpenCode's TLS and identity, relay deployment, web interface, sessions, configuration, validation*: I/O, templates and
  checks on single values. *OpenCode's stream assembly* is a fold over a stream into one answer.
* *KiloCode, LLM7, the model list*: adapters over parts that are modelled, and reads of one atomic pointer.
* *Inputs the modelled parts accept and no actor sends*: an OpenAI body with an `input` instead of messages
  (`responses/request.go:372-392`), signed thinking without text and redacted thinking (`normalize_claude.go:141-156`), the
  word max_tokens in a text or schema, which `ensureMessagesMaxTokens` takes for the field (`opencode.go:516`), data lines that
  are not JSON, which the writers pass on as they are (`response_writer.go`), a tool call whose id comes before its name
  (`responses/stream.go:386`). In the HTTP client the errors of building a request, and a client without any key.
* *JSON repair* of broken tool arguments, and the wording of errors and events: string work.

## 7. Plan

1. *Shutdown* as one module: Run's order of cancel, Manager.Stop, HTTP shutdown with time limit, Store.Close and
   RateLimiter.Stop, with requests still in flight.
2. *Recorder and model catalogs*: sampler, cache, RestoreKept and SetSelected of custom upstreams; OpenCode's stream
   assembly, against StreamPipeline's reading of the same stream.
3. Proofs: the pairing of calls and results, pass by pass, on the lemmas about loops and neighbours of RequestProofs, for
   conversations whose ids do not collide; the stages of a stream one at a time, beginning with the block grammar of
   ClaudeStream alone.
