# llmr in TLA+

llmr is a library that sends one chat request to the first of several routes (a provider and
a model) that can serve it, and a server built on the library: an OpenAI-compatible API for
clients, a management API for its owner, a SQLite store, a usage log and a price list kept
current. This directory holds TLA+ modules of its core, TLC configurations that check them on
small instances, and proofs that TLAPS checks for every value of the constants.

Paths below are relative to the repository: `src/router.rs`, `src/bin/llmr/server.rs`.

## The system

| Component | State it keeps | Operations | Talks to |
|---|---|---|---|
| Router (`src/router.rs`) | none of its own between requests but health and purse | `chat`, `stream`, `charge`, `preflight` | asks `Retry` and `Breaker`, updates `Health` and `Purse`, calls providers |
| Health and breaker (`src/breaker.rs`) | per route: when it opens again, failures in a row, denied | `closed_for`, `failed`, `rest`, `denied_by`, `served` | every request of the router, in parallel |
| Retry (`src/retry.rs`) | none | `wait_before`, `sleep` | router |
| Budget (`src/budget.rs`) | spent, unmeasured | `remaining`, `spend`, `unmeasured`, `measured_after_all` | router, before and after a call |
| Gateway (`src/bin/llmr/gateway.rs`) | built once, then read only; `Live` holds the current one | `build`, `resolve`, `media`, `replace` | reads a `Snapshot` of the store, owns routers |
| Management API (`manage.rs`) | none; each handler its locals | create, update, delete of providers, models, route sets, prices, usage | store through `Db::run`, then `reload` swaps `Live` |
| Store (`store.rs`) | SQLite tables, one connection under a mutex | one closure at a time, on the blocking pool | management API, recorder, price sync |
| Usage recorder (`usage.rs`) | a bounded channel, a batch | `record`, the writer task | every handler of the client API |
| Client API (`server.rs`, `media.rs`, `openai.rs`) | per call: the spawned task, its channel of frames | chat completions, streamed or not, media calls | gateway, router, recorder |
| Serve (`main.rs`) | the process | start, survey, price sync, graceful shutdown | everything |
| Price sync (`prices.rs`) | synced, held and refused prices, the lock of a sync | `sync`, `plan`, `settle_held` | store, `reload` |
| Streams (`src/providers/api/mod.rs`, `src/chat/stream.rs`, `openai.rs`) | `Frames`, `Transcript`, `ChunkWriter`, one of each per stream | `Frames::next`, `push`, `finish`, `write` | vendors on one side, a client on the other |
| Wire formats (`openai.rs`, `media.rs`, `src/providers/`) | none | `read_request`, a body per protocol, a reader per reply, `write_response` | clients and vendors |
| Media endpoints (`media.rs`, `Gateway::media`) | per call: the handler, the loop over its plan | embeddings, pictures, speech, transcription | gateway, providers, recorder |
| Cost (`src/cost/`) | a ledger | `price_with`, `Usage::merge`, `record`, totals | gateway, router, usage rows |
| Opening the store (`store.rs`) | the database, its version, its key check | `setup`, `check_key` | starts of the process |

What is hard here:

* **Interleaving.** A router is shared by every request; its health and purse are atomics read
  and written one by one, with awaits between a look and the call it decides about. Management
  handlers read the store, await, and write it; then they read it again, await, and swap.
* **Drops.** The HTTP server drops a handler when its client leaves, at any await. A closure
  already given to the blocking pool runs on; a spawned task runs on.
* **Time.** Retry waits, the deadline of a request, circuits that open again by themselves.
* **Partial failure.** A stream that breaks, ends early or falls quiet; a batch of rows that
  cannot be written; a provider that cannot be built.
* **Bytes.** A stream arrives cut anywhere; four protocols spell the same answer in four ways,
  whole and streamed, and a client that changes models in the middle of a conversation hands
  one vendor what another said.
* **Addition.** Costs are truncated row by row, in currencies that do not mix, from usage that
  is reported in part or not at all.
* **Crashes.** The steps that bring a database forward are not in a transaction.
* **Shutdown.** Rows still queued, tasks still running, and who still holds a recorder.

What makes each part correct is the list of properties in the tables below; the hazards they
are aimed at, and those no property covers yet, are listed with their lines in `PROJECT.json`.

## Modules

| Module | Models | Extends |
|---|---|---|
| `Policies` | `Retry::wait_before`, `Breaker::opening_for` and their backoffs; which errors are retried | |
| `RequestPromise` | abstract: what a call of `chat` or `stream`, or of a media endpoint, promises; implemented by `Router` and by `Bills` | |
| `Router` | requests in flight over shared health, purse and time; preflight | `Policies` |
| `Router_proofs` | theorems about `Router`: types, refusals, the cap and the purse, failures, rests and waits, and that it implements `RequestPromise` | `Router` |
| `Lists` | picking out of a list or of a set of numbers by counting: a filter, an order with a limit | |
| `Lists_proofs` | what those return, for every list, what sums over finite sets come to, and lists that grow | `Lists` |
| `Gateway` | the rows of the store, and what `Gateway::build` makes of them | `Lists` |
| `Management` | the handlers that change the configuration, at once | `Gateway` |
| `Management_proofs` | theorems about `Management` | `Management`, `Lists_proofs` |
| `Recorder` | the queue of usage rows and its writer | |
| `Completions` | chat completions around the recorder, and the shutdown | `Recorder` |
| `Completions_proofs` | theorems about `Completions` and `Recorder` | `Completions` |
| `Prices` | the price sync, its lock, held and refused prices, prices set by hand, what is charged | |
| `Prices_proofs` | theorems about `Prices` | `Prices` |
| `Chat` | blocks, usage and its merging, the events of a stream and the `Transcript` | |
| `Vendors` | how each protocol reads a whole reply and a frame of a stream | `Chat` |
| `VendorWire` | external: how vendors write an answer, whole and as frames | `Vendors` |
| `ClientWire` | `write_response`, `ChunkWriter`, and (external) what a client makes of the chunks | `Chat` |
| `Streams` | one streamed call from the vendor's bytes to the client's chunks and the row | `VendorWire`, `ClientWire` |
| `ClientRequest` | `read_request`: every refusal, and the messages that are read | `Chat`, `Lists` |
| `VendorBody` | the body each protocol makes of a request | `ClientRequest` |
| `Exchange` | a conversation: questions, name resolution, routes, bodies, replies read back | `VendorBody`, `VendorWire`, `ClientWire` |
| `Exchange_proofs` | the theorems that no setting asked for is lost, nothing private leaves the device, and the conversation is carried whole | `Exchange`, `Lists_proofs` |
| `Pricing` | rates, books, the cost of a call, the ledger | `Chat` |
| `MediaRequest` | what each media endpoint reads and refuses | `Chat`, `Lists` |
| `MediaVendors` | the media calls of each type of provider: body and reader | `MediaRequest`, `Pricing` |
| `MediaWire` | external: what vendors answer to media calls and what they bill | `MediaVendors` |
| `Accounts` | usage rows: totals, groupings, pages, deletion by age | `Pricing`, `Lists` |
| `Media` | the media handlers: plan, loop over providers, reply, row | `MediaWire`, `Accounts` |
| `Bills` | media and chat calls, their rows and a ledger, against what was billed; how `Media` implements `RequestPromise` | `Media` |
| `Bills_proofs` | theorems about the calls, their rows and the pages of them, that an answer is what was asked for, that the loop implements `RequestPromise`, and that an amount is a floor of the bill | `Bills`, `Lists_proofs` |
| `Setup` | migrations and the key check, cut short anywhere | |
| `Setup_proofs` | theorems about `Setup` | `Setup` |
| `MCRouter`, `MCManagement`, `MCCompletions`, `MCPrices`, `MCStreams`, `MCExchange`, `MCAccounts`, `MCSetup` | values of the constants for TLC | |

### Router

`req[q]` holds the local variables of `attempt`, `chat` and `stream` for request `q`; `pc` says
where it is:

* `idle` not called yet; `look` at the head of the loop over routes; `afford` past
  `closed_for`; `calling` in the provider; `sleeping` before another attempt; `count` and
  `rest` the two atomic steps of recording a failure; `served`, `reopen`, `undeny` the three of
  `Health::served`; `settle` at the purse; `done` returned. `measured` and `charged` follow
  `charge` for a stream.
* Each access to an atomic that another request can come between is an action of its own.
  `look` with a resting route and `look` with an open one are `PassResting` and `FindOpen`;
  the check of the cap and the start of the call are one step, with no await between them in
  the code, but for the reads of the purse, which only grows.
* A wait is a timer in ticks, lowered by `Tick`. `rests[r]` is `closed_until` as the time left;
  `elapsed` counts to the deadline and no further. `sleeping` ends when its timer is at zero,
  and may last longer.
* `WaitsBefore` is a set: the jitter may choose any wait of the upper half.
* What a reply is charged is chosen up to `ReplyCost`, apart from the `ReplyBound` the check
  before the call goes by: the code settles with the price of the model the provider says
  answered (`router.rs:523`), which may be dearer than the one asked.
* A provider answers, refuses, or fails with any of `ErrorsSeen`; it always answers in the end
  (the transport has a timeout), which is the fairness of `EveryRequestEnds`.
* `Drop` is the caller dropping the future while it awaits a provider or a sleep.
* `preflight` walks the routes beside the requests; a denial is two atomic steps.
* What a route offers and a request needs (`Offers`, `Needs`) are given; reading them from a
  provider is not modelled. `Ranking`, the sort by health, is taken in one step, while the
  code reads the counters as it compares.
* History variables (`told`, `broke`, `overlapped`, `asked`, `booked`, `found`)
  are written and never read by actions. `found` is what a request found resting when it
  started, lowered by time, and forgotten for a route when something is heard from it
  (`HeardFrom`: a reply, a denial, a failure that opens the circuit); what is stored in `rests`
  does not touch it.

`Router` implements `RequestPromise` (property `KeepsPromise`) under the mapping `Promise`:
routes are taken up one at a time and not come back to, each is asked at most `Attempts`
times and only when it can do the work, and once an answer is decided nobody is asked.

### Management and Gateway

A handler is `idle`, then at `merge` (reading and changing the row, for the two operations
that read first), `write`, `snapshot`, `swap`, and `answered` or `failed`. Each closure of
`Db::run` is one step, and so is the swap. `Drop` may come at any of them. `Build` is
`Gateway::build`: enabled providers that have the key they need, enabled models of those, and
of each route set the routes that are left and serve the kind of the first, chat models only
when something says what they can do, other kinds only when the type has the endpoint.

A provider's type is a field of its row: `create_provider` sets it, no update writes it, and a
provider deleted may be created anew as another. What needs a key (`NeedsKey`), which kinds of
model there may be (`KindsOf`) and which models the release knows (`Shipped`) go by the type, and
`Refused` is what `put_model` turns down of a model under a provider of its type. Some types need
an address and a reach besides; they are checked in the same place as the key and are left out.

### Completions and Recorder

`task[c]` is the handler of a plain call or the spawned task of a streamed one. One frame
stands for the chunks of one event. From leaving the event loop to the row there is no await,
so `Break`, `End` and `NoticeLeft` record in the same step. `Leave` drops the handler of a
plain call and the body of a streamed one; the task of a stream goes on until it notices.
Whether a usage chunk was asked for is open. `Recorder` holds the bounded queue, the batch
and the table; a transaction is one step that writes all its rows or loses all of them.
`Senders` says who still holds a recorder when the state is dropped. The client of a stream
refused before it opened gets a reply of its own with `[DONE]`, which is part of `OpenFails`.

### Prices

`synced` is the table of that name, a row for each model with what applies, what is held and
what was refused; `manual` is `price_overrides`; `live` is what the gateway serving charges. A
worker is the task of `keep_current` or a handler of the management API: it waits for the
`lock` of the sync, is in `fetch`, in `plan` (the transaction of a sync), in `write` (the closure of a
handler), then at `snapshot` and `swap` of `reload`. `Planned` is `plan` for one model with
what `apply_price_changes` writes. A handler may be dropped anywhere, and the lock falls with
it; `LeaveClosure` and `RunsOn` are the drop of a sync whose closure is with the blocking pool
already, which plans later, beside whoever has the lock by then. The public list changes at any
moment, and may price nothing, which a sync refuses. A rate gives an amount for each part;
`NeedsAPerson` is the arithmetic of the code, without its floating point. The image and its
table do not change while the model runs: an upgrade over an old store is not modelled.

### Streams, Chat, Vendors and ClientWire

A byte is too small a thing to model, so a piece of a stream stands for a run of them: half of
a frame's data, its event name, a comment, a carriage return, a line feed. `TakeChunk(n)` hands
over the next `n` pieces, cut anywhere, also within a line end or a frame; `Pop` gives out an
event that is ready; `Break` is the connection failing, `Close` its end, with what is left
without a blank line parsed as one more frame; `Conclude` is the end of the task: the row and
the closing chunks. `Absorb` is the loop of `Frames::next` over the frames of a buffer and
`ParseFrame` that of one frame, with both line ends. `ReadEvent` is `read_event` of the
protocol, with the arms each vendor's frames reach; Bedrock replays a whole reply as events.
`Push` folds an event into the `Transcript` as the code does, interleaved calls included;
`ChunkWriter` holds which tool call it is in. The client stays to the end: one that leaves is
in `Completions`. Text is a sequence of words and arguments of a tool are pieces of a JSON
document of which only whether they are whole is looked at.

### Exchange, ClientRequest and VendorBody

`Ask` is a client's request: `ReadRequest` turns it down with the field that is at fault or
reads it, joining results and turns as `read_request` does; `Resolve` finds the routes its name
stands for. Then, route after route: `Skip` when a route cannot serve it, `CannotSay` when no
body can be made, `Fail`, or `Respond`, which keeps the turn in the client's conversation as
`write_response` or the chunks put it. Between two questions a client answers the calls of
tools it was given and may name another model. When a route is tried again, rests or costs too
much is in `Router`.

`ConversationCarried` compares a body with the messages it was made of by who speaks: `Sided`
joins what one side says in a row, whatever turns it takes, and leaves out a side that says
nothing. So does the code: a user's message of an empty list of parts is accepted, and the body
for chat completions has no turn for it.

### Accounts, Media, Bills and Pricing

`Media` has one call at a time in the handler: `Arrive` reads it and resolves its plan;
`PassOver`, `TakeUp`, `TooLate`, `NoEndpoint` are the head of the loop of `Gateway::media`;
`Begin`, `Respond`, `Unreached`, `Wake` an attempt and the wait before the next, whose length is
decided by the same policy as the router's; `GiveUp` answers with the last error; `Leave` drops
the handler, and no row is left. `log` is history. `Accounts` is the usage table behind the
recorder's queue: `Write`, `Forget`, and a client that walks the pages of single requests while
rows come and go. `Summary` is the query of totals with its groupings. `Pricing` is the
arithmetic in whole micros, truncated where the code truncates and saturating at `Most`. `Bills`
adds chat calls, with the rows that `Completions` has for them, the ledger of a program that
makes the same calls with the library, and what the vendors bill: the exact products, before
any truncation, of what was consumed (`Bill`, `Charge`), whatever of it is reported. What an
answer reports of usage is true or missing (`ChatCounted`; the media replies are built that way
in `MediaWire`).

The loop of `Gateway::media` is written apart from the router's, and `Bills` shows that it
implements the same `RequestPromise` (property `MediaKeepsPromise`). What a call wishes for is
the plan its name resolves to: its routes, told by their place since a plan may list one twice,
those of them that were built, have the endpoint and may be given the data, and the attempts. A
route that is taken up but was not asked yet may still be passed over (`TooLate`, `NoEndpoint`),
so the promise is still choosing there; one that is about to be asked again may still be given up.

### Setup

`disk` is what SQLite keeps: version, tables, columns, the check of the key, providers. A start
reads the version (`found`), then `Move` executes one statement of one migration at a time, as
SQLite commits each; `Mark` writes the version; `CheckKey` compares the key, or keeps it in a
database that has none. `Crash` ends the process between any two of them, also in the middle of
being used (`Put`, `Delete`), and `Start` begins again with any key. `Effect` is the statement:
creating a table that is there changes nothing, adding a column that is there fails.

## Runs

| Run | Instance | Shows |
|---|---|---|
| `router_health` | 2 requests, 2 routes by health, breaker, 2 attempts, preflight, transient errors and refusals | types, `RestWaitedOut`, `RefusalIsFinal`, and `KeepsPromise` |
| `router_retry` | 2 requests with a deadline, 2 routes of which one cannot serve one of them, rate limits that name a wait, timeouts; fair | `OneFailurePerRequest`, `AskedWaitHonoured`, `EveryRequestEnds` |
| `router_budget` | 3 requests, one streamed, 4 routes (unpriced, dear, cheap, in another currency), cheapest first, replies charged up to or beyond what was checked, cap of 2 | `SpentCapStopsNewWork`, `OvershootsByInputOnly`, `UnmeasuredIsPending`, `NothingSentIsTrue` |
| `management` | 3 handlers, 2 types of provider (one needs a key), 2 providers, 3 models, 1 route set, 12 operations; an empty store, a configured one, and one whose provider is of the type that needs no key and has none | `StaleOnlyWhenSwapsCross`, `LiveIsClosed`, `StoreIsComplete`, `CredentialLeftAlone` |
| `completions` | one streamed and one plain call, 2 events, channel of 2, queue of 1, batch of 2; fair | `RowInOnePlace`, `DoneIsWhole`, `RowTellsTheEnding`, `CleanExitWritesAll`, `LeavingEndsTheStream`, `RowsAreWritten` |
| `prices` | the schedule and one handler, one model, 3 rates (base, near, far), its vendor and a reseller, with or without a shipped price; fair | `HeldIsAQuestion`, `ServedAsStored`, `LargeMovesWait`, `ListIsTakenUp` |
| `streams` | 8 answers by the vendors of 4 protocols, both line ends, comments, split data, a broken frame, chunks of up to 12 pieces | `CutsDoNotMatter`, `FoldsToTheReply`, `ClientSeesWhatIsRecorded` |
| `exchange` | conversations of 2 questions over 4 protocols, 3 route sets, whole or streamed, moved between models | `AskedIsCarried`, `ConversationCarried`, `ResultsFindTheirCalls` |
| `accounts` | one media call of any endpoint, or up to two chat calls, 4 providers, 2 currencies, pages of 1 | `BillIsAFloor`, `OneRowTellsTheCall`, `AnswersWhatWasAsked`, `PagesListTheTotals`, `MediaKeepsPromise` |
| `setup` | a database of each version 1 to 6 or none, 2 keys, 2 providers, crashes anywhere | `VersionTellsTheSchema`, `OneKeyReadsAll` |
| `streams_totals` | as `streams`, with a vendor that repeats its totals on every frame | violates `TotalsAreMergedOnce` |
| `setup_crash` | as `setup` | violates `ForwardOnce` |

**Bounds.** Two requests show every race on one route's health, since each atomic is touched by
at most two steps of one request at a time; two routes are the least at which falling through,
ranking and resting differ. Waits of one to two ticks and a deadline of four give both orders
of every pair of timers. Two attempts make one retry. In `router_budget` the three requests let
a stream stay pending while another is settled and a third starts; a cap of two lets one call
exactly spend it and another pass it. Three handlers let one swap come between another's
snapshot and swap while a third writes. A queue of one and a batch of two let rows be dropped,
batched and alone; a channel of two lets the task run ahead of the client and block. In
`prices` the three rates have a small move, a large one and one to nothing between them; models
share nothing but the lock and the swap, so one shows what a sync and a person do to a row. The
one handler asks again and again, so syncs, answers and prices set by hand meet the schedule's
in every order, and its closure left behind runs beside a later sync. `MaxEvents` bounds a
stream at two events, so that one can be read while the other waits. `BreakerDoublings` is 30
where the code's shift stops at the width of a `u32`: TLC's integers are 32 bits wide, and the
ceiling is reached long before either.

In `streams` every chunk of up to twelve pieces is tried at every place, so a stream is cut
within a frame, within a line end and after one, and the larger chunks hold several short
frames or most of a long one. The vendors do
not repeat their totals there (`Repeating`), which is the case `streams_totals` is about. In
`exchange` two questions are enough for a turn to be handed to another vendor, with its calls
answered; the questions have each kind of media, tools, schemas, settings and refusals, and an answer may
call two tools, or one tool twice. In
`accounts` a million, the tokens a rate is for, is ten, and so is a second's thousand, so that
truncation and whole amounts both occur with small counts; `Most`, the largest amount, is beyond
every sum, since adding to it is what the saturating sum does. An attempt of the loop takes one
tick (`Took`), and a sleep may be one late. The constraint `Apart` keeps media calls and chat
calls in behaviours of their own, and lets time pass and pages be walked beside a few of the
media calls (`Around`): calls share nothing but the table, which the chat calls fill with each
outcome as well. `setup` has all
versions the code knows, and one that it does not; two keys are a right one and a wrong one.

**Symmetry** is used for requests and handlers in runs of safety properties only, where all
of them are treated alike.

**Deadlock** is checked in `prices`, where the schedule goes on for ever, and in `setup`, where a
process can always end and be started again. The instances of the other runs make finitely many
calls and may then stop.

**Fairness.** `Router!Fairness`: time passes, and a request that can go on is scheduled; a
provider's call ends, since the transport gives it a timeout. Nothing makes a caller call,
or charge a stream. `Completions!Fairness`: the runtime schedules a task that can run and the
writer. Nothing is assumed of clients or providers, who may be quiet for ever.
`Prices!Fairness`: the timer of the schedule fires, a fetch ends since its transport has a
timeout, and whoever waits for the lock gets it, as tokio's mutex is first come first served
(strong fairness of `Locks`, which others may take and let go meanwhile). `ListIsTakenUp`
asks for syncs that read the list again and again, since every fetch may fail.

## What the code does that its documentation does not say

Two runs show a behaviour that contradicts a sentence of the repository; `PROJECT.json` quotes it.

1. `streams_totals`: usage that a vendor repeats on each frame is merged by adding, so a Gemini
   stream of several frames is recorded and billed with a multiple of its prompt.
   `FoldsToTheReply` and `ClientSeesWhatIsRecorded` show that the rest of the stream is right.
2. `setup_crash`: a start that ends between the addition of a column and the writing of the
   version leaves a database that no start opens again. `VersionIsTold` shows that the version
   is never ahead of the tables; it is behind them that they cannot be brought forward.

What follows was met while modelling; the modules follow the code, and no run is spent on it.

*Router and gateway.* Two requests that fail on one route store their rests one over the other,
and the later wins also when it is shorter: a rate limit that names three ticks is cut to a
backoff of two, where `breaker.rs:163-164` calls the race fine since both record the same fact.
Likewise a reply ends a rest, and a denial at preflight may cut one. `RestWaitedOut` excepts these
three, since each is something heard from the route itself, by a request that was asking it already
or by the preflight; it shows that nothing else shortens a rest, neither a refusal nor a failure
that is about the request. The check before a call bounds its reply at the price of the model asked; where the provider says a
dearer one answered, that is what is charged, and the cap is passed by the difference
(`router.rs:523`, `PricedAsBounded`). A route a request failed on is reported as denied at preflight once a denial has run out with no reply in
between, since only `served` clears the flag. Two reloads may swap in the opposite order to
their snapshots, and the older gateway serves until the next change; `StaleOnlyWhenSwapsCross`
shows that this and a dropped handler are the only ways. An update that does not mention the
credential writes back the one it read; `CredentialLeftAlone` shows that it takes two updates
at once. An update is checked against the row as it was read, and writes all of it but the type
(`store.rs:355`): where the provider was deleted and created as another type in between, an
enabled provider is stored without the key its type needs, and is left out of the gateway until
it is next updated. `StoreIsComplete` excepts such a row (`strayed`), and the theorem shows there
is no other way. A body that cannot be made is an error like any other, so it counts against the health
of its route.

*Cost.* Two cases are left out of `BillIsAFloor` by name, and the theorem shows there is no third.
`cost_with` is documented to price the model asked for when the book does not list the one that
served (`gateway.rs:480-481`); it does so too when the book lists it and nothing of its price
was measured, and the row is then at another model's price (`Misjudged`). And a price set by hand
on hardware of one's own is said to be honoured (`gateway.rs:484`); where nothing of the call was
measured the row says it was free (`Overlooked`), while any other provider's says it is unpriced.

*Completions.* A stream whose client left while it was opened ends without a row. With the price
sync on, the default, the writer cannot end, so each shutdown waits five seconds and logs rows
that were not written. A row of the price table remembers one refusal, so when one price
is refused and then another, the first is held again when it comes back, where `prices.rs:277`
says "A held price somebody refused. The same price arriving again is not held again."
`HeldIsAQuestion` shows that the one refused last is not.

*Streams.* When a frame cannot be read, the error is given out at once and the events read
before it in the same chunk stay behind (`providers/api/mod.rs:393`): a client and a row get
less than arrived. Deltas of tool calls are attributed to the call that is open, whatever index
they name (`openai.rs:834`, `providers/openai/api.rs:345`). A tool without arguments that
streams none becomes `{"raw": ""}`. A proof whose reasoning was elided is kept only as a
signature without a block (`chat/stream.rs:194`).

*Bodies.* `openai.rs` promises that a field the router cannot honour is a 400 naming it, never
silently ignored; reasoning is not sent to chat completions and a schema is not sent to the
Messages API. `AskedIsCarried` names both. There is a third, met when the theorem was first tried:
reasoning asked of the Messages API together with a limit of one token goes out with a budget of
nought (`providers/anthropic/api.rs:150`). The theorem shows there is no fourth. Gemini is told results by
the id of the call where it goes by the name of the tool (`providers/gemini/api.rs:408`), which
are the same only for calls Gemini gave whole. And a call Gemini gives no id has the name of its
tool for one, which "keeps a result routable" (`providers/gemini/api.rs:455-456`), and streamed none
at all (`gemini/api.rs:341`): two calls of one tool in an answer, or any two that were streamed,
are then alike, and no vendor can tell which of them a result is of. `ResultsFindTheirCalls`
excepts both by name (`ByItsName`, `Alike`), and shows that otherwise a result finds exactly one
call, and a call that is answered has one result. A turn in which the
model said nothing and called nothing is written to the client and refused when the client
sends it back (`openai.rs:243`). Chat completions put the texts of a turn before what it shows
(`providers/openai/api.rs:489`).

*Media.* `docs/API.md` says each request is recorded in usage; a body that is not JSON leaves no
row, and neither does a call whose client left. A row of a failed call has zero attempts.
`fell_through` counts every failed attempt, not routes. Fields the reader does not know are
dropped. How many pictures come back, and whether as bytes or links, is up to the vendor: the
reader looks at none at all only (`openai/image.rs:106`); and of several vectors it looks at the
width of the first (`openai/embed.rs:215`). `AnswersWhatWasAsked` says what the readers do see to,
of vendors that send fewer, more, links for bytes, and odd widths. The deadline is looked at
between attempts, not within one. Usage of pictures and
transcriptions has no cached parts, so its cost is always partial.

## Proofs

The theorems about `Router` are for any finite set of requests, any number of routes, and any
policies, prices and cap; those about `Prices`, `Setup`, `Management`, `Completions`, `Bills` and `Exchange`
for any models, rates, providers, keys, operations, handlers, calls, queue and batch, bodies,
replies, plans, filters, limits, questions and routes.

* `Invariance` proves the inductive invariant `IInv`. The types alone are not inductive: that
  an outcome is an outcome rests on `error` being set while a failure is recorded, and that
  "nothing was sent" is true rests on `last` being empty exactly as long as no route was asked.
  `Coherent` says so of one request's local variables; `BecomesKeepsJourneys` reduces every
  action to the one journey it changes, and one lemma per group of actions does the rest.
* `TypeCorrect` and `NothingSentIsTrueTheorem` follow from it.
* `SpentCapStopsNewWorkTheorem` adds `BrokeInv`: spending is never taken back
  (`SpendingGrows`), so a request that started with the cap spent finds nothing left before
  any route; and attempts grow only by `Call` and `CallAgain` (`TriesGrowByCalls`).
* `RefusalIsFinalTheorem`, an action property, follows from `IInv` and `TriesGrowByCalls`: a
  verdict once set leads to the end, through steps that call nobody.
* `UnmeasuredIsPendingTheorem` adds `BookInv`: a request is on the books only when it was
  answered, so settling adds a new element and pricing takes away one that is there, and the
  cardinality moves with the count.
* `OvershootsByInputOnlyTheorem` adds `CapInv`. As long as no two requests overlapped, at most
  one is busy or has a stream to be priced (`StartsAlone`, `OneBusyAtATime`), so what was spent
  when the cap was looked at is what is spent when the reply is settled, and the reply was
  bounded by what was left (`AsksWhereItCalled`, `SpenderWasPending`), as long as no reply was
  priced dearer than it was bounded; that every earlier reply was not follows from the ones
  served staying served (`ServedStays`, `PricedBefore`).
* `OneFailurePerRequestTheorem` adds `ToldInv`: a request that is about to record a failure has
  not recorded one of that route, since the route is no longer among those left. Each failure
  counted then adds a request to the set whose cardinality bounds the count.
* `RestWaitedOutTheorem` adds `FoundInv`: of a route that somebody is about to store a rest for,
  nobody remembers one; of any other, none that is longer than the rest there is; and of the route
  it is asking, a request remembers nothing. `rests` and `found` are written at different steps, so
  this takes the whole path from hearing to storing. A rest is stored only by one who is `Telling`
  or by the preflight (`RestsByRecording`); what was remembered is forgotten on hearing
  (`TellingByHearing`, `RecordingByHearing`), and a request that starts in between takes nothing
  along (`FoundByStarting`).
* `AskedWaitHonouredTheorem` adds `WaitInv`: who sleeps sleeps at least as long as is left of the
  wait it was asked for (`HearingSleeps`).
* `KeepsPromiseTheorem` is the refinement. `PromiseByStep` says what each place in the code is to
  the promise; each action is then a step of one promise (`MakeOne`, `PassOne`, `AskOne`,
  `AskOnceMore`, `LeaveOne`, `FailOne`) or leaves them all (`PromisesStay`). Besides `IInv` it
  needs `ToldInv`, that the route in hand is not among those left, and `AbleInv`, that it can do
  the work, that who waits has attempts left, and that a request not called yet has every route
  before it.

* `Prices_proofs!TypeCorrect`, with `PlannedIsRow`: what a sync writes is a row again. The types of
  `Prices` are proved only; no run spends time on them.
* `HeldIsAQuestionTheorem` is inductive with the types and with `Remembered`, that the table has the refusal a person gave last: `PlannedAsks` shows it of the row a sync
  writes, from the row it found at that moment, so it does not matter how late the closure
  runs; `SettleLeaves` shows it of an answer. `TableChanges` says there are no other writers.
* `LargeMovesWaitTheorem` rests on `PlannedMovesLittle`: the row a sync writes applies the price
  that did, or one a small move away.
* `ServedAsStoredTheorem` needs the strengthening `Serving`: as long as nobody started beside
  another worker, at most one is at work, and only it may know of a price that is not charged.
  `PlanStays` and `RefusalStays` show that whoever skips the reload changed nothing.
* `Setup_proofs` has one invariant for its three theorems: the types, the two properties, and
  what holds on the way: while moving, every step before the next is done (`MovingInv`), before the version is written all are (`MarkingInv`), and a process that got
  past the check of the version found one it knows (`KnownInv`). It is inductive because no
  statement undoes what another did (`EffectKeeps`), whichever version and crash came before.

* `Management_proofs` says in `IInv` what a handler holds at each place in the code: what it is
  about to write was complete when it was checked, with the type it had then, and the rows it goes
  with are looked at again by the write itself (the foreign key, the row that must still be there).
  The type is not: a row is complete as written only if its type is the one that was checked, which
  `strayed` keeps track of. `StoreIsComplete` and the types follow. `StaleOnlyWhenSwapsCrossTheorem` needs `Newest`: while nobody is between its
  write and its snapshot, the newest gateway is the store's, and serves or is about to be
  swapped in. `CredentialLeftAloneTheorem` needs `OneAtATime`: what the one handler at work read
  is still what is stored when it writes. `LiveIsClosedTheorem` needs no more than that every
  gateway there is, serving or about to be swapped in, was built from some store
  (`BuildIsClosed`), and what `Only` keeps of a list.
* `Completions_proofs` keeps an invariant of the recorder (`RecIInv`) and one of the calls
  (`CallsIInv`) apart. `RowInOnePlaceTheorem` counts the places a row is in by cardinality
  (`TimesAppend`, `TimesTail`); it rests on `WhoRecords`, that only a call without a row records
  one, hence on `RowComesLast`: a call has its row when it is past its event loop, and not
  before. `RowTellsTheEndingTheorem` follows from `EndingIsKnown` and `EndingIsTold`;
  `CleanExitWritesAllTheorem` from `StopsInOrder`: once the writer has ended nobody is left to
  record and nothing is left to write. `DoneIsWholeTheorem` keeps a third invariant
  (`OrderIInv`), of what the client read and what is still in its channel: together, but for
  keep-alives, they are what the task has sent, in that order.
* `Lists_proofs` holds what the models pick by counting, and what they add up. `Nth(K, k)` is a `CHOOSE`, so each use
  of it needs that there is such a number: `NthIs`, by induction over the numbers up to the
  bound of `K`. The library's induction rules cannot be instantiated here, so the induction is
  had from a least counterexample: a set of numbers that is not empty has a least one
  (`NatMin`, from `WFMin` and that `<` is well founded). `OnlyIs` and what follows from it say
  what a filter keeps.
* `Bills_proofs` has one inductive invariant for the calls, their rows and pages. `CallInv` says what the call in
  hand is at each place in the loop: which routes of its plan it has asked, how often each,
  and that the tries kept in its entry are those (`Progress`). `RowInv` says where its row is: none while it is
  open, one in the queue or the table when it is over, unless it was forgotten (`RowsOnce`,
  `RowsKept`), telling what the entry tells (`RowsTell`). None of this follows from the property:
  that a row is the only one of its call rests on a call that is open having none. For the pages,
  `WalkOK` says that what the client still has to be given is what the next query selects below
  the place it got to: rows that come have higher ids, so they are never below it, and rows that go
  are in `forgot`. `ChatsNumbered` keeps the numbers of chat calls apart from those of media calls.
* `AnswersWhatWasAskedTheorem` stands on two lemmas of data and one invariant. A body in which
  nothing is at fault is one the fields of which are what the endpoint takes (`PicturesAskedFor`,
  `VectorsAskedFor`); a reply that a reader takes, of any of those a vendor may give, fewer
  or more pictures than asked, links for bytes and vectors of another width among them, is what the
  property says of it (`OpenAIEmbeds`, `GeminiEmbeds`, `OpenAIDraws`, `GeminiDraws`,
  `OpenAISpeaks`, `GeminiSpeaks`, `TextIsSaid`, together `RepliesHonour`). The hard one is
  `OpenAIEmbeds`: vectors are put by the index each names, in a reply that lists them in any order, and
  `IndicesLineUp` shows that a reply with one missing, twice there or without an index is turned down.
  `AnswersInv` carries from `Arrive` to the answer that a call with a plan was well asked.
* `MediaKeepsPromiseTheorem` is the refinement of the other loop. `ServedInCourse` says what each
  step of `Serve` makes of the call and its entry, and `CourseKeepsPromise` and
  `ArrivalKeepsPromise` what that is to the promise. It needs `IInv`, which
  has that the route taken up may be given the data, and two facts more: the entry of a call goes
  with the plan its name resolves to, and only the call in hand is open (`PlansInv`); the place of
  the route taken up is one of the plan's (`PlaceInv`).
  That a call has a plan at all to choose from rests on `PlansList`: the routes that `Only` keeps
  of a set are a list.
* `BillIsAFloorTheorem` goes from one line to all of them. A line is truncated and saturated, so
  it is a floor of its product and within one micro of it (`LineIsFloor`); a price has a line for
  each part of a rate that was measured, so it is a floor of what is charged, and all but seven
  micros of it where its coverage is exact (`TokensAreFloors`, `UnitsAreFloors`, `PriceIsFloor`),
  with the total held to what an `i64` holds. `AnswerIsOfUse` says of each vendor's reply that what is read
  of usage is what was used or nothing, and `CostIsBilled` follows `cost_with` to the model whose price it takes.
  `BilledInv` is the invariant that ties rows to bills: what a row says is a floor of what is
  billed for its request (`CostBilled`), a row of a request nobody billed says nothing, and a call
  in hand is not billed yet; `RowsAreBilledTheorem` is what it says by itself. `LedgerInv` ties
  each line of the ledger to a chat call of its own. Then come the sums: `SumIsBilled` of amounts
  against bills, each request in one row only (`RowsOnce`); and that the query's way
  of adding, group by group and currency by currency, is the sum over the rows. Two groups' totals
  absorbed are the totals of both (`TotalsSplit`), so any number of groups with no row
  in common add up to those of all their rows, in whatever order (`AllAbsorbed`), whence
  `GroupsAddUp`.
* Sums over sets (`SumFunctionOnSet`) are folds, recursive functions under a `CHOOSE`. `Lists_proofs`
  shows once that there is such a function (`SumsExist`) and that any two agree, by induction on
  finite sets had from the least number of members of a counterexample (`OneByOne`). What a sum of
  floors is, of one more, of two parts, of images, follows from that.
* `AskedIsCarriedTheorem` (`Exchange_proofs`) has data on one side and steps on the other.
  `NoFaults` says what is known of a body once `Faults` finds nothing, `BodyCarries` what the
  three shapes of body make of such a request (`OpenAICarries`, `GeminiCarries`,
  `AnthropicCarries`, the last with `ReasoningFits`). `IInv` then says that whatever was sent was
  made of the request read from what was asked last, for a route that may be given it: the
  property alone is not inductive, since a step sends a body made of `request`, which it does not
  name.
* `ConversationCarriedTheorem` follows a conversation of any length from the client's messages to
  the turns of each body. Both `ReadMessages` and `Sided` are folds, and lists of lists are put
  together by another; `Lists_proofs` shows once that such a function exists and goes on from a
  list to one with one more (`FlattenMore`, `GatherMore`), and `ReadsMore` and `SidedMore` do for
  these two. Induction over lists is had from the shortest counterexample (`ListInduct`). Then
  `NextRead` says of each role that reading one more message leaves the sides heard so far joined
  by what that message says, results and what follows them in one turn or not, so that a
  conversation is read as it is said (`ConversationRead`). Joining is associative
  (`BothAssociates`), so a turn may be split: `AnthropicCarried`, `GeminiCarried` and
  `OpenAICarried`, the last with results in turns of their own and texts before media, say that the
  turns a protocol makes of one turn say what it says, and `RequestCarried` puts them together
  after the system's. For the way back, `AssistantWrong` says that of all the turns the gateway
  writes only an empty one is refused, and `ResultsAreRead` that results of calls never are.
  That a turn can be read back at all rests on what the client was told: `WholeIsSpelt` says
  of each protocol that what it reads of a whole reply are blocks made of strings,
  `OpenAIStreams`, `AnthropicStreams` and `GeminiStreams` that every frame of a stream is read in
  such events, `RetoldIs`, by induction over the writer's fold, that the chunks made of them are,
  and `UnderstoodIs` that the client puts them together in one text and a list of calls (`ToldIs`).
  `TInv` is the invariant: `IInv`, that what is asked is the conversation held and that both are
  spelt (`Talk`), and that what was told can be read (`ReadBack`). The property alone is not
  inductive: it does not say that the bodies sent are made of what was asked.

The proofs assume `PolicyAssumption`, `RouterAssumption`, `PricesAssumption`,
`OperationsAssumption`, `SetupAssumption`, `GatewayAssumption`, `ManagementAssumption`,
`RecorderAssumption`, `CompletionsAssumption`, `PricingAssumption`, `AccountsAssumption`,
`MediaAssumption`, `BillsAssumption` and `ExchangeAssumption`, which TLC evaluates in the runs of
their module. Three of `MediaAssumption` say what a client, a vendor and the store are: the texts
to embed are a list and a count is a whole number (`Sendable`), a status among the faulty ones is
no success, and the routes of a set are a list. `ExchangeAssumption` says that a body is one of
JSON: a field has a value or is not there, and a limit is a number (`Spelt`); that a message is
made of lists of parts and calls, and those of strings (`SpeltMessage`); that a vendor's answer is
a list of texts, thoughts and calls, made of strings too (`SpeltBlock`); and that a route is of one
of the four protocols. `Strings` names the few literals the code writes by itself, since the
provers do not know of a literal that it is a string. `MediaAssumption` has
of a provider's book that its rates are numbers, one for each part and each model it says the origin of
(`PricedWell`), and `PricingAssumption` that a million is a multiple of a thousand. The last is
`PowerAssumption`, that the powers of two in use are positive: no installed prover knows what
`2^k` is, so it is stated, for the exponents used, and TLC evaluates it.

Only model-checked: liveness (out of the prover's reach); `CutsDoNotMatter`, `FoldsToTheReply`
and `ClientSeesWhatIsRecorded` of `Streams`, which has a recursive operator (`Absorb`), and no
prover here can take one; and `ResultsFindTheirCalls` of `Exchange`, which holds of clients that
answer the calls they were given and no others, as those of the run do, not of any that sends
what `ExchangeAssumption` allows.

## Not modelled

* The registry and the tables of models: lookups in files read once; what they say is a
  constant of the modules.
* HTTP, the signing of Bedrock's calls, the listing and testing of models and credentials, the
  survey at start, the health check command: they change no state of the program.
* The reading of price files and of the public list, the parsing of the environment, JSON and
  multipart bodies as text, the cipher, logging, reports, builders and the test kit: conversions
  without state that the properties could tell apart.
* An image whose shipped price table differs, over a store with synced and held prices.
* Failures of the database other than the end of the process.
* The address and the reach some types of provider need: asked of a row where the key is, and
  lost the same way. Parts of a Gemini answer that are neither text nor a call, calls without
  a name, and the ids it may give them: here it gives none, which is the case that is hard.

Some hazards in `PROJECT.json` have no property, and say why. Known and open besides: `put_model` takes the kind from the provider it
read, which may be another by the time it writes (`manage.rs:861`); a sleep that overruns is not
followed by a look at the deadline (`router.rs:1076`); the sort by health reads the counters as
it compares (`router.rs:692`); a change of the configuration forgets every circuit
(`gateway.rs:215`); a caller over budget on one route and resting on the others is told of the
budget (`router.rs:1102`); `settle_held` settles whatever is held when it runs (`store.rs:819`).

## Plan

1. Done: `Policies`, `Router`, `RequestPromise`, `Gateway`, `Management`, `Recorder`,
   `Completions`, `Prices`, `Setup`; `Streams`, `Exchange` and `Bills` with what they stand on;
   the theorems about `Router`, its refinement included, `Prices`, `Setup`, `Management`,
   `Completions`, of `Bills` those about rows, pages, answers, amounts and the promise, and of
   `Exchange` those about settings and about the conversation.
2. `Gateway` extended to the routers a swap throws away and to what a type needs besides a key; an upgrade whose
   shipped table differs; the endpoints that test a model and a credential.
3. Theorems: of `Exchange`, that results find their calls, for clients whose messages answer what
   they were asked.
