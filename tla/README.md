# TLA+ verification of the TrustFlow SDK

Models, model-checking runs and machine-checked proofs for the concurrent and
failure-prone parts of the TrustFlow SDK (TypeScript, one JavaScript event loop
per process). Paths below are those of the repository; `tx-pipeline/queue.ts`
stands for `src/tx-pipeline/queue.ts`, and so on. `PROJECT.json` lists, for
machines, what this file says for readers: components, runs, the lines behind
every definition, hazards, findings and theorems.

## The system

JavaScript runs every synchronous stretch (up to an `await`, a timer or a
promise callback) without interruption. Everything that can go wrong happens
*between* stretches: state read before an `await` and used after it, a timeout
that abandons the wait and not the work, a retry of what had already arrived, a
callback that runs after its owner was stopped. In the models one action is one
such stretch.

| part | state | operations | hard because |
|---|---|---|---|
| run queue (`tx-pipeline/queue.ts`) | map of lanes; each a tail promise and a counter | `runExclusive`, `queueDepth` | waiters time out in the middle of a promise chain; lanes are deleted and made again |
| transaction pipeline (`tx-pipeline/pipeline.ts`) | none but the await each run stands at | `run`, `assemble`, `prepare`, `submit`, fee bumps | lost and late answers, retries, two recoveries, one sequence number per account |
| retry, deadlines, classification (`utils/retry.ts`, `timeout.ts`, `transient.ts`, `node-retry.ts`) | attempt counter | `retry`, `withTimeout`, `withTransientRetry`, `classifyFailure` | an abandoned request goes on; a verdict is read off a chain of causes |
| multi-signature operations (`escrow/multisig.ts`) | map of operations: status, signatures, deadline | init, add, status, submit, prune, export, import | copies in several processes, objects replaced while a submission is in flight |
| Horizon submission (`stellar/transaction.ts`) | none | `submitTransaction` | a POST without an answer may have landed |
| event monitor (`escrow/monitor.ts`, `events.ts`) | handlers, filters, cursor, dedup window, timers | plain and resilient polling, delivery, stop, the iterator over the history | overlapping ticks, restart during a tick, a cursor store that fails; two tables of fields written apart |
| token refresh, session (`auth/tokenRefresh.ts`, `auth/session.ts`) | timer, in-flight refresh, stored session | start, stop, refresh, `waitForRefresh` | stop and start during a request |
| accounts (`accounts/manager.ts`, `useAccount`/`asAccount` of `client.ts`) | two indexes, active account | add, update, remove, activate, import, `asAccount` | an address that changes hands; the selection changes across an `await` |
| client (`client.ts`, `stellar/account.ts`) | network, servers, connected flag, balance cache | `connect`, `disconnect`, `switchNetwork`, `getBalance`, contract calls | the network changes across an `await` |
| circuit breaker, deduplication (`utils/circuit-breaker.ts`, `utils/dedup.ts`) | state and counters; map of promises | `execute`, `reset`; `dedupe`, `clear` | calls admitted in one state end in another |
| RPC endpoints (`NetworkManager` of `stellar/network.ts`) | the endpoints, health and failures of each, index, timer | `getCurrentRpcUrl`, reports, health checks | checks that overlap and answer late; turns over a list that changes |
| balance monitor (`stellar/monitor.ts`) | pending check, timer | start, stop, `checkNow` | a check that never ends |
| hooks (`hooks/`) | React state, call id | `useEscrow`, `useWallet`, ... | a later call supersedes an optimistic one; the rendered address changes |
| HTTP layer (`utils/http.ts`, `interceptors.ts`, `node/agents.ts`, `utils/connection-pool.ts`) | none but the retry counter; a registry of agents | requests of the backend clients, `destroyAllPoolAgents` | retries of what is not idempotent; one registry for all clients of a process |
| fees (`pipeline.ts`, `utils/resource-fee.ts`) | none | `estimateFee`, `prepare`, the ladder of bumps | rounding |
| contract values (`contract/spec.ts`) | none | encode, decode by type | nesting, key order, optional values |
| juror (`juror/client.ts`) | stored salts | `createCommitment`, reveal | a full map must not lose what can still be revealed |
| IPFS (`storage/ipfs.ts`) | none | `resolve` over gateways | aborts, duplicates |
| the rest | none worth a model | builders, wallet adapters, WebAuthn, parsers, formats, logging | data conversion and single requests |

How they interact: `TransactionPipeline.run` calls `runExclusive`, whose lane it
holds from `getAccount` to the final poll; each stage goes through `withRetry`,
which races each attempt against `withTimeout`. `MultiSigEscrowClient.submitWhenReady`
calls `submitTransaction`, which uses `withTransientRetry`; several clients share
an operation only through snapshots in a store of the integrator's. The client
owns the account registry and the balance cache, and every call it makes to a node runs
under `withTransientRetry`; the refresh manager, sign-ins and logouts share the session store. The
backend clients share an axios instance and nothing else. The pool registry is shared by
all the clients of a process.

What makes each part correct:

- queue: one run at a time per account, in the order of the calls; a bounded wait
  ends; nothing leaks;
- pipeline: a run's operations execute at most once; what it reports is what the
  ledger says; a failure before submission has sent nothing; it ends;
- multi-sig: only envelopes with M verified signatures of its signers are broadcast; the status
  agrees with the signatures and with the ledger;
- monitor: no cursor passes an undelivered event; a session delivers in order and
  once; events arrive; a filter lets through what it describes;
- refresh: one refresh in flight, the stored token is that of the stored address, nothing is saved
  after a logout, the chain of refreshes does not break off;
- accounts: the two indexes agree, the active account is registered, nested scopes restore it;
- client: nothing of one network is used or shown on another;
- breaker, deduplication: no move without its reason; one request for those who ask together;
- balance monitor: checks go on; endpoints: each healthy one has its turn, and those that answer count as healthy; hooks: what is shown is the latest, for the rendered address;
- HTTP, retries, fees: what must not be repeated is sent once, what nothing calls final is retried, a bump
  offers more than the last one;
- codec: what is encoded is a value of the type, and comes back as it was.

## Modules

| module | models | main correspondence |
|---|---|---|
| `ExclusiveLane` | what the queue promises: a FIFO lock per key whose waiters may give up | `Join` the call, `Grant` the start of `fn`, `Leave` its end or the timeout; `ahead[r]` are the earlier calls still in the lane |
| `TxQueue` | `tx-pipeline/queue.ts` in full | `Enter` l. 40-51, `Acquire` the `await previous`, `Expire` the lost race, `Chain` the `previous.then(release)` of l. 72, `Finish` the `finally` |
| `Submission` | what `run` promises its caller: the operations get to the ledger at most once, a run returns once and sends nothing afterwards, a verdict is the ledger's, an early failure leaves nothing behind | `Send`, `Settle`, `Return`; `pending` are the runs with something on its way, `entries[r]` what the ledger holds of r |
| `TxPipeline` | `run`, `execute`, `submit`, `submitEnvelope`, `pollForConfirmation` over `ExclusiveLane`; the RPC node and the ledger as environment | a run's `stage` is the await it stands at; `Transient`/`Terminal` are `withRetry`; `BuildBump` is the loop of `submit`, `Rebuild`/`WrapOriginal` the recovery of `execute` |
| `MultiSig` | `escrow/multisig.ts` and the POST loop of `stellar/transaction.ts` | `copy[c]` is the entry in client c's map; `holds[k]` the client in whose map the object is that submission k works on; `posted` the envelopes that went out |
| `EventStream` | what resilient polling promises: a stream whose events are delivered at least once, first in order, and again only after a disturbance | `Deliver` a batch that handlers are given, `Begin` a start or a crash; `cursors` the positions it may resume from |
| `EscrowMonitor` | resilient polling of `escrow/monitor.ts`, the cursor stores and pages of `events.ts` | a loop is one call of `startResilientPolling`; `Read`, `Answer`, `Receive`, `Save` are the stretches of a `tick` between its awaits, `ReadFails`, `FetchFails`, `HandlerThrows`, `SaveFails` their other ends |
| `TokenRefresh` | `auth/tokenRefresh.ts`, `auth/session.ts`, the end of `authenticateWithWallet` | one manager, one stored session, sign-ins and logouts that write it; a refresh is one call of `performRefresh`, from its post to its answer |
| `Accounts` | `accounts/manager.ts`; `useAccount`, `asAccount` | `address` is the map by id, `idByAddress` the index; a scope is one `asAccount` |
| `Calls` | the calls of an application, shared by the next modules | |
| `Hooks` | `hooks/` | a call is one use of an action or one lookup of an effect; `latest` is the call id |
| `CircuitBreaker`, `RequestDedup` | `utils/circuit-breaker.ts`, `utils/dedup.ts` | the stretches of `execute` and `dedupe` before and after the awaited call |
| `ClientCalls` | `client.ts`, `stellar/account.ts`, the cache of `utils/cache.ts` | a call's `pc` is the await it stands at; `on` is the network it began on, `via` the one of the server it asks |
| `BalanceMonitor` | `stellar/monitor.ts` | `stage` of the one check that all share |
| `ApiHttp` | `utils/http.ts`, `interceptors.ts` under the backend clients | one call: its interceptors, hooks, retries, size check |
| `SpecCodec` | `SorobanSpec` of `contract/spec.ts` | `EncodeBy`, `DecodeBy` do one level of a type, given what does the parts; `Codec[d]` is both for types nested up to d deep, `Encode` and `Decode` the deepest |
| `JurorSalts` | the stored salts of `juror/client.ts` | a set of salts, each with the moment it was inserted; `Oldest` is the first key of the map |
| `EventFeed`, `Polling` | `parseEvent` and delivery with topic filters; plain `startPolling` | one raw event; intervals and the polls they start |
| `Gateways` | `resolve` of `storage/ipfs.ts` | `replies` in the order of asking |
| `Retrying` | `utils/retry.ts`, `transient.ts`, `node-retry.ts` | a failure is its chain of layers; `IsTransient` is `classifyFailure` |
| `PoolAgents` | `node/agents.ts`, `utils/connection-pool.ts` | agents, the registry, the sockets |
| `Fees` | the fees of `pipeline.ts`, `padResourceFee` | `TotalFee` is `estimateFee`, `rungs` the base fees of the bumps |
| `RpcEndpoints` | the `NetworkManager` of `stellar/network.ts` | `asked`, `found` and `missed` count the checks of an endpoint without an answer and with each outcome, not yet reported |
| `EventHistory` | the `EventsIterator` of `escrow/monitor.ts` | `walk` is where the generator stands, `page` what is left of its loop over a page |
| `Positions` | `Nth`, the n-th number of a set: what `Array.prototype.filter` leaves at a place | used by `Gateways` and `RpcEndpoints` |
| `Services` | the fifteen modules from `Hooks` to `EventHistory` but for the codec, in one specification | `part`: which of them the behaviour uses |
| `Toolkit` | `Services` and `SpecCodec`, in one instance | `Serving` and `Coding` |
| `TxQueueProofs`, `TxPipelineProofs`, `MultiSigProofs`, `EscrowMonitorProofs`, `TokenRefreshProofs`, `AccountsProofs`, `ToolkitProofs`, `ServicesProofs` | theorems | see below |
| `MCTxQueue`, `MCTxPipeline`, `MCMultiSig`, `MCEscrowMonitor`, `MCTokenRefresh`, `MCAccounts`, `MCToolkit` | instances for TLC | see below |

`TxPipeline` composes with the queue through the abstract lane: `TxQueue` is
shown to implement `ExclusiveLane` (`ImplementsLane`, checked and proved), as `EscrowMonitor` is shown to implement `EventStream` and
`TxPipeline` to implement `Submission`, and the pipeline is built on `ExclusiveLane`, so what is shown of it holds over the promise chain.
`Accounts` composes the registry with the scopes of the client over it, `TokenRefresh` the manager
with the sign-ins over one store, `ClientCalls` the cache with the calls that fill it. The
parts of `Services` share no variable in the code either: interleaving them would multiply
states and add no behaviour of any of them, so a behaviour uses one and the others stand still.

Definitions marked *Faulty* (`leaveTwice`, `SignedAnyway`, ...) are wrong versions
of the definition after them, each a plausible bug. They are in no specification;
putting one in the place of the right one must break the property it is listed
with in `PROJECT.json` under "mutants".

### What the models abstract from

- *Envelopes* of the pipeline are `[run, gen, seq, bump]`: whose, assembled or
  rebuilt, which sequence number, which fee-bump envelope around it. Fees are
  the number of the bump. Signatures are whether the code signed (`Signed`).
- *Network.* A request that is lost is one that never arrives, an expired
  envelope one that never gets into a ledger; there are no separate actions. A
  late request or a late inclusion can happen at any time after the send. The
  node may answer TRY_AGAIN_LATER or ERROR at any time.
- *Deadlines of awaits* are nondeterministic: `AttemptFails` may happen whenever
  an answer is outstanding. It leaves what was sent on its way, as `withTimeout` does.
- *Failures* are the six the recoveries tell apart: a rejection by the node, an
  on-chain failure, a refusal by the RPC endpoint (4xx), TRY_AGAIN_LATER, a poll that gave up, and
  everything transient. `isFeeRelated` is modelled by what it decides: it reads
  the message of the error and of an `Error` cause, and the cause of a node's
  ERROR is an XDR value, so only the deferral is recognised.
- *Signatures in MultiSig* are the three things the code keeps apart: an entry
  (`entries`), its flag (`verified`) and whether the stored envelope really carries a
  valid signature (`genuine`). The store can damage an envelope and not its flag (`Damage`), and hand out a
  snapshot that is not the one exported (`Alter`): another threshold, one more signer, a valid entry of any
  address, another status. A snapshot with another `unsignedXdr` is one whose signatures are all damaged; its deadline is not
  altered. `altered` counts what happened to a copy on its way, as history; no guard of the code's operations reads it, only the bounds do.
  A signer may hand in a fee bump of the transaction (`FeeBumpers`): both hashes of it are tried, so its
  signature is counted as verified, though merged into the base envelope it is worthless. `genuine`
  keeps such entries apart; the runs and proofs of authorisation speak of what was verified, `MergedIsValid` of the rest.
- *The account's own thresholds* are not relied on: `Land` takes any posted
  envelope, so that M-of-N is shown to be enforced by the client.
- *Events of the monitor* are numbered in ledger order and an event's paging token is
  its number. Only those that `parseEvents` returns have one: the others, of an unknown type or malformed, are
  never delivered, but take up room in the pages; `position` says where the numbered ones lie among all. The window (`seenKeys`) is kept as an age per event: how many keys
  were remembered since. The two attempts inside one fetch are one; delays, and
  the count of failures behind them, are left out, so `onReconnect` may throw in
  any tick. `options.initialCursor` is not given.
- *Tokens* are numbered in the order they are issued. Of a token's expiry only what
  `start` distinguishes is kept: no `exp`, further away than a timer can wait, beyond the refresh
  margin, or within it. The three storage keys of a session are written in one step: the code has no
  `await` between them.
- *Failures in Retrying* are chains of layers, each with a mark, a status, a class of codes, a class
  of messages and a `Retry-After`. The codes and messages of one class are one. The chain may be of any length; `Depth` is the
  five layers that `chain` looks at, and what `classifyFailure` finds by calling itself on the cause is the first layer that is
  not passed on (`Judged`), so no recursion is needed to say it. The run includes chains of six layers.
- *Fees* are stroops; multipliers are in hundred thousandths, because the code rounds them to
  ten thousandths. *SpecCodec* has one integer type for ten, and one symbol for the other leaves; the keys of a
  map are of these. An object is a list of different keys with their items.
- *Networks* of the client are interchangeable, so a behaviour begins on any one of them. The REST
  sub-clients are `ApiHttp`'s matter.

## Runs

| run | instance | result |
|---|---|---|
| `tx_queue` | 4 calls, 2 keys (at most one call on the second), each with or without timeout, one call may hang | 95,872 states, holds |
| `tx_pipeline` | 2 runs, 2 attempts, 1 automatic bump, 1 foreign transaction | 582,679 states, holds |
| `multisig` | 2 clients, 2 of 2 signatures, a third address, 2 submissions of 2 POSTs, clock to 2, retention 1, 1 alteration of a snapshot while 1 client holds the operation, with symmetry | 860,671 states, holds |
| `monitor` | 2 sessions, 3 parsed events in 3 layouts among those that are dropped, pages and window of 2, 2 failures, restarts and crashes | 262,595 states, holds |
| `token_refresh` | 2 accounts, 2 overlapping refreshes, 2 sign-ins, 1 caller of `waitForRefresh`, 3 tokens | 239,662 states, holds |
| `accounts` | 2 ids (one is its address), 2 addresses, 3 scopes, snapshots of 2, with symmetry of the scopes | 61,610 states, holds |
| `toolkit` | 3 calls, 2 addresses, 2 networks, 2 client calls; the other bounds below | 326,611 states, holds |
| `tx_pipeline_signed`, `tx_pipeline_sequence`, `multisig_final`, `multisig_merged`, `monitor_write` | the same instances (`multisig_merged` with a signer of fee bumps, `monitor_write` with 4 events and 1 failure), one property each | violated: see Findings |

Properties, by run:

- `tx_queue`: `MutualExclusion`; `LaneAccounting` (the map holds a lane object
  exactly while somebody is in it, and its depth counts them); `ImplementsLane`
  (refinement of the FIFO lock); `BoundedWaitEnds` (a call with a timeout never
  waits for ever, behind a run that hangs too); `EveryWaitEnds` (calls that timed
  out do not cut those behind them off from the release).
- `tx_pipeline`: `AtMostOnce`; `VerdictsAreTrue`; `ImplementsSubmission` (refinement of
  the abstract submission: besides those two, a run that gave up before it submitted has nothing under way, so calling
  again is safe, and one that has returned sends nothing more and keeps its result);
  `ReuseOnlyWithoutOutcome` (two serialised runs build with one sequence number
  only if one of them returned without the ledger's verdict); `EveryRunSettles`.
- `multisig`: `BroadcastIsAuthorised` (a posted envelope carries verified signatures of as many addresses as the
  posting copy asks for, however signatures were damaged; and if no snapshot on the way to that copy was altered, of
  at least `Threshold` of the signers of the operation); `SubmittedMeansLanded` and `StatusMatchesSignatures`, of copies and
  snapshots that were not altered. Verified means: of the transaction, or of a fee bump of it (Finding 5).
- `monitor`: `NothingSkipped` (the events up to any cursor, in memory or in a store,
  were delivered); `ImplementsStream` (refinement of the abstract stream: events
  are delivered for the first time in the order of the ledger, none left out, whatever fails, overlaps or crashes; and a calm
  session, in which no read of the store failed and no older loop disturbs, goes on from a cursor, in order, without holes and once, even when
  a write fails); `EventsArrive` (of the events that no full page of dropped
  ones hides, unless a write or a read of the store failed, a
  handler threw or a tick was overtaken by a restart: each of them can stop
  delivery for good).
- `token_refresh`: `SessionIsPaired` (the stored token is one of the stored address);
  `SingleFlight`; `LogoutHolds`; `WaitersGetFreshTokens`; `NeverTooEarly`; `SessionIsRenewed` (the
  chain of refreshes does not break off). Their exceptions are what `stop` and `start` during a request really
  do: the request is not abandoned, and may save a session after a logout, or run beside a second one. The
  flags `overlapped`, `crossed` and `interrupted` of the model say exactly when.
- `accounts`: `ActiveIsRegistered`; `ListenersKnow`; `LookupsAgree` (but for addresses that
  an account left, or of which one of several accounts was removed: `astray`); `ScopedSelection`.
- `toolkit`: `ServicesTypeOK`; `HooksAgree` (four parts: loading, placeholders, the rendered address, disconnects, each up to
  what the hooks do not prevent: `usurped`, `overlapped`, `outdated`, `overtaken`); `BreakerMoves`; `SwitchIsClean`; `WatchersKeepUp` (`ChecksGoOn`; `EndpointsAreJudged`:
  once the checks stay on and the endpoints as they are, those that answer are the healthy ones, whatever late answers said before); `CodecHolds`
  (what is not rejected is accepted by the Soroban host, a struct with all its fields when all are given, can be decoded, and
  what it is decoded to is encoded in the same way: over all bounded values of the bounded types, nested ones too);
  `CallersAreServed`: `RequestsAreShared`, `SaltsAreKept`, `FiltersAreExact`, `PollsAreOwned`,
  `GatewaysInOrder`, `PoolsAreTracked`, `HistoryIsWhole` (the iterator gives all events, in order and once), `TurnsAreTaken`
  (each healthy endpoint is handed out in its turn, and no late answer revives a destroyed manager); `RetriesAreSafe`: `HttpRetriesAreSafe` (what is not idempotent is
  posted once), `NodeRetriesAreSafe` (verdicts on chains of causes, pauses), `FeesAreEnough`
  (the ladder of bumps climbs, an estimate pays).

Why the bounds are enough to be of use. Queue: a holder, a waiter that expires,
one behind it and a late comer is the shortest history in which a broken chain
shows (the mutants need all four); lanes of different keys share only the map.
Pipeline: two attempts let a late first copy meet its retry; one bump and one
escalation give all three kinds of envelope; the foreign transaction takes a
sequence number from under a run; the second run is the one queued behind. `Main`
has every setting, the other run is plain and serialised. Multi-sig: a second
client and a second call give replaced objects and crossing submissions; the
clock passes one deadline and one retention period; an altered snapshot may ask for none, one or two signatures, so that
the code's own check of the threshold is met on both sides. The proofs have no such bounds. Monitor: two sessions give resumption, restart
after a crash and a second loop that a restart during a tick leaves behind; three
events are a short page and a full one, which a failed write makes the monitor
read again; two failures combine; the layouts are a stream in which every event is parsed, one with a dropped event after
the first, and one with a whole page of dropped ones. Refresh: two refreshes and two sign-ins of different addresses are what a
request crossing a logout, a second request and another user's session need; a third token is a renewal after a
renewal. Accounts: an account that has its address for its id and one that may share it; three scopes nest and
overlap. Toolkit: three calls are two in flight and one that supersedes them (hooks), one admitted before each change of
state (breaker, thresholds 2, counts to 4), a request, its follower and one after a `clear` (dedup); two client
calls with two attempts each cross a switch; two retries, one of them the last (HTTP); three commitments for
two salts, so that one is evicted; two filters, intervals, polls, events, gateways with a list of up
to two; two axios instances that are given new agents (4 in all); two endpoints with two
checks of each in flight, so that an older answer meets a newer one, one report by the application and one outage; three events in pages
of two, of which none, one or a page of them are dropped after the first. Fees of 0, 1 and 100 and the multipliers
0.9, 1.00004 and 1.00005 meet both sides of the rounding, with two bumps; delays of 3 up to a cap of 8 meet the cap on the
third attempt.

`MaxForeign` and `MaxTime` are bounds of the models, not of the code: other
transactions of the account, and the clock. `MaxAltered` bounds the alterations of snapshots, and with `MaxHolders` they happen only
while so few clients hold the operation. So are `MaxTokens`, `MaxImport`, `MaxCount`, `MaxClock`,
`MaxHandlers`, `MaxFilters`, `MaxIntervals`, `MaxEmitted`, `MaxAgents`, `MaxGateways`, `MaxInFlight`, `MaxReports`, `MaxOutages`, `HistoryLength`
and, for the codec, `Words` and `MaxNesting` (types in the run are up to four deep, a vector of structs of options); the
index of `RpcEndpoints` is kept modulo `Turns`, a multiple of every number of endpoints it is divided by. A run whose actions are all used
up stops, so the configurations switch the deadlock check off.

### Fairness

- Queue: continuations run, timers fire, and `fn` settles for the runs in
  `Settling` only: nothing is assumed of the others, nor that anybody calls.
- Pipeline: a run at an await goes on (`WF(RunStep)`), and a granted lane is taken
  up. That needs a configured timeout (`client.timeoutMs` or `policy.timeoutMs`) and
  `onFeeBump` handlers that settle; without either the code may hold the lane
  for ever, and `EveryRunSettles` is not claimed. The node and the ledger get no
  fairness: nothing need ever arrive or be included.
- Multi-sig: no liveness is claimed.
- Monitor: a tick goes on (`WF(Tick)`): timers fire, and `fetchFn` and the store settle.
  The code puts no deadline on either, so an integration whose calls hang
  has no such guarantee. Nobody need start, stop or publish.
- Refresh: time passes (tokens age), timers fire, and a refresh in flight is answered or
  fails, which axios's timeout sees to. Nobody need sign in or call.
- Balance monitor: the interval ticks, the fetch answers or fails by the deadline of the SDK,
  handlers settle unless the model lets one hang (`hung`), and the webhook has a deadline of its own.
- Endpoints: the interval ticks, and the fetch of a check, which the code aborts at its deadline, settles and is reported.
- The other parts: no liveness is claimed.

## Findings

1. **The rebuilt transaction is not signed** (`tx_pipeline_signed`). After
   TRY_AGAIN_LATER has used up the attempts, `execute` reloads the account and builds
   the inner transaction anew (`pipeline.ts:755-776`). Only the assembled one was
   signed (709); the new one gets the fee source's signature around it (790) and none of
   `params.signers`. The node can only reject it. If it is repaired by signing,
   another hazard opens: the deferral may follow a lost acceptance, the first
   transaction may land, and the rebuilt one carries the next sequence
   number. `AtMostOnce` holds today *because of* the missing signature; its
   mutant (`SignedAnyway`) is exactly this repair, and executes twice.
2. **A queued run can reuse a sequence number in flight**
   (`tx_pipeline_sequence`). The pipeline's doc comment says concurrent runs never
   build transactions with the same sequence. A run that gives up leaves its
   envelope with the node and the lane to the next, which reads the account too
   early. The ledger takes one of the two; `ReuseOnlyWithoutOutcome` is the
   guarantee that remains.
3. **Terminal statuses are not final** (`multisig_final`). `submitWhenReady` does
   not look at the status: after the deadline it turns `submitted` into `expired`
   (`multisig.ts:244`), and a submission in flight turns `expired` into
   `submitted` (271). A related known issue is in `tests/multisig.test.ts:814`.
4. **A failed cursor write can stop delivery for good** (`monitor_write`). After a failed
   `store.set` the next tick reads the old cursor, gets the same page, and discards
   it, because the window holds all of it. A page with nothing new is not saved
   (`monitor.ts:526`), and the newer `lastCursor` is used only when the store is empty (469).
   If the page was full, no later event is ever fetched. A failed *read* (471) can do the same: the stream is
   delivered again from its beginning until a full page is met that the window still holds. And so it happens without any failure when a session restarted during a tick saves and then the old
   tick's slower write puts the earlier cursor back; this is why `EventsArrive` excludes
   `misread` and `overlapped`.
5. **The signature of a fee bump is counted** (`multisig_merged`). `_verifySignedXdr` promises
   an envelope with the transaction of the operation and a valid signature of the claimed signer
   (`multisig.ts:584`). It tries both hashes of what a signer hands in; if that is a fee bump of the transaction,
   the signature that is valid is the outer one, which does not sign the inner transaction it is merged
   into (637-638). The operation then counts as signed and is broadcast one signature short. Nothing is lost, because the
   network refuses it; but it cannot be completed either, since the signer has signed.

Seen while modelling, without a run of their own:

- `multisig.ts:413-469`: `_validateSnapshot` checks the shape of a snapshot and a threshold of at least one;
  `_reverifyImportedEntry` (476-491) verifies a signature for the address its entry claims, and `_getVerifiedCount` (672-677)
  counts any verified address. Nothing compares the threshold and the signers with those of the operation, nor the entries with
  the signers. So a snapshot altered in the store, with a threshold of 1 or an entry of somebody else, is broadcast with fewer
  signatures of the operation's signers than it was opened with (`foreign` in `BroadcastIsAuthorised`; with the exception
  taken out, TLC finds it), and an altered status is reported as it is (`altered` in the other two).
- `useProfile.ts:56-90`: `update` closes over the address of its render. One that is kept and called after the address changed
  takes the newest call id (63), so it ends the lookup of the new address and shows the old one's profile (70)
  (`outdated` in `ShownIsRendered`).
- `useEscrow.ts`: an `onOptimisticRollback` that throws keeps the error from being shown, and from being thrown to the caller.
- `tokenRefresh.ts`: `stop` (158) says it ends the cycle, and clears the reference to the request in flight, not
  the request; its answer saves a session (245) and calls `start` (251).
- `monitor.ts:526-530`: the cursor moves over parsed events only, so a page of nothing but unrecognised or malformed
  ones is fetched for ever, though `events.ts:234-236` says that these are skipped cleanly without discarding valid
  events (`Reachable` in `EventsArrive`). The iterator (91-130) ends at such a page, before later events (`InReach` in `HistoryIsWhole`).
- `events.ts`: `parseEvent` decodes no fields for `escrow_funded`, `escrow_cancelled` and
  `dispute_resolved`, so any topic filter on one of these types suppresses all its events; so does a filter with
  `topicIndex` 0, which the doc of `TopicFilter` names (`monitor.ts:164`) and no branch matches, on any type.
  `FiltersAreExact` speaks of the types and fields that are decoded.
- `http.ts:272-275` says that the response hooks of the application observe only the final outcome; they run before
  the retry interceptor and see every attempt.
- `dedup.ts`: a factory that throws at once leaves its promise in the slot (`poisoned`): every later call of the
  key gets the same rejection until `clear`.
- `retry.ts:170-184`: the `Retry-After` hint "wins", and is then jittered like the schedule, so a pause
  may be half of what the server asked for; `http.ts` waits all of it.
- `transient.ts`: a status of a cause, or a message such as "terminated", outweighs the code of a deterministic
  SDK error, which the comment at 259 rules out.
- `tx-pipeline/types.ts:103-106` says that the first bump uses the p90 fee times the multiplier; the code takes
  the maximum with the previous base fee and the fee of the transaction. `isFeeRelated` (`pipeline.ts:62`)
  cannot see a rejection by the node, and `FeeBumpEvent.previousHash` (793) is of an envelope that was never sent.
- `accounts/manager.ts`: the comment on `idByAddress` says that it finds every account by its address; it does not
  when the account indexed last under a shared address is removed (`astray`).
- `disconnect` of one client destroys the pool agents of all the clients of the process.
- `spec.ts:781-808`: a struct field of type Option that is left out gets no entry in the map, where an Option argument that is
  left out gets a void (488-541). The host wants every field of a struct; `CodecHolds` claims it for structs given with all (`OmitsField`).
- `juror/client.ts` uses `randomBytes`, `TrustFlowError`, `isValidEscrowId`, `isValidStellarAddress`
  and `buildRevealArgs` without importing them: calls that reach one end in a ReferenceError.

## Proofs

For all values of the constants, under the named assumptions of each module.

| module | theorems | assumptions |
|---|---|---|
| `TxQueueProofs` | `TypeCorrect`, `Exclusion`, `Accounting`, `Refinement` | finitely many runs; `None` is no run |
| `TxPipelineProofs` | `TypeCorrect`, `ExecutesOnce`, `VerdictsTrue`, `Refinement`, `NumbersReused` | bounds are naturals, at least one attempt; `NoFeeBump` is no number |
| `MultiSigProofs` | `TypeCorrect`, `Authorised`, `SubmittedTrue`, `StatusTrue` | finitely many addresses, the signers among them; `1 <= Threshold <= N`, as `_validateInitParams` checks, and it is one of the thresholds a snapshot may have; bounds and deadlines are naturals; `None` is no operation and no client |
| `EscrowMonitorProofs` | `TypeCorrect`, `SkipsNothing`, `Refinement` | sizes are naturals, page and window positive; parsed events lie at least one apart |
| `TokenRefreshProofs` | `TypeCorrect`, `SessionsPaired`, `OneRefresh`, `LogoutFinal`, `FreshTokens`, `InTime` | the bound on tokens is a natural; `None` is no refresh, session or timer |
| `AccountsProofs` | `TypeCorrect`, `ActiveRegistered`, `ListenersAgree`, `IndexesAgree`, `ScopesRestore` | `None` is no id and no address |
| `ServicesProofs` | `HooksStayInAgreement`, `BreakerMovesHold`, `RequestsStayShared`, `PoolsStayTracked`, `FeesSuffice`, `PollsStayOwned`, `HttpStaysSafe`, `FiltersStayExact`, `HistoryStaysWhole`, `SwitchStaysClean`, `SaltsStayKept`, `GatewaysStayInOrder`, `TurnsStayTaken`, `NodeRetriesStaySafe`, each of the specification of its own module; `ServicesAreTyped`, `CallersStayServed`, `RetriesStaySafe`, `OthersKeepTheirPromises` of `ServicesSpec` | `None` is no network, key, number, address or anything else; thresholds positive; at least one attempt; bounds and delays are naturals; an event has a topic; parsed events keep their order among all; `Turns` is a multiple of every number of endpoints; failures are chains of layers |
| `ToolkitProofs` | `CodecStaysTrue` of `CodecSpec`; `ToolkitServes` and `ToolkitCodes` of `ToolkitSpec`, the specification of the run | those of the services; types are well-formed, types and values are nested at most `MaxNesting` deep, any number, and the words include those the codec uses |

*Queue.* Mutual exclusion is not inductive: it says nothing of the promises. The
inductive invariant says what the chain is: within a lane object calls are
linearly ordered by `before`; each call waits for the promise of the one that
entered just before it; a promise is resolved only when all before it are; and a
call in the lane is in the object the map holds. A run that starts therefore has
only left calls before it. The same invariant gives the accounting and, step by step, the
refinement: each action is a step of the abstract lane or leaves its variables alone (`Chain`).

*Pipeline.* `IInv` ties each run to one transaction: all of its signed envelopes, wherever they
are, carry one sequence number (`Sequenced`), the node accepts signed envelopes only and the
ledger uses a number once (`Taken`). So two executions of one run would be one.
`Quiet` says that before `sending` nothing of the run exists; `Outcomes` ties results to the ledger.
With these each step is one of the abstract submission: a step of a run either goes on, adding only envelopes of that run
(`GoesOn`), or returns and adds none (`Returns`), and what the ledger takes is the first of its run (`IncludeImplements`).
That numbers are reused only without a verdict needs the order of the lane as well: a run that has built and not returned
holds the lane, so the next one builds after its return, and a verdict of the ledger means that the
number is used up.

*Multi-sig.* The invariant says that the verified signatures of a copy are genuine, that
a call in flight holds an object of a client that has one, that a posted envelope carries
enough, that a copy or snapshot without alterations has the threshold, the signers and only entries of the
operation, and that its status, entries and the ledger agree.

*Monitor.* A cursor moves over a page of which the window already holds a part, and a tick works
with a cursor read before an await. So the invariant says that the window holds delivered events only and
that the cursor of every tick in flight, including those of overtaken loops, has everything
before it delivered. Order needs a second invariant: what the window remembers is a stretch of events that ends at
`lastCursor`, with ages that count back from it, and the cursor a tick works with is at most a page behind. With both, and with pages that hold
published events only, each step is one of the abstract stream: a batch has no holes before it, because what a tick leaves out is before its
cursor or in the window (`NoHoles`), and in a calm session it begins right after a cursor. The proof showed
that a failed read disturbs not only the session it happens in but every one until the window is reset.

*Refresh.* That a refresh is not too early (`InTime`) is said of the margin the code works with (`refreshLeadMs`, 60 s by default, and the 5 s of
`MIN_SCHEDULE_MARGIN_MS`; `tokenRefresh.ts:18, 26, 99`), in the model a token whose `life` is `near`. `IInv` says that what a refresh holds, from its post to its answer, is a token with its owner's address (`Paired`);
that unless `start` or `stop` met one the refresh in flight is the one the manager refers to (`Tracked`); and that after a
clean logout nothing in flight can bring the session back (`Gone`).

*Accounts.* That the indexes agree is nearly inductive; what is added is that an account with an address for its id has that
address (`OwnAddress`). The scopes form a stack: while nobody disturbed it, each one restores the target of the one below, or
`home`, the selection outside of all of them (`Chain`), and all of these can still be restored.

*Parts of the services.* Each proof strengthens in its own way. Hooks: who expects a result, for which address the latest lookup
is as long as no outdated update took its number, and which connects are open (`Expected`, `Addressed`, `Connecting`). Breaker: the failures it counts are those
since the last success, and its successes were probes (`Counted`). Dedup: only calls that were made have a request, and
none from before a `clear` is in flight unless it crossed it (`CallsMade`). Pools: nobody shares an agent (`Separate`).
Fees: the base fee is never below the fee nor a rung (`Offers`), with lemmas on rounding. Polls: an answer is alone in flight and not
older than what was shown (`Ordered`). HTTP: how often the request was sent at each point of a call (`Sendings`).
Events: the two tables agree on the fields that are decoded (`TablesAgree`), so a filter matches what it describes.
History: what was given and what is left of the page are the events up to the cursor, in this order (`Walked`), because a page is
a stretch that begins after it (`PageIsStretch`).

*Client.* For each open call, where it is and what it has cost (`CallsOK`): one that no switch overtook is on the current
network, and so is the server it asks. A disconnected client has no open connect that could set its flag (`Departed`).

*Retries, salts, gateways, endpoints.* These rest on data that the code walks through in a loop or by recursion. The walk is
replaced by what it finds: the first layer that has a status or is not passed on, the salt inserted first, the n-th number of a
set (`Nth`). Such a definition is a minimum or a CHOOSE, and what has to be proved is that the thing exists: `MinIs` and
`Smallest`, from the well-foundedness of the natural numbers (`WFMin` of the library, with no operator for a parameter), and
`NthCounts`, that the n-th number of a finite set is there for each n up to its cardinality, from the bijection that counts it.
A verdict then needs no induction: the layer that is judged and the one a status is read from are at least the ones that
are passed, and a wrapper moves both by one. For the endpoints: as many numbers as there are healthy ones, one after the other, have
all the remainders (`EachRemainder`), so the next choices are all of them. The invariant of the endpoints is that
of the checks of an endpoint, unanswered or not yet reported, there are never more than `MaxInFlight`.

*Services.* `ServicesInv` is the conjunction of the invariants of the fifteen parts. A step of the services is a step of one part that
leaves the others alone (`OthersRest`), so each invariant is kept by its own proof or trivially; what the run checks of the
instance is then a theorem for all values of the constants, of the composition itself.

*Codec.* That encoding and decoding undo each other is an induction over types, for which the provers have no theorem to cite. It is
replaced by three steps. First, `Codec` and `Nested`, recursive functions of the depth, are what their definitions say (`CodecIs`, `NestedIs`):
the function up to n exists and is unique for every n, since a least n without it would have it. Second, one level:
if the parts of a type are kept (`PartsKept`), so is the type (`WholeKept`), shown for each of the twelve kinds
(`OptionKept`, `MapKept`, `StructKept`, `UnionKept`, ...). `Kept` is stronger than the property: what is decoded is no `undefined`
and is `null` only of a void, or an option of it would come back as something else; and what is encoded is no deeper than its type, so that it is a value
the next level knows. Maps need that sorting is a permutation in strict order (`Sorting`) and does nothing to what is sorted
(`InOrder`), as the entries of a map that comes back are. Third, a least depth at which something is not kept would have parts that are
(`CodecKeepsAll`). The invariant of `CodecSpec` then only says what `wire` and `back` are.

*Toolkit.* A step is one of the services or of the codec and leaves the other alone (`StepsOfToolkit`), so both invariants are kept, and
what the run `toolkit` checks of its instance holds of `ToolkitSpec` for all values of the constants.

So every safety invariant and every refinement and action property that a run checks is also a theorem. Model-checked only: liveness
(`BoundedWaitEnds`, `EveryWaitEnds`, `EveryRunSettles`, `EventsArrive`, `SessionIsRenewed`, `WatchersKeepUp`), which needs
fairness and ENABLED and is out of the prover's reach.

## Not modelled

The monitor's detection of gaps by ledger number; the contents of fee-bump events and the read-only
`simulate` of the pipeline; `getAssembledXdr` other than as part of a submission; WebAuthn and the wallet adapters (calls of a
browser API that keep no state beyond which adapter is connected); the builders of operations and envelopes, the
parser of contract specs and the generated bindings, CID encoding, text and date formats, validation of text, JWT
parsing: pure functions of text or bytes, for which the models keep the outcome only. XDR merging and cryptography
are external. Logging, environment detection, error classes and test doubles have no state that a
property could be about. The escrow contract, whose state machine the SDK calls, is not in the repository.

## Plan

1. `ExclusiveLane`, `TxQueue`: the lock everything of the pipeline rests on, its
   refinement, its proofs. *Done.*
2. `TxPipeline` over `ExclusiveLane`, proofs of its safety and that it implements `Submission`. *Done.*
3. `MultiSig`, proofs of its safety, with signers that hand in fee bumps. *Done.*
4. `EscrowMonitor`, proofs that nothing is skipped and that it implements `EventStream`; `Polling`, `EventFeed`, `EventHistory`. *Done.*
5. `TokenRefresh` with the session store, its proofs. *Done.*
6. `Accounts` with scopes, `ClientCalls` with `switchNetwork` and the balance cache, their proofs. *Done.*
7. `CircuitBreaker`, `RequestDedup`, their proofs. *Done.*
8. `Hooks`, all of them, with proofs. *Done.*
9. `Fees`, `Retrying`, `ApiHttp`, `PoolAgents`, `JurorSalts`, `Gateways`, `BalanceMonitor`, `RpcEndpoints` in
   `Services`, with proofs of the composition; `SpecCodec` in `Toolkit`. *Done.*

Left besides: the pipeline with several fee sources, and the monitor's gap detection.
