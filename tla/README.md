# mini-sor in TLA+

A verification development of mini-sor, a simulator of order execution over two
stock markets (KRX and NXT). It models the parts whose correctness hangs on the
order of events: money and shares under order handling, the routing of an order over
the markets, the matching engine's structures, an account record shared by processes
that may be killed, a message session that must survive broken connections, the
exchange at its other end, recovery from files after a crash, a pool of worker
processes, and the client's library. The modules are translated from the C sources under `src/`;
`PROJECT.json` maps every definition to its lines.

    tlc -workers 2 -config LedgerTrade.cfg MCLedger     # any run of the table below
    tlapm AccountStoreProofs.tla                        # a module of proofs

## 1. The system

    web (React) -> channel (Java/Spring) --TCP, fixed-length messages--> ledgerd
                                                                          |
        ledgerd: worker_pool / listener -> ledger_core                    |
                   |-- account.c      accounts in shared memory           |
                   |-- sor/           strategy -> plan -> executor, order map
                   |-- exchange/      one matching engine per market, in process
                   `-- remote_venue.c + fep/ --TCP--> exchanged  (with --exchange)

`ledgerd` runs in two ways. Alone it handles one message at a time, matching in
process. With a worker pool it forks; the accounts are in a shared segment and
each worker handles its own connections. With `--exchange` it sends legs
over a FEP session to `exchanged` instead of matching them itself.

| component (source) | state it keeps | operations | talks to |
|---|---|---|---|
| account store (`ledger/src/account.c`) | per account: cash, reserved, position, cost, shares held back, realized gain; saved old values, mark, version, robust mutex | reserve, release, settle, deposit, withdraw, set_cash, buy_fill, sell_reserve, sell_release, sell_fill, seed; lock and repair | workers through shared memory; called by the ledger core |
| ledger core (`ledger/src/ledger_core.c`) | accounts, order map, engines, market-data and synthetic-trader flags | ORDER_REQ, CANCEL_REQ, ACCOUNT_OPEN, BOOK_FEED, FEED_END, queries, tick | calls everything below; called back by the engines for each fill (`on_event`) |
| order map, executor (`sor/src/order_map.c`, `executor.c`) | logical orders and their legs: sent, filled, cancelled, live | add, accept, fill, cancel; submit and cancel a plan | the engines or the remote venue |
| strategies, consolidated book (`sor/src/strategy*.c`, `consolidated.c`) | none (pure choice of a plan) | plan | the books, read only |
| matching engine, book (`exchange/src/match`, `book`) | price-time queues, an order pool of fixed size | limit, IOC, FOK, market, cancel, modify | event callback |
| market rules, feed, synthetic liquidity (`exchange/src/rules`, `feed_source.c`, `liquidity`) | session tables, random state | accept or refuse by time; generate orders | the engines |
| FEP session (`fep/src/session.c`, `seqtrack.c`, `sendq.c`) | state, next numbers, kept frames, send queue | send, receive, resend, drop, reconnect | its peer |
| external order map, remote venue (`fep/src/ordmap.c`, `ledger/src/remote_venue.c`) | state of each leg sent out, the answer being waited for | submit, cancel, wait with time-out, pump | session, `exchanged` |
| exchange process (`exchange/exchanged.c`) | engines, ids | LEG_REQ, CANCEL, queries | remote venue |
| worker pool, listener (`ledger/src/worker_pool.c`, `listener.c`) | pids, failure count, pipe | fork, supervise, respawn, shut down | workers |
| journal, snapshot, reconciliation (`core/src`) | files | append, replay, save, load, compare | disk |
| order pool, index, wire, messages, tick sizes, config (`core/src`) | free list, tables | pure or sequential | everyone |
| SDK (`sdk/order_sdk.c`) | a slot per order not yet reaped, unknown answers | new order, cancel, modify; take an answer or a fill notice; reap | a venue, through its caller |
| benchmarks, channel, web | connections, HTTP sessions, UI | clients | ledgerd |

What is hard about it, and so what the models are for:

* one order message is a long chain of calls (reserve, submit each leg, trade,
  settle both sides by callback, record, release) whose parts run in different
  orders for makers and takers; the money and the record of orders are moved by
  different calls and must agree at the end;
* other traffic (cancels, synthetic traders, market data, account openings)
  comes between any two messages and touches the same books and accounts;
* several processes write the same account record and may be killed between two
  stores;
* a connection breaks with frames queued, on the line and half read, and comes
  back; the peer may have lost its memory meanwhile;
* pools, queues and rings have fixed sizes and are full exactly when something
  else is going wrong.

`PROJECT.json` lists each of these as hazards at their lines.

## 2. What makes each part correct

* Account: `0 <= reserved <= cash`, `0 <= held <= qty`, whoever dies when; an
  operation answered OK took place once and whole.
* Ledger: reserved money is exactly what live buy orders could still cost;
  held shares are exactly what live sell orders could still deliver; the order
  map tells what the books hold; cash and shares move by what the map records;
  a finished order is never touched again; a refused one leaves no trace.
* Books: never crossed; price, then time; a place in the queue is never lost; a
  snapshot replaces others' quotes and leaves users' orders alone.
* Session: messages come up in order, at most once; nothing disappears without
  being announced as gone; after any break both ends catch up.
* Routing: an order is divided without losing a share, and a swept order fares as it
  would in one book that held everybody's orders.
* Matching engine: pool, index, levels and cached prices agree after every request;
  the book is the one price-time priority promises; events alone tell it.
* Remote venue: a late answer reaches the order it is for; the number table keeps
  every order that rests; a cancel never names another's order; every call returns.
* Recovery: what was acknowledged behind whole records comes back, in order and
  once; any loss is reported; the snapshot's path never names half a file.
* Worker pool: connections are counted exactly, dead workers are replaced, waiting
  clients are served, and a stop returns with no child left.
* SDK: once every message about an order has been read its record is the venue's,
  and an order that may still trade keeps its slot.

## 3. The modules

### AccountOps, AtomicAccount, AccountStore, AccountStoreProofs, MCAccountStore

`AccountOps` is the arithmetic of `account.c`: `Accepts` holds the checks of
each operation and `Outcome` what it computes. It is shared by the store, which
applies an operation field by field, and the ledger, which applies it whole.

`AccountStore` is one record of the shared segment (records do not interact)
and the workers that use it. `pc[w]` says how far worker w is in an operation:

| code | action |
|---|---|
| `acct_lock`, `pthread_mutex_lock` with its three answers | `Lock` |
| repair after EOWNERDEAD: old values back field by field, mark down, `pthread_mutex_consistent` | `RestoreField`, `RestoreDone`, `Consistent` |
| the checks of the operation, before any store | `Check` |
| `begin_write`: save each field, then raise the mark | `SaveField`, `Mark` |
| the stores of the operation | `StoreField` |
| `end_write`: mark down, version up | `Clear`, `Bump` |
| `acct_unlock`, return | `Unlock`, `Return` |
| the process is killed / replaced by the pool | `Die`, `Respawn` |

The mutex is the POSIX robust mutex: the death of its owner makes the next lock
return EOWNERDEAD, an unlock without `pthread_mutex_consistent` makes it
unrecoverable. `KeepMark` is a fact about the build: `a->mutating = 1` is an
ordinary store that nothing reads before `end_write` overwrites it, so an
optimiser may drop it and reorder the field stores (`KeepMark = FALSE`); the
unoptimised build keeps both (`KeepMark = TRUE`).

`AtomicAccount` is what `account.h` promises a caller: a request happens at
one instant between call and answer. `IsAtomic` says that the store implements
it, with `Visible` (the saved values while the mark is up, otherwise the record)
for its account.

### Matching, OrderMap, Ledger, LedgerProperties, LedgerLemmas, LedgerProofs, MCLedger

`Matching` and `OrderMap` are pure operators. A book is the sequence of its
resting orders in order of arrival, so a price level is a subsequence; the sweep of an
order is a fold that asks as many times as the book has orders for the one in front
(`FrontMaker`, `book_front`). An order map entry has a leg per market. `Ledger` has one action per message or timer:

| code | action |
|---|---|
| `process_order` with `validate_order`, the plan, `exec_submit_via`, `on_event`, `settle_fill`, `release_unused` | `SubmitOrder` |
| the same when the market code is past the table | `SubmitNowhere` |
| `cancel_order` | `CancelOrder` |
| ACCOUNT_OPEN | `OpenAccount` |
| `ledger_core_tick` | `Tick` |
| `apply_feed` with `feed_shrink` | `ApplyFeed` |
| FEED_END | `EndFeed` |

A handler makes many calls that each change something. It is written as
operators that take the whole state and hand it on, in the order of the calls;
the action is the composition, so nothing can come in between, as in the
single-threaded program. `failed` is the set of the code's assertions that have
failed: a call asserted to succeed adds its name when it would be refused. The daemon runs one strategy for its life; `Init` picks it.
`Recon` is `core/src/recon.c`, the program's own end-of-day reconciliation:
`OrdersReconcile` and `SettledAsRecorded` hand it what the ledger holds after every
message and ask that it find nothing.

Prices are ticks 1..MaxPrice. `Band[m]` stands for the price range a book is
created with. An order pool with `PoolCap` slots refuses a resting order when
it is full. `failed`, `opens` and `issued` are the model's own; `issued`
counts synthetic orders, whose negative ids it hands out.

### Routing

The consolidated book, the scores of best execution and the four strategies
(`strategy_best_price`, `_krx_only`, `_split`, `_sweep`), as operators on Ledger's
books: each returns the plan, a sequence of legs, that the executor sends one by
one. The ledger attaches no market hours to its consolidated book, so no market is
ever closed to it.

### MarketRules, MatchEngine, PriceTime, MCMatchEngine

`MatchEngine` is the engine as it is built: the slots of the order pool with their free
stack, the hash index with linear probing and the removal that shifts a chain back, the
levels with cached totals, the cached best prices, the price bands numbered segment
by segment (`MarketRules`, with both markets' hours and order kinds), and one action per
request: `Limit`, `Ioc`, `Market`, `Fok`, `Cancel`, `Modify`. `PriceTime` is the
specification: one whole operation on the sequence of resting orders, in the books
Ledger runs on. The variable `promised` takes each request through `PriceTime`, and
`BookAsPromised` compares; so the queue `Matching` that Ledger uses is the one the
engine implements.

### NumberMap, RemoteVenue, RemoteVenueProofs

`RemoteVenue` is one market behind a connection: `remote_venue.c`, its number table
(`NumberMap`, `fep/src/ordmap.c`), the executor's leg records, and `exchanged.c`.

| code | action |
|---|---|
| `send_remote`, `cancel_remote`, `remote_book` | `send_remote`, `cancel_remote`, `remote_book` |
| `on_frame`, in the middle of whatever wait | `on_frame` |
| `wait_for` reaches its limit | `wait_for_expires` |
| `pump_once` finds the connection dead | `pump_once_fails` |
| `remote_venues_pump` dials again | `link_connect` |
| the exchange reads and answers one message | `on_msg` |
| a resting leg trades; the connection breaks; the exchange is started again | `MakerFill`, `Break`, `VenueRestart` |

The ledger asks one thing at a time, so the only concurrency is between it, the
exchange and what is on the line. A pump hands on every frame it has read before the
wait looks, so of several answers that fit the last one read may be the one kept
(`Replaced`). The other market's link shares nothing with it.

### Recovery, RecoveryProofs

`journal.c`, `snapshot.c` and the recovery that joins them. An append is
`append_flush` (fwrite and fflush: the kernel has it) and `append_sync` (fsync: the
disk has it), or `append_fails`; a snapshot is `snapshot_open`, `_fill`, `_sync`,
`_rename` or `_fails`. `Kill` loses the process, `PowerFails` also what no fsync has
reached (any record of it may be torn, and the snapshot's path names the old or the new
file), `Rot` damages a snapshot. `recover` reads both files, hands the journal's whole records
one by one to `on_journal_rec`, which passes over what the snapshot holds, and opens the
journal for appending.

### WorkerPool, WorkerPoolProofs

`worker_pool.c` over `listener.c`, call by call. The worker is the loop of
`worker_main` and `listener_serve_one`: look at the flag, block in poll or accept,
serve, report a byte in its pipe, leave. The parent starts, supervises
and stops. A signal interrupts a call that blocks and is lost on a worker between
its look at the flag and the call, or between the return of poll and the accept, the
first read or the write of the byte that follows (`Signalled` lets it miss whom it may).
An error of accept other than EINTR ends the worker (`accept_fails`). Clients connect,
send and leave when they like, or never.

### OrderSdk, OrderSdkProofs

`order_sdk.c`, with its caller and the venue as environment (external): one action per
call that changes a slot. Orders are told apart by their number. The venue
answers in the order it acts and the connection keeps that order (what `Session`
shows); it may trade an order on arrival or later, tell the fills before the answer
that counts them or after it, name an order by either number, and refuse changes.

### Session, OrderedDelivery, SessionProofs, MCSession

A session and its peer. `client` is `session.c`; `venue` is the peer, which
handles frames the same way (`session.c:60`), accepts connections and answers
LOGIN_REQ once with a LOGIN_ACK. (The peer in the repository, `exchanged.c:277-310`,
answers each LOGIN_REQ, puts the request's own number on the answer and cuts the
connection on a RESEND_REQ.) It may be restarted, which is marked external. A frame is its
number; its content is looked up in the sender's `sent`, of which the last
`Keep` can be sent again (`SEQSTORE_KEEP`).

| code | action |
|---|---|
| `session_send`; heartbeat of `session_tick` | `Give`, `Heartbeat` |
| `session_on_writable` / `sendq_flush` | `Write` |
| `session_on_readable`: `seqtrack_on`, RESEND_REQ on a gap, then `handle_frame` | `Read` |
| an error, a time-out, an end of file: `session_drop` | `Cut`, `EndOfFile` |
| `session_on_connected` | `Connect` |
| the peer process starts again | `Restart` |

Time is left out: the idle, login and back-off timers may fire at any moment.
`OrderedDelivery` is the promise to the program above, which the pair implements
(`InOrderOnce`).

## 4. The runs

Times are rough, for two workers. A run marked violated is meant to be: it
states what a comment claims and finds the code doing otherwise (section 5).

| run | question | distinct states | time |
|---|---|---|---|
| account_store | two workers, three calls, two deaths: sound, atomic, never stuck? | 301,418 | 60 s |
| account_store_o2 | the same in the optimised build | violated | 2 s |
| ledger_trade | two accounts, two markets, four strategies: do money, map and books reconcile after every message? | 54,859 | 100 s |
| ledger_feed | market data and synthetic traders around a user's orders | 53,854 | 110 s |
| ledger_reopen | an account is opened again under a live order | violated | 1 s |
| session | three connections, two cuts, a restart: in order, once, nothing passed over, both caught up? | 658,696 | 60 s |
| session_evict | is a resend request answered in full? | violated | 1 s |
| remote_venue | late answers, a broken connection, a restarted exchange | 1,278,837 | 100 s |
| match_engine | every request on three slots: do the structures agree and is the book price-time's? | 11,973 | 150 s |
| recovery | kills, power failures and refused writes between any two steps | 2.4 million | 50 s |
| worker_pool | crashes, a failed fork, signals at every point: counted, replaced, served, stopped? | 417,033 | 160 s |
| order_sdk | answers and notices that overlap and outlive their slot | 1,037,465 | 30 s |

CHECK_DEADLOCK is off where the inputs are bounded, and the model rests when they are
used up as the program does when nobody asks it anything. It is on in match_engine,
which always takes a next request, and in recovery, which can always start again.

**Bounds.** *Account store:* with two deaths a worker can be killed while it
repairs what another left, which is the deepest case (a repair of a repair is the
same state again); three calls let a second operation build on a repaired one
and a third wait for both. Requests are one of each shape of check and store.
*Ledger:* three orders make maker, taker and a third that meets what they left;
two slots make the pool full; the two bands differ by a tick so that one
market refuses what the other takes; two openings reopen an account; one synthetic
order retires another. One market is enough for the feed, which treats each
separately, with three snapshots that put quotes above, below and at users'
prices. Its `ScanDepth` is 2, less than the three prices of the book and more than a snapshot
quotes on one side, as 32 is more than `MSG_BOOK_DEPTH` (10): a stale quote behind two stale ones takes
a second pass, and one behind two users' orders is where the loop stops. *Session:* `Keep = 3` and a queue of five make frames disappear and
answers overflow within two recoveries; two messages from the venue make order
matter; three connections make a recovery break and start over. *Remote venue:* three
orders in a table of two make it full; one expired wait is enough for an answer to
come in the middle of the next; one loss makes a new connection. *Match engine:* three
slots in an index of eight with two colliding numbers at the end of the table and a third
that follows them around it; two tick sizes in one band; a level that holds three
shares of orders of up to two. IOC, FOK and market orders never rest, so one number asks
for them (it matters only while it is that of a resting order); the state is finite without further bounds, so
sequences of requests of any length are covered. The numbers of one chain and the
slots are symmetric. *Recovery:* four inputs, so that records lie before, in and
behind a torn one; three stops, two refused writes, one decayed file. *Worker pool:*
two places make a replacement and a stop of the other interleave; a pipe of one byte is full
after one connection; five signals are the fewest that suffice (section 6). *SDK:*
three orders in two slots make them full and reuse one; one cancel or change meets fills
on their way; three messages unread let notices of two orders cross. `MaxSent = 9`
in Session caps the frames an end numbers by stopping its reads. The cap is reached, in the
exchange of repeated RESEND_REQs described in section 5, which would number frames
for ever; behaviours past it are not explored. It does not make `CaughtUp` easier:
an end that stopped reading with anything new unread would violate it.

**Environment.** `OpenWhenFlat` restricts ACCOUNT_OPEN to accounts without live
orders in ledger_trade and ledger_feed; the code does not, and ledger_reopen shows
what follows. `NoFrameMissed` claims nothing about the loss of messages after a
restart of the peer, and `CaughtUp` speaks of behaviours in which no answer left a frame out
(section 5). `SweepIsOneBook` excepts an order a leg of which a market refused.
`ConnectionsAreTaken` assumes that each client ends its connection some time, and
excepts the case that every worker is gone for a failed fork or stuck on a full pipe.
`RecordIsVenues` excepts what a record cannot follow (`Followed`; section 5).

**Fairness.** `AccountStore`: weak fairness on each live worker's own steps, the
scheduler's promise; nobody has to call, die or be replaced. `EveryCallEnds`
holds because the kernel hands on the mutex of a dead owner. (A live owner that is stopped
forever is excluded by this fairness.) `Session`: weak fairness of `Write` and
`Read`, the poll loop, which serves a socket that can be written or read. Nothing
makes a connection be made or break; `CaughtUp` is about connections that stay.
`RemoteVenue`: weak fairness of the exchange's and the ledger's reads, of finding a
dead connection out (the session's timers), and of dialling again (every second, from
the idle callback); never of a time-out. `WorkerPool`: weak fairness of the
parent and of each worker, whose polls end by themselves; nothing of clients
except where a property says so.

## 5. What the violated runs say

* **account_store_o2** - `account.h:43-46` relies on the mark being stored before
  the values. It is not volatile or atomic and gcc -O2, the documented Release
  build, drops the store: a worker killed inside `acct_sell_fill` leaves shares
  promised that are not held, and nobody repairs them.
* **ledger_reopen** - ACCOUNT_OPEN is documented as safe to repeat, but it seeds
  the position each time, which forgets shares held for live sell orders; the next
  fill or cancel fails an assertion.
* **session_evict** - the GAP_FILL that says where the answer goes on is itself kept,
  and pushes out the very frame it names.

Seen and without a run, where the properties name the case and except it or the hazard's
note says what is not true:

* Two ends that recover at the same time answer each other's kept RESEND_REQs for as
  long as the connection lives (both still catch up). Frames longer than
  `SEQSTORE_FRAME_MAX` are sent but not kept. A restarted peer is recognised by a low
  number in its LOGIN_ACK; if its first connection breaks early the number has passed the one
  expected by the next, and frames are taken for duplicates (`session.c:447`).
* `remote_venue.h:44-46` has a leg that may have arrived kept in doubt. `send_remote`
  marks its table entry so but returns ERR_IO, and `exec_submit_via` (`executor.c:164`)
  records the whole leg as cancelled: it may rest and trade at the exchange. A resting
  remote leg that trades later is told to nobody; a cancel then takes back less than the
  leg has left and the leg stays live with its reservation.
* The feed loop ends when a pass over the best `LEDGER_FEED_SCAN_DEPTH` (32) prices removes
  nothing. The comment above it (`ledger_core.c:1326-1333`) takes that to mean that only the
  user's orders are left, and that no stale quote remains deep down to trade with later; it means so only within
  that depth, and behind 32 prices that the snapshot quotes or users' orders keep a stale quote
  survives. `FeedReplacesQuotes` is what does hold: nothing less than that shelters one. ledger_feed, with a depth of 2, reaches states in which one survives.
* The journal is opened for appending after a torn record, so what is written then cannot be
  reached by a replay; `PromisedSurvives` promises only what has no torn record before it, and
  `LossIsReported` says that the loss is never silent. An append refused by fsync is not
  undone and the input comes back. `snapshot.c:240` counts a callback's positive answer as
  success.
* Nobody reads the pipe of a live worker, so a worker that has served as many connections as a
  pipe has bytes blocks for ever; a place whose replacement cannot be forked is never tried again.
* The SDK takes the larger of its count and an ORDER_ACK's, "adding would count twice"
  (`order_sdk.c:292-295`). When the notices come after the answer that counted them, as the
  peer of `fep/tests/test_integration.c:199-223` sends them, they are counted twice and the order
  is over early. A MODIFY_ACK has no quantity and the record keeps the old one. A cancel sent
  before the answer carries order number 0, meant to be looked up by the client's number
  (`order_sdk.c:212-216`); `ledger_core.c:548` answers it NOT_FOUND.
* `ledger_core.h` says that sell quantities are not checked while `process_order` reserves
  shares.

## 6. The proofs

Each theorem holds for every value of the constants that satisfies the named assumptions.

| module | theorem | statement |
|---|---|---|
| AccountStoreProofs | `TypeCorrect` | `Spec => []TypeOK` |
| | `MutexNeverLost` | `Spec => []NeverLost` |
| | `AccountsStaySound` | `KeepMark` implies `Spec => []AlwaysSound` |
| | `StoreImplementsAtomic` | `KeepMark` implies `Spec => IsAtomic` |
| SessionProofs | `TypeCorrect` | `Spec => []TypeOK` |
| | `NothingSkipped` | `Spec => []NoFrameMissed` |
| | `DeliversInOrder` | `Spec => InOrderOnce`, the refinement of OrderedDelivery |
| RemoteVenueProofs | `TypeCorrect` | `Spec => []TypeOK` |
| | `TradesRecorded` | `Spec => []RecordedAsTraded` |
| | `TableFollows` | `Spec => []TableFollowsOrders` |
| | `CancelsNameTheirOrder` | `Spec => []CancelNamesItsOrder` |
| | `BookKeepsUp` | `Spec => []BookNoStaler` |
| RecoveryProofs | `SnapshotNeverHalf` | `Spec => []SnapshotWhole` |
| | `NothingPromisedLost` | `Spec => []PromisedSurvives` |
| | `LossNeverSilent` | `Spec => []LossIsReported` |
| | `AppliedInOrderOnce` | `Spec => []InOrderOnce` |
| WorkerPoolProofs | `StopLeavesNothing` | `StopTries >= 5` implies `Spec => []StopIsClean` |
| | `ConnectionsAreCounted` | `Spec => []CountsAddUp` |
| LedgerProofs | `TypesHold` | `Spec => []TypeOK` |
| | `MapAgrees` | `Spec => []MapAgreesWithBook` |
| | `OrdersReconciled` | `Spec => []OrdersReconcile` |
| | `AssertionsHold` | `OpenWhenFlat` implies `Spec => []NoAssertFails` |
| | `HeldIsForSells` | `OpenWhenFlat` implies `Spec => []HeldBacksSells` |
| | `MoneyFollowsFills` | `OpenWhenFlat` implies `Spec => SettledAsRecorded` |
| | `AnswersHold` | `OpenWhenFlat` implies `Spec => AnswersStand` |
| | `QueueKept` | `Spec => PlaceInQueueKept` |
| OrderSdkProofs | `RecordsAreTheVenues` | `Spec => []RecordIsVenues` |
| | `NoneIsForgotten` | `Spec => []NoOrderForgotten` |

**Assumptions.** The account store's start is a sound account, its requests have the shape of
`Request`, and `Free` is not a worker. Everywhere else the constants are sizes and bounds:
naturals, and positive where the code's are: the store of kept frames, the send queue and
the socket (`SEQSTORE_KEEP`, `SENDQ_CAP`), the number table (`ORDMAP_MAX`), the shares of an
order or of a change, which `validate_order` and `sdk_new_order`, `sdk_modify` refuse at zero
(order_sdk.c:128, 229). None bounds the number of frames, orders, crashes or losses.
`KeepMark` is a hypothesis of two theorems because without it they are false (account_store_o2).
`LedgerAssumption` gives the ledger's constants their types: requests of positive price and
quantity, which `validate_order` asks for before anything else; the strategies among the four;
books seeded uncrossed, with orders that no user owns and within the pool, as `seed_liquidity`
leaves them; an opening position without shares has no cost. `VenuesAssumption` lists some markets, each once. Nothing bounds
the books, the markets, the accounts, the legs of an order or the fills of a sweep.
`OpenWhenFlat` is a hypothesis of the four theorems that rest on what the accounts hold: without
it an assertion fails (ledger_reopen). The map, the books, their queues and the plans do not need it.

**AccountStoreProofs.** `AlwaysSound` and `NeverLost` are not inductive. `OwnerInv` adds who may be
where: a worker is inside exactly when it owns the mutex, it repairs only
when the mutex says EOWNERDEAD, and by the time it checks or unlocks the mutex is
consistent. `RecordInv` adds what the record looks like at each point: while
values are being saved each saved field equals the record, while they are stored
each field is old or new according to what is left to do, and while they are
put back each field done equals its saved value; the mark is up exactly in the
last two cases or after a death in them. Each has a lemma for Init and one for Next
(`StepTypes`, `StepOwner`, `StepRecord`), with a case per action. `OutcomeType`,
`OutcomeFrame` and `OutcomeSound` are facts about the arithmetic: an accepted operation
yields an account, leaves alone the fields it does not store, and keeps both balance
invariants. The refinement uses that `Visible` changes only when the mark
comes down: `Clear` is the abstract `Apply`, a failed `Check` is `Refuse`,
and saving, storing and repairing are stutters.

**SessionProofs.** What a receiver may hand up next is a fact about all the other end ever
sent, not about what is on the line, so losses and resends leave it alone. `Sent`: messages
and frame numbers grow together. `Ordered`: every message numbered from the expected one on is
newer than the last handed up. `Complete`: every message before the expected one was handed up
or is among `told`. `Gone`: what was told of has left the sender's store for good, since a
GAP_FILL names the oldest frame kept and that only grows. Logging in breaks the pattern: the
client goes on from the number of the LOGIN_ACK. `VenueLogin` says that nothing is
under way before the LOGIN_REQ is read, `ClientLogin` that the answer is ahead of every message
on that connection and numbered so that no later message is old. A handler's effect on a
session is summed up once (`Extends`: it only appends frames of certain types and queues
only those or kept ones), which is what all the conjuncts need of it.

**RemoteVenueProofs.** The argument follows one order. Its leg goes out once and is answered once,
so two frames under way are never about one leg (`LineOK`). Until the answer is read the number table
has no number for the order, and when it is full it makes room at the cost of finished entries
only (`TableOK`); so the answer finds the entry and ties it to the number the order rests
under. That a number is never another order's (`NamesOK`) needs that all the numbers the ledger
knows are of one life of the exchange (`Era`): a restart ends the connection, and
`link_connect` forgets every number with it. `FramesOK` and `RestsOK` tie the shares in an
answer to what was traded and to what rests. `BookOK` counts the queries that expired.

**RecoveryProofs.** Whatever holds applied inputs (the memory of the process, the file the
snapshot's path names, the file it may name after a power failure, as the rename is not synced
with its directory) `Fits` the journal: what a replay would add to it comes after all of it, and
what a replay would pass over is in it if it was promised. Recovery turns a holder that fits
into memory that holds every promised input; a power failure cuts the journal or tears records
no fsync has reached (`Cut`), which keeps what fits fitting. A least counterexample stands in for
induction over the records replayed. `SnapshotWhole` needs besides that both images are
settled, which is to say absent, wholly on the disk or decayed since, and the stage of the
temporary file; the rename, the only step that changes an image, finds it on the disk.

**WorkerPoolProofs.** The stop sends its signal again and again, because a worker may lose
one. `Left(p)` bounds how many more signals a worker can take before it is on its way out
for good: one while it polls, one in accept, one between two messages or on a full pipe, and none once
it has looked at the raised flag. Every step of the worker keeps it or lowers it, every signal that is not lost
lowers it, so that `tries + Left(at) <= 4` is inductive for a worker no client holds. Hence the
fifth try always finds it gone, and SIGKILL falls on no other. (`worker_pool.c:26-33` argues that a
second signal is enough; 200 are sent at most, so nothing depends on it.) `CountsAddUp` is an
equation between sums over all places: `TotalChanges`, proved from the fold's own recursion, says what
a step at one place does to such a sum, and each action moves a connection from one summand to
another. That a worker between accept and its report has exactly one connection in hand is the strengthening.

**OrderSdkProofs.** A record and the venue's order differ by what is still on its way. The
invariant (`RecordsOK`) says where the messages under way lead: reading all of `down`, one
message after the other, turns each record into one that agrees with the venue (`Leads`,
`Right`). A message the library reads moves nothing of that claim, and one the venue adds moves both its ends
by the same step, so that each kind of answer is compared with the venue's change once
(`FirstAnswers`, `RefusedMoves`, `CancelMoves`, `ModifyMoves`). With nothing about an order under way the
record itself agrees, which is `RecordIsVenues`. The path never leaves DONE, so a
record that is taken for over is of an order that is over (`Kept`), which gives
`NoOrderForgotten`. That a message meets the record of its own order and no other needs that a slot's
two numbers belong together (`SlotsOK`, `DownOK`) and that a change is never read before its
order (`UpOK`).

**LedgerLemmas, LedgerProofs.** A message of Ledger is a composition of folds: over the legs of
the plan, the makers a sweep meets, its fills, the events, the levels of a snapshot. The first
sections of LedgerLemmas are about folds whatever is folded: what a fold does holds because it
holds of the first i elements for each i (`SubsetInduction`, well-founded on finite
sets, stands in for induction), and a sum changes by what one summand does (`PartChange`). On
these rest contracts. `SweepContract`: whatever book it meets, a sweep takes at most what is
asked, each maker gives what the fills say, what is left is a book, uncrossed, and crosses the
taker no more if something is left of it. `SubmitContract` and `CancelContract` add what each
kind of order does with the rest, and one fill and all fills of an order have their effect on
map and accounts stated once. The invariant of LedgerProofs has two parts. `LedgerInv`: map and
books agree, order by order and leg by leg, in every market; everything has its type.
`MoneyInv`: the accounts are what was posted to them, which is a base that no order touches plus what
the orders of the map lay claim to (reserved money, held shares) and what they traded. The claims stay true in the
middle of a message with the order in hand left out of the map's and counted on its own; every handler
is proved to lead from one state of that kind to the next, and the assertions hold there
because what is asked for is always part of a claim. `TotalsRight` ties the sums of the
properties to those of the argument.

`QueueKept` needs no account: each of these contracts also says that the books move `Onward`, every
order a user has in a book after it having stood there before at its price, behind no fewer
shares (`Stood`). `ShiftedStood` is the reason: what takes orders out, or shares from them,
leaves the rest in their order, so what is in front of one is part of what was.

The plans are the other half of `OrdersReconcile`. Each strategy's allocation is proved to add up
to the order (`BestPriceAdds`, `KrxOnlyAdds`, `SplitAdds`, `SweepAdds`), and `Plan` to make of such
an allocation a plan that `plan_validate` takes (`PlanMade`). The choices among markets and levels
are of the one that a total order of a finite set puts first (`OneLeads`), which is why none is
ever a choice from nothing. In the split the shares rounded down leave over less than one per market
(`SharesAdd`), and exactly as many markets as are left over get one more (`FirstsAdd`), which is
the claim of the comment at strategy_split.c:153-154.

**Only model-checked.** Liveness (`EveryCallEnds`, `CaughtUp`, `CallsReturn`, `StopReturns`,
`DeadIsReplaced`, `ConnectionsAreTaken`) is out of the prover's reach. Of Ledger's properties
`SweepIsOneBook` compares two sweeps of unlike books, which needs an argument about what
every order of their makers gives; `FeedReplacesQuotes` is about the end of the feed's loop, which
takes an argument that as many passes as there are prices reach it. The invariants of MatchEngine (`StructuresAgree`, `BookAsPromised`,
`EventsTellTheBook`, `BandsAreWhole`) are not proved: the removal that shifts a chain of any length
back and the sweep are recursive operators, which the prover does not take.

## 7. What is left out of the modelled parts

* Account store: creation of the segment and `acct_open` (before the fork);
  overflow of 64-bit amounts.
* Ledger: queries, display statistics (last price, traded quantity), time
  stamps, the drift of the synthetic reference price, the limit on an order's notional,
  orders with more fills than `EXEC_FILLS_MAX`, market orders
  and market hours (ledgerd configures none), MODIFY_REQ (answered NOT_SUPPORTED).
  The remote mode is RemoteVenue, without accounts and routing.
* Routing: the quality report, the decision log and weights read from a file. The books of
  the run are within the depth of the views (`SWEEP_DEPTH`); past it a sweep need not be one book's.
* Matching engine: KRX's rule table is defined but the run uses NXT's, which has each of its
  cases and midpoint orders besides; trace and event formats; 64-bit overflow of amounts.
* Recon: duplicate physical numbers (legs are a function of their market).
* Recovery: the bytes and the checksum of a record (a record is whole or not); what state
  is made of.
* Worker pool: back-off times; the parent's own listener.
* SDK: symbols, notional and average price, the read-only queries, the encoding of a message
  and its failure, sending (the caller's).
* Session: back-off and time-out values; the length and type checks of a frame, after which
  the session drops just as `Cut` does; frames too long to keep.
* Data is reduced to what the properties tell apart: names, texts and encodings are gone.

Not modelled: the wire format and messages, configuration and feed files (sequential, pure,
covered by round-trip tests); synthetic liquidity's random generator (Ledger's `Tick` picks
freely); the event loop (a poll wrapper); `ledgerd.c` (start-up and the loop that feeds Ledger
messages); benchmarks; the web client. The channel server (Java) is the environment of Ledger:
what it does that matters there is that it opens an account at every login and `GET /me`,
whether or not orders are live, which ledger_reopen relies on. Its own races (a
cancel's answer overwriting what the fill poller would have recorded, the unique index of
fills that takes two equal partial fills for one) would be a module of their own.

Components with no module, and why, are in `PROJECT.json`; the ones worth one are next.

## 8. Plan

Done: Ledger with Matching, OrderMap, Routing and Recon; AccountStore and its abstract
specification; the Session pair; RemoteVenue with NumberMap; MatchEngine with
MarketRules and PriceTime; Recovery, WorkerPool, OrderSdk; the safety properties of
AccountStore, Session, RemoteVenue, Recovery, WorkerPool and OrderSdk as theorems; of Ledger
its invariants and what it promises accounts and clients.

Left, most valuable first:

1. `FeedReplacesQuotes` and `SweepIsOneBook` as theorems of Ledger.
2. `StructuresAgree` of MatchEngine for any size of pool and index, and the operators of
   PriceTime against the queue Ledger uses.
3. RemoteVenue composed with Session in place of its line, and with two links.
4. The channel's registry of orders against its fill poller.
