# A verification of the bank

The repository is a small distributed bank: a Java server on ZeroC Ice that opens accounts and
computes loans, a Python service that makes up exchange rates, and clients. This directory holds
TLA+ models of it, their TLC configurations, and proofs. All paths below are relative to the
repository (`src/` is its root).

## 1. The system

    bankclient.py --Ice--> AccountsCreator, Account, PremiumAccount   (one Java process,
                                     |  reads without a lock            Server.java)
                           availableCurrencies
                                     ^  writes, under its monitor
                           Server.StockExchange (thread) --gRPC--> stock_server.py

| component | source | state | operations |
|---|---|---|---|
| account factory | `server/AccountsCreator.java` | `createdAccounts`, a plain `HashMap` from PESEL to what `getAccount` returns | `createAccount`, `getAccount` |
| account servants | `server/Account.java`, `server/PremiumAccount.java` | key, balance, fixed when built | `getAccountStatus`, `isPremium`, `getLoan` |
| exchange-rate feed | `server/Server.java` (`StockExchange`), `server/CurrencyService.java` | `availableCurrencies`, its monitor, the thread's place in its loop | initial puts, sweep, RPC, sleep |
| currency provider | `currencyProvider/stock-exchange-python-service/stock_server.py` | `allCurrencies` | `getUpdatedCurrencies` |
| server life cycle | `server/Server.java` (`start`) | communicator, adapter | start order, activation, shutdown, exit |
| interactive client | `clientPython/bankclient.py` | none between choices | register, status, loan |
| older provider | `currencyProvider/generated/stock_server.py` | `allCurrencies` | `getUpdatedCurrencies`, which ignores the currency |
| Java client | `client/Client.java` | none | a stub |
| Slice and protobuf code | `slice/bank.ice`, `Demo/`, `currencyProvider/*.proto` | none | marshalling, dispatch tables |
| Ice client run time | `clientPython/zeroc-ice-3.7.2/cpp/src/Ice`: `Proxy.cpp`, `OutgoingAsync.cpp`, `ConnectRequestHandler.cpp`, `RetryQueue.cpp` | a proxy's request handler, the invocations, the retry queue | invoke, send, cancel, retry |
| Ice connection | `ConnectionI.cpp`, `ConnectionFactory.cpp` | state, send queue, outstanding requests, dispatch count | send, read, close gracefully or not, finish |
| Ice thread pool | `ThreadPool.cpp`, `Selector.cpp` | threads, leader, counters, ready handlers, work queue | run, ioCompleted, promote, time out, destroy |
| Ice object adapter | `ObjectAdapterI.cpp`, `ServantManager.cpp` | state, servant map, factory of incoming connections | activate, hold, deactivate, destroy, `add` |

What Ice contributes matters for correctness: the object adapter's servant map is synchronized and
refuses an identity that is taken; the pool that dispatches requests has one thread unless
`Ice.ThreadPool.Server.SizeMax` says otherwise (`ThreadPool.java`, "doesn't require to make the
servants thread safe"); an exception of a servant becomes an answer (`Incoming.java`); the client's
run time may retry. The build takes Ice 3.7.2 as a library; its vendored source is in the tree and
is what the models were read from: the C++ run time, on which the Python client runs (IcePy wraps
it) and of which the Java port that the server uses is a translation with the same structure, and
the Java port itself where the bank's server depends on it (`Incoming`, `ServantManager`). The rest
of the Ice distribution is not used by the bank.

What is hard about this code:

* `createAccount` updates two maps, one after the other, of which only the first is synchronized.
* With more than one dispatch thread, `put` and `get` race in the `HashMap`.
* Everything is in memory: a restart leaves clients with proxies of accounts that are gone, or of
  other accounts opened since under the same identity (PESEL and category).
* The feed thread makes a blocking call without deadline while it holds a monitor, and an RPC that
  fails ends the thread; `getLoan` reads the same map without the monitor.
* The provider answers with the caller's own value when it rejects a new price. That is only right
  while both sides agree, across failures and restarts of each.
* Two enums are mapped to one another by ordinal.
* A client cannot know whether a request on a lost connection was executed. What it may repeat
  depends on what it knows to have been written, and on a promise in the protocol: a server that
  sends the close connection message executes none of the requests it has not answered.
* Cancellation, replies, closure and retries of a call meet without a common lock.
* Pool threads hand over leadership, leave when idle and are started when needed, all of it decided
  by counters; a pool that miscounts stops reading, silently.
* The adapter's operations take its lock several times, and may be called from within a dispatch
  whose end they wait for.
* The client makes up to five calls for one menu choice, and checks for none of their failures.

Correct means, per component: an account is opened for one caller only and is registered before
anyone hears of it; a lookup is fresh; every call is answered (factory, servants, dispatch). Rates
are the provider's prices; a loan is never held up by the feed and, once rates are there, never
computed with the initial zero; the feed goes on for as long as the provider serves it (feed,
provider, `getLoan`). A call that is not idempotent is executed at most once, and every call ends
(client run time, connection). Somebody reads unless all threads there may be are busy, no more
dispatches run than allowed, and the pool can be destroyed (thread pool). Destruction is
quiet, a held connection dispatches no more than one message that was selected before, deactivation is final
and does not wait for its own caller (adapter). The calls of one menu choice agree with one another; a null
proxy, a missing account, a lost connection or a refused registration has a reason the user can know of, and a
loan fails besides when its currency has no rate (interactive client).

`PROJECT.json` lists all components with their status, and every hazard at its line with the
properties that cover it.

## 2. The modules

| module | what it is |
|---|---|
| `BankTypes` | the data of `bank.ice`: identities, servants, created accounts, requests, replies; the premium decision; null marshalling |
| `AccountBook` | abstract specification: a book of accounts on which each call takes effect in one step between call and answer; a restart empties it |
| `AccountsCreator` | the factory, the servants, the adapter's servant map and the dispatch threads; its properties and the refinement mapping to `AccountBook` |
| `AccountsCreator_proofs` | TLAPS proofs about `AccountsCreator`: types, the agreement of its two maps, and what clients were told: proxies and premium flags |
| `AccountsCreator_serial` | TLAPS proofs for one dispatch thread: fresh lookups and the refinement of `AccountBook` |
| `MCAccountsCreator` | instances for TLC |
| `StockExchange` | the feed, the RPC, the provider and the readers of the rates; its properties |
| `StockExchange_proofs` | TLAPS proofs about the prices and the loans of one life of the bank |
| `MCStockExchange` | instances for TLC |
| `RemoteCall` | abstract specification: what the client run time promises about a remote call |
| `Invocation` | the client run time and both ends of its connections, with retries, cancellation, closure, broken connections and crashes; its properties and the refinement mapping to `RemoteCall` |
| `Invocation_proofs` | TLAPS proofs about `Invocation`: types, the queues and the ends of connections, and what each step does to one call |
| `Invocation_once` | TLAPS proofs of its safety properties and of the refinement of `RemoteCall` |
| `MCInvocation` | instances for TLC |
| `ThreadPool` | the leader/follower pool with its selector and work queue |
| `ThreadPool_proofs` | TLAPS proofs of all safety properties of `ThreadPool` |
| `MCThreadPool` | three configurations of it for TLC |
| `ObjectAdapter` | the life cycle of the adapter, its connection factory and the connections |
| `ObjectAdapter_proofs` | TLAPS proofs of all safety properties of `ObjectAdapter` |
| `MCObjectAdapter` | instances for TLC |
| `BankClient` | `bankclient.py` composed with `AccountBook` and restarts of the bank |
| `BankClient_proofs` | TLAPS proofs of the safety properties of `BankClient` |
| `MCBankClient` | an instance for TLC |

How they fit together: `AccountsCreator` implements `AccountBook`, and `BankClient` is composed with
`AccountBook` instead of the server. `Invocation` implements `RemoteCall`, whose two promises are the
client's `Repeat` and `Throw`: only idempotent calls are repeated after a lost connection.
`ThreadPool` shows what `AccountsCreator` assumes as `ThreadFree`, the limit on dispatches
(`DispatchLimit`), and that requests are read at all; `ObjectAdapter` shows that the server's end of a
connection closes as `Invocation` has it (`ServerCloses`, then `SendResponse` of the last dispatch).

### AccountsCreator

A behaviour is a set of calls by independent clients. `stage[c]` is how far call `c` has come:

| stage | code | action that enters it |
|---|---|---|
| `sent` | the request is on its way | `Send` |
| `dispatched` | a pool thread has it | `Dispatch` |
| `registered` | `current.adapter.add` has returned, `newAccount` is built (lines 28-32, 37-41) | `AddServant` |
| `putting` | inside `createdAccounts.put` (33, 42) | `BeginPut` |
| `returned` | the operation has returned or thrown | `EndPut`, `AddThrows`, `GetAccount`, `InvokeAccount` |
| `answered` | the reply is sent, the thread is free | `Answer`, `Restart` |

`Send` calls an account only through a proxy that an earlier answer handed out, as the client does.
`adapter.add` is one step because the adapter is synchronized. The `HashMap` race is modelled by
what it can do: a put that overlapped another one may leave out any entry, its own included
(`AfterPut`), and a `get` during a put may also find nothing or the entry being put (`MayGet`).
`Restart` is the death of the process and its next start in one step: both maps are empty and every
call in flight ends with a lost connection. A call made while the process is down is a call that is
sent and lost in the same `Restart`. The variables `epoch`, `sentIn` and `seen` are history: they
order calls in real time and tell lives of the server apart, and no action but `Restart` (its
bound) reads them.

Names and the currency of a balance are left out: nothing in the server reads them. Memory ordering
of the JVM across a socket round trip is taken as sequentially consistent.

### StockExchange

`feed` is the program counter of `Server.StockExchange.run`; `monitor` says whether it is in
`synchronized(availableCurrencies)`; `entries` and `entry` are the iterator and its entry, in any
order because hash order of an enum is not specified; `call` is the RPC under way. `Simulate`
returns what one request does at the provider. A provider that is down fails the call, a crash
fails the call under way and forgets the prices, and `LoseCall` drops the request or the response
without an error, which for a stub without deadline means for ever. `GetLoan` stands for the cost
by the rate it reads; amount and period only scale it. `BankRestart` starts the bank again while the
provider keeps its prices; a request that the old process had sent is either served before
the restart or dropped.

Prices live on an integer grid. `PriceAssumption` states the one numerical fact the code relies on:
from its start price, a currency's first change is always accepted.

### Invocation

Calls are two-way and share a proxy; `call[i].stage` says where call `i` is:

| stage | code | entered by |
|---|---|---|
| `ready` | at the head of the loop of `ProxyOutgoingAsyncBase::invokeImpl` | `Invoke`, `Retry`, a retry at once |
| `bound` | has its request handler | `GetRequestHandler` |
| `queued` | in the queue of a `ConnectRequestHandler` | `Queue` |
| `out` | in `_asyncRequests` of a connection, written, being written or waiting to be | `Send`, `Flush` |
| `retrying` | in the retry queue | an exception that may be retried |
| `answered`, `failed` | completed | `ClientReads`, any exception |

A connection and the connect request handler that waits for it share a number. `cState` and `sState`
are the two ends (`ConnectionI::State`), `toServer` and `toClient` what is on its way: a sequence,
since a transport neither reorders nor duplicates. Requests that do not fit the socket's buffer are
the state `writing`: the write blocks, is finished later (`FinishWrite`) and acknowledged after the
read of the same `message()` (`Acknowledge`). `ReadFailsAfterWrite` says whether that read may fail:
it can, and finding 3 is what follows; the passing runs show that nothing else breaks the promise.
`cancel()` takes the handler under one lock (`Cancel`) and notifies it later (`NotifyHandler`).
`Break` and `Crash` are the faults; a connection that breaks loses what was not read.

In `RemoteCall` every call moves on its own, several of them in one step: `finish()` completes all the calls
of a connection under one lock, and each caller learns of its own only. Its actions therefore say what
happens to call `i`, and `Next` asks of each call that it makes one of them or stays.

An exception is kept by its kind only, as far as `_handleException` and `checkRetryAfterException`
tell kinds apart. The retry queue's delay is left out (a step may take any time).

### ThreadPool

`thread[t].pc` is the place in `ThreadPool::run`, each action a region between two acquisitions of the
pool's lock. `handlers` is what `_nextHandler` has left, `selected` what `select()` returned before
`finishSelect` took the lock again. Epoll is modelled level-triggered, as the selector uses it:
`select()` may return if something is readable or it was woken. `FinishSelect` takes the ready handlers
in any order, and the work queue last. The configuration is a variable that is chosen at the start and
adjusted as the constructor does (`Configured`; a `SizeMax` of -1 is the number of processors); threads are numbered from 1 as `nextThreadId` does, up to
the largest configuration (`SizeLimit`) and one more for each thread that left (`MaxShrinks`). A dispatch may take for ever (`EndDispatch` is not
fair), and so may arrivals, timeouts and closures.

### ObjectAdapter

An operation of thread `t` is `op[t]`, at place `at[t]`; each action is a region between two
acquisitions of the adapter's lock, or what is done between them. `sleeping` are the threads in
`wait()`, emptied by `NotifyAll`. The factory's and the connections' states are those of
`ConnectionFactory.cpp` and `ConnectionI.cpp`; `Closed`, `Held` and `Activated` are the effect of the
factory's `setState` on its connections. `within[t]` is the connection for which `t` dispatches if a
servant called the operation: its dispatch is counted until the operation returns. `dispatchCount` counts
requests, a batch as one, and not the callbacks of a start or of a sent reply. `Lose` is the
client's end, a timeout or a fault. `registry` is whether a locator lists the adapter. With
`OverlapsStartup = FALSE` the application does not call `hold` or `refreshPublishedEndpoints` while
another thread is in `activate` or `deactivate`, as the bank never does; finding 4 is what happens
if it does.

No step of a connection asks whether it is held before it dispatches: a held connection is not registered for
reading, that is all. A connection whose reply is blocked is registered for writing too, and `select()` may
return both (`Pick`: the connection is in `picked`). A hold then takes away the reading only, `ioReady` lets
the handler through for the writing, and `message()` does both (`ThreadPool.h:192-195`,
`ConnectionI.cpp:1606`, 3298). So a request may be dispatched while the connection is active, or while it
holds and is in `picked` (`MayDispatch`), once: the message that was read is a request (`Dispatch`,
`NestedCall`) or none (`NoRequest`: nothing to read, or something else than a request), and reading is
registered again only when the connection is activated. That a reply blocks is up to the client, so
`Pick` asks for no dispatch.

### BankClient

`place[u]` is the statement of `bankclient.py` whose answer user `u`'s client waits for. A choice is one
of `RegisterToBank`, `AccountStatus`, `GetLoan`, `Exit`; `Continue` goes on to the next call or back to
the menu, `Throw` ends the client with an exception (it catches none), `Repeat` is the run time that
repeats an idempotent call. `getLoan` goes through a checked cast (`ice_isA`, which is idempotent) and
may fail for want of a rate. The bank is `AccountBook`, whose `Send` is replaced by the client's
sequence of calls. `connectedIn` is the life of the bank that the client's connection belongs to.

## 3. What TLC checks

| run | bounds | what it shows |
|---|---|---|
| `creator_serial` | 3 calls, 1 PESEL and the empty one, incomes 999 and 1000, 2 keys, 1 thread, 1 restart | the server is the atomic account book (`AtomicBook`); lookups are fresh (`FreshLookup`); flags agree with accounts (`PremiumAnswersAgree`); every call is answered (`EveryCallAnswered`) |
| `creator_pool` | the same with 2 PESELs and 2 threads, symmetry of calls and keys | what survives the race: `EntriesBacked`, `OneWinner`, `NoDanglingProxy`, and `TypeOK` |
| `rates_live` | grid of 0.5, 2 faults, 1 restart of the bank, 1 loan at a time | `LoanAnswered` whatever fails; `FeedKeepsRefreshing` without provider faults; `AnswerIsCurrentInOneLife` and `LateLoansAreReal` until the bank is restarted; `TypeOK` |
| `echo_after_restart` | no faults, 1 restart of the bank | finding 2: `AnswerIsCurrentPrice` is violated |
| `currency_mapping` | nothing fails | finding 1: `RateOfItsCurrency` is violated |
| `calls` | 2 calls, one of them idempotent, 1 retry interval, 2 connections, 1 fault | `AtMostOnce`, `CloseIsAPromise`, `RetriesBounded`, `TypeOK` |
| `live` | 1 call that is not idempotent and may be canceled, otherwise the same | `AtMostOnceCalls`: the run time implements `RemoteCall`; `EveryCallEnds` |
| `written` | as `calls`, the read after a write may fail | finding 3: `AtMostOnce` is violated |
| `pool` | the default pool (1 thread), one that may not grow (2 threads), one that grows from 1 to its two processors (`SizeMax = -1`) and serializes; 2 connections, 2 requests, 1 queued item, 1 thread that leaves | `CountersExact`, `OneLeader`, `DispatchLimit`, `SomeoneReads`, `RequestsAreRead`, `PoolTerminates`, `TypeOK` |
| `life` | 2 threads, 1 connection, 4 calls of operations, 1 request | `QuietWhenDestroyed`, `OneAfterHold`, `NotListed`, `StillActivating`, `DeactivationIsFinal`, `DeactivateReturns`, `DestroyReturns`, `TypeOK` |
| `overlap` | as `life`, `hold` may overlap `activate` | finding 4: `StillActivating` is violated |
| `bank_client` | 2 users, 1 PESEL and the empty one, 3 choices, 1 restart | `LoanPathAgrees`, `FailuresExplained`, `ChoiceEnds`, `TypeOK` |

Why the bounds are enough. Each property of the factory relates at most three calls: two
`createAccount` and the lookup or query that tells them apart, with both outcomes of the premium
decision on either side of the limit. Two threads and three calls give a waiting call, two
overlapping puts, and a `get` during a put; one restart gives an old and a new life. Two PESELs let
a race lose an entry it was not about. In the rates model a loan does not influence anything, so one
at a time meets every state of the feed; two faults let the provider crash, come back and crash
again, or lose a call after a crash; the grid has every position of a price relative to its bounds.

A second execution of a call needs a second connection, and a call that may not be repeated meets
one that may, ahead of it or behind it in the queues of both: two calls, two connections. One retry
interval is Ice's default; a graceful closure is retried once more than that, which uses up both
connections. One fault at any moment separates what was written from what was executed or answered.
The three pools are the server's default, a pool at its limit, and one that grows and shrinks; with
two connections one request is read while another is dispatched, and its own is disabled by
serialization. An adapter is activated, held, deactivated and destroyed by four calls, from two threads
so that any two of them overlap. Three choices are two registrations, or one and a restart, and a loan; two
users let one open the account whose proxy the other holds.

`AtomicBook` is checked with one thread only, and fails with two, as it must: an account is visible
to a duplicate `createAccount`, which is refused, before a lookup finds it.

Fairness. Everywhere it is weak fairness of threads that are ready to run, and of what a timer, a
socket or a monitor does for them: server threads, the feed thread and the provider while it is up; the
caller, the retry queue, the flush and both ends of a connection, whose attempts to connect end in success
or failure; pool threads; threads within an operation of the adapter, and closing connections. Nothing is
assumed of clients, users, faults, restarts, the provider coming back, idle timeouts, arrivals, or of
user code that a pool thread or the adapter runs: where something waits for a dispatch, the property says
so (`PoolTerminates`, `DestroyReturns` assume that dispatches end, `RequestsAreRead` and
`DeactivateReturns` do not).

Deadlock is checked in every run but those of `ObjectAdapter` and `BankClient`, where the system stops when
the bounded calls or choices are used up or all users have left. In `AccountsCreator`, `Invocation` and
`ThreadPool` the end of a behaviour is a step of its own (`AllAnswered`, `AllCompleted`, `Joined`), so that
any other end is an error.

Every definition named "Mutant of ..." is a plausible bug in the definition it stands in front of.
It is no part of a specification; each shows that a property notices the bug.

## 4. Findings

1. `currency_mapping`: the feed asks for currency `value() + 1` (`Server.java:79`). `bank.ice:4`
   orders PLN, USD, EUR, `stock.proto:9-13` numbers PLN, EUR, CHF, USD, GBP. The bank's EUR rate is
   the price of CHF, its USD rate the price of EUR.
2. `echo_after_restart`: after a restart of the bank alone, the provider may reject a candidate and
   answer 0.0, the value the bank has just sent (`stock_server.py:42`). The sweep succeeds with a
   rate of 0.0, and loans are computed with it until a candidate is accepted.
3. `written`: `ConnectionI::message` writes the rest of a blocked request (`ConnectionI.cpp:1616`), then reads
   (1626-1706), and only then marks the request as sent (1771-1773). If the read fails, the connection is
   closed (1812-1816) and the request completed as unsent, so that `_handleException` repeats it although
   it is not idempotent and the server may have executed it. A `createAccount` repeated so is refused
   although it has opened the account. The IOCP variant looks at what was written (2075-2097), the other
   does not. It takes a request that did not fit the socket's buffer.
4. `overlap`: `ObjectAdapterI::hold` assigns `StateHeld` whatever activation is under way
   (`ObjectAdapterI.cpp:182-183`), which takes away the `StateActivating` that is "to prevent deactivation
   from other threads" (115-119); the assertion at line 160 fails.

Two more have no run of their own. `ObjectAdapter.ice:102-103` says that "waitForHold only returns when holding
of requests has been completed", but a request may be read and dispatched after it has returned, on a
connection that was selected for reading and writing before the hold (see `ObjectAdapter` above). TLC finds it
when `OneAfterHold` is strengthened to say that nothing is dispatched, `dispatchCount[c] = 0`: the
connection was picked before the hold. What `OneAfterHold` says is what remains of the promise, one message per connection.

And no line of the repository says otherwise of this one: a loan in PLN, which `bank.ice` and the
client offer, always fails, because the bank never has a rate for it and `PremiumAccount.java:20` unboxes
null.

## 5. What is proved

Every theorem holds for every value of the constants, under the named assumptions of the modules
(`NoneAssumption` and `DataAssumption` of `BankTypes`, `PoolAssumption`, `PriceAssumption`,
`BoundAssumption`, `NullAssumption`, `ObjectAdapterAssumption`, `InvocationAssumption`,
`ThreadPoolAssumption`, and `ClientAssumption` and `ErrorAssumption` of `BankClient`), which TLC evaluates
in the runs. They say that special values are none of the ordinary ones, that numbers are numbers, and that
the sets of calls and of connections and the sizes of pools are finite. Where
a theorem needs more, its statement says so, and the text below why.

**`AccountsCreator`**, for every set of calls, PESELs, incomes, keys and balances, every number of
dispatch threads and restarts:

* `TypeCorrect` (`TypeOK`), `EntriesAreBacked` (`EntriesBacked`), `OneCreateWins` (`OneWinner`);
* `ProxiesDoNotDangle` (`NoDanglingProxy`), `PremiumAgrees` (`PremiumAnswersAgree`).

`EntriesBacked` and `OneWinner` are not inductive: between `adapter.add` and the return of
`createAccount`, the account exists in the servant map and in a local variable only. `IndInv` adds
`LocalInv` (that local names the servant which was added), `ReturnInv` (what is returned is that
account) and `EpochInv` (a call in flight belongs to this life of the server, which makes a restart
harmless). `AddServant` is the only step that could break `OneWinner`: `adapter.add` found the
identity free, and `LocalInv` and `EntriesBacked` say that every account opened in this life is
registered. Steps that neither register nor return an account are covered by one lemma, `QuietStep`.

`NoDanglingProxy` compares two replies of different times. `SeenInv` says that what a call has seen
stays answered, and `NoServant` that only `InvokeAccount` answers that there is no servant; by
`EntriesBacked`, there is one if this life has handed out the account. `PremiumAnswersAgree` also
spans restarts, since the category is part of the identity: `ClassInv`, `FlagInv` and `AnswerInv`
tie the servant's class, every flag and every answer to the category, not to each other.

* for one dispatch thread (`SizeMax = 1`, the default of `ThreadPool.java` and what the bank runs with):
  `LookupsAreFresh` (`FreshLookup`) and `ServerIsAtomic` (`AtomicBook`).

With one thread no two puts overlap (`SerialInv`), so the map holds what the last of them has put. *The last*
is not in the state: `LastInv` names it by what calls had seen when they were sent, and `FreshInv` keeps the
claim of an answered lookup, which looks back at createAccounts that were answered before it was sent. The
refinement takes effect where the servant map and the `HashMap` agree again: an account that is registered
and not yet listed exists only for the call on the one thread, so a `createAccount` is a step of the book when
its put ends, every other call when the operation returns; all other steps stutter. A restart is the book's.

**`Invocation`**, for every set of calls, which of them are idempotent and which may be canceled, every number
of retries, connections and faults:

* `TypeCorrect` (`TypeOK`), `ClosePromise` (`CloseIsAPromise`), `RetryBound` (`RetriesBounded`);
* if no read fails in the step that wrote the end of a blocked request (`ReadFailsAfterWrite = FALSE`):
  `AtMostOnceHolds` (`AtMostOnce`) and `PromiseKeeping` (`AtMostOnceCalls`, the refinement of `RemoteCall`).
  With the other value the code violates both: that is finding 3, which the run `written` shows. The
  theorems say that this one window is all that is wrong.

`BookInv` is what the types rest on: a closed connection has an exception, a connect request handler's queue
holds exactly the calls in stage `queued`, each once, and a connection that writes has something to write.
`PromiseInv` and `ReplyInv` follow the close connection message: it is the last on its connection, sent when
nothing is dispatched; a call that waits there and was executed has its reply ahead of it. So a call that
finds its connection closed by it was not executed. `RunsOn(i)` are the connections on which `i` ran or
still may (executed, being dispatched, on the way to a server that reads, or waiting in the client to be
written); all but its present one are finished, and there are at most as many as attempts were counted
(`RunInv`). `OnceInv` adds for a call that is not idempotent that there is at most one, none while the call
waits to be sent again, and that what is delivered counts as sent. `finish()` is the step
that could break it (`Finish`): a call is repeated if it is not sent, then nothing was delivered, or after a
graceful closure, then it was not executed and never will be. The refinement maps a call to its stage
and `runs` to the number of connections for which it was executed; it follows call by call from the same lemmas
(`CallSteps`, `EndSteps`, `RunSteps`), which say once, for every action, what it may do to one call,
to one end of a connection and to the executions.

**`BankClient`**, for every number of users, PESELs, choices and restarts:

* `TypeCorrect` (`TypeOK`), `LoanPathAgreement` (`LoanPathAgrees`), `FailuresAreExplained`
  (`FailuresExplained`).

The client makes the calls of a choice at different times, while others open accounts and the bank may
be restarted and filled again. The invariant ties each answer to the identity it was asked of: the category
is part of the identity, so whatever servant answers to it later is of the same class (`BookInv`, `Asked`,
`Answered`). What explains a failure is kept by the history of the choice: when it was made,
in which life of the bank, and whether the account existed then; accounts do not go away within one life.

**`StockExchange`**, for every grid of prices that satisfies `PriceAssumption`, every number of loans,
faults and restarts:

* `TypeCorrect` (`TypeOK`), `AnswersAreCurrent` (`AnswerIsCurrentInOneLife`), `LateLoansReal`
  (`LateLoansAreReal`).

The echo of a rejected candidate is right because of `AgreeInv`: a price is still the initial one,
whose first candidate is always accepted (`PriceAssumption`), or it is the rate the bank has, or the
feed has the answer still to come, or has ended and never asks again. This is where a restart of the
bank breaks the argument, and the code (finding 2). `SweepInv` follows the sweep: the entries it is
through with have prices, all of them when it is over, and rates never go back.

**`ObjectAdapter`**, for every number of threads, connections, calls and requests, and any operations
called from within dispatches:

* `TypeCorrect` (`TypeOK`), `OneMoreAfterHold` (`OneAfterHold`);
* if the application serializes what may not overlap (`~OverlapsStartup`): `StaysActivating`
  (`StillActivating`), `DeactivationFinal` (`DeactivationIsFinal`), `DestroyedQuietly`
  (`QuietWhenDestroyed`), `NotListedLate` (`NotListed`). Finding 4 shows that the condition is needed.

That a connection's count is never less than the operations its servants call (`Plain(c) >= 0`, in
`TypeOK`) is what makes a count of 0 final. `AtRest` says which connections stay at rest in any step:
those that are gone, once the factory has finished, and those that are not active and for which at most one
request is dispatched or was picked (`Remaining`), until an activation. On it rest `HoldInv` and `QuietInv`, which say for the place of each thread what it has
waited for so far. `LifeInv` is the ownership of the state: a thread in `activate` or `deactivate` is
alone there and the state is the one it has set, so that no other thread's step changes it
(`StateSteps` lists all changes). `ListInv` follows from the same ownership.

**`ThreadPool`**, for every configuration, number of connections, requests, queued items and threads that
leave:

* `TypeCorrect` (`TypeOK`), `CountsAreExact` (`CountersExact`), `LeaderExists` (`OneLeader`);
* `DispatchesLimited` (`DispatchLimit`), `AThreadReads` (`SomeoneReads`).

While a thread selects, nobody does IO (`ThreadInv`): `NextHandler` selects only when the count of IO is 0,
which is exact (`CountInv`), and others who find a leader wait. So what a thread is still reading for is in
no selection, each handler of a selection is taken once (`QueueInv`), and no two threads ever
read for the same one; with `Serialize`, a connection that somebody dispatches for is disabled
until he returns, or the pool is destroyed and it is not registered any more (`SerialInv`). The steps that
end in the loop's locked region (enter, notify, time out in need, finish a selection, return) are one lemma,
`LoopKeeps`. Two steps are delicate. A thread leaves only if another leads or does IO, since otherwise
it need not wait (`OthersRead`). `ioCompleted` starts a thread exactly when the others are all in use:
if it starts none, the number of threads in use differs from that of the members, or has reached the limit,
or the pool is destroyed (`CompletedKeeps`).

Only model-checked: liveness under fairness (`EveryCallAnswered`, `LoanAnswered`, `FeedKeepsRefreshing`,
`EveryCallEnds`, `RequestsAreRead`, `PoolTerminates`, `DeactivateReturns`, `DestroyReturns`, `ChoiceEnds`),
which is out of the prover's reach.

## 6. Not modelled

* The older provider (`currencyProvider/generated/stock_server.py`): an earlier version. Its service and messages
  are those of `stock.proto`, so the bank could be run against it, but a call whose candidate is accepted fails at
  line 40, after the price has been stored, and ends the feed.
* The Java client: a stub that calls an identity the server does not register.
* Marshalling of bytes and generated code: what they do to the data is in `BankTypes` (null, classes) and in
  the records of the calls.
* Of the client run time: one-way, batch and collocated calls, invocation timeouts, several endpoints,
  routers and locators. The bank's proxies are two-way, with one endpoint and the default of no timeout.
* Of connections: heartbeats, compression, datagrams, the IOCP variants (Windows).
* Of the thread pool: the server idle timeout, thread priorities, failure to create a thread, the dispatcher
  hook, the selectors other than epoll.
* Of the adapter: routers, servant locators, default servants, facets, several endpoints, and the restart of
  an acceptor that ran out of descriptors. The bank uses none of them.
* Floating-point arithmetic of the loan's cost (a period of 0 gives infinity or NaN).
* The rest of the Ice distribution (Slice compilers, IceGrid, IceStorm, Glacier2, IceBox, the other language
  mappings), by far the largest part of the tree's lines: vendored, and the bank calls none of it. The
  share of the tree's lines that the models stand for is small for that reason, and cannot become large.
* Build files.

## 7. What could come next

* `Invocation` with several proxies and endpoints, and with invocation timeouts.
* The refinement of the dispatch limit that `AccountsCreator` assumes (`ThreadFree`) by `ThreadPool`, which now
  follows by reading `DispatchesLimited` only.
