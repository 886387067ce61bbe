# traintime-api: TLA+ specifications and proofs

traintime-api answers three questions for a departure-board app: which stations are nearby
(`/v1/nearby`), what leaves from a station (`/v1/departures`), how a train is composed
(`/v1/formation`). Two programs serve the same API: a **native server** (`server/`, axum on tokio,
several pods that may share a Memcached) and a **Cloudflare Worker** (`src/`). Both use the pure
functions in `core/`. A third program, the **monitor** (`monitor/`), probes both and pushes an alert when
a host goes down. It was written to run every five minutes; at this commit its trigger is empty (`crons = []`), paused
because ntfy.sh rejects pushes from Cloudflare's addresses (`monitor/wrangler.toml:9-11`), so what is said
below of its runs is said of the code that would run. Scripts keep the station table up to date.

Both servers are thin layers over slow, rate-limited upstream APIs (OJP, Train Formation Service).
What can go wrong is in the layer between: who calls upstream, who waits for whom, what is served
from which cache and how old it is, what happens when a call fails, hangs or is abandoned.

## Inventory

| Component | State | Operations | Hard behaviour | What makes it correct |
|---|---|---|---|---|
| Native fetch path `server/src/fetch.rs` | per pod: map key → `Notify` of the handler that is fetching it | `cached`: look up, wait or lead, call, store, unregister, notify, fall back | handlers on several threads interleave at every lock and await; clients hang up | one call per key at a time; no waiter forgotten; an error reaches a client only after a failed call; every request answered |
| In-pod cache `server/src/cache.rs` | map key → payload, expiry, `fetched_at` | `get`, `get_stale`, `put` with sweep, `lookup`/`store` over both caches | sweep by age, expiry by TTL; boundaries at exactly 300 s | an insert of another key loses nothing that can still be served; nothing too old is served; dead entries are bounded |
| Memcached client `server/src/memcached.rs` | idle connections, `skip_until` | `get`, `set` through `call` | timeouts at 50 ms that leave a reply in flight; pooled connections dead after a restart; failures of several calls at once | a connection goes back only after its whole reply was read; a miss is the worst case; the pool recovers |
| Worker cache and handlers `src/src/cache.rs`, `src/src/routes/` | edge cache per data centre: payload, `fetched_at` | `get` + `classify`, `put` | nothing is shared between requests but the cache; a stale payload is read before a ten second call and served after it | nothing too old served; an answer is always given |
| Worker upstream `src/src/upstream.rs`, `ojp.rs`, `formation.rs` | none | `timed` fetch, then body | the timeout covers the headers only | a hung upstream call is abandoned |
| Routes and auth `server/src/routes/`, `server/src/main.rs`, `src/src/lib.rs`, `core/src/auth.rs` | native: the keys, read at boot; Worker: none | authenticate, parse, dispatch, respond | keys change under running pods; blank entries; two copies of the door | no answer without a key, `/health` excepted; a key that stays is never refused; both doors answer alike; an answer is of the train and stop asked for |
| Monitor `monitor/src/index.js` | KV per check: status, since, fails, reminded | `run`: probe hosts in order, each probe twice, compare, `transition`, push, save | a brief outage, a push that fails, a save that fails, two runs overlapping | a host fails for an outage that lasts; down needs two failed runs in a row; one push per change; what a rejected push was to tell is told by the next run |
| OJP parsing `core/src/ojp.rs` | pattern cache per thread | build request, cut the XML in blocks, parse, keep the latest of each journey | equal or missing times, prefix tag names | each journey once, in time order |
| Formation parsing `core/src/formation.rs` | none | tokens → vehicles → wagons, boundaries | boundaries next to locomotives and closed cars | passage marks sit between the right wagons |
| Nearby, favourites, geo `core/src/stations.rs`, `favourites.rs`, `geo.rs` | none | filter, sort, truncate, attach; partition | ties, limits, overlapping favourites | nearest five per mode; a favourite is told by its next departure, once per time it is named |
| Station database and its sync `server/src/stations.rs`, `scripts/`, `data/`, `src/migrations/` | station table | load; diff into upserts and deletes in batches | a batch fails half-way; two jobs overlap | a job that is done has brought the table in line with its file |
| Request log `core/src/reqlog.rs` | none | classify, format | none | (wording only) |
| Delivery: Dockerfile, workflows, e2e tests | none | build, deploy | none | (not program logic) |

How they interact. A route calls `Inflight::cached` with a key, a TTL and a closure for the upstream
call; `cached` reads and writes `Cache`, which reads and writes its own map and, when configured,
Memcached through its client. Handlers of a pod share `Inflight.keys`, the map and the connection
pool; pods share only Memcached. The Worker's handlers share only the edge cache. The monitor sees
both servers as HTTP hosts.

## Modules

| Module | Models | State | Used by |
|---|---|---|---|
| `CacheEntries` | `server/src/cache.rs`: `get`, `get_stale`, `put` and its sweep, as operators on a map from keys to ages | none | `Inflight` |
| `Inflight` | `server/src/fetch.rs` with `lookup`/`store`, run by the handlers of several pods | point of each handler, in-flight table and map of each pod, Memcached, late sets | `MCInflight`, `Inflight_proofs` |
| `SingleFlight` | what `Inflight::cached` promises | stage of each request | refined by `Inflight` |
| `Memcached` | `server/src/memcached.rs` and the server behind it | calls, pool, skip window, connections and what is on them | `MCMemcached`, `Memcached_proofs` |
| `SharedCache` | what the Memcached client promises | held keys, calls under way | refined by `Memcached` |
| `Worker` | `src/src/`: cache, handlers, upstream calls of one data centre | handlers, edge cache | `MCWorker`, `Worker_proofs` |
| `Monitor` | `monitor/src/index.js`: `run`, `transition`, pushes, saves | runs, KV, the phone | `MCMonitor`, `Monitor_proofs` |
| `Formation` | the two loops of `parse_formation_short_string` | the loops' variables | `MCCore`, `Formation_proofs` |
| `Blocks` | `parse_stop_events`: cutting by tag name, and the row of a block | the document, what is left of it, the rows | `MCCore`, `Blocks_proofs` |
| `Journeys` | `keep_latest_per_journey`, `partition_favourites`, the rest of `/v1/departures` | `kept`, `seen`, the answer | `MCCore`, `Boards_proofs` |
| `Nearby` | `group_nearby`, `default_station_id`, `attach_departures` | the groups | `MCCore`, `Boards_proofs` |
| `Sorting` | `slice::sort_by_key`, as `Journeys` and `Nearby` use it | none | `Journeys`, `Nearby` |
| `Trains` | `/v1/formation`: parameters, cache key, choice of a stop | one cache, the last answer | `MCCore`, `Core_proofs` |
| `Gateway` | `core/src/auth.rs`, `auth` and `run` of the native server, `fetch` of the Worker | settings, the keys of each pod | `MCCore`, `Core_proofs` |
| `ProbeHost` | `probeHost` for all hosts of a run | the probe under way, failures, an outage | `MCCore`, `Core_proofs` |
| `Parity` | `compareParity` | two boards of one timetable | `MCCore`, `Boards_proofs` |
| `Sync` | the seed workflow and its scripts | D1's table, jobs and what they still send | `MCCore`, `Core_proofs` |

A name that carries a suffix (`Lead_unguarded`, `Swept_swapped`) is a deviation: a definition with
one plausible mistake in it. No specification uses it; it is there to be put in the place of the
definition it is named after, to see that the property it is aimed at then fails.

### The fetch path: `CacheEntries`, `Inflight`, `SingleFlight`

One action per stretch of `cached` between two acquisitions of a lock or two awaits:

| Code | Action |
|---|---|
| a route calls `cached` | `Ask` |
| `lookup`: Memcached, then the map (`cache.rs:39-65`) | `SharedHit`, `SharedMiss`, `LookupLocal` |
| the lock of `fetch.rs:48`: key found, or inserted | `Wait`, `Lead` |
| the upstream call (`fetch.rs:61`), bounded by reqwest (`main.rs:192`) | `FetchOk`, `FetchErr` |
| `store`: the map with its sweep, then Memcached (`cache.rs:50-57`) | `StoreLocal`, `StoreShared` |
| the key is removed, the waiters notified (`fetch.rs:65-66`) | `Remove`, `Notify` |
| `from_cache` (`fetch.rs:74-81`) | `FromCacheGet`, `FromCacheStale` |
| the client hangs up; the future is dropped at an await | `Disconnect` |
| Memcached loses an entry; a set that timed out lands after all | `SharedLoss`, `LateSet` |
| time | `Tick` |

An entry is its age; payloads are left out, since nothing looks into them here. `waitsFor[t]` names
the `Notify` a waiter has cloned by the handler that created it. `Tick` cannot pass while a handler
has used up `STEP_TICKS` (between two waits) or `FETCH_TICKS` (the upstream call): this is how the
bound of ten seconds, and the assumption that a handler that can run is run, enter the model.

`SingleFlight` knows nothing of locks, caches, clocks and waiters: requests ask, share one call per
key and pod, are told its result together, and settle; one that was told of success does not settle
for `Stale` or `Failed`. `Inflight` implements it under `StageOf(pc)`: a waiter is still *asking*
until `Notify`, which tells the leader and all its waiters in one step.

### Memcached: `Memcached`, `SharedCache`

A call checks the skip window (`Skipping`), pops a connection or connects (`Pop`, `Connect`,
`Refused`), writes (`Send`), reads (`Read`, `Broken`), gives the connection back (`Push`), or runs into the one
timeout around all of it (`Timeout`) or an error, which drops the connection and arms the window
(`Fail`). A handler that is dropped drops the call with it (`Abandon`). The server answers each
connection in order (`Serve`), at any time or never; it restarts (`Restart`) and evicts (`Evict`);
a connection we closed may still be read by it (`Teardown` is when it no longer is), which is how a set
takes effect after its call gave up. Nothing in a reply names the command it belongs to, so a
connection on which a reply is outstanding must never be used again: `InStep`.

`SharedCache` is what `Inflight` takes for granted: a get gives the value the server held for that
key at some time during the call, or nothing; a set takes effect, or does not, or does later.
`SharedHit`, `SharedMiss`, `StoreShared`, `LateSet` and `SharedLoss` of `Inflight` are this contract,
with ages added.

### The Worker: `Worker`

`cache::get` and `classify` (`Get`, `GetFails`), the fetch up to its headers (`HeadersArrive`,
`HeadersFail`, the timeout of `timed` among the latter), the body, which `timed` does not cover
(`BodyArrives`, `BodyFails`), `cache::put`, which may fail silently (`Put`), and the stale payload
that was read before the call (`Fallback`). `fetched_at` is written by one machine and compared on another:
`Offset` is how far their clocks are apart, `ApparentAge` is the subtraction that saturates at zero. The
Cache API may drop an entry at any time (`Evict`). Each data centre has a cache
of its own, and one data centre is modelled.

### The monitor: `Monitor`, `ProbeHost`, `Parity`

A run starts, probes (what the probes find is arbitrary: `saw`), then per check reads the state,
computes `Transition`, pushes, and saves only if the push landed or there was none. `Faults` chooses
what else happens: a KV call throws (the rest of the run is gone), a push lands but its response
is lost, the platform kills a run, two runs overlap. `streak` and `phone` are history: what the
probes found, and what the person with the phone was told.

`ProbeHost` is what `saw` leaves open: three hosts, one after another, each with three or four probes
of two attempts. `Answers` is what a host sends, `Accepted` what its probe makes of it; `Pass`, `Reject`,
`Retry` and `FailProbe` are the four ways through `attempt`. One outage begins and ends at any time
(`BreakDown`, `Recover`), and a request it touches may be lost even after it is over. `Monitor` does not
use `ProbeHost`: its runs find whatever they find, which is more.

`Parity` builds a timetable, lets the two hosts list it from different trains on and lets api1 get a row
wrong; `CompareParity` is the comparison inside the common window.

### Requests and answers: `Blocks`, `Journeys`, `Nearby`, `Formation`, `Trains`

Loops over their input, one action per kind of iteration, whose invariants relate the variables of
the loop to a definition of the result. In each the input is chosen as the loop goes, so all inputs up
to the bound are covered. `Journeys` and `Nearby` use `sort_by_key`, which is stable (`SortByKey` of `Sorting`):
a row's place is the number of rows before it. `Nearby` measures in quarter metres, to have
a station that rounds to the limit but lies beyond it: it is left out, as the filter looks at the distance and only
the rows are rounded (`stations.rs:63` and `:70`). Among the stations in range, nearer and farther are by whole metres.
The bounding box in front of the filter is left out; north of about 47.2° it may cut off a station a little less than
5 km to the east or the west. `Journeys` takes the favourites of a request as `parse_favourites` has read them. As that splits
at commas, a client cannot name a destination that has one.

`Blocks` writes an XML answer as upstream would (`Publish`) and reads it as the code does: a document is
a sequence of tags and leaves, a block goes from a tag whose name *begins* with the one looked for
to the first closing tag of that very name (`BlocksOf`, the pattern of `ojp.rs:95`; `FromLeft` puts the
places of the tags in the order in which a search finds them, `Between` takes what lies between). A leaf carries
what it stands for (result, call, element), so that a row that takes a time from the wrong call
shows. `Service` may come before or after the calls: the tests in `ojp.rs` have both. The calls before and
after this one are there or not. What is always there is `ThisCall` with its `CallAtStop` and `ServiceDeparture`, so that the
fallbacks of `ojp.rs:171-181` for answers without them are written down (`FirstOr`) but not exercised. `Journeys` takes up where `Blocks` ends, with `keep_latest_per_journey`, and goes
on to the answer of `/v1/departures`: the rows that are shown and the favourites, which are looked for among
all rows.

`Trains` has the cache of `/v1/formation` without its concurrency, which is the subject of `Inflight` and
`Worker`: requests come one after another, and an entry remembers whose formation it holds. A text is a sequence of pieces,
one of which is the colon, and a key is the texts of a question joined by colons (`KeyOf`, `Delimited`), as
`routes/formation.rs:68-69` joins what clients write without escaping anything. So two questions may share a key.
The handlers of
both servers have the same text here and one set of actions: `Refuse`, `FromStore`, `FromUpstream`, and
`Unavailable` (the upstream call failed, or knows no such train).

### Who is let in: `Gateway`

The handlers keep no state, so the answers are operators on a request, `Pod(p, r)` and `Worker(r)`. What
changes are the settings (`Configure`), at any time; a pod reads them when it boots (`Boot`, which a pod
does not survive without a key), the Worker for each request. `steady` and `given` are history: the keys
that were valid all along, and those that ever were.

### The station table: `Sync`

A seed job checks out a file (`Trigger`), reads the whole table and computes the statements (`ReadTable`), and
sends them (`InsertOrReplace`, `Delete`) in batches. Jobs overlap, and may break off between any two statements. D1
may run a file of statements as one; that a job can stop half-way is more than it may allow and all that
the scripts rely on. `agreed` is history: the ids on which a job and all jobs it met want the same.

`MCCore` puts the parts that share no state next to one another and runs one of them per behaviour
(`part`, chosen by the first step). It adds nothing to the parts: `CoreRight` says that what holds of each holds
of all.

## Runs

| Run | Instance | Question |
|---|---|---|
| `inflight` | 1 pod, 3 handlers, 2 keys, no Memcached, a sweep on every insert, clients hang up | the safety of the fetch path: `AtMostOneCall`, `NoLostWaiter`, `FailureIsReal`, `ResultIsShared`, and of the sweep: `SweepKeepsYoung`, `DeadBounded` |
| `replicas` | 2 pods, 3 handlers, 1 key, a Memcached that fails | is nothing too old served, in whatever order stores of two pods land; is every request answered; is each step one of `SingleFlight` |
| `memcached` | 2 calls, 2 connections, 2 keys, a pool of 1, a skip window of 1 | do replies stay matched to commands; does every call end; is the client a `SharedCache` |
| `worker` | 2 handlers, clocks apart by 1, a key with a short TTL and one with a TTL that fills the stale window | how old an answer can be (`ServedInWindow`); is what every clock calls usable used (`UsableIsFound`); is every request answered |
| `monitor` | 1 run at a time, 2 checks, 3 days, rejected pushes | does what was told match what was found and what was saved; does a run send the news it finds, however many pushes were rejected before it (`NewsIsSent`) |
| `monitor_faults` | 2 overlapping runs, 1 check, all faults | is a check ever saved as down that nobody was told of |
| `core` | formation strings of 4 parts; XML answers of 2 results; boards of 4 events of 2 journeys, 2 favourites, 2 rows shown; 3 stations; 2 questions for formations of 2 trains and 2 stops; 1 pod, 2 keys, lists of 2; 3 hosts probed; timetables of 5 trains, 3 rows compared; 2 seed jobs, 2 ids, 2 rows, batches of 1 | does each part compute, keep or answer what it should: `PassageRight`, `EventRead`, `BoardRight`, `NextOfEach`, `NearestKept`, `EmbeddedRight`, `OwnAnswer`, `RotationSafe`, `SameDoor`, `HostsJudgedRight`, `ParityRight`, `SeededRight` |
| `abandoned_leader` | 1 pod, 2 handlers | finding 1 |
| `second_call` | 1 pod, 2 handlers | finding 2 |
| `expired_kept` | 1 pod, 1 handler | finding 3 |
| `worker_hung` | 2 handlers | finding 4 |
| `monitor_put_fails` | 1 run, 2 checks, KV calls throw | finding 5 |

### Bounds

* *Handlers, pods, keys.* A race in the fetch path involves at most a leader, a waiter and a third
  handler that arrives between `Remove` and `Notify`; keys meet only in the map (the sweep), where
  two are enough: one that is inserted and one that is swept. Two pods meet only in Memcached, so
  two of them and a handler more on the first.
* *Ages and TTLs.* Constants of 90 to 300 seconds become 1 to 3 ticks. Every comparison in the code is
  between an age and a constant, so what counts is their order: below, at and above each, which
  `MAX_AGE` = `STALE_MAX_AGE` + 1 gives, as ages above it stay there (more where a property looks
  further: `expired_kept`, `worker`). In `inflight` the TTL is 3: a leader may take one bound (`STEP_TICKS`)
  from its store to `Notify` and its waiter another one from there to the read. A payload with a TTL of
  2 can expire in between, and then `FailureIsReal` is false, for the program as well (see below).
* *`SWEEP_THRESHOLD` = 0* in `inflight` makes every insert into a map that is not empty a sweep;
  4096 in the others makes the sweep unreachable, as in a small deployment.
* *Pool of 1* with two calls: the pool is hit empty, with one, and full.
* *`DOWN_AFTER_FAILS` = 2* is the program's. A day has two times, the reminder hour and
  any other; three days are enough to tell two reminders on one day from two on different days.
* *Formation strings of 4 parts* show every pair of neighbours with something between; longer ones are covered
  by the proof. *Two results* in an answer: a block that runs over its end runs into the next. *Four events of
  two journeys*: a twin of a journey after and before another row.
* *One pod*: pods share only the settings. *Lists of two keys*, with blanks: a blank beside a key, alone,
  and none. `FIRST` is one setting; all others follow from it.
* *Two questions*: one that fills the entry and one that meets it. One train is known at a time
  (`MAX_KNOWN`): what another train's entry could do wrong shows when the entry is read for a train that
  upstream does not know. The texts are short and some have a colon in them: a key whose parts are not
  separated, or that lacks the date or the stop, gives one question another's formation.
* *A request times out after 3 ticks, the pause lasts 2*: in the order of 8 and 5 seconds. An outage is
  counted up to the length of the pause.
* *Two seed jobs* of all files over *two ids*, with *batches of one*: a job can be between two batches of upserts,
  between upserts and deletes, and broken off at each; more jobs, ids and any batch are covered by the proof.
* *Rows of 3* instead of 5, *a group of 2* instead of 5: a cut still falls before, at and after ties.

`core` ends on purpose: an algorithm returns, so deadlock is not checked there. It is in all others.

### Fairness

* `Inflight`: weak fairness of `Handle(t)`. The runtime polls a future that can go on, `Mutex` sections
  are short and hold no await, and reqwest ends an upstream call (`timeout`, `main.rs:192`). A waiter
  whose `Notify` nobody signals cannot go on, and no fairness makes it.
* `Memcached`: weak fairness of a call's own steps and of its timer. The server and the network
  promise nothing: `CallsEnd` rests on the timeout alone.
* `Worker`: `TimedSpec` has weak fairness of all that the runtime and `timed` drive. `FairSpec` adds that
  upstream ends the bodies it begins; that is an assumption on the upstream service and not on the code, and
  `worker_hung` shows what happens without it.
* `Monitor`: none. Nothing in the repository says that runs go on being started or that pushes arrive in the end;
  at this commit both are denied (`wrangler.toml:9-11`). That an outage is told in the end is therefore not claimed.
  `NewsIsSent` is a property of steps: from the run on that completes the failed ones, each failed run sends the news
  until it has landed, and so with a recovery.

## Findings

Each is a run whose property quotes the repository and is violated.

1. `abandoned_leader`, `WaitersGoOn`: when the client of the leading handler hangs up during the
   upstream call, the key stays in `Inflight.keys`, and every later miss for it waits for ever.
2. `second_call`, `NoCallWhileFresh`: the miss is not looked at again under the lock, so a handler can
   call upstream right after another one has stored. `AtMostOneCall` still holds: calls do not overlap.
3. `expired_kept`, `ExpiredIsKept`: `STALE_MAX_AGE` counts from the fetch and not, as the comments say, from
   the expiry; formations (TTL 300 s) are never served stale.
4. `worker_hung`, `HungCallGivenUp`: the ten seconds cover the headers only.
5. `monitor_put_fails`, `DownNeedsTwo`: a KV put that throws for one check loses the reset of the next
   ones, and two failed runs that are not in a row ring the phone.

Seen in the models, stated nowhere in the repository, and so not a run: with
`DEPARTURE_CACHE_TTL=0` waiters answer `Stale` after a call that succeeded; with more than 300 the sweep
drops entries that are still fresh; handlers of the Worker that miss together each call upstream;
a push whose response is lost, or two overlapping runs, tell the same thing twice; of two trains
that leave in the same minute at the cut of five rows one host may show only one, and the parity check
goes off; two seed jobs that overlap and want different rows may leave either's, the older one's too;
a formation asked for at the stop `all`, which no train has, is answered if one without a stop was
asked for before; a payload that lands in the pod between
the two reads of `from_cache` is served as `Stale` although it is inside its TTL; an entry of exactly `STALE_MAX_AGE`
is swept although `get_stale` would still serve it; a hit in Memcached is not kept in the pod, which has nothing stale to serve when
Memcached and upstream fail together.

## Proofs

All theorems hold for every value of the constants that satisfies the assumptions the modules name
(`CacheAssumption` and the like); TLC evaluates these in the runs. They give the constants their types, keep
apart the values that stand for something missing, and say that `STEP_TICKS <= MAX_AGE`, that `API_KEYS` may have an
entry (`MAX_LIST >= 1`), that there is a check, a host, a row of a board and a failure before a check is down, that
a client may name no mode (`"none" \in Wanted`), and that no stop is called `all`. `TrainsAssumption` says of the formation
service that the operators, dates and numbers it knows have no colon, and of `uic.parse()` that a text it accepts has
none. That the service finds nothing for any other text is a simplification: the text goes as it is into the address
of the upstream call, and what the service makes of that is not in the repository. A theorem that needs
more says so in its statement, and why is said below. Every property of `inflight`, `replicas`, `memcached`,
`worker`, `monitor`, `monitor_faults` and `core` is proved but for liveness.

`Inflight_proofs`:

* `TypeCorrect` (`Spec => []TypeOK`). `TypeOK` alone is not inductive: `StoreShared` and a
  `LateSet` write the time since the last wait as an age, so that time has to be bounded. The invariant
  is `TypeInv` = `TypeOK` and `LagBound` (a handler that is timed has used at most its limit).
* `OneCall` (`Spec => []AtMostOneCall`). The invariant is `LeaderRegistered`: whoever is between `Lead`
  and `Remove` is the one registered for its key in its pod. A table has one entry per key, so
  there is one. It holds with clients hanging up too: a leader that was dropped stays registered.
* `NobodyLost` (`Spec => []NoLostWaiter`). `NotifyKept`: what a waiter waits on is in the table, or its
  leader is at `Notify`. `RegisteredLeads`: what is in the table belongs to a leader, if no client hangs up.
  The theorem splits on that: without disconnects both are needed, with them the first is
  the claim.
* `YoungKept` (`Spec => SweepKeepsYoung`) and `DeadSwept` (`Spec => DeadBounded`), the two sides of the sweep. To
  compare the number of entries with a threshold it has to be finite, also with infinitely many keys: a
  step stores at most one (`FinitelyHeld`). `DeadSwept` supposes `STALE_MAX_AGE > 0`, it is 300 s in the code:
  with zero the payload that was just stored counts as dead itself. What `DeadBounded` counts is what the sweep drops, entries of
  `STALE_MAX_AGE` and more; at exactly that age `get_stale` would still serve one.
* `ServedYoung` (`Spec => []ServedInWindow`). `SharedYoung`: an entry of Memcached has an age and a time to live
  that add up to its TTL and the slack of a late store at most, and a set that is still to land is as old as its
  handler's steps and its own delay. Without it `SharedHit` could give anything.

Three theorems of `Inflight_proofs` suppose `Prompt`: twice the bound on a handler's steps between two waits is less than every TTL
and than `STALE_MAX_AGE`, some milliseconds against a minute and more. Without it a payload can expire between the
leader's store and the waiter's read, and they are false, for the program as well.

* `FailuresReal` (`Spec => []FailureIsReal`). `Informed`: a handler that knows of a success finds the payload
  in its pod, no older than the steps of its leader and its own; before the call has ended it
  knows nothing. Half of the work is the sweep, which may run for another key in between.
* `ResultShared` (`Spec => []ResultIsShared`), from the same invariant, `FreshInv`: what a handler is given after a success is
  the payload that was fetched for it and no older one its pod held before.
* `SharesOneCall` (`Spec => SingleFlightSpec`): every step of the fetch path is one of `SingleFlight` or none. A
  `Notify` maps to one step of the leader and all its waiters, so this needs `LeaderRegistered`, too.

`Memcached_proofs`: the invariant `IInv` says who has which connection (`Owners`), that an open connection is in one place
(`OnePlace`: once in the pool or with one call), what is on it (`Wire`: nothing, unless its call
waits for the reply; then the command, or its reply, or nothing after a reset), and what a call may have as a
result (`Results`). `TypeCorrect`, `OneUserEach`, `RepliesInStep` and `AnswersRight` follow: neither `InStep`
nor `OneUser` is inductive without the other, since what a connection carries depends on who used it. `WindowHolds` is an
action property. `ImplementsSharedCache` (`Spec => SharedCacheSpec`) is the refinement on which `Inflight` builds; `Serve`
is where a get is decided and a set takes effect.

`Monitor_proofs` names the faults each result tolerates; rejected pushes are always among them.

* `TypeCorrect` and `ToldFirst` (`SavedWasTold`) hold with all faults. `HeardOf` adds to the property what a
  run has read and what it is about to save; `Sane` that a check that is up has not failed often enough to be down.
* `SavedIsTold` (`PhoneMatchesKV`), `RemindsOnce` (`OneReminderADay`) and `RingsOnChange` (`PushOnTransition`)
  suppose `Faults = {}`. Each of the four faults by itself makes the monitor repeat a push, or forget one. `SingleRun`:
  what the run under way has read of its check is still so. `Matched`: what is saved, and what is about to be, is what
  the phone was told, the day of the reminder included.
* `NewsSent` (`NewsIsSent`), for `Faults = {}` as well. `Remembered`: the saved failures of a check that is not saved as down
  are those of its streak, as far as they count. With `Matched` a run therefore sees when it has news.
* `DownTakesTwo` (`DownNeedsTwo`) tolerates pushes whose response is lost as well. `Counted`: the failures that
  are saved are never more than the failed runs in a row, the one under way included once it came to the check. A KV call
  that throws breaks it: finding 5.

`Worker_proofs`: `TypeCorrect` holds with hung bodies. `ServedYoung` (`ServedInWindow`) supposes `~BodiesHang`: a stale
payload is read before the call and served after it, so its age has no bound when the call has none
(finding 4). `Aging` follows the payload from `Get` on: it is older than the window by what its handler has
waited so far, and by the skew of the clocks. It holds for any `MAX_AGE`. `UsableFound` (`UsableIsFound`) is the other
direction: the subtraction that saturates at zero never makes a payload older than the skew makes it.

`Core_proofs`:

* `KeysRotate` (`RotationSafe`) and `DoorsAgree` (`SameDoor`). `GatewayInv`: a pod that is up has what
  `Parse` makes of the settings it has booted with; their keys include all that were `steady` and are among those
  `given`. The lemma `KeysParsed` is about the code: `ApiKeys::parse` keeps the keys an environment means, and no blank.
* `AnswersItsOwn` (`OwnAnswer`), for texts of any length and colons anywhere in them. Keys are not injective, and the
  proof does not take them to be: `TrainsInv` says that each entry lies under the key of the operator, date, number and stop it
  `Fits`, none of which has a colon. A question with that key has the same parts (`PartsApart`): the key of parts without
  colons has three, any key has at least three, so the question's parts have none either, and the three that
  are left part both alike.
* `SecondAttemptCounts` (`HostsJudgedRight`). `Met`: what an attempt that met the outage says about how long
  it has lasted by now; an attempt that is second and meets it comes a whole pause later. `FailedInOutage`
  and `Judged` are what is known of the hosts before, at, and after the probe under way.
* `SeedsRight` (`SeededRight`), for any number of overlapping jobs, any ids, rows and
  batches, and jobs that break off anywhere. `SeededRight` speaks of jobs that are done only; the invariant
  `SeedInv` is about all that write: an agreed row is right or still to be sent (`OnItsWay`), what
  is still to be sent agrees with the job's file (`PlanRight`), nothing is left of a job that does not write
  (`IdleEmpty`), and on the agreed ids any two writing jobs want the same (`AgreedRight`), so that what one of
  them writes is right for the other.

`Boards_proofs` rests on one lemma about `SortByKey`, `Sorted`: the result takes each place once, in the order of
the keys, and of equal ones the first first.

* `BoardIsRight` (`BoardRight`) and `FavouritesAreNext` (`NextOfEach`). `KeptLatest`: at any time the rows are
  the latest events of their journeys among those read, each once, which with `PlacesKnown` (the map `seen` points at
  a row of its journey) is kept by each event.
* `KeepsNearest` (`NearestKept`) and `EmbedsTheRight` (`EmbeddedRight`): `Collected` while the table is read, `Nearest`
  from the sort and the cut on, and what is embedded is chosen from the heads of the groups.
* `ParityIsRight` (`ParityRight`): the boards are stretches of one sorted timetable (`Probed`), so that inside the
  window they list the same trains but for the row that is wrong.

`Formation_proofs`: the parser keeps its state well-formed (`FormationTypeCorrect`), names sectors once
(`SectorsAreListed`), lists every passenger car once and in order (`EveryCarIsListed`) and
puts a passage mark exactly where there is no way through (`PassageIsRight`). The invariant `Scan` is
what the second loop knows when it reaches a vehicle: the wagons stand for the passenger vehicles behind it,
in order (`CarsInOrder`), the marks between two of them are right (`MarksRight`), and `pending` says
whether there is a boundary between the last of them and this vehicle (`PendingRight`).

`Blocks_proofs`: `EventIsRead` (`EventRead`) and `BlocksTyped` (`BlocksTypeOK`), for answers with any number of
results, any times and any quays. That a search by the beginning of a name goes wrong nowhere rests on
which names may stand where, and the proof says so in this order:

* Places: `FromLeft` counts a set of places off from left to right (`CountedOff`), and a place to the right of
  all others comes last (`LeftAppend`).
* Elements: what the first block of a tag is when it is put together with text before, after or around it
  (`BlockBefore`, `BlockAfter`, `BlockInside`, `BlockOpenedBefore`). A tag that opens too early, as the `ServiceArrival`
  of a call does for `Service`, does no harm as long as no closing tag of that name comes first (`BlockOpenedBefore`): the
  block is then too long at the front, and begins with calls.
* What upstream sends: `CallRead`, `ServiceRead` and `RowRead` say what each leaf of a row is read from. The code asks a
  block of `Service` that begins with calls for leaves that no call has; and it looks for the time in the
  `ServiceDeparture` of the `CallAtStop` in `ThisCall`, never in the result at large.
* The loop: `BlocksInv`. Until the answer is cut, its blocks are its results (`ResultAppended`: one more result is one
  more block, as the document before it ends with a closing tag); afterwards the blocks that are left are those of the
  last results, and the rows are those of the others that have a service (`AllTold`). Results enter the document one by one
  (`Publish`) and leave it one by one (`ReadResult`), so no induction is needed but that over steps.

`Core_proofs`, at its end, brings the parts together: each step of `MCCore` is a step of one part and leaves the others
alone (`EachOnItsOwn`), so that `CoreTyped` (`Spec => []TypeOK`) and `CoreRight` (all twelve invariants of the run) hold for the
specification TLC runs, too.

Checked by TLC and not proved: liveness, since ENABLED is out of the prover's reach. These are `Answered` of `Inflight` and of
`Worker`, and `CallsEnd`. What `Answered` of `Inflight` rests on is proved: whatever a waiter
waits on is still to be notified (`NobodyLost`).

Nor are the five findings proved: a violation is shown by its counterexample.

## What is not modelled

* The text of requests and answers: JSON, log lines, messages, the XML below its tags. The grammar of one formation token
  and its offers.
* The distance and the bounding box (floating point).
* Comparing keys in constant time: what it is for is not a matter of states.
* Panics: a panic in the upstream call drops the future, which is `Disconnect` as far as the table goes.
* A query to D1 that fails: the Worker's nearby handler passes the error on.
* Consistency of KV: it is eventually consistent between data centres; runs of the
  monitor five minutes apart see one another's writes.
* Draining at a shutdown. What it waits for is `Answered`, and finding 1 says when it waits in vain.
* How `stations.json` itself is fetched and how the native server loads it; build, delivery, end-to-end tests;
  the request log: no program logic, or no state.

## Plan

Done: the native fetch path, its in-pod cache and their proofs; the Memcached client; the Worker;
the monitor with its probes and its parity check; formation boundaries with their proofs; the way
from an XML answer to rows, boards and favourites; nearby groups; formation questions; both doors; the
station table.

Proved: every safety and action property of the passing runs, and both refinements.

Left, and why: liveness stays with TLC, as long as the provers know nothing of ENABLED. The grammar of a formation
token and its offers is data without control, and `parse_formation_short_string` takes it as given. The
request log has no state. Whoever changes the code changes first the definition that "map" in `PROJECT.json` names
for it, then runs TLC, then the proofs.
