# A formal model of the Named Data Networking / SDN prototype

TLA+ specifications of the simulator in `ndn_sim/` and of the dashboard in
`webapp/`: what the two data planes, the control planes, links, caches and
consumers do, and the jobs and pages around them; checked with TLC on
small instances and, for both engines, the route searches and most of what they
are built from, proved with TLAPS for networks, workloads and parameters of any
size. Paths are
relative to the repository.

    tlc -workers 2 -config control_plane.cfg MCControlPlane     # a run: see the table below
    tlapm ControlPlaneProofs.tla                                # the proofs of a module

## The system

The program compares four architectures (IP, IP+SDN, NDN, NDN+SDN) by simulating
request traffic on a small network. One call of an *engine* is one simulation:
single-threaded, driven by one heap of events ordered by (time, sequence
number), ending when the heap is empty. Nothing is persisted and there is no
parallelism inside an engine: the hard part is the *order of events*, that is
which packet, timer, toggle or table installation is popped in between which
others, together with loss, full queues and links going down.

| part | state | operations | what makes it correct |
|---|---|---|---|
| event heap (`ndn_engine.py`, `ip_engine.py`) | `q`, `seq` | push, pop until empty | strict order, no event in the past, termination |
| NDN data plane (`ndn_engine.py`) | per node FIB, PIT, Content Store | `interest`, `data` handlers | each Interest answered at most once, no storm, PIT bounded |
| consumers (`ndn_engine.py`) | `request_states`, `timeout` events | complete, ignore, retransmit, give up | each request resolved exactly once, by its deadline |
| IP data plane (`ip_engine.py`) | routing tables | `packet` handler | one packet per request, every loss counted, no endless loop |
| control plane (`controller.py`, both engines) | `_last_fibs`/`_last_routes`, `ControllerStats` | `toggle`, push, `fib_apply`/`routes_apply`, local rebuild | bounded staleness, convergence, honest cost |
| route computation (`controller.py`, `topology.py`) | search trees | BFS, Dijkstra, tables and FIBs | shortest paths, same ties in both |
| links (`core/timing.py`, `topology.py`) | `busy_until_ms`, `active` | `traverse`, `schedule`, `set_link_active` | one packet in service, bounded queue, order |
| caches (`cache.py`) | stored names, order, ages, counts | `get`, `put`, expiry, eviction, directives | capacity, freshness, bookkeeping agrees |
| cache placement (`controller.py`, `ndn_engine.py`) | directives | `coordinate_cache_placement` | the top names are each placed once |
| workload, topology, profiles | none after construction | generators | lists, links and roles in range |
| sweep and form (`cli.py`, `app.py`) | none | which architectures and strategies run | what is asked for is what runs |
| job store (`webapp/jobs.py`, `app.py`) | jobs, insertion order | create, get, run in a thread, evict | a job that reads completed is whole; the newest jobs are kept |
| pages (`static/app.js`) | poll timer, job id | submit, poll, retry, navigate | each poll ends with the truth about its own job |
| packet player (`static/player.js`) | trace, playback clock, log | load, play, seek, frame | picture and log follow one clock |

**Interactions.** The engines call `traverse` for each hop and read the link
state for each next hop; a `toggle` event writes the link state and calls the
route computation, directly (distributed control) or through the controller,
whose answer comes back as an event of the same heap one control RTT later. A
consumer's Interest and its timeout are pushed together and race each other. All
of a run's data shares each directed link's queue. The controller's placement is
computed once, before the first event, from the head of the workload. The web
application runs a sweep of engine calls on a worker thread and shares only the
`Job` object with the request threads that poll it; a finished job's trace is
fetched by the player.

**Where it is hard.** Two toggles within one RTT, so that several table
installations are in flight; a timeout in the same instant as an answer or
as the expiry of a PIT entry; Interests of one name merged in a PIT while the one
they were merged into is lost; copies of an Interest meeting each other on a
cycle; packets on their way while tables and links change; mixed packet sizes on
a bounded queue. In the dashboard: a job evicted, or lost in a restart, while it
is polled; fields of a job read between two assignments of its thread.
`PROJECT.json` lists each such hazard at its line, with the
property that covers it or the reason none does yet.

## The modules

| module | models | state and actions |
|---|---|---|
| `ControlPlane` | the pipeline from a toggle to the tables in force, shared by both engines | `Toggle` (`toggle` branch with `push_*` or the rebuild), `Apply` (`fib_apply`, `routes_apply`), `Elapse` (any other event) |
| `RequestLifecycle` | what a consumer promises, whatever the network does | `Complete` (an answer counted), `Timeout` = `StaleTimeout`, `Retransmit`, `GiveUp`; `Elapse` |
| `LinkTiming` | `LinkQueue.schedule` and `LinkTimingModel.traverse` as operators | used by `LinkQueue` and both engines |
| `LinkQueue` | one directed link under arbitrary traffic | `Send`, `Arrive`, `SetLinkActive`, `Elapse` |
| `Routing` | BFS, Dijkstra, routing tables, FIBs, as recursive functions over a step operator | used by the MC modules, which evaluate the real tables |
| `ShortestPaths` | both searches, one loop iteration per step | `DijkstraPop`, `BfsDequeue` |
| `NDNEngine` | `ndn_fetch_event_driven` | `Toggle`, `FibApply`, `Timeout`, `Interest` (resolved, hit, producer, aggregate, overflow, no hop, forward), `Data` (resolved, unverified, satisfy, unsolicited) |
| `NDNProperties` | its properties, and its two refinements | instances of `RequestLifecycle` and `ControlPlane` |
| `IPEngine` | `ip_fetch_event_driven` and its properties | `Toggle`, `RoutesApply`, `Packet` (turn around, completed, no route, dropped, sent) |
| `ContentStore` | what a lookup and an insertion do to a store, whatever its policy | operators of `NDNEngine` and `BoundedStore` |
| `BoundedStore` | what a cache promises | `Get`, `Put`, `Elapse` |
| `Caches` | LRU, FIFO, LFU, Random and the coordinated store, structure by structure | one action per outcome of `get` (missed, expired, hit) and `put` (barred, rejected, updated, inserted with its eviction) |
| `Placement` | `coordinate_cache_placement` and the nodes and window the engine gives it | operators of `NDNEngine` |
| `Scenarios` | topologies, roles, request lists and failures that can be generated | used by the MC modules and `Sweep` |
| `Sweep` | from the form to the architectures, strategies and traces that run | operators of `Dashboard` |
| `JobManager` | the job store and its worker threads | `Create` (with eviction, under the lock), a thread's assignments one by one (`Start`, `CountCombos`, `KeepTraces`, `Publish`, `Complete`, `Fail`, `KeepError`), `Restart` |
| `Dashboard` | pages, the routes they call, the store behind | `Submit`, `RunAsync`, `JobStatus`, `JobError`, `PollAnswered`, `Blip`, `Timer`, `JobView`, `Restart` |
| `ControlPlaneProofs`, `RequestLifecycleProofs`, `LinkQueueProofs`, `CachesProofs`, `DashboardProofs`, `IPEngineProofs`, `NDNProofs` | the theorems about the module of that name; `DashboardProofs` also those about `JobManager` | |
| `SearchProofs` | the theorems about `ShortestPaths` and the tables of `Routing` | |
| `MC*` | small instances | |

**Composition.** The engines are the detailed specifications. `ControlPlane` and
`RequestLifecycle` are abstract: they say what the tables and the consumers do
while "something else" happens. Each engine is shown to implement them under a
refinement mapping that picks its own kind of events out of the heap (`timeouts`
is the set of `timeout` events, `pending` that of the apply events, and so on;
`ImplementsLifecycle`, `ImplementsControlPlane`). These refinements are theorems,
so what is proved of the abstract modules is transferred to the engines, and a
change to a handler that would break the protocol shows as a step the abstract
module does not allow. In the same way each cache policy implements
`BoundedStore`, and the whole dashboard is a behaviour of `JobManager` for its
jobs. `NDNEngine`'s Content Stores are built from the operators `BoundedStore`
is built from: the engine is checked and proved for whatever the policies of
`Caches` may do.

**Abstractions, in all modules.** Time is in integer ticks and a
transmission takes at least one, as the code's 1e-6 floor makes it positive.
Random draws (loss, invalid Data, the random strategy) are
nondeterministic, so every outcome is explored. The order in which a Python set
of faces is walked is nondeterministic. A FIB is keyed by producer instead of by
prefix (one prefix per producer; nested prefixes are not modelled). Payloads,
latency totals, per-node metrics and trace events are left out: no control
decision reads them. The configured forwarding strategy is a variable that never
changes, `forwarding`, so that one run covers several. An NDN Content Store is
`ContentStore`: names with the time they came in, TTL, admission and directive as
configured, the victim of an eviction and the refusal of a rare name left open.
A handler's sends go over different links (one per face), so they share only the
heap's counter, and `Send` says what all of them do at once.
`Interest` and `Data` are translated branch by branch in the order of the code;
the branch at `ndn_engine.py:450` is left out because no `Data` event has
`prev` -1.

## What the runs show

| run | question | instance |
|---|---|---|
| `control_plane` | How stale can tables be, do they converge, is the cost right? | ring of 4 with a dear link, all 0 to 3 toggles of two links at three times, RTT 2, both kinds of control; 15 861 states |
| `early_install` | Is a table ever in force before its RTT? **Violated** | the same, centralized |
| `shortest_paths` | Are both searches right, and do they agree on ties? | 5 links with delay 0, 1 or 3, every subset of them active, 4 pairs; 174 383 states |
| `link_queue` | Service, admission and order on one link | sizes 1 and 3, limit 2, loss, toggles, 6 packets; 1 283 864 states |
| `request_lifecycle` | Is each request resolved once, in time, for good? | 1 or 2 requests at any of 5 times, lifetime 3, 2 retransmissions; 4 653 states |
| `ndn_requests` | Do consumers and tables behave as specified in a lossy, failing network, and do retransmissions leave? | chain of 3, 3 requests, 2 names, PIT and cache of one entry, TTL 8, directives for the consumers, three strategies, failures during traffic; 226 348 states |
| `ndn_multipath` | Does traffic stay bounded and balanced when Interests fan out? | triangle with a tail, flooding and random forwarding, caches that keep every name, invalid Data, a failing link; 113 606 states |
| `ndn_swallowed` | Does retransmission recover from a transient failure? **Violated** | chain of 3, two requests of one node, lossless links |
| `ip_engine` | Is every packet accounted for and every loop finite? | ring of 4, 3 requests, loss, queue limit 1, 0 to 3 toggles, both kinds of control; 263 100 states |
| `caches` | Do a policy's structures agree, and does it evict whom it says? | 3 names, capacity 0 to 2, TTL 0 or 2, threshold 1 or 2, all directives, 6 calls; 1 911 575 states |
| `dashboard` | Is what a page is told true of its own job, and is it told at all? | 2 pages with 5 forms, a store of 1 job, 2 jobs, a failed request, a restart; 324 854 states |
| `lost_error` | Does a failed job say why? **Violated** | 1 page, 1 job |

The properties, and what each would catch:

- `LastIsCurrent`, `BoundedStaleness`, `EventuallyConverged`: the controller
  compares with what it pushed last, not with what is installed. An older table
  can be installed over a newer one, but the right one is then still in the
  heap, due within an RTT and last in order. Comparing with the installed tables
  instead would leave a link that fails and recovers within an RTT routed around
  for ever.
- `ControlCost`: one RTT and between one and |Node| messages for each push that
  changes something, nothing otherwise, nothing at all for distributed control.
- `VisitedIsSettled`, `TreeMatchesDistances`, `BfsIsShortest`: against distances
  computed by relaxing all links, with stale heap entries and ties.
  `HomogeneousAgreement`: with equal positive delays the controller and the
  distributed nodes choose the same next hop; the project's comparison of SDN
  with the baseline (`tests/test_comparative_theses.py:102`) rests on it.
- `OneInService`, `BusyIsEarned`, `QueueLimit`, `OvertakenOnlyInProcessing`: link
  time is reserved in order, by accepted packets only; the limit counts in the
  arriving packet's own size; Data can be overtaken by its verification charge
  and by nothing else.
- `ResolvedOnce`, `OneLiveTimeout`, `GivenUpAtDeadline`, `AllResolved`: the race
  between answers and timeouts. `OneLiveTimeout` also shows that the comparison
  of attempts in the handler never discards a timer that the completed flag
  would not.
- `HeapWellFormed`: two events never tie on time *and* number (Python would then
  compare payloads, which have no order).
- `PitBounded`, `CacheWithinDirective`: capacities and directives, with entries
  expiring, merging and being evicted; stores under directives never hold the
  same name, whatever the traffic.
- `LoneInterestProceeds`: a consumer retransmits at the very instant the PIT entry of
  the Interest before expires. As long as no other request and no other face waits
  for the name there, what it sends is never swallowed by that entry, whatever became of the
  Interest before (lost, or refused by a full queue, after the entry was made):
  it is answered, sent, or counted as dropped. A purge that kept what expires *now*
  would lose every retransmission.
- `FlowBalance`: a Data packet is sent over a link only for an Interest that came
  over it, and only one. `NoStorm`, `EngineReturns`: Interests carry neither
  nonce nor hop limit; on a cycle a copy is stopped by the pending entry it meets, by
  the answer in a cache, or because its request has been resolved.
- `OnePacketPerRequest`, `HopsBounded`, `DeadHopsOnlyWhileStale`: for IP, each
  request is exactly one packet until it is completed or counted as
  dropped; loops exist only between changes of the tables; a dead next hop is a
  sign of tables in flight.
- `Bookkeeping`, `VictimByPolicy`, `ImplementsStore`: FIFO's queue and dictionary,
  LFU's three dictionaries and the insertion times name the same keys after any
  sequence of expiry, refresh and eviction; the victim is the one the calls so far
  call for, computed from the log of the calls; and the policy is seen from
  outside as a bounded store with a TTL that is exact to the tick.
- `PublishedWhole`, `HonestOutcome`, `PollingEnds`: a job that reads `completed` has
  its result, traces and count although its thread assigns them without the
  lock; what a page ends with is true of the form it submitted, also when its
  job was evicted running or lost in a restart; and every poll ends.
- `SweepCoversRequest`: the strategies to run are derived from the architectures
  in three places (sweep, limit, traces); they agree, and nothing requested is
  filtered away.

Every property is checked to be breakable: for each there is a plausible wrong
version of one modelled definition (the operators marked *Mutant*) under which
the same run reports a violation.

### Disagreements found

1. **Tables in force before their RTT** (`early_install`). `push_fibs` and
   `push_routes` return a delay of 0 when nothing changed
   (`controller.py:147`, `:186`), and the engines then install the returned
   tables at once, including the part that an earlier push still has in flight.
   The repository says that nodes use the stale table "until the control-RTT
   elapses" (`ip_engine.py:92`). It takes two toggles within an RTT of which the
   second changes no route; a single link that fails and recovers, all that the
   command line can build, never does that, while the engines accept any list.
   `BoundedStaleness` still holds.
2. **Retransmissions swallowed** (`ndn_swallowed`). A retransmitted Interest that
   meets a PIT entry is merged into it and prolongs it (`ndn_engine.py:413`),
   although the Interest that created the entry may have been lost. Two requests
   of one node for one name, sent within a lifetime of each other while a link is
   briefly down, keep the entry alive for each other and both time out in a
   network that has long been whole, against the claim of
   `tests/test_comparative_theses.py:84`. A request alone at its consumer is not
   affected there: its entry expires in the very tick of its retransmission
   (`LoneInterestProceeds`). In this run the Interest is lost to a missing route; sends
   that fail after the entry was made are part of `ndn_requests`.
3. **Failures without a reason** (`lost_error`). The worker assigns `failed` before
   `error` (`webapp/jobs.py:98`), without the lock, and the status route reads them
   in that order. A poll in between is told of a failure without a reason and is
   the last one; "surfaced to the poller, not lost" (`webapp/jobs.py:97`;
   `tests/test_webapp.py:247` asserts the error of a failed status).

Noted while reading, without a run:

- `--forwarding sdn-centralized` with the architectures `ip` or `ndn` runs nothing
  that yields their rows (`cli.py:216`): `SweepCoversRequest` supposes a base strategy
  that is not SDN's. With it and no architecture chosen, the trace is of plain
  `ip` although only `ip_sdn` ran.
- "Default: run all four" (`cli.py:107`) and `app.py:128`: with no architecture given
  only `ip` and `ndn` run, as `README.md:165` and `tests/test_cli_architecture.py:14`
  say.
- "Oldest completed jobs are evicted" (`jobs.py:16`): running ones are, too.
- "Keep trying a few times" (`app.js:109`): without a limit. `PollingEnds` holds
  because a page that reaches the server gets an answer.
- The "genuine config N of M count" (`README.md:252`) stays 0 until the sweep is done
  (`app.py:577`).
- The smallest network of the form, 3 nodes, always fails ("at least one consumer"):
  three prefixes take every node. The `near-producer` placement of one producer
  puts every name where it is produced, hence nowhere (producers do not cache
  their own names).
- With `--cache-size 0`, flooding sends on a copy of an Interest that comes behind the
  answer (`ndn_engine.py:428`: the pending entry is gone, nothing is cached), and only
  the resolution of its request ends that (`ndn_engine.py:366`): in a star of five
  nodes one request costs nine sendings over four links. `NoStorm` therefore supposes
  caches that keep what passes (`AnswersKept`). It also supposes that no Interest spends
  a lifetime on a link, waiting included (`QuickLinks`): one that does reaches nodes
  at which the entry made for it has expired. The command line's defaults are far from
  that: 250 ms of lifetime, some milliseconds on a link whose queue of 64 is full.
- In the packet player, which is not modelled: play at the end of a trace sets the
  clock back and not the log (`player.js:288`), as reset and seeking do, so that a
  second playback streams no events (`README.md:273`); a loaded trace is drawn with
  every link whole (`player.js:80`), also one that is down from time 0, the default
  failure time; a click on an event does not "jump to that moment"
  (`index.html:245`, `player.js:209`); and the later of two trace answers is shown
  whichever was chosen last (`player.js:66`).

### Bounds, and why they suffice

- *Schedules*: three toggles are the least number for which an older table is
  installed over a newer one while a third change is pending. Times are chosen
  so that toggles fall together, less than an RTT apart, and more.
- *Networks*: a chain has a router between consumer and producer and a consumer
  on another's path (merging, cache hits on the way); the triangle with a tail
  lets copies return to where they were; the ring gives every failure a way
  round, and a dear link makes the controller's trees differ from hop counts.
- *Workloads*: two or three requests, so that names coincide or compete for the
  single PIT and cache entries, with gaps shorter and longer than a round trip.
- *Caches*: three names on two places let an expired entry, a refreshed one and a
  new one meet; six calls are enough for each to have been counted, refreshed
  and expired before an eviction.
- *Dashboard*: a store of one job evicts at the second; two pages tell an answer of
  one's own job from another's; one failed request and one restart can fall at
  any point of either.
- `MaxRetransmissions` 1 or 2: first, intermediate and last attempt.
- `Horizon` bounds the clock of the abstract modules only, whose `Elapse` may
  otherwise let time pass for ever; in `ndn_requests` and `ip_engine` it
  exceeds every time reached. `MaxSent` bounds the packets of `LinkQueue`, `MaxCalls`
  the calls of `Caches`, `MaxCreated`, `MaxRestarts` and `MaxBlips` what happens to
  the `Dashboard`. The engines have no other bound: they stop because their heap
  empties, and so no state constraint is used. Deadlock checking is off in all runs, since every
  system modelled here ends.

### Fairness

The loop `while q` pops as long as there is something to pop: weak fairness of
the engines' `Next` (`EngineReturns`), of `Toggle \/ Apply` in `ControlPlane`
(`EventuallyConverged`) and of `Timeout` in `RequestLifecycle` (`AllResolved`).
Nothing is assumed of links, answers or the clock. In `Dashboard` threads are
scheduled (`Work`) and, page by page, requests are answered and timers fire
(`Serve`); nobody has to submit, fail or restart. `LinkQueue`,
`ShortestPaths` and `Caches` are checked for safety only.

## What is proved

By TLAPS, from the assumptions named in the modules (finitely many nodes, tables
and schedules of the right type, tables computed together that hold no cycle,
forms the page can post, natural parameters) and nothing else, so for
every network, route computation, schedule, workload and RTT:

- `ControlPlaneProofs`: `TypeCorrect`, `LastPushIsCurrent`, `Convergence`,
  `StalenessIsBounded`, `CostIsAccounted`, `EventsLieAhead`. `BoundedStaleness`
  is not inductive: nothing in it says which of several pending tables is the
  right one. The invariant `IInv` adds that push numbers are unique and below the
  counter, that no apply event lies more than an RTT ahead, and that the event
  that comes last carries `last` (`IsLatest`). A push that changes something is
  scheduled behind all others because its delay is the maximum; a push that
  changes nothing may overtake, but then it carries the same tables as the last
  event, which stays last. That case distinction is the heart of `PushStep`.
- `RequestLifecycleProofs`: `TypeCorrect`, `CountedOnce`, `OneTimeout`,
  `ResolvedByDeadline`, `NeverGivenUpEarly`, `ResolutionStays`. The invariant ties
  each request's timer to its attempt count (`OneLiveTimeout`), and time to the
  timers: no timeout lies in the past. A request given up therefore is at the
  end of its last attempt, and the clock cannot pass a deadline.
- `LinkQueueProofs`: `TypeCorrect`, `OneAtATime`, `BusyForAReason`, `WaitIsBounded`,
  `OrderKept`, `QueueIsBounded`. The invariant orders departures by
  acceptance and bounds each packet's departure by its send time; that at most
  `queue_limit` + 1 packets of a class are waiting is a counting argument on
  disjoint service intervals.
- `CachesProofs`: `StructuresAgree` (that is `Bookkeeping`),
  `PoliciesImplementStore` and `VictimsAreRight`. That no two keys share a place is not
  inductive: it needs that places come from counters that are beyond every place
  given so far (`Inv`, one part per structure). That the victim is the right one is
  about the past; the invariant `Remembered` says what each structure still knows of
  it: the place of a key in the order is that of its entry (FIFO) or last use (LRU)
  in the log of the calls, LFU's frequency is the number of its uses, and its ticks
  are ordered as the last uses are.
- `SearchProofs`: `DistancesAreShortest`, `TreesAreShortest`, `FewestHops`,
  `NextHopsAgree`, for every topology with finitely many nodes (numbers, as in the
  code), natural delays and any links down. `DijkstraInv` says that each node waiting
  is in the heap under its distance (`HeapHolds`; all else in the heap is stale), that
  nodes are visited in the order of their distances with their links relaxed
  (`VisitedFirst`), that prev leads to a node visited earlier (`Rooted`, `Turns`) and, for
  equal positive delays, which of several prev holds (`Ties`). `FirstHopInv` says that prev
  leads one level down, that the queue holds two levels in order (`Levelled`,
  `Queued`) and a level in the order of the first hops
  (`Ordered`), so that what is found has the lowest first hop of all shortest paths
  (`Foremost`). Both trees are then compared with the reference distances by lemmas
  about any tree (`TreeEstimates`, `TreePath`) and any set that the root is in and that
  is closed under links (`DistancesClosed`). The reference is recursive: `Iteration` proves that
  what the recursion defines exists, `Induction` is induction over a *set* of naturals by
  its least element, which needs no operator as a parameter. For `NextHopsAgree` the
  searches meet from their two ends: the controller's, rooted at the
  destination, gives each node the least next hop among those nearer to it; the
  node's own finds, of the paths that short, one with the least first hop.
  The invariants are stated of a search's state, not of a variable, so they also hold of the
  functions of `Routing`, which run a search to its end. That the end is reached within the
  steps they allow is a count: every node is queued once (`BfsEnds`), and a link is pushed
  at most once in each direction (`DijkstraEnds`). Of the tables follow
  `ControllerTablesFollowTrees` and `NodeTablesFollowTrees`: next hops are over links up
  and descend a ranking of the nodes, the height in the controller's tree or the
  hops left, for which the separate searches of the nodes have to fit together
  (`NodeHop`); `ControllerTablesAreComplete` and `NodeTablesAreComplete`: there is an entry
  for exactly the destinations connected with a node; and `TablesAgree`: with equal
  positive delays both control planes install the same tables.
- `DashboardProofs`, of the jobs: `CompletedIsWhole`, `StoreInvIsInvariant` and, for a
  natural `max_jobs`, `NewestAreKept`: store and insertion order name the same jobs,
  the newest. The invariant `Assigned` says what a thread at each of its steps has
  assigned, and that result and error are its own. `DoneIsDone`: a completed job
  stays completed. `ImplementsJobManager`: all this holds whatever the pages do.
  Of the pages: `OutcomesAreHonest`, whose invariant `PagesTold` says, for every state of a
  page's poll, which job it asks for and what of the answer under way is true and
  stays true; and `RequestsAreCovered`: the three places that derive the
  strategies from the architectures agree, for every form. Of pages it is needed
  only that they post forms they can fill (`FormsAssumption`): architectures are
  checkboxes of `ARCHITECTURE_CHOICES`, and every list the limit multiplies by
  counts at least one (`app.py:148`).
- `IPEngineProofs`: `OneAndCounted`: a step of a packet either moves it on or ends it
  in one of three counters (`Accounts`, a cardinality argument on the packets of the
  heap). `HeapIsOrdered` and `TablesImplementControlPlane`: packets only let time
  pass, toggles and installations are `ControlPlane`'s, for behaviours before any
  `Horizon` (the abstract clock ends there). Staleness, convergence and cost follow
  from `ControlPlaneProofs`, and with them `DeadHopsArePassing`. `PathsAreBounded` (that
  is `HopsBounded`) needs of the tables that those computed together follow one tree
  per destination (`TreeAssumption`: nodes have ranks that descend along the next
  hops), which `SearchProofs` proves of what both control planes compute.
  The bound is not inductive: the invariant `Paths` adds the
  rank a packet still has to descend, and charges every new descent to the turn
  around or to a toggle or installation that has left the heap.
- `NDNProofs`: the invariant `IInv` has five parts: `Ordered` (heap), `Links`, `Nodes`
  (PITs, stores), `Requesting` (each request's timers) and `Routed` (tables). What a
  packet can do is said once (`Effect`): it pushes packets (`Traffic`) and it leaves
  all requests alone or answers one (`Silent`, `Answered`); only PIT and store of one
  node change. From it follow `TypeCorrect`, `HeapIsOrdered`, `PitIsBounded`,
  `CacheKeepsToDirective`, and the refinements `ConsumersImplementLifecycle` and
  `FibsImplementControlPlane`, again before any `Horizon`; deadlines, final
  resolutions and bounded staleness are then those of the abstract modules
  (`RequestsMeetDeadlines`, `ResolutionsAreFinal`, `StalenessIsBounded`).
  `FlowIsBalanced`: the invariant `Balanced` adds that only finitely many Interests are
  under way; each handler's books are then a lemma (`InterestBooks`, `DataBooks`): an
  Interest is exchanged for a face of a PIT entry, a Data packet or nothing, a face
  for at most one Data packet. `LoneInterestsProceed` rests on the invariant `Issuing`:
  a request has at most one Interest of its consumer waiting to be handled, issued exactly a
  lifetime before its timer and numbered before it (so it is handled first, also when
  the lifetime is 0), and an entry that only it keeps at its consumer has expired when
  either of them is due (`Outlived`). `StormIsBounded` (that is `NoStorm`) needs what the state
  does not say: packets carry no mark of the issue they belong to. The invariant
  `StormInv` counts credits instead: a request has one at a node, for each link that
  leaves it, while its timer lies ahead, the node does not hold the answer, and no entry
  for the name lasts until that timer (`Credit`). Forwarding spends them, because the
  entry it makes does last that long (`ForwardSpends`): an Interest is at most a lifetime
  older than the timer of its request (`Paced`, for which links must be quick). Time,
  answers and merging never give any back (`CreditsFall`: entries are satisfied only when
  the answer is stored, and refreshed only to a later end), and a retransmission gives one per
  link and direction. Sendings and credits together are therefore never more than issues times
  directions (`Spent`). Assumed are the types of network, FIBs, workloads and
  parameters, and finitely many names.

Each proof has one lemma per action (`InitIInv`, one step lemma each,
`StutterStep`), the theorem that the invariant is always true, and a corollary
per property.

**Only model-checked**: liveness (`EventuallyConverged`, `AllResolved`,
`EngineReturns`, `PollingEnds`; TLAPS does not do liveness under fairness).
Every invariant and every action property of a run is a theorem. The engines take their
tables as constants, of which they assume what `SearchProofs` proves of the tables of
`Routing` (`RoutingAssumption`, `TreeAssumption`: `FollowTrees`); that the constants are
those tables is how the MC modules instantiate them. For the FIBs of flooding and of
the probabilistic strategy, which list every active neighbour, nothing of the kind is
assumed or needed: the PIT ends their loops.

## Not modelled

- The packet player (`player.js`): a clock and a canvas over a finished trace, of
  which nothing goes back to the jobs or the simulator.
- Latency totals, per-node metrics and the events captured for the trace: sums and
  records that no control decision reads.
- The parameters of the network profiles, `load_edge_list`, option parsing,
  averaging, CSV and plots; rendering of pages and of the canvas, the synchronous
  `/run`, deployment: constants, arithmetic and I/O without interleaving. The
  distributions of the workloads are sets of what can be drawn.
- The history a page keeps in `sessionStorage` and the export of a configuration:
  local to a page and read by nothing else.
- Several prefixes of one producer, and nested prefixes, which only other values of
  `--prefixes` or very small networks give.

## Plan

Modelled, checked and, where the prover reaches, proved: `ControlPlane`,
`RequestLifecycle`, `LinkQueue`, the searches, the engines composed of them, caches
and placement, the jobs and pages. What a further step could take up:

- `Player`: a module of the playback clock, its animation loops, the log and the
  links drawn as broken; what reading it showed is noted above.
- A statement, by the repository, of which merged requests are owed an answer when
  Data is dropped on its way (`ndn_engine.py:437`) and of which trace a page is to
  show (`player.js:66`), and the properties that follow.
