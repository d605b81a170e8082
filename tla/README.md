# ZonePop in TLA+

ZonePop takes hosts and their addresses (*endpoints*) from *sources*, a VyOS
router's DHCP leases or a Lua function, and writes them to *providers*: Route53
zones, files, an HTTP document, Prometheus metrics. This directory models its
start-up, its control loop, its sources and its providers, checks the models
with TLC and proves the main safety results with TLAPS.

## The system

| Part | State | Operations | Talks to |
|---|---|---|---|
| control loop (`controller/controller.go`) | `nextRunAt`, the list and the errors of a run, gauges and counters | `RunOnce`, `ShouldRunOnce`, `Run` | sources and providers by calls, one at a time |
| process (`main.go`) | flags, the cancelled context | start, SIGTERM, end (deferred `logger.Sync`) | control loop through `ctx` |
| configuration (`config/config.go`) | one Lua state, the declarations | `Parse`, `Sources`, `Providers`, the endpoint filters | shares its Lua state with custom sources, custom providers, filters and the file provider |
| custom source (`source/custom`) | none between calls | `Endpoints` | a Lua coroutine |
| VyOS source (`source/vyos`) | an SSH connection during a call | `Endpoints`: how leases are kept, the leases, the IPv6 neighbours | a router, by three commands whose output is text |
| Route53 provider (`provider/aws/route53.go`) | zone names once they are known, a 24 h cache of the forward zone; the zones themselves outlive the process | `UpdateEndpoints`: forward, IPv4 reverse, IPv6 reverse, each with an optional cleanup | Route53: GetHostedZone, ListResourceRecordSets, ChangeResourceRecordSets |
| http provider (`provider/http/http.go`) | three documents under a `sync.RWMutex` | `UpdateEndpoints`, three request handlers | request goroutines |
| prometheus_metrics provider | a list of metrics under a `sync.Mutex` | `UpdateEndpoints`, `Collect` | scrape goroutines, the registry |
| file, hosts_file providers | files, local or remote, which outlive the process; an SSH connection during a call | `UpdateEndpoints`: render every file, then write one after the other | the file system or SSH; the file provider also calls Lua |
| custom provider | none of its own | `UpdateEndpoints` | a Lua coroutine |
| reverse DNS (`pkg/rdns`) | none | `ReverseAddr`, `FitsInReverseZone`, `PTRsForEndpoints` | called by the Route53, http and file providers |

There is one control goroutine; requests and scrapes run beside it, and the
signal handler cancels its context. What is hard:

- **failure in the middle**: a source, a provider or a call to Route53 fails, an
  answer is lost after the change took effect, the process is killed, and the
  next run starts from what is left;
- **a cache that decides what is written**, and a cleanup that changes the zone
  behind it;
- **files replaced in place**, truncated first, several that belong together;
- **a world that moves on** between two commands of one answer, and text that is
  laid out in characters and cut in bytes;
- **coroutines** that hand over values at every resumption, nested, on one Lua
  state; declarations visited in the random order of a Go map;
- **two goroutines**: documents and metrics replaced under a lock while they are
  read;
- **time**: a throttle set before a run, ticks that are dropped, a random select;
- **boundaries**: addresses and zones of every depth, equal names, nothing at all.

What makes each part correct, in a sentence: the *control loop* hands every
provider the whole list of a run all sources answered, exactly once, and says so
in its metrics; the *Route53 provider* leaves a zone in which reported hosts have
their addresses and no other, and touches nothing else; the *http* and
*prometheus* providers never show half an update and never hang; the *reverse
names* are those of the addresses in the zone and the first endpoint wins; the
*file* providers render everything before they touch anything, report every file
they did not write, and repair torn ones; the *VyOS source* answers all leases
with the neighbours of the same call, or an error; a *Lua call* is answered by
what its own coroutine handed over; whether the process *starts* depends on the
script alone. Together: once nothing fails, the *zone* comes to say what the
sources say.

## Modules

| Module | Models | Correspondence |
|---|---|---|
| `Reconciliation` | what the control loop promises its providers | abstract: a round is opened with one batch, served to every provider in any order, settled |
| `Controller` | `controller.go`, `main.go` | `pc` is where the loop is; one action per call to a source or a provider, per branch of the select, per event (time, SIGTERM, kill, restart). `due` is `nextRunAt - now`, `tickIn` and `tickReady` are the ticker and its channel of capacity one |
| `Route53Forward` | `updateForward`, `cleanupZone`, the cache | `zone` is the hosted zone, `cache` is `cachedRecordSets`; one action per call to Route53, with the ways it fails; `PlanHost` is one round of the loop over hostnames (Go's map order: any) |
| `Route53Reverse` | `UpdateEndpoints` over all zones, both reverse planners | a planner makes no calls, so its result is an operator (`PlanResult`, `Changes`) and the call that writes it an action; the IPv4 and the IPv6 zone share the actions and differ in `Nameless` |
| `HTTPProvider` | `http.go` and `sync.RWMutex` | one step per lock operation and per replaced document; a document is the version of the update it was made from |
| `PrometheusMetrics` | `prometheus_metrics.go` and `sync.Mutex` | one step per pushed and per collected metric; a metric keeps its place, since two with equal labels are two metrics |
| `ReverseDNS` | `pkg/rdns/rdns.go`, `RFC1035DomainName` | an address is its four octets or thirty-two nibbles, a zone its labels; `Below` is the reference they are compared with |
| `PTRRecords` | `PTRsForEndpoints` | one step per address; the IPv4 and the IPv6 loop of an endpoint are one list, with `Hostname` and `RecordAt` telling them apart |
| `FileProvider` | `file.go`, `hosts_file.go` | one step per file rendered, per connection, per open (which truncates) and per fill; a file holds the entry and the list it was rendered from, or is `Torn`; `hosts_file` is the case of one file whose rendering cannot fail |
| `LuaCalls` | the resume loops of `custom_lua.go` (source and provider), of the filters in `config.go` and of `generate` in `file.go` | `stack` holds the calls under way (a filter may run inside a custom provider), each with what it has kept and every list handed over so far; one action per resumption, by how it ends |
| `LuaConfig` | `Parse`, `Sources`, `Providers` of `config.go`, the start in `main.go` | one action per declaration the range visits, in any order; a constructor that cannot (`CannotBuild`) ends the process, a restart may find an edited script |
| `Tabulate` | `tabulate_parse.go` | operators on lines of bytes: columns under the dashes, cells, slices out of range |
| `VyOSSource` | `vyos_ssh.go`, `lease.go`, `neighbor.go` | one step per command; `router` is external and moves between any two, `leasesThen` and `neighboursThen` remember what it held when its answers were made, `heard` which of them this call has had. A text of the lease table is its bytes and how many characters they are; the IPv6 addresses of a lease are a set, since their order is the router's |
| `ForwardSync` | the control loop with the Route53 provider as its only one | the provider's call on the list of this run, its steps while the loop waits; failures, kills, an expiring cache, a nil endpoint that takes both down, a forward zone that may be disabled, and an environment that settles |
| `MC...` | | values of the constants for TLC |
| `...Proofs` | | theorems, see below |

A definition marked `\* mutant of X` is a plausible wrong version of `X`: with it
in the place of `X`, the property it is listed for in `PROJECT.json` is
violated. It is no part of the specification.

How they compose:

- `Controller` INSTANCEs `Reconciliation`, which it implements; an
  `UpdateEndpoints` of the other modules is one `ProviderSucceeds` or
  `ProviderFails` of `Controller`.
- `ForwardSync` EXTENDS `Route53Forward`, INSTANCEs `Controller` and runs their
  actions, none rewritten: the provider's return *is* the loop's
  `ProviderSucceeds` or `ProviderFails`. That the composition is a loop, and its
  provider a provider, is proved (`ComposedLoop`, `ComposedProvider`).
- `LuaConfig` EXTENDS `LuaCalls`: the calls of a process that has started.
- `VyOSSource` EXTENDS `Tabulate`; `Route53Reverse` and `PTRRecords` EXTEND
  `ReverseDNS`.
- The http provider's documents and the file provider's files hold what
  `PTRRecords` computes; a filter or a `generate` of a file is a call of
  `LuaCalls`, and a panic of one is `Restart` in `FileProvider` and `Kill` in
  `Controller`.

## Runs

| Run | Bounds | Shows |
|---|---|---|
| `controller` | 2 sources, 2 providers, lists of at most one endpoint or a nil one, interval 3, tick 2, all modes, one kill | metrics tell the truth between runs (`UpMeansCurrent`, `StatusMatchesGauges`); a batch is whole and of this run (`BatchIsWhole`); providers only change in healthy runs (`DeliversHealthyRounds`); runs are an interval apart (`AtMostOncePerInterval`); the loop implements `Reconciliation`; SIGTERM ends it (`CancelStops`); otherwise it goes on (`KeepsReconciling`) |
| `route53_forward` | 3 hosts, of which two share a record name and one is spelt like a record; up to 5 records in pages of 2; 4 lists, 3 zones | the cache hides nothing (`CacheCoherent`); after a call without error no address is stale (`NoStaleAddress`), AAAA records are exact (`AAAAIsExact`) and, without cleanup, there is a record for every reported family (`ReportedHostsHaveRecords`); only reported values are written and other types kept (`WritesOnlyReports`); every call returns (`UpdateReturns`) |
| `route53_reverse` | 8 addresses (one of them invalid), 4 zones, 5 lists, 3 initial contents, pages of 2 | when a call is done with a zone without an error, every fitting address points to its first endpoint, and no error was lost on the way, not even before an endpoint that ends the plan (`NamesPointHome`), cleanup spares what is reported (`ReportedKept`), only PTRs of reports in the zone are written (`WritesOnlyReports`), every call returns (`UpdateReturns`) |
| `http` | 2 requests, 2 versions | a request sees documents of one update, none older than its own start (`OneUpdateIsSeen`), an update returns unless a request is caught between its two read locks (`ReturnsUnlessNested`) |
| `ptr_records` | 2 hosts, lists with shared, mapped and invalid addresses, zones from the root to deeper than an address | first claimant wins, every address in the zone is named, relative names mean the names they stand for, errors and panics are explained |
| `prometheus` | 2 scrapes, 4 lists, a refused label | a scrape is one update, all of it (`ScrapesAreSnapshots`), after an update there is one metric for each pair of addresses and no other (`UpdateShowsAll`), everyone returns (`EveryoneReturns`) |
| `file` | 2 files, 2 lists, 16 configurations: two files, one name twice around another, an entry that cannot be written, one without a name, local and remote | a call without an error wrote every file (`OkMeansWritten`), nothing is touched before all is rendered (`RenderedBeforeWritten`), no connection is left open (`ConnectionsClosed`), torn and old files are repaired once nothing fails (`Heals`) |
| `lua` | 15 scripts with every kind of broken or clashing declaration, of up to 3 names; 9 lists a resumption may hand over; 2 resumptions | a start is decided by the script and never by the order of a map (`StartIsDecidedByTheScript`), a call is answered by its own coroutine (`AnswersAreOfThisCall`), types (`TypeOK`) |
| `vyos` | 2 versions, 5 lease tables with empty, wide and shared cells, 3 neighbour tables, both ways to print, with and without neighbours | an answer is complete, of one call and of every command of it, an error answers nothing (`CompleteOrError`), the parser panics for one kind of table only (`PanicsExplained`), connections are closed (`ConnectionsClosed`) |
| `convergence` | 2 sources, each with 2 answers about one host or a nil endpoint, a forward zone that is enabled or not, with and without cleanup, pages of one record, an initial record with an address too many, interval 0, one kill | the zone changes only by what all sources of a run said, put together (`ZoneTellsTheSources`); once the environment has settled, an enabled zone without cleanup comes to match the sources and stays so (`Converges`) |

Two of everything that interacts is what the properties can tell apart: two
sources (one fails, one does not), two providers, two endpoints of a name, a page
and a page after it, a reader and another reader with a writer between them, two
files of which the second fails. An interval of 3 with a tick of 2 makes ticks
that come too early, in time and too late; `convergence` takes interval 0, where
the throttle plays no part, since `controller` covers it. Two resumptions are one
that decides and one that must not forget, or must override; `MaxResumes` bounds
every coroutine and one at the bound stands for one that yields for ever. The
lease tables hold a name that is wider in bytes than in characters, an empty last
cell in the last line and before it, a spelling in capitals and a hardware address
that two leases share. State spaces are finite without a bound on the length of a
behaviour (time is relative, histories are of the last run), except for
`MaxKills`: a process that is killed again and again has no liveness. Deadlock is
checked in all runs but those of `HTTPProvider`: the program really may stop there.

The type invariants are proved (below). `vyos` checks its own too, since it tells a
list of no addresses from a nil one, which the code takes care to do
(vyos_ssh.go:87), and `lua` checks that only a filter is ever called inside another
call, and only inside a custom provider's.

Two runs end in a violation. They show where the program does not do what its
own text says:

| Run | The text | What happens |
|---|---|---|
| `forward_added_address` | endpoint.go:16, "List of IPv4 addresses for A record creation" | a host that gets a second address keeps its old A record: only addresses that are gone lead to a change (route53.go:196-201) |
| `http_hang` | README.md:28, "Exposes a JSON list representation ..." | the handler's read lock, the update's lock, the getter's read lock (http.go:112, 101, 52): everyone waits for ever |

Other behaviour a reader of the code may not expect is part of the models, and the
properties are stated around it:

- Cleanup of the forward zone compares a full record name with a bare hostname
  (route53.go:146-153), deletes records of reported hosts and leaves the cache,
  from which the planner takes them for present (route53.go:221): such a host is
  without its record until the cache expires. `ReportedHostsHaveRecords` and
  `Converges` are about zones without cleanup for this reason.
- Cleanup of a reverse zone ends at the first page without a stale name
  (route53.go:523-524): names on the pages after it stay. `NamesPointHome` is about
  the names that are reported.
- An endpoint without a hostname and an IPv4 address ends the IPv6 plan
  (route53.go:407-411) without an error, and the changes of all endpoints are dropped.
  `NamesPointHome` asks for names only where there is no such endpoint, and for
  errors before it in any case.
- An address that does not parse ends the look of the reverse cleanup at its
  endpoint (route53.go:294-297): the names of the addresses after it are deleted, and the
  plan then fails and does not write them. `ReportedKept` asks for all names but
  those.
- Two endpoints with equal labels are two equal metrics (prometheus_metrics.go:90),
  for which the registry refuses every scrape: `ScrapesAreSnapshots` is about the
  scrapes that are answered.
- The wrong comparison at route53.go:229 (IPv6 records with IPv4 addresses) is
  harmless: AAAA records are written in every run, and `AAAAIsExact` holds because
  of it. Comparing with the IPv6 addresses, as for A records, would violate it
  (`CompareOwnType`).
- A lease table is laid out in characters and read in bytes
  (tabulate_parse.go:48): a host name whose bytes are wider than its column is cut
  (`Read`), and a line that ends before a column starts is a slice out of range
  that ends the process (`PanicsExplained` says when).
- A declaration of an unknown kind, and a custom one without its function, is
  passed over without an error (config.go); so is an entry of `hosts_file` without
  a name until it is opened.

## Fairness

Every run with liveness assumes weak fairness of what the program does by itself:
its goroutines are scheduled, and calls to the outside return, with or without
an error. The first is Go's; the second is an assumption about Route53, the router
and the hosts of files, since ZonePop sets no timeout (`ssh.ClientConfig` gets none,
and `ctx` has no deadline): a peer that never answers holds the control loop for ever.
Nothing that comes from outside is fair: updates, requests, SIGTERM and kills
need not happen, and a call may fail each time. That a cleanup ends rests on its
successful calls alone (a page without changes, or a page made shorter), never on
one that fails. Beyond that:

- `SF(TakeDone)`: Go's select takes one of several ready channels at random, so a
  context that stays done is taken in the end however often a tick is ready too;
- `WF(TimePasses)`, `WF(Restart)`: time goes on, and a crashed process is started
  again by its supervisor;
- `SF` of taking the `sync.Mutex` in `PrometheusMetrics`: a goroutine that waits
  for more than a millisecond is handed the mutex;
- `HTTPProvider` needs no strong fairness: a pending writer keeps new readers out.
  Clients are assumed to read what they are answered;
- `FileProvider` has `WF(Progress)`: the control loop calls the provider again
  every interval (`KeepsReconciling`), and a call that is under way goes on. `Heals`
  starts where `calm` does: the environment *may* settle, and need not;
- `ForwardSync` has the fairness of its two modules, with one weak fairness for the
  provider's steps: while the loop waits the provider goes on. Settling is not fair
  either; before it, any call may fail in any run.

`LuaConfig` and `VyOSSource` have no liveness and no fairness: a coroutine may
yield for ever and a command may take for ever, and nothing in the code bounds them.

## Proofs

Eight modules have proofs, for every value of the constants that satisfies the
ASSUMEs of the modules. These only say what types the constants have, that sets to
be counted are finite, for the Route53 modules, that IPv4 and IPv6 addresses
differ and a zone holds one record set per name and type and, for the VyOS source,
what a router prints: addresses and states are words without blanks at their ends, a
lease has an IP address (no row of its table is blank), a text has no more characters than bytes, and every hardware address of a lease or a
neighbour has a spelling in lower case. Every safety property that a passing run
checks is a theorem. These properties are seldom inductive, and each module names its
strengthening.

- **Controller**: `UpMeansCurrent`, `StatusMatchesGauges`,
  `DeliversHealthyRounds`, `AtMostOncePerInterval`, `BatchIsWhole`, and that the loop
  implements `Reconciliation`. The gauges are true between runs because
  of what each phase of a run has done so far. `ControllerInv` says it: in the
  source phase the gauges of the sources before `turn` are set and no provider has
  failed yet; in the provider phase all sources are up, and providers before
  `turn` hold the list; and `due = Interval - sinceStart`. For the batch, `Gathered`
  says where in the list the answers of the sources before `turn` lie, one after the
  other and nothing between them. The refinement maps a round to the provider phase,
  `served` to the providers before `turn`.
- **Route53Forward**: `CacheCoherent`, `NoStaleAddress`,
  `ReportedHostsHaveRecords`, `AAAAIsExact`, `WritesOnlyReports`.
  `ForwardInv` adds what the plan has settled for the hosts that are no longer in
  `todo`: a change in the batch, or an A record of the zone without an address to
  be removed. It needs `CacheCoherent`, since the plan is made from the cache, and
  the zone does not change while it is made.
- **ForwardSync** (in the same module of proofs): `ZoneTellsTheSources`, for any
  number of sources. Every step of the composition is a step of the loop or leaves
  it alone (`ComposedLoop`), so `BatchIsWhole` holds of it; and it is a step of the
  provider or leaves that alone, so `ForwardInv` does (`ComposedProvider`). What ties
  the two together is `Serving`: a provider in a call works on the list of this very
  run, while the loop waits for it. `GroupedAsTold` then turns what the provider has
  grouped by host into what the sources have answered.
- **Route53Reverse**: `NamesPointHome`, `ReportedKept`, `WritesOnlyReports`. A
  plan has at most one change of a name, the first endpoint's (`FirstRegisters`,
  `OneRegisters`), and it is for an address below the zone (`FitIsBelow`). The
  invariant is `NamesPointHome` with what each phase knows (`Phases`); a zone the
  call is done with is not touched again while the next is dealt with (`HomeStays`).
- **HTTPProvider**: `OneUpdateIsSeen`, and two facts no run needs to check: read
  locks are held by requests alone and given back (`LocksAreGivenBack`), documents
  change under the write lock (`DocumentsChangeUnderTheLock`). The invariant is the
  ownership of the lock: `readers` counts the requests inside, once for each lock
  they hold, a holding writer excludes them, and documents differ only by
  how far the update has come.
- **PrometheusMetrics**: `ScrapesAreSnapshots` and `UpdateShowsAll`. While the lock
  is held for an update, the metrics are those pushed before its place in the list
  (`Progress`); without it they are all of some list (`Settled`). `UpdateShowsAll`
  speaks of pairs of addresses and not of places in a list; `PairToPlace` and
  `PlaceToPair` are the bijection between the two.
- **PTRRecords** (with `HTTPProvider`, which serves what it computes):
  `FirstClaimantWins`, `EveryAddressNamed`, `RecordsInZone`, `FailuresExplained`.
  `FitIsContainment` is about the pure function: an address fits exactly in the zones
  its reverse name lies in. The invariant `PTRInv` says that the claims before `at`
  have been dealt with.
- **FileProvider**: `OkMeansWritten`, `ConnectionsClosed`, `RenderedBeforeWritten`.
  `WrittenSoFar`: the entries before `next` are written but for those a later entry
  of the same name has replaced or has just truncated; all results are of this call.
- **LuaConfig**: `StartIsDecidedByTheScript`, for every set of scripts. `Building`
  says of each phase what has been built of the declarations visited so far
  (`SourcesSoFar`, `ProvidersSoFar`): the names of those that are known, once
  each, the paths and metrics they took, and that none is broken or clashes with
  another. So a step that fails has found a declaration, or a pair, that would be
  found in every order.
- **LuaCalls** (in `LuaConfigProofs`): `AnswersAreOfThisCall` and `TypeOK`. A call's
  answer is what it has kept, and `KeptIsDecided` says what that is: the last value
  of its own coroutine that it was after, of whichever resumption, or its default.
  `CallsInv` says so of every call of the stack, so that one that ends inside another
  leaves the outer one as it was.
- **VyOSSource**: `ConnectionsClosed`, `PanicsExplained`, `CompleteOrError`. They rest
  on a theorem about text, `TableReadsBack`: a table that does not end the process
  reads back as it was printed, but for host names cut to as many bytes as their
  column has characters. Its argument follows the table from print to parse:
  where the columns lie under the dashes (`ColumnsOfTable`), which bytes of a line
  a cell takes (`LineIs`), that what trimming takes away is blank (`Cut`), and what is
  read from a cell (`CellOf`, `FieldIs`). A slice is out of range only where trimming
  has cut a row before its last column begins (`PanicNeedsCutRow`). Lines of
  neighbours read back word by word (`NeighborReadsBack`). The invariant `IInv`
  carries from command to command what was asked, what has been answered
  (`HeardSoFar`) and what has been read; TLC finds
  it to hold in the bounds of `vyos`.

Each also proves its type invariant, as `TypeCorrect` (`PTRTypeCorrect` for
`PTRRecords`, `StartTypeCorrect` for the variables of start-up).

Only model-checked: what is temporal and says that something happens, since liveness
is beyond the prover: `KeepsReconciling`, `CancelStops`, `UpdateReturns`,
`ReturnsUnlessNested`, `EveryoneReturns`, `Heals` and `Converges`. The two runs that
end in a violation have no theorem.

## Assumptions and what is left out

- ZonePop is the only writer of its zones and files. A record set somebody else
  deletes is missed until the cache expires; that is the design of a cache.
- `Restart` stands for a supervisor; ZonePop itself has none.
- Record names are values: `Fqdn` and `FullName` are constants, so hostnames that
  become one name are in the models, the characters are not.
- In a dry run `provider_up` keeps what it was (unset): `StatusMatchesGauges`
  leaves it out.
- A source that fails may return endpoints as well; they are tagged and dropped
  with the run, so the model's `SourceFails` has none.
- A listing of a zone is one step: it is several calls, between which nobody else
  writes.
- An IPv4-mapped address (`::ffff:10.0.0.1`) has an IPv4 reverse name, but fits in
  no zone but the root (rdns.go:104); `EveryAddressNamed` leaves it out.
- A file is filled in one step or not at all; a part of a file is `Torn`, as an
  empty one is. File permissions are right or wrong, as octal numbers.
- A metric name stands for namespace, subsystem and labels together: two that are
  equal clash, and one no registry takes (`Unregistrable`) fails by itself.
- The router's table is tabulate's "simple" format; whether it loses the blanks at
  the ends of its lines depends on its version, so both are modelled (`Trims`).
  A router prints what it holds: output that is no table at all, and a JSON error,
  are `CommandFails`.
- A Lua value is its type and an identity. Whether a panic of a filter inside a
  custom provider's function ends the process depends on the Lua machine: both are
  modelled.

Not modelled, and why:

- `gluamapper`, `luahttp`, `luazap`, and the mapping of endpoints to and from Lua
  tables (`endpoint.go`): conversions of values without state or control of their
  own. What cannot be converted is a property of a declaration (`unmappable`), a
  malformed table (`Malformed`) or a nil endpoint (`Controller`).
- The SSH client, but for connections that are opened and must be closed; the AWS
  client setup, but for its failure at start-up.
- Durations, timestamps, logging, template functions, the registry's own code,
  flags, release scripts.

## Plan

Done, most important first: control loop, forward zone, http, reverse names,
reverse zones, metrics; then files, Lua calls and start-up, the VyOS source, the
composition of the loop with the Route53 provider, and the proofs above. Left:

1. `Controller` composed with `FileProvider`, as `ForwardSync` does for Route53.
2. The endpoint's Lua form and `gluamapper` as pure operators, with the round trip
   as the reference.
