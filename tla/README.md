# dns-box in TLA+

dns-box is a DNS forwarder for a router. It resolves the questions of its clients
over several upstream servers, caches the answers, and puts the addresses of
configured names into Linux ipsets, which route them through a VPN. An HTTP API on
port 8090 changes the rules while the program runs; every change is written to
`config.json` and, if so configured, to a file in a GitHub repository.

This directory holds a model of it: TLA+ modules, the TLC configurations that check
them, and proofs for TLAPS. `PROJECT.json` lists the runs, the proofs, the lines of
code that every definition stands for, and the hazards the properties are aimed at.

## 1. Inventory

| Component | Code | State | Operations |
|---|---|---|---|
| Config | `internal/config/config.go` | `Config` in memory under `mu`, `config.json`, `config.json.tmp` | `LoadConfig`, `SaveConfig`, the `Add…`/`Remove…` mutators, getters |
| GitHub copy | `internal/github/client.go` | `hosts_config.json` on GitHub | `SaveFile` (read the version, then update or create), `LoadFile` |
| Rule administration | `internal/api/handlers.go` | `domainCache`, `listDomainCaches` beside the Config | four root endpoints' handlers, four per-list ones |
| Routing decision | `internal/dns/handler.go`, `internal/cache/domain_cache.go` | the same caches, read only | `shouldProcess`, `isDomainInList`, `processAnswers` |
| Resolver | `internal/dns/handler.go` | one recursion per question | `resolver`, `cacheResponse`, failover over servers |
| DNS cache | `internal/cache/dns_cache.go` | entries with an expiry, negative ones too | `Get` (deletes what has expired), `Set` |
| TTL policy | `internal/dns/handler.go` | none | `normalizeTTL` |
| Upstream selection | `internal/dns/handler.go` | none | `sortServers`, `getScheme`, `exchangeDoH` |
| Blocklist | `internal/blocklist/blocklist.go` | `urls`, `blockedDomains`, `forceUpdate` | `updateLists`, `UpdateURLs`, `ForceRefresh`, `IsBlocked` |
| Net lists | handlers, `cmd/dns-box/main.go` | CIDRs in the Config and in hash:net sets | add, remove, fill at start |
| Start and shutdown | `cmd/dns-box/main.go`, the two `server.go` | goroutines, a `WaitGroup`, contexts | `run`, `Start`, `Stop` |

### How they interact

- **API → Config → disk → GitHub.** A handler changes the Config line by line, each
  line under `mu`, then calls `SaveConfig`. That holds `mu` from reading the static
  sections of the file to the rename, copies what belongs to GitHub, releases `mu` and
  only then talks to GitHub.
- **API → caches → DNS handler.** The same handler changes a `DomainCache` as well,
  before (root endpoints) or after (list endpoints) the Config, with no lock over both.
  The DNS handler reads the caches for every question and never the rules themselves.
- **File → caches.** At start `run` builds all caches from the file.
- **DNS handler → DNS cache → upstream.** One goroutine per question; the recursion
  along CNAMEs looks up and stores one entry per name it passes.
- **DNS handler → ipset.** Addresses go into the sets of all lists that match.
- **API → Config → blocklist.** A handler changes the URLs, hands the slice to
  `UpdateURLs` and leaves a token in `forceUpdate`; the refresh goroutine reads the URLs
  and publishes a new set, which the DNS handler asks first.
- **API → kernel → Config.** A CIDR goes into its set and, if that succeeds, into the
  Config; at start the sets are filled from the file.
- **main → everything.** A signal cancels the context: the watchers of the DNS servers
  shut these down, and `run` saves the Config, waits for them and stops the API.

### What is hard, and what would make it correct

| Component | Hard | Correct when |
|---|---|---|
| Config | crash or power cut inside a save; saves that fail half-way; concurrent requests; an operator editing the file | the file is always whole; what was answered "ok" is on disk; an operator's edit survives; no request waits for ever |
| GitHub copy | order of unlocked writes; refused updates; lost answers | it is a copy of some saved configuration, in the end of the last |
| Rules and routing | three copies of one truth; check-then-act; spelling of suffixes | names are routed exactly as the rules in the file would route them after a restart; "exist" and "not found" are true |
| Resolver, DNS cache | loops of CNAMEs; goroutines filing parts of one chain; an expired entry deleted after it was renewed; partial failures | entries are filed under the right names, no failure is cached, nothing is served for too long, every question is answered |
| TTL policy and ipset | boundaries; three clocks (cache, set, client) that start at different moments | lifetimes within five minutes and an hour; no address leaves its set while in use, none stays when no rule wants it |
| Upstream selection | an order that every level of a recursion must begin anew | no server is asked before those with a more secure protocol have failed |
| Blocklist | unsynchronised sharing; coalesced refreshes; failed downloads | in the end the set is that of the last URLs, and at every moment that of one refresh |
| Net lists | timeouts; two families; errors and crashes between set, Config and file | set and Config agree, and what is left over runs out |
| Shutdown | `Stop` before `Start` is through; lost `Shutdown`; requests still arriving | a program that returns has abandoned nothing; `run` returns |

The full list, each entry at its line, is under `hazards` in `PROJECT.json`.

## 2. Modules

| Module | Models | |
|---|---|---|
| `ConfigStore` | `SaveConfig` call by call, its callers, GitHub's `SaveFile`, faults | state machine |
| `AtomicConfig` | what `config.go` promises of the file | abstract specification |
| `RuleAdmin` | the eight rule handlers, both kinds of caches, the matching of names, restart | state machine |
| `Routing` | a question from `ServeDNS` to the ipset, `normalizeTTL`, the life of answers in cache, set and client | state machine |
| `Upstreams` | `getScheme`, `sortServers`, the servers that can be reached | functions |
| `Resolver` | the recursion along CNAMEs, failover over those servers, the DNS cache, time | state machine |
| `BlockList` | the refresh goroutine and the two handlers that change its URLs | state machine |
| `NetLists` | CIDRs in the Config and in the kernel, start-up, expiry, crash and reboot | state machine |
| `Lifecycle` | the goroutines of `run`, of the DNS servers and of the API server | state machine |
| `…_proofs` | of each but `AtomicConfig` | theorems |
| `MC…` | constants and symmetry | instances for TLC |

The modules meet in these places:

- `RuleAdmin`, `NetLists` and `Lifecycle` take a save for one step that succeeds or leaves
  the file alone. `ConfigStore` shows, as the refinement of `AtomicConfig`, that
  `SaveConfig` is one for everybody who reads the file or restarts from it.
- `Routing` takes the rules for a set of names. `RuleAdmin` says which names those are, and
  that this set, as the caches have it, is that of the configuration.
- `Resolver` gives an entry some lifetime between `MinTTL` and `MaxTTL`. `LifetimesBounded`
  of `Routing` shows that 300 and 3600 are such bounds for positive and negative entries.
- `Routing` takes an answer with its TTL as something that arrives, whole, from a cache or
  from a server; `Resolver` says how it comes about. `BlockList` says when `IsBlocked` matches.

Operators whose comment begins with "Variant:" are plausible mistakes, each a changed
form of the definition that follows it. `Next` never uses them; the entries under
`mutants` put them in its place to show that a property would notice.

### ConfigStore

A caller is a goroutine that ends in `SaveConfig`: a handler, or `run` at shutdown,
which changes nothing first. `pc` names the call it is about to make:

| `pc` | code | action |
|---|---|---|
| lines | the loop of a handler; each mutator takes `mu` for itself | `AddEntry`, `RemoveEntry`, `Acquire` |
| read | open and decode the file, build `finalConfig` | `ReadStatic` |
| create, encode, sync, rename | the temporary file | `CreateTmp`, `EncodeTmp`, `SyncTmp`, `RenameTmp` |
| any of these | an error return | `Abort` |
| unlock | copy for GitHub, `mu.Unlock` | `Unlock` |
| get, put | `SaveFile` | `GetContents`, `PutSucceeds`, `PutFails` |
| ok, err | the answer | `Finish` |

A configuration is a set of entries, which the API changes, and a static part, which
the operator edits. `path` is `config.json` as the running system sees it; `survivors`
is what may be there after a power cut: data that was never fsynced may be lost, and as
the directory is not fsynced, the older file may return. `Crash` ends the process alone,
`PowerCut` the machine. The version of a GitHub file is its content, as GitHub names it
by its hash. `unsaved`, `committed`, `damaged`, `edit`, `raced`, `failed` and `faults`
record history for the properties and the bounds; no guard of the code reads them.

### RuleAdmin

A name is a sequence of labels, a key a name with or without a leading dot.
`DomainCache` is modelled by what its operations do to keys: `AddSuffix` adds the dot,
`ContainsSuffix` cuts the name to its last two labels, `Remove` takes the key as it
stands. A line of a request is taken in the steps between which another goroutine can
get in: look at the cache, change the cache, change the Config. Reading the lines in any
order and number, and sending any body, is a `Turn`. `Restart` may happen at any time
and loads what was saved. Requests overlap as they like, also on one rule.

`Built` says under which keys `run` stores a set of rules, `Subject` and `Keys` which of them
a line changes. In two cases the code lets a cache and the Config come apart in these keys.
An add meets a remove that is in progress, or a remove meets one of another rule with the
same key: each may be last on one copy (`Against`). Or a remove does not take the same from
both copies, as its line is not the key that is stored, or as the Config has the rule under a
second spelling (`Misread`). `apart` is the history of the keys that were last changed in one
of these ways; no guard reads it. The next change of the key that is neither, and every start,
takes it out. The properties are about `Settled` keys: not in `apart`, and nobody in the
middle of them. `Covers` is what rules mean, stated without `DomainCache`: the property compares
with it what the DNS handler does.

### Resolver

`chain` is the stack of the recursion: the name of the question and the CNAME targets
below it; `found` are the CNAME records between them. A goroutine looks up the last
name, asks server after server in the order of `SortServers`, and on the way back
(`Unwind`) stores each name's records. A server stands for the spelling of its address,
which decides its place and whether `resolver` can reach it at all: with a scheme known or
unknown, or without one, with and without a port (`Upstreams`, where `SortServers` is the two
loops of `sortServers`, exchange by exchange). `LookupMiss` and
`DeleteExpired` are two steps as `Get` and `Del` of fastcache are. Upstream data may
change at any time (`Publish`); a server may always fail. Time passes only while every
goroutine waits for the network: the work in between takes microseconds, the lifetimes
minutes.

### Routing

Each client has one question at a time; `pc` is where its goroutine is. Times are seconds
that remain: of an entry of the DNS cache, of an element of the set, and of the use that a
client makes of its answer, which is its TTL, of which the first hour counts. An answer
found in the cache has the TTL it was fetched with, as `Get` returns it. `Elapse` lets time
pass while every goroutine waits for the network. `Evict` and `DropRule` also stand for
what fastcache drops, `AddNothing` for an `AddElement` that fails, `Restart` for the loss of
both caches while the set, being the kernel's, remains. `sure` and `idle` are history: whose
answer must be routed, and for how long no question under a rule was answered with an
address.

### BlockList

A list of URLs is a set; a slice read while it is written may have the array of one list
and the length of another (`SliceRead`, `Torn`), as nothing orders these accesses. The
handlers are four steps (change the Config, read the URLs without `mu`, `UpdateURLs`,
`ForceRefresh`), the refresh goroutine one step per list. `select` takes any ready case, so
`OnTick` may happen at any time. A list that cannot be had contributes nothing, one that
breaks off what came before (`LoadFails`).

### NetLists

One list with its one or two sets. A CIDR of one family cannot be put into the set of the
other; the handlers name the first set for both, so that an IPv6 CIDR is refused there,
while `run` takes it to the second. `left` is the time an element has. `raced`, `expired`,
`unloaded` and `leftover` are history: they name the elements whose difference from the
Config has a known cause.

### Lifecycle

`main` is the line that `run` has reached; every DNS server has a goroutine, a watcher that
calls `Shutdown` when the context is done, and a place in the `WaitGroup` (`counted`). A
request changes memory and then saves. `Panic` ends the program at once: a port that is
taken, an API server stopped before it was made, a `Shutdown` that takes too long. The
libraries miekg/dns and net/http are external: `Listen`, `Drain` and the two shutdowns.

## 3. Runs

| Run | Question | States | Result |
|---|---|---|---|
| `ConfigCrash` | two saves, crashes, power cuts, edits, damage: whole file, nothing lost that was confirmed, edits kept, `mu` held only inside a save, GitHub copy of a saved file, a save is one step | 2.7 million | holds |
| `BackupOverlap` | is the GitHub copy the last one, when two requests overlap | | **violated** |
| `ConfigLive` | is every request answered | 71 thousand | holds |
| `Rules` | a list or the root rules: does routing follow the rules, through requests that overlap on one rule or spell it differently, and restarts; are "exist" and "not found" true | 721 thousand | holds |
| `RulesLegacy` | legacy rules: does routing follow the rules | | **violated** |
| `Routing` | is an address in its set while it is used, and out of it an hour after | 2.5 million | holds |
| `Resolve` | what gets into the DNS cache, two concurrent questions | 2.2 million | holds |
| `ResolveLive` | is every question answered, in a bounded number of steps, and by the most secure server that answers | 46 thousand | holds |
| `ResolveNegative` | is a name that was denied ever answered with success | | **violated** |
| `BlockList` | do the last URLs come into force; is it always one refresh that is; does no failure make it begin anew | 1.5 million | holds |
| `NetLists` | do sets and Config agree; does what is left over run out, and get no more time | 141 thousand | holds |
| `Lifecycle` | what a program that ends has abandoned; does it end; is a server waited for that nobody shuts down | 41 thousand | holds |

### What the violated runs show

Each is a disagreement of the code with a line of its documentation, quoted under
`findings` in `PROJECT.json`:

1. `BackupOverlap`: two overlapping requests, nothing fails, both answered "ok"; GitHub
   ends with the older copy, because the copies are sent after `mu` is released. This
   overlap is all that can do it: when requests come one at a time, a save answered "ok"
   leaves its copy there, whatever failed before (`CurrentWhenAlone`).
2. `RulesLegacy`: `/domains` and `/suffixes` do not touch the per-list cache that decides
   the ipset. In the legacy configuration a new domain is routed after the next start
   only, and a removed one until then; `README.md:476` says that these endpoints go on
   working there, and `:825-831` tests the API with a POST to `/domains` after which the
   address is to be in `vpn_domains`. While only the endpoints of the list are used,
   routing follows the rules in this configuration too (`RoutingAsConfigured`); while only
   `/domains` and `/suffixes` are, their answers are true (`AnswersTruthful`).
3. `ResolveNegative`: the second answer for a missing name is NOERROR, not NXDOMAIN.

More were met on the way. The next five, also about a line of the documentation, are under
`findings` too; the run named there passes, as its property states what the code does.

- With `ipset.lists` configured the test of `README.md:825-831` fails for good: the rules of
  `/domains` and `/suffixes` belong to no list and are routed nowhere, also after a restart
  (`main.go:97`). `RoutingMatchesConfig` compares with the rules of the list alone.
- The suffix `.ex.com` matches `ex.com` (`domain_cache.go:40`). `README.md:208` says so,
  the table at `:215` has it under "does not match". `Covers` follows the former.
- A suffix of three labels, as in the shipped `config.json:73`, is stored but never matched
  (`domain_cache.go:40`); `README.md:208` promises everything below it. `MatchesMeaning`
  proves it of every suffix that has not two labels. The same suffix is refused by
  `/suffixes` as existing if its last two labels are a suffix, so `AnswersTrue` leaves these out.
- `README.md:380` says that a suffix without its dot gets one. The cache's does; the Config
  keeps it as written, and `Remove` deletes the key as written (`domain_cache.go:22-30`). Added
  as `ex.com` and removed as `.ex.com`, it stops being routed and is back after the next start;
  removed as `ex.com`, it stays routed until then. Under the stored spelling all is well.
- Upstream addresses without scheme and port, and `doh://` ones, both listed in
  `README.md:179-182`, are tried and fail every time (`handler.go:249-277`, `:397`). So do names
  with a port and no scheme (`dns.google:53`), while an IP address with a port, or an IPv6 one
  that begins with a digit, does not parse as a URL and is asked over UDP. Servers with an
  unknown scheme come last and are asked over UDP, if they have a port.

The others:

- An add and a remove of one rule at the same moment can take effect in different orders on
  the Config and on the cache (`handlers.go:516-519`, `:545-549`, `:92-97`), which then differ.
  They are the same again from the next change of the rule that meets no opposite one, or from
  the next start; through `/domains`, where "exist" and "not found" come before any change, it
  must be the change that the cache does not take for done. Two adds, or two removes, do no harm.
- A client goes on using an address for the TTL it was given, a day perhaps (`handler.go:90`),
  while cache and element last an hour (`:121`). `RoutedWhileUsed` counts the first hour of a
  use; after it the address may be gone from its set. A later answer for the same address with
  a shorter TTL cuts the time of the element as well (`:178`); the property excuses its clients.
- Of two overlapping blocklist requests the older list may be the last to be handed to
  `UpdateURLs` (`handlers.go:347`); the Config is right and the next change repairs it.
  `LatestListsInForce` says so by `raced`.
- An address behind a CNAME gets a new lifetime with every alias that is cached
  (`handler.go:340`), so the hour of `README.md:708` is one hour per record of the answer:
  `ServedAge` states and proves this bound.
- A network of a net list leaves its set after its timeout and comes back with the next
  start only; an IPv6 one can be neither added nor removed through the API
  (`handlers.go:211`, `:245`), while `run` loads it.
- The watchers stop the DNS servers as soon as the context is done, during the save of
  `run`; the comment at `main.go:199` has the save come first. Nothing depends on it.
- A signal before every DNS server listens makes `run` wait for ever: `Shutdown` of a server
  that does not listen is an error nobody reads (`dns/server.go:44`), and `Stop` does not
  look at its context (`:53`). `ShutdownEnds` begins after that moment.
- `normalizeTTL` makes 900 of 30, as its comment says; the table at `README.md:724` says 300.
- `README.md:35` promises that an empty configuration is filled from GitHub; nothing calls
  `LoadConfigFromGitHub` (`config.go:112`).

### Bounds, and why they are enough

- **Callers, clients, questions: two.** The locks and caches are shared pairwise: a
  third adds no new kind of overlap, only more of the same. Every safety property
  is proved for any number.
- **Entries one or two; `MaxLines` one.** One entry is enough for a change to be lost, also
  with another request's save.
- **Lines: the domain `ex.com`; the suffixes `.ex.com`, `ex.com` and `.www.ex.com`.** Both
  spellings of a suffix, the same name as domain and as suffix, and a suffix that
  `ContainsSuffix` cuts, in whose place it finds `.ex.com`.
- **`MCBound`** in `Rules`: TLC goes on from the states in which of the two endpoints, that of a
  list and `/domains` with `/suffixes`, one has neither rules nor requests, and in which the keys
  in `apart` are of one name; it checks the properties also in those it does not go on from. With
  `ipset.lists` configured neither endpoint reads or changes the rules and the cache of the
  other; the proofs have no such bound.
- **`MaxFaults` two where crashes are the question** (a power cut that restores an older
  file, then a second fault), none in the liveness run. Failures of single calls (`Abort`,
  `PutFails`, a failed read of GitHub) are not bounded.
- **Names: `ex.com`, `www.ex.com`, `www.www.ex.com` and `www.com`**: the name of each
  rule, names one and two labels below, and one that shares the last label only.
- **Two names, one address, `MaxDepth` 1 or 2** instead of 10: there are chains that end,
  chains that are cut off and loops, each longer and shorter than the bound.
- **`MaxTime` 3 ticks, `MinTTL = MaxTTL = 1`** in `Resolve`: entries are fresh, at their last
  tick, expired, and renewed by an alias; one tick in `ResolveLive`, where time only matters
  for a second lookup.
- **`MaxChanges` 1**: data changes once, or an entry is dropped once, between any two looks.
- **Servers**: one in `Resolve`; in `ResolveLive` one of an unknown scheme, `bare`, `tls` and
  `doh`, which sorting has to exchange more than once and of which two can be reached.
- **TTLs 200, 1500, 86400, steps of 1200 seconds** in `Routing`: below, within and above
  the bounds, so that entries, elements and uses run out in every order. Every value of
  `normalizeTTL` is covered by the proofs. Two names share one address.
- **Two lists that share a domain**, one of them smaller, so that a torn slice and a
  partial list differ from every whole one.
- **Two IPv4 and one IPv6 CIDR; the timeout not given, the default two ticks.**
- **Two DNS addresses, two requests, one question in flight per address.**

Symmetry is used for callers, clients, questions and names, never in a run with a liveness
property. Deadlock is not checked where the system may stop: `ConfigCrash` (a process whose
file was destroyed from outside does not start again), `BlockList` (the service has been
stopped) and `Lifecycle` (the program has ended).

### Fairness

- `ConfigLive`: weak fairness of each caller's steps inside `SaveConfig` (file operations
  return, an HTTP exchange with GitHub ends within `defaultTimeout`) and strong fairness of
  `Acquire`, as Go's `sync.RWMutex` hands the lock to a writer that has waited. No fairness
  for requests, faults or restarts.
- `ResolveLive`: weak fairness of each question's steps; an exchange ends within
  `dns.timeout`, if only with an error. Nothing makes a server answer.
- `BlockList`: weak fairness of each handler and of the refresh goroutine; a download ends
  within ten seconds, with or without the list. The ticker is not counted on.
- `NetLists`: time passes, that is all.
- `Lifecycle`: weak fairness of every goroutine. No client need ask, no signal need come.

## 4. Proofs

Every theorem is proved for all values of the constants, from the named assumption of its
module, which says no more than that sentinels are not data, that bounds are numbers and, in
`RuleAdmin`, that names are sequences of labels and the legacy configuration has one list.
None of the properties is inductive alone; each module has one inductive invariant, and one
lemma per action, or group of actions, that preserves it.

**`ConfigStore_proofs`** (`TypeCorrect`, `Loadable`, `Accounted`, `MuReleased`, `SavedVersion`,
`Edits`, `CurrentWhenAlone`, `Refinement`). The invariant `Core` has three parts. `TypeOK`.
`LockInv`: the caller inside `SaveConfig` and the holder of `mu` are the same; so there is at
most one (`MuReleased`). `SaveInv`: from `encode` on the temporary file exists, from `sync` on it
holds `finalConfig`, at `rename` it is synced, and the rules in `finalConfig` are those in
memory, since no line of a request gets `mu` meanwhile. `Loadable` needs the last but one fact
at the rename; `Accounted` and `Refinement` need the last one: the step that stores the file
stores exactly the rules in memory. Three properties need more. `BackupInv`: the copy a caller
carries to GitHub was in `config.json`, and when it is about to be taken memory is what was
just stored. `EditInv`: while the last edit has not raced a save, the file, everything a power
cut may leave, and a `finalConfig` on its way all have the static part of that edit.
`CopyInv`, for one caller at a time, any entries and any faults: the copy on its way is that
of the file as it is, so that `BackupCurrent`, which `BackupOverlap` refutes for two, holds.

**`RuleAdmin_proofs`** (`TypeCorrect`, `RulesAgree`, `RoutingAsConfigured`, `MatchesMeaning`,
`AnswersTruthful`), for any lines in any spelling. `RuleInv`: for every settled key each cache
has what `run` would put into it from the rules in memory (`RootAgrees`, `ListAgrees`); requests
in the middle of a key that is not `apart` all do the same, by the key that is stored
(`OneWay`); what one of them removes is the only rule of its key (`RootOnce`); and the copy
that they change first has been changed: that of a list by each of them, `domainCache` once the
last of them has passed it (`RootHalf`, `ListHalf`). The last one to leave thus leaves both
copies the way all of them meant, also when the key had been apart before.
`MatchesMeaning` says what the keys and the cut of names amount to: a cache built from rules
matches the names that the rules cover (`Covers`). With it `RoutingAsConfigured` follows from
`RuleInv`: of the rules of a list, in whatever spelling, the resolver routes the names
that are one of the domains or lie at or below a suffix of two labels.
In the legacy configuration the invariant of a cache is claimed as long as the endpoints that
keep it are the only ones in use: those of the list for its cache and so for the routing
(`ListsOnly`), `/domains` and `/suffixes` for `domainCache` and so for the answers (`RootOnly`).
Where these conditions fail the properties do, as `RulesLegacy` shows. There is no other.

**`Routing_proofs`** (`TypeCorrect`, `Used`, `Drained`, `Bounded`). `RouteInv`: a rule matches the
name of a client whose answer must be routed, until its address is in the set; from then on
the element outlives the client's claim, which is its TTL or an hour, whichever is less. The
argument is `Normalized`: `normalizeTTL` lies in 300..3600 and below the hour never shortens.
`Used` therefore speaks of the whole use if the TTL is an hour at most, and else of its first
hour, and of clients whose element no later answer has shortened (`sure`).

**`Upstreams_proofs`** (`ServersSorted`). For every list of servers the two loops of
`sortServers` return a permutation of it in the order of their protocols. `Exchange` never
loses a server; after the inner loop the place `i` has the best of the places from `i` on,
after the outer one the places up to `i` are in order and none behind them is better. The
loops are recursive functions on the number of rounds; the induction is over a set of
natural numbers, from the well-foundedness of `<`.

**`Resolver_proofs`** (`TypeCorrect`, `ChainedAnswers`, `AgeOfAnswers`, `HonestNegatives`,
`EncryptedOrder`, `StepsBounded`). `ResolverInv`: the CNAMEs found lead from the question to the
name being looked up, what a goroutine is about to store belongs to that name and is empty
only after an NXDOMAIN, and its age is at most a lifetime per record; the same for entries.
It does not depend on what other goroutines do to the cache, which is why any number of them
is allowed. `OrderInv` adds that those tried at a level are the places before the current
server, none left out; as `ServersSorted` has the more secure ones there, `EncryptedFirst`
follows. `StepsBounded` is `StepsRunOut`: each step of a goroutine makes the number of steps it
can still take smaller, which begins at
`(MaxDepth + 2) * (Servers + 3) + 2 * MaxDepth + 4` or less. So no question is retried or
followed for ever; it is the safe half of `QuestionsAnswered`, for any depth, any number of
servers and any other goroutines.

**`BlockList_proofs`** (`TypeCorrect`, `InForce`, `OneRefresh`, `RunsOut`). `ListInv`: unless a token waits or
a handler is about to leave one, the refresh that runs or was published has the last URLs;
a request that does not overlap hands on the URLs of the Config; and the set under
construction holds exactly what was read. `RunsOut`: each step of the refresh goroutine
that is not one for the ticker lowers `RefreshWork`, the lists still to be read and those
of the refresh that a token asks for; with `InForce` it is the safe half of `ListsConverge`.

**`NetLists_proofs`** (`TypeCorrect`, `Matching`, `RunDown`). `NetInv`: a handler has a CIDR in hand
exactly between set and Config, two have the same only after a race, and what one did to the
element is still so when it comes to the Config, unless the element ran out. `RunDown` adds
`Limited` (no element has more than the timeout): an element that neither the Config nor a
request has is given no more time and loses some with every tick, the safe half of
`StraysExpire`.

**`Lifecycle_proofs`** (`TypeCorrect`, `StopWaits`, `Graceful`). `ExitInv`: a change that is not in
the file is about to be saved, or a save has failed; unless the signal was early, a server that
listens or is about to has a watcher that waits for it (`Watched`); past `Stop`, without an early signal, every
DNS server is over. `StopWaits`, that `Stop` waits only for servers that are being shut down
or have a watcher that will do it, is the safe half of `ShutdownEnds`.

What stays with TLC, being liveness under fairness and beyond the prover: `RequestsAnswered`,
`QuestionsAnswered`, `ListsConverge`, `StraysExpire` and `ShutdownEnds`. Every other property
of a run that holds is proved.

## 5. What is not modelled, and why

- Wire formats, JSON, logging, the text of answers: no property depends on them. The
  exchange of a message over DoH, DoT, TCP or UDP answers or fails.
- `LoadConfigFromGitHub` and `LoadFile`: no code calls them.
- More than one question type, several records in an answer, and a CNAME behind other
  records: entries are keyed by type and do not meet.
- The read-only endpoints. Some read the Config without `mu`; a torn read reaches one
  answer and stays nowhere. Where such a read is kept, in the URLs of the blocklist, it
  is modelled.
- That a rule dropped by fastcache stops being routed until the next start: `RuleAdmin` has
  caches that keep what they are given, `Routing` lets a rule go at any time.
- `ipset_stub.go`, which does nothing, and the netlink library behind `ipset.go`.
- A fault of the process by a slice that is longer than its array: it ends the behaviour.
