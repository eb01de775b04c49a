# A TLA+ model of ipfs-chromium

ipfs-chromium adds `ipfs://` and `ipns://` to a Chromium browser. This directory
models the parts of it that keep state. In the browser they run asynchronously: the
disk cache, the loads and how they reach their loader, the DNS and HTTP adapters,
and the gateway configuration. In the build they are scripts that are killed, run
again and find on disk what earlier runs left: the patcher, the build driver and the
script that links headers. The IPFS client library is a separate repository and is
modelled only by what the code here sees of it.

TLC checks each module on a small instance. TLAPS proves the most important
properties for every value of the constants. `PROJECT.json` maps each
definition to the lines it translates.

## The system

One profile of a browser has one `InterRequestState`. It is created when the
profile is, and it owns the client library's `Client`, the disk cache and,
once a load has needed it, the chain of requestors ("orchestrator").

```
 navigation -> Interceptor ------\
                                  +--> IpfsUrlLoader --TakeStep--> orchestrator
 page -> IpfsURLLoaderFactory ---/         |                           |
                                           v                           v
                                    URLLoaderClient     CacheRequestor -> next requestors
                                                            |              |         |
                                                       disk_cache   ChromiumHttp  ChromiumDnsTxtLookup
                                                                           |
                                                           ChromiumIpfsGatewayConfig -> PrefService
```

All of the browser part runs on the browser's UI thread. Nothing is ever preempted; every
interleaving is one of callbacks, timers and posted tasks. What is hard about
it is therefore what happens between a call and its callback.

| component | state | operations | must be right about |
|---|---|---|---|
| `CacheRequestor` | backend, `startup_pending_`, one `Task` per lookup, entries on disk with a header and a body stream | `Start`, `Assign`, `handle`, `OnOpen`, `OnHeaderRead`, `OnBodyRead`, `Miss`, `Store`, `OnEntryCreated`, `OnHeaderWritten`, `Expire` | a request is answered once or forwarded once; an answer is what was stored for its key, judged by its own header; entries survive crashes half written without being taken for whole; a bad entry is not found again |
| `IpfsUrlLoader` | bound pipes, `ipfs_request_`, `stepper_`, `complete_` | `StartRequest`, `TakeStep`, `whendone` with `BlocksComplete` and `DoesNotExist` | the client hears one whole conversation; the timer stops; an answer that is there is delivered |
| `Interceptor`, `IpfsURLLoaderFactory`, `InterRequestState` | `network_context_`, `cache_`, handlers handed to navigations | `MaybeCreateLoader`, `CreateLoaderAndStart`, `orchestrator`, `network_context` | the shared state exists before any load uses it, by whichever route the load comes |
| `ChromiumDnsTxtLookup`, `DnsTxtRequest` | `dns_reqs_`, a list of live requests per host | `SendDnsTextRequest`, `OnTextResults`, `OnComplete` | completed requests are not kept; a request is not lost to another's completion |
| `ChromiumHttp`, `BlockHttpRequest` | the request, its loader and timeout, `status_line_` | `SendHttpRequest`, `Send`, `OnResponseHead`, `OnResponse`, `Cancel` | every request ends, a cancelled one in silence; failures do not look like successes; the status is the gateway's |
| `ChromiumIpfsGatewayConfig` | `curr_`, `last_`, `changes`, `update_thresh`, posted tasks, preferences | `SetGatewayRate`, `AddGateway`, `SetTypeAffinity`, `delta`, `save` | large changes get saved; saves are applied in order; no save takes a gateway out of the preferences |
| `Patcher` (`cmake/patch.py`) | the Chromium tree, `chromium_edits` | `apply`, `check_patch`, `create_patch_file` | edits that are listed come into a tree once and stay, work in the tree is not lost, a recording can be applied |
| build driver (`cmake/chromium.py`) | what the set-up left on disk, the synchronised sources, `BUILD.gn`, `UPDATED`, the library | set-up, `sync_dir`, `copy_missing_and_changed_files`, `remove_danglers`, extraction, gn and ninja | what is compiled is what the repository has, wherever earlier runs were killed |
| header links (`cmake/inc_link.py`) | links and stubs, the commands left, running preprocessors | `search`, `Command.finished`, `eval_line`, `flesh_out` | the script ends and misses nothing without a word |

How they interact: in the browser, the factory and the interceptor create loaders; a loader
polls the orchestrator, which hands gateway requests to `CacheRequestor`
first. A request the cache does not answer goes to the gateways through
`ChromiumHttp`. Their answers reach the cache through a hook on the request, and
the loader through `whendone`. DNS lookups dereference the network context that
only the interceptor sets. In the build, the driver has a `Patcher` apply the recorded edits
to the tree before it synchronises this repository's sources into it; CMake has both
run again with every in-tree target. `inc_link.py` serves the build outside of
Chromium and meets the others only in the headers it links to.

## The modules

| module | models | source |
|---|---|---|
| `CacheRequestor` | lookups, stores, startup, the backend and crashes | `cache_requestor.cc/.h` |
| `CacheProperties` | its properties, inductive invariant and refinement mapping | |
| `RequestContract` | abstract: what the chain of requestors relies on | external interface |
| `CacheRequestorProofs` | proofs about the two above | |
| `IpfsUrlLoader` | all loads of a profile | `ipfs_url_loader.cc/.h`, `inter_request_state.cc` |
| `IpfsUrlLoaderProofs` | proofs about the loads | |
| `BrowserRoutes` | composes the loads with both routes and the shared state | `interceptor.cc`, `url_loader_factory.cc`, `inter_request_state.cc` |
| `BrowserRoutesProofs` | proofs about the composition, `RoutesSpec => Spec` | |
| `DnsTxtLookup` | TXT lookups | `chromium_dns_txt_lookup.cc/.h`, `dns_txt_request.cc` |
| `BlockHttpRequest` | requests to gateways | `chromium_http.cc`, `block_http_request.cc/.h` |
| `NetProofs` | proofs about the two above | |
| `GatewayPrefs`, `GatewayPrefsProofs` | gateway configuration | `preferences.cc/.h` |
| `Patcher`, `PatcherProofs` | applying and recording edits of Chromium | `cmake/patch.py` |
| `ChromiumBuild`, `ChromiumBuildProofs` | extends `Patcher` with one in-tree target, from set-up to ninja | `cmake/chromium.py` |
| `IncLink`, `IncLinkProofs` | the links to headers | `cmake/inc_link.py` |
| `MC_*` | constants for TLC; `MC_Net` runs the two adapters side by side | |

A definition whose comment begins with "Variant:" is not part of any
specification. It is a plausible mistake in the definition it varies, and
`PROJECT.json` names the property that catches it.

### CacheRequestor

A lookup is a `Task` and has a `phase`: `opening`, `header`, `body`, then
`answered` (from the cache) or `next` (forwarded), and from there `fetched` or
`failed`. A call of `Store` is named by the request whose answer it stores and
the key it stores under. The entry that the call creates, and the bytes it
writes, carry the same name. This is what lets a property say whose bytes an
entry holds: `header[e] = s` reads "stream 0 of entry `e` holds what call `s`
wrote". `entry[r]` is the handle a lookup holds; it stays valid when `index` no
longer names the entry, as with an open file that was unlinked.

Each completion of a disk operation is an action. The code calls the handler
directly when an operation completes at once, which is the behaviour in which
that action comes next. Assumptions about `disk_cache`: `DoomEntry` unlinks the
key before anything else is done under it; an entry that was opened keeps its
streams when it is doomed or evicted; writes of one stream are not seen in part.

`Start` and `Assign` call each other when the backend fails at once, and would do so
without end on a backend that always does. The model takes such a recursion to end
(`Start`), and counts the failures that are reported later (`MaxFailures`).

Two ends of the process are modelled because the code gets there: a negative
result of the header read is used as a length (`OnHeaderReadError`), and the
hook of a CAR request calls `Store` without a backend (`StoreWithoutBackend`).

Whether the client library accepts cached bytes (`MayAccept`, `MayRefuse`) is
external. It refuses bytes that are expired or do not verify, on the strength
of the header; without a header it may do either.

### IpfsUrlLoader and BrowserRoutes

The members of each loader are one record, and the handlers are functions from
a record to the set of records it may become. The client library may report
from within a step or by itself, and as often as `MaxReports`. The code is written
for a single report: `DoesNotExist` has no test of `complete_`.
`OneConversation` therefore speaks of loads reported at most once, and
`HeadsComeFirst` of all.

`BrowserRoutes` adds how a load starts. It takes from Chromium that every
navigation is shown to the interceptor, and that a page loads subresources
only after a navigation has committed (`Committed`, an assumption about Chromium). The HTTP factory that each `StartRequest`
puts into the shared client is left out: both routes are given the same one.

### The adapters and the preferences

`DnsTxtLookup` keeps the live requests of a host as a set. The callback of a
completing lookup may make another lookup before the list of the host is
erased. `BlockHttpRequest` tells a status line with a reason phrase from one
without, because `base::StringToInt` is applied to all that follows the first
space. `GatewayPrefs` counts the distance of two dictionaries as the
cardinality of the set of units by which rates differ, which needs no recursion
and can be proved about; one affinity stands for those of all request types.

### Patcher and ChromiumBuild

The text of a file is the set of changes it has over Chromium's own, and a patch is a
set of changes. `git apply` then needs that none of the patch's changes is there
(`Applies`), and its reverse check that all are (`Reverses`); the lines around a change
are assumed to fit unless the file differs between the tag and the version whose edits
are applied (`Drifted`). `edit_evidence` looks for tokens in all of a file: some changes contain
one (`Telltale`), and so do some files as Chromium has them (`Telling`).
A patch that does not fit a file of the latter kind is passed over, as if it had been edited.
`copyfile` is two steps, so that a kill leaves a file empty. `glob` and
`git status` give no order, and `todo` is a set. What developers do to the tree and the
edits in between (`DevStep`) is part of the model, because what `apply` may and may
not do is about their work; so are a fresh checkout and a pull of newer edits.

Names decide what `apply` and `create_patch_file` see, and paths are told apart by that:

- `Hidden`: a path in which some name begins with a dot. `glob` does not list its edits
  (`Listing`), so `apply` never comes to them. The repository ships such edits:
  `.gemini/commands/cr/cleanup-feature.toml` in `143.0.7499.25` and `.gn.patch` in the
  versions from `134.0.6958.2` to `135.0.7039.0`. They are never in effect,
  and `apply` says nothing of it.
- `Unnamed`: a name that ends in `.gz` or `.info`, or has no dot, as `DEPS` has none.
  `Foreign`: a path with `components/ipfs`, `third_party/ipfs_client`, `electron` or `/theme/`
  in it. What changed there is not recorded (`Recordable`), and a recorded tree comes back
  without it. Edits of them that were written by hand are applied as others are.

A recording that is killed leaves what it was writing as a directory without a file or as
a torn file (`KilledWriting`), and one that is killed in `rmtree` any part of the edits that were
there, the directories of the others with them (`KilledClearing`). A version whose directory is
left empty can still be the closest. With no version at all `apply` lists nothing and ends (`Chosen`).
A torn patch is one that ends within a change, which git refuses; one that is cut off
between two changes would be a smaller patch, and is left out. So is the `git add` that ends a
recording: it puts a file into git's index that is recorded by then, and changes neither list.

`ChromiumBuild` has one action for each step of the driver that changes something on
disk or decides what comes next. Each may end the run (`CutShort`), and the next run
goes by the disk alone. Sources and `BUILD.gn.in` may be edited while they are
synchronised. Two history variables say which files were (`edited`, `raced`); a third,
`cut`, says in which of two steps of the set-up a run ended. `newer` is the comparison
of times by which the driver decides whether to run gn.

What is taken for granted: scripts run one at a time, and a developer touches the tree
only between them; gclient clones into a temporary directory, so that `.git` is there
once all is fetched; gn writes only what differs; the recommended tag does not
change. The edits of a version have one patch or copy for each file, and
copies go to where the tag has no file (`EditsAssumption`). The first is so in every directory of
`chromium_edits`, by the names in it; the second is so of what is recorded, and is assumed of
the rest. `os.listdir` lists the versions in an order that
does not change (`Listed`): of two versions that are as far and have names as long, the
loop of `__closest_by_git` keeps the one listed first. Such ties are real, because every
version whose tag git does not know has the same distance. A `.skip` may be shipped with the
edits of a version, and one that an earlier version's edits left in the tree keeps
away the patch of a later one: `Changed` counts it. The synchronisation of `electron-spin` and of the
branding uses `sync_dir` again and is left out.

### IncLink

A header is named by its path. What a preprocessor does is external: it stops at
the first header of its list that does not exist, or, with more to say than a pipe holds
(`loud`), does not end. What the code decides is modelled branch by branch in
`eval_line`, with the difference that `os.path.exists` and `os.symlink` make between
a link that is not there and one that dangles. Any links may be there to begin with, some to sources in places that are not looked at any more.
The link to abseil, which is made before anything else, ends the script when it dangles
(`DiesOfAbsl`); Chromium is taken to have what it is to. An include that names its header by way of a
macro (`ByMacro`) is reported without quotes and angles, and ends the script with it
(`DiesOfMacro`).
Processes are polled in any order, and the directories made for links are left out.

## What is checked

| run | instance | distinct states | question |
|---|---|---|---|
| `cache_whole_entries` | 2 cachable requests and a CAR, 2 keys, 1 failure to open, 1 crash | 4,127,263 | do concurrent lookups, refetches and stores keep entries whole, bad ones unlinked, and answers right when one answer stores several keys? |
| `cache_contract` | 3 requests (one not cachable) of 1 key, 1 failure, 1 crash | 45,819 | does the requestor implement `RequestContract`, and do lookups and stores end? |
| `cache_skip` | 2 requests, 1 key | violation | is an entry that a store skips there? |
| `browser_loads` | 2 loaders, 2 URLs, 2 reports each | 8,400 | are conversations whole, timers stopped, answers delivered, shared state in place? |
| `load_report` | same, 1 report each | violation | does a report complete the load? |
| `network` | 3 lookups of 2 hosts, 1 abandoned; 2 HTTP requests, codes 200 and 404 | 6,001 | what stays in the map of lookups and what leaves it; does every lookup and request end, silently if cancelled, and without false success? |
| `dns_once` | same | violation | is every completion callback called? |
| `gateway_status` | same | violation | is the status the one the gateway answered with? |
| `gateway_prefs` | 2 gateways, rates 0..2, 2 affinities, `update_thresh` up to 3 | 258,684 | do large changes get saved, in order, with no gateway taken out of the preferences? |
| `chromium_build` | 5 files of Chromium, 3 versions of edits, two of which tie, 1 source with 2 texts, 1 kill, 2 acts of developers | 2,521,814 | are the edits that are listed in effect, do recorded trees come back, do sources reach ninja as they are, is a tree set up? |
| `build_set_up` | same | violation | does ninja only run on a branch whose dependencies were fetched? |
| `inc_link` | 2 commands, 4 headers in 2 directories | 513,972 | does the script end, miss nothing in silence, and die of dangling links and macros only? |

### Why the bounds are enough

- Cache: the hazards need one lookup holding an old entry, one request that has
  refetched it, and one that stores or reads in between. In `cache_whole_entries` the
  third is the CAR, which stores under both keys; `cache_contract` has three requests
  of one key.
- One crash: what it leaves is on disk, and the requests it has not reached
  then meet it. One failed start: a second passes through the same states.
- Two loads: one that sets the shared state and one that relies on it, or two of
  the same URL. Two reports per load: a third meets only `complete_`.
- Three lookups: two of one host beside one of another, or one made within the
  callback of a second while the third waits.
- Two HTTP requests share nothing; the second shows that no property of the
  first depends on being alone. Two codes tell success from the rest.
- Lookups and HTTP requests share nothing either: `network` decides at the start
  which of the two it looks at. One violation of either is one of both together.
- Preferences: rates 0..2 with two gateways reach distance 4, above the largest
  threshold; two saves in one session can be in flight at once.
- Build: a tracked file whose text is that of the tag, one that differs from it and whose name is
  not recorded, and one whose edit `glob` does not list. An added file in a directory the
  tag has and one in a new directory. The edits of the
  nearest version, of one that ties with it, and the tag's own, so that a recording or a pull
  changes which is the closest. A developer's two acts are one that a script meets and one that it then
  meets changed; a kill leaves a step half done, and the run after it shows what
  becomes of that. One source, which may be edited, added or removed while it is
  listed, copied or compared: sources meet only in the list that gn reads. `Telling` is
  empty. The theorems below hold for every choice of these sets, and without the bounds.
- Header links: two commands that come to the same two headers in opposite order, and
  end with one header each that is stubbed or left to openssl. One of them includes the header
  it comes to first by a macro.

`CHECK_DEADLOCK FALSE` is set where the system may rightly come to rest: all
requests settled, all loads answered, the script ended, or what developers may do
used up. `gateway_prefs` never stops and is checked
for deadlock.

### Fairness

- Lookups and stores: the backend completes what it is asked, with a result
  or an error (`disk_cache` promises its callback). Nothing is assumed of
  startup, of gateways or of crashes.
- `TimerFires`: a `base::RepeatingTimer` that runs fires. Content need not arrive.
- `OnComplete`: the resolver completes what it has not abandoned.
- `TimesOut`: a timeout that was set expires. `Send` always sets one, from
  `timeout_seconds` of the description, which is taken not to be zero.
- `IncLink`: the script is never held up, and a preprocessor that can end does. One that
  has filled its pipe cannot, and `RunEnds` excepts the runs that have such a one.
- Builds have no liveness property: a run may be killed at any time, and ninja fails
  on what does not compile.

### Disagreements with comments, assertions and documents

- `SkippedEntriesAreThere`: an entry whose header write failed stays linked
  and empty. The next store finds it opened and skips it "as it is already
  there" (`cache_requestor.cc:209`), and the key is not cached again.
- `ReportCompletes`: when `CreateDataPipe` fails, `BlocksComplete` returns with
  `complete_` unset, against `DCHECK(me->complete_)` (`ipfs_url_loader.cc:127`). The
  client is told nothing.
- `DoneCalledOnce`: a completing lookup erases all lookups of its host.
  A second one is destroyed and its `don`, "Called once" (`dns_txt_request.h:59`),
  never is.
- `StatusAsAnswered`: a status line with a reason phrase is reported as status 0
  (`block_http_request.cc:79`).
- `SetUpIsDone`: a tree that the build fetches itself is said to have "all your setup"
  done (`doc/building.md:73`). When `gclient sync` fails or is killed, the branch it was
  for is checked out, and the next run takes that for the end of the set-up
  (`chromium.py:150`). `SetUpGapsAreCuts` says that this, and one step before, are the
  only ways there.

## What is proved

Assumptions are those the modules name (`CacheAssumption`, `LoaderAssumption`,
`DnsAssumption`, `HttpAssumption`, `GatewayAssumption`, `PatcherAssumption`,
`EditsAssumption`, `BuildAssumption`, `IncLinkAssumption`). No number of requests, keys,
loads, lookups, gateways, files, edits, kills, acts of developers, commands or headers is
bounded. Every safety property that a passing run checks is a theorem.

**Cache** (`CacheRequestorProofs`). The safety properties are not inductive:
that an answer has the header it was judged by says nothing of the entry a
lookup has open, or of where its bytes came from. `CacheProperties` strengthens
them in parts. `StartupInv` ties lookups and hooks to the backend being there.
`OutcomeInv` makes the number of forwards a function of the phase. `EntryInv` has five
conjuncts: nothing is stored for a request before it is answered
(`NoStoreYet`); a `Store` call that has not created its entry has left no trace
(`NoEntryYet`), which is what makes a created entry new; an entry holds only its
creator's bytes, header first (`OwnBytes`); a key names only entries of its own,
none condemned (`Links`); and a lookup reads from the one entry it has open
(`Handles`). Each conjunct has a step lemma; the first two say why creating an
entry breaks none of the others. From these follow `TypeOK`,
`BackendBehindLookups`, `AnsweredOrForwardedOnce`, `HeaderBeforeBody`,
`OneAnswerPerEntry`, `CondemnedUnlinked` and `ServedAsStored`. The refinement of
`RequestContract` needs `OutcomeInv`: the contract's status of a request is
a function of its forwards, phase and answer, and each step moves it as the
contract allows or leaves it.

**Loads** (`IpfsUrlLoaderProofs`). The invariant `Sound` says what is true of one
loader: one that is not complete or has no request has said nothing, one with a
request has a timer, and one that has not been reported is not complete. A report keeps a
loader sound, whatever it is (`WhenDoneSound`), and each action changes one
loader to a sound one. `HeadsComeFirst`, `OneConversation` and `NoStepsAfterTheEnd`
follow.

**Routes** (`BrowserRoutesProofs`). Every step of the composition is a step
of the loads or none (`RoutesAreLoads`), which carries the theorems about loads
over. `ContextFirst` is the strengthening behind `SharedStateFirst`: before
the context is set no load has gone any way and no page is committed, so the
route that does not set it is not open yet.

**DNS** (`NetProofs`). A lookup that completed is not in the map, and
one leaves it only with a completion of its host. Of the erased list all that matters
is which lookups it held (`DonWrapEffect`).

**Preferences** (`GatewayPrefsProofs`). `over <= changes <= update_thresh` is
inductive: a change that leaves the rates far away is counted by both, and the
branch that resets `changes` without a save is taken only when the rates are
near. `last_` is the last of the preferences and posted copies because only
`save` changes it, and posts what it set. For `GatewaysOnlyGrow` every copy that is
posted has the gateways of the preferences and of the copies posted before it, and the
configuration in use has those of all (`Grow`).

**HTTP** (`NetProofs`). `HttpInv` adds to the properties that a request answers
as it goes away (`AnsweredOnce`): one that is still there has answered nothing, a
cancelled one is gone, and the line it reports is that of the head the loader saw.

**Edits** (`PatcherProofs`). `PatcherInv` says of a file that nothing but the chosen
edits has altered that it is as the tag has it, or as the edit of it wants it, or open
for being written; and of the edits that `apply` has come to that each is in effect or is one that
`PassedOver` names. Since an edit that `glob` does not list is never come to, it has to be named there. That is inductive only with what a script has in hand (a copy that
is open is of an empty file; what `apply` has yet to do are edits of its version), and
with `RecordInv`: while a tree is recorded, what was written is in effect in it. The
bounds on kills and acts are of no account, so the steps proved about are those of the
state without the counters (`Uncounted`). `OneIsClosest` says that the choice of a version is
one: the ranks by distance, name and listing are well-founded, so one is least, and no
two are equal.

That a recording comes back needs `BackInv`, which follows a tree through three scripts.
While the tree is recorded, what was written and what is to be written are together
all records of it (`WhileRecording`), so that a finished recording has an edit of every file that
is not as the tag has it, but for those in `Unrecorded`, and says of each what it was (`EditsOfRecord`); a recording that
was killed promises nothing. From then on, a tree at the same tag that nothing but these edits
has altered has each file as the tag has it, as it was recorded, or open (`OnTheWay`).
With `FinishedMeansInEffect` the first of these is ruled out when `apply` has finished, unless
the file was recorded as it is in the tag. Among the
changes by which another version's edits alter a tree are its `.skip` files: one of those would
keep a patch of the record away.

That running `apply` again changes nothing needs `RerunInv`: once it has finished, the version
that it chose stays the one it would choose, because only a recording or a pull
changes `chromium_edits` and both end the stretch the property speaks of, and every edit
of it is one that `apply` leaves (`Leaves`): its file has a `.skip`, its reverse applies, its
target is there. Each edit is left once `apply` has come to it, and edits of other files, of which
`NamesInv` says there is one each, do not undo that.

**Builds** (`ChromiumBuildProofs`). Every step of a build is one of the Patcher or leaves
its state alone (`BuildStepsPatcher`), so a build implements the Patcher (`BuildIsPatcher`) and
`FinishedMeansInEffect`, `ApplyKeepsWork`, `RecordingComesBack` and `RerunChangesNothing` hold of
builds. `CopyInv` says what `sync_dir` has seen to at each step: a file that was not
edited since the run began is still listed, or is as the repository has it and in the
list. `ListInv` says what makes gn run: wherever earlier runs ended, a file that came or
went since gn last read the list has touched `UPDATED`. It needs that the touch comes
before the copy. From these follow `BuildSeesSources` and `GnKnowsTheList`. `SetUpInv`
says what each step of the set-up tells of what is on disk, and gives `SetUpGapsAreCuts`.

**Header links** (`IncLinkProofs`). The type of `report` needs that the first missing header
of a command is a header: there is a least index at which one is missing, because `<` is
well-founded on the naturals (`LeastOf`). `NothingMissedSilently` is inductive with
`ReportsHold`: while a search has neither linked nor stubbed anything, nor met any trouble,
what a preprocessor that ended reported is still the first header its command misses, so
that a command is only dropped when it has none, or one that nothing can be done about.
`DiesAsNamed` is inductive as it stands: each of the four steps that fail finds what it dies of,
and nothing moves once the script has failed but preprocessors of other commands.

## What is only model-checked

Liveness under fairness (`LookupsEnd`, `StoresEnd`, `AnswersAreDelivered`,
`KeptLookupsEnd`, `EveryRequestEnds`, `RunEnds`) is beyond the prover, which knows neither
`ENABLED` nor a rule for weak fairness. These six are checked on the instances above
and nothing more is claimed of them.

## What is not modelled

- The IPFS client library: verification of blocks, scheduling of gateways and
  the chain behind the cache. What the code sees of it are external actions.
- Bodies, headers, MIME types and wording; the 2 MiB limit of the read buffer.
- The ownership of a loader (`whendone` holds the loader that holds it) and
  what happens when its client disconnects: nothing, as no handler is set. A load that
  is never reported polls on.
- The HTTP implementation of the shared client, which every `StartRequest` replaces;
  the process that ends in `FromBrowserContext` when a profile was not initialised.
- `int` width of rates; readers of the configuration; other preferences, among them
  one that is not a dictionary.
- The maintainer's queries of the patcher (`recommend`, `unavailable`, `out_of_date`), which
  read the web, and the scripts for releases and for tidying: they change no tree.
- The CBOR and JSON adapters: each member forwards one query to a value that Chromium
  parsed. URL canonicalisation: a pure function of strings around the library's CID
  parser, of which nothing is left without the characters and the parser.
- Registration of schemes, Electron hooks and feature flags: wiring without state of
  its own.
- Chromium itself. Most of the C++ in the repository is not its own: the directory
  `chromium_edits/143.0.7499.25` holds whole files of Chromium, tests among them, and
  every supported version has a copy of `url_canon_ipfs.cc` and `ipfs_extra_parts.cc`.
  These are data to the patcher and are modelled as that. Of the program's own
  C++ in `component` and of the three scripts, the map covers the code that keeps state.

## Plan

1. `CacheRequestor` with its contract and proofs; loads, routes, DNS, HTTP and
   preferences with proofs. Done.
2. The tools of the build, composed as they run: patcher within driver, with
   proofs; header links. Done.
3. `RerunChangesNothing` and `RecordingComesBack` as theorems, and those about header links.
   Done.
4. A composition of loads, requestor chain and cache, in which the cache's answers
   are what makes content ready, with `RequestContract` in place of the
   detailed cache where only the contract matters.
5. Ownership of the loader: the cycle with `ipfs_request_`, the client's
   disconnect, and the timer that polls on. Rates with the width of `int`.

The order is by weight: the cache decides what every load is shown, the loads
and their shared state come next, then the adapters, then the tools that
build the browser.
