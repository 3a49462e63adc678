# Verification of re-cache

re-cache is an in-memory cache server: clients store strings and sets of strings
under keys over gRPC, entries can expire, and a background service cleans the
cache and saves it to a file. This directory has TLA+ models of it, the TLC
configurations that check them on small instances, and TLAPS proofs of what can
be proved for all instances.

Paths are given below the repository root; `Cache` stands for `src/Exentials.ReCache`,
`Server` for `src/Exentials.ReCache.Server`, `Client` for `src/Exentials.ReCache.Client`.

## 1. Inventory

| Component | State | Operations |
|---|---|---|
| **Entries and keys** `Cache/ReCacheEntry*.cs`, `ReCacheKey.cs` | value, absolute deadline, sliding span, sliding deadline of an entry; a key is a record of name space, name and type | `Value` (tests `Expired`, renews the sliding deadline), `Expired` |
| **ReCacheProvider** `Cache/ReCacheProvider.cs` | one `ConcurrentDictionary` from keys to entry objects | `Set`, `Get`, `Del` on strings; `SetHashSet`, `GetHashSet`, `DelHashSet`, `RemoveHashSet`; `Keys`, `Namespaces`; `Clear`, `ClearAll`, `CleanExpired`; `SerializeTo`, `DeserializeFrom` |
| **GrpcCacheService** `Server/Services/GrpcCacheService.cs` | none | one handler per request; turns null into "No result", serializes what it got |
| **CacheCollectorService** `Server/Services/CacheCollectorService.cs` | two flags, two timers, the backup file | `StartAsync` (restores, starts the timers), `CleanJob` each 60 s, `BackupJob` each 30 s, `StopAsync` |
| **Backup format** `Cache/ReCacheEntryConverter.cs`, `ReCacheDictionaryConverter.cs`, `ReCacheKeyConverter.cs` | the cursor of a JSON reader | write and read of an entry, a key, a dictionary |
| **ReCacheClient** `Client/ReCacheClient.cs` | the channel, `_disposed` | one method per request |
| **ReCacheConnection and command line** `Client/ReCacheConnection.cs`, `src/Exentials.ReCache.ReCli` | host, port, route, the client | `Connect`, `Close`; one command per request |
| **Authentication** `Server/Services/AccountService.cs` and the token endpoint | none (configuration) | `Login`, token validation |
| **Log monitor** `Server/wwwroot/js/site.js`, `Server/Hubs/MonitorHub.cs` | the hub connection of a page, the server's connections | the script: load, `start`, `ReceiveLog`; the hub: `SendLog` |
| **Server start and web pages** | none | registration of services and routes |
| **Demo, static files** | none | |

How they interact. The server has one provider, a singleton that three kinds of
threads use at the same time: gRPC handlers (any number), the callback of the
cleaning timer, and the callback of the backup timer. A `System.Threading.Timer`
does not wait for its callback, so a callback can overlap with itself and with
the other one. The provider holds no lock over a call: it makes one access to the
concurrent dictionary after the other, and hands out the entry objects - even the
`HashSet<string>` inside one - which other threads then read and write without
any lock. At the start the collector reads the backup file before the timers
run; every 30 seconds it opens the same file and writes over it. The command line holds one
`ReCacheConnection`, which logs in over HTTP and makes a `ReCacheClient`. Apart from all that, each web page
of the server connects to a SignalR hub, which writes what any of its clients sends to all connections; nothing in the repository
calls `SendLog` yet, so the senders are clients from outside.

What is hard here:

* *Interleavings.* Test and act are separate everywhere: `Expired` and the removal
  in `CleanExpired`, `Expired` and the renewal in the getter of `Value`, the look-up and
  the store in `SetHashSet`, the test of the flags and their setting in both jobs.
* *Shared plain objects.* `HashSet.Add`, `RemoveWhere`, the serialization of a set for a reader and the one for the backup meet
  on the same object; the sliding deadline is a nullable struct that is written and read
  without a lock.
* *Failure in the middle.* A backup can throw when the file is in use, when the dictionary
  changes its size, when an entry cannot be written, when a client adds to the set that is being written; the process can stop between any two steps.
* *What survives a restart.* The reader of the backup has to accept what the writer wrote.
* *Broadcast.* Messages go to one connection after the other, while connections come, end and are cut and other senders do the same.
* *Time.* Deadlines pass between the test of an entry and its use.

`PROJECT.json` lists each hazard at its line, with the properties aimed at it.

## 2. Modules

| Module | Models | Correspondence |
|---|---|---|
| `ReCacheEntry` | an entry | `NewEntry` a new entry object, `Expired`, `UpdateSliding`. Pure operators |
| `ReCacheProvider` | the provider with the handlers that call it, any number of threads | see below |
| `CallHistory` | `ReCacheProvider` and when each call began, on which dictionary, and whose key was changed since its `AddOrUpdate` looked (`lost`) | history variables only |
| `HashSetHistory` | `ReCacheProvider` and what its clients know: the members they rely on (`acked`), the values they are rid of (`gone`), and for each call those that were so all the time (`stable`, `lacking`) | history variables only |
| `SlidingHistory` | `ReCacheProvider` and when each entry was last of use | history variables only |
| `CacheStore` | abstract: what the string half promises | not code: the specification |
| `ProviderRefinement` | the refinement mapping of `ReCacheProvider` to `CacheStore` | |
| `BackupFormat` | the converters | `Json` the tokens `Write` produces, `Throws` when it cannot; `Readable` and `EntryRead` what `Read` does with its cursor |
| `CacheCollector` | the background service, the file, start and stop | composes `BackupFormat` and `ReCacheEntry` with the jobs |
| `CollectorHistory` | `CacheCollector` and what its backups promised. A fact is an entry under a key, or a member of a hash set under a key: those that were so all the time a job ran (`watched`), those that were so at some time while it worked (`passed`), what was safe until the process stopped | history variables only |
| `ReCacheConnection` | the command line with its connection, and the servers it logs in to | see below |
| `ConnectionHistory` | `ReCacheConnection` and the session its user has | history variable only |
| `MonitorHub` | the script of the pages, the hub, and the connections between them | see below |
| `ReCacheProviderProofs`, `ProviderRefinementProofs`, `CallHistoryProofs`, `HashSetProofs` | theorems on the provider | |
| `CollectorProofs`, `RecoveryProofs`, `ConnectionProofs`, `MonitorProofs` | theorems on the backup format and the collector, on restarts, on the connection, on the monitor | |
| `MCProvider`, `MCRefinement`, `MCHistory`, `MCHashSet`, `MCSliding`, `MCCollector`, `MCRestart`, `MCConnection`, `MCMonitor` | instances for TLC | which thread serves what, which entries clients store |

**ReCacheProvider.** `dict` is `_concurrentDictionary`; an entry object is a member of
`Refs` and `heap` has its fields, so that two threads can hold the same object and
a key can be given a new one. `call[t]` is the request thread `t` serves and
`pc[t]` where it is in it; `hit[t]` is the pair it got from the dictionary, `todo[t]` the keys
its enumeration has still to come by, `seen[t]` what a hash set held when it began to work on it.
A call starts with `Invoke` (a handler is entered) and ends with `Answer`. In between,
one step is one atomic access of the code:

| Code | Steps |
|---|---|
| `Set` | `AddOrUpdate` of .NET is a loop: `Peek` (its `TryGetValue`), then `AddOrUpdate` (`TryAdd` or `TryUpdate` succeeds), or `Overtaken` (another thread has changed the key, and the loop starts again) |
| `Get` | `LookupMiss`, or `LookupHit`, then the getter of `Value`: `CheckExpired`, or `CheckLive` and `Renew` |
| `Del` | `RemoveMiss`, or `RemoveHit` and the getter |
| `SetHashSet` | `Get`, then the steps of `Set` with a new set, or `BeginWalk` and `EndAdd` on the shared one |
| `GetHashSet` and its serialization in the handler | `Get`, then `BeginWalk` and `EndSerialize` or `SerializeFails` |
| `DelHashSet` | `Get`, then `BeginWalk` and `EndRemove` |
| `RemoveHashSet` | `RemoveEntry` |
| `Keys`, `Namespaces` | `ListKeys`: `ConcurrentDictionary.Keys` takes all its locks, so it is a snapshot |
| `Clear`, `CleanExpired` | one `SweepNext` per key in any order, an `Evict` for every pair it selects, `SweepEnd` |
| `ClearAll` | `ClearAll`. It is part of the library; no gRPC handler calls it |

Undefined behaviour is a choice. Two threads that work on one `HashSet` leave and see any
set between what both of them touched, and either may throw (`Between`, `WalkOutcomes`);
an enumerator throws when a member was added under it (`broken`). While one thread writes the first
sliding deadline of an entry, another can see the "has value" part without the value
and take the entry for expired (`HalfWritten`, switched by `TornReads`).

**CacheCollector.** `_isCleaning` and `_runningBackup` are plain flags that `Begin` tests
and `CleanFlag`/`BackupFlag` set one step later. A backup is `OpenWrite` (shares with nobody: a second one
throws), `Count` and `Visit`/`Enumerated` (`ToImmutableArray` counts first, enumerates
later and throws when the array is not filled exactly; it copies references), `WriteEntry` per string, `WalkBegin` and `WalkEnd` per hash set, `WriteThrows` or `WalkThrows`, `Flush`, `Close`; whatever
is thrown goes over `CloseUnwritten` (the `using`) to `BackupEnd` (the `finally`).
`Stop` is possible between any two steps and keeps `file` only. A file that was not closed
is `torn`: what the next start makes of it is open. `StartAsync` reads the file; what throws there
is swallowed, and the cache is empty.

What clients do is there in the steps that a backup can see: `Put` and `Remove` change which object a key has, `Get` renews a sliding deadline, and `AddMember` and `RemoveMember` are
the in-place `Add` and `RemoveWhere` of `SetHashSet` and `DelHashSet`, on any set that was ever stored, since a call may hold one that has expired or left the cache. While a worker walks a set to write it,
an added member breaks the walk (`broken`, then `WalkThrows`), a removed one goes unnoticed and is written or not (`WalkEnd`).

**ReCacheConnection.** The command line does one command after the other, so a command is one step: `Connect`,
`ConnectRefused` and `ConnectThrows` are the outcomes of `connect`, `Call` any command that is a request, `MustConnect` what the base class
of the commands does without a client, `Close` the commands `disconnect` and `exit` with anything behind it, `Exit` the end of the loop. In between,
servers stop, start and get another secret. `clients` are the `ReCacheClient` objects, each with
the address and the token it was made with; `address` is `Host`, `Port` and `Route`, which `Connect` sets before it logs in.
A server signs with the secret its configuration has at the moment (`config`) and checks with the one it started with (`key`).

**MonitorHub.** A page is a document, loaded once: a reload is the end of one page and the load of another. `state` is where the script and its
connection are, `link` the server's end of the connection, `wire` what was written and not received, `got` the calls of `ReceiveLog`.

| Code | Steps |
|---|---|
| `site.js`: `build`, `on`, `start` | `Load`. The handler is registered before `start` is called, all in one run of the script |
| `start` | `Handshake`, then `Started` (its `then`), or `StartFails` (its `catch`) |
| the handler | `ReceiveLog`. Messages are handled as soon as the handshake is through, before the promise of `start` is kept. No page of the repository has an element "monitorLog", so the handler throws there; the connection logs the exception and goes on, so `got` counts calls of the handler |
| `build()` without `withAutomaticReconnect` | `Closed` is final |
| `MonitorHub.SendLog` | `SendLog`, one `Write` per connection, `SendEnds`. The calls of one client are done one after the other (SignalR's default), those of different clients at the same time |
| `Clients.All` | `Join` after the handshake; a call writes to the connections of its beginning (`due`), and to one that joins meanwhile or not, as the enumeration comes by it |
| the network, the server process | `Accept`, `Cut`, `Lose`, `StopServer`: after a cut what is on its way arrives in part |

### Abstractions

* The operations of `ConcurrentDictionary` on one key take a lock inside; here each is one atomic step. So is `Clear`, and so are `Keys` and `Count`, which take all the locks.
* The wall clock `now` only goes forward, in ticks. `Renew` reads it and writes the
  deadline in one step.
* The enumeration of the dictionary visits every key once and reads it when it gets there. A growth of the tables
  during an enumeration is left out: the enumerator goes on in the tables it began with.
* Entry objects are not reused and not collected. `MaxEntries` bounds how many each
  thread makes (`CacheCollector`: how many are stored under each key in one life of the process).
* Strings are model values in `ReCacheProvider`. In `BackupFormat` they are what they are as JSON:
  an integer of 64 bits as it is printed, one written in another way (`-0`, which is read and comes back as `0`), another number (which the reader cannot take), a literal, an object or array, a JSON string that holds one of these, or no JSON at all.
* In `CacheCollector` one client at a time changes a set: what two of them do to each other is in `ReCacheProvider`, and `lost_add` shows what becomes of acknowledged members. `ReCacheEntryConverter.Write` reads `Value` up to four times; the reads are one step.
  `CleanExpired` is one step there; the steps of a sweep are in `ReCacheProvider`.
* `OpenWrite` does not truncate. A shorter document leaves the rest of the older one behind it,
  which `GZipStream` does not read. So the file is the document last written.
* The count that `CleanExpired` returns is only logged, and left out.
* In `ReCacheConnection` a login is one step: what happens to the server while it is under way could as well happen right after it.
  A route has one segment at most. Such a route plays no role: the login is sent to a path relative to the address, which replaces that segment, and the client's channel ignores it. (A route of several segments
  would send the login to a path below the first ones, where no server of this repository listens; it is left out.) Tokens do not expire.
* In `MonitorHub` a connection takes any number of messages that are not received yet: the back-pressure of the transport is left out, because a page that
  does not read any more is, for the server, a connection that will be cut. A message is its sender and its number.
* Authorization of the calls in `ReCacheProvider`, logging and the wording of the answers are left out.

### Mutants

A definition whose comment begins with "Mutant of" is a plausible bug of the
definition it names. No specification uses it; `PROJECT.json` pairs it with the property that has to fail when it
takes the definition's place, so that every property is known to depend on the code.

## 3. Runs

Every run is small, and each is cut to the question it asks: with two or three threads on the same key
every pair of accesses the code makes can meet in every order, which is where the hazards are. More
threads would repeat these pairs.

Passing runs:

| Run | Instance | Shows |
|---|---|---|
| `string_store` | 2 threads that serve all the operations, the removals and stores of strings on both, 1 string key and a hash-set key of the same name, 1 value, absolute and sliding expirations of 1 tick, 1 entry per thread, 1 tick, torn reads, all the lists | `TypeOK`; `CastsSucceed`: strings and sets of one name never mix; `DeletedOnce`: a deleted value has one deleter; `EvictsOnlySelected`: a sweep never takes what its condition could not select; `StoreSpec`: strings behave like an atomic map |
| `history` | 2 threads that store strings and sets, one also deletes, the other reads and sweeps; a string and a hash-set key of one name, both expirations, 1 entry per thread, 1 tick | `NeverServesExpired`: no value whose absolute deadline was past when the call began; `SweepLeavesNone`: a finished sweep left nothing of what it had to take; `CallsCountDown`: each step of a call brings its end nearer (`StepsLeft`), and no step of another thread moves it; the one exception is the loop of `AddOrUpdate`, which starts again only when another thread has really changed its key since it looked |
| `one_writer` | 1 thread that adds and removes members, 1 that takes whole sets away with `RemoveHashSet`, `Clear` and `ClearAll`, 1 that reads and takes away; one hash-set key, no expirations, 2 values (symmetric), 2 sets | with one writer of members `AcknowledgedStay` (no member is lost), `WithdrawnStay` (no removed member comes back, with a set the writer still holds or that is new when `Clear` gets there), `ReadsWhole` and `ReadsNoneWithdrawn` (a serialization that succeeds has all the members that stayed, and none that stayed away, although its set may have left the dictionary) |
| `restart` | 1 worker that cleans and backs up, an integer and a set of strings, entries without expiration or expired already, members added to and removed from stored sets, 1 tick, stops anywhere | `StoredIsRecovered`: every entry and every member of a set that stayed from the begin of a complete backup to the stop is there after the restart, unless the process stopped in the middle of a write; `BackupsAreSnapshots`: a complete backup has all that stayed in the cache, entries and members, nothing that was not there while it worked, and no key twice |
| `overlap` | 2 workers over one hash set without expiration, members added and removed in place, stops anywhere, fairness | `CollectorTypeOK`: who is at work on a document, and only that one, has the file; `FlagsHaveOwners`: no flag stays set for nobody; `FlagsComeDown`: a flag that is up comes down, also when a backup throws and when two callbacks have passed the test together; `JobsCountDown`: each step of a job brings its end nearer, and nothing else touches what it has left; `BackupsAreSnapshots` with two backups at once |
| `connection` | 3 servers, one with the same account twice, 2 logins, 2 clients, 1 new secret each | `CallsUseSession`: every call goes to the server of the last accepted login, with its token; `PrintsTellSession`: what is printed tells whether there is a session; `ConnectionTypeOK`: a connection never keeps a client it has disposed |
| `monitor` | 2 pages, 2 senders, one of which calls twice, the server may stop at any time, fairness | `MonitorTypeOK`: a call never waits for a connection that is gone; `GotInOrder`: no message twice, and each one after those whose call had returned when its own began; `GotWithoutGaps`: between two messages a page gets all that was sent between them; `Delivered`: a page that a call has to write to handles the message and the call returns, unless the page's connection ends |

The bounds are enough for the interesting cases: two threads that store give two
objects that replace each other under one key, so a pair that was read can be gone, replaced, or renewed; a tick lets every deadline pass between
any two steps; two logins and a third that is refused are all it takes to confuse sessions; two workers are two overlapping callbacks, of the same or of different timers, and one set is enough for them to meet, since what they share is the file, the flags and the objects;
what one backup does with two keys needs one worker. One member that is added, or removed, while a set is walked is what can break or outdate a document;
three messages, two of one sender, are what a gap takes, and the second page is the one whose cut could hold up the first one's message.
The process stops and starts without bound in `restart` and `overlap`.
What they do not cover is stated as such: these two have only values the format keeps, because
`restore_expiring` and `never_saved` show what happens with the others.

Runs that find a statement of the repository violated:

| Run | Property | What the code does |
|---|---|---|
| `evict_race` | `EvictsOnlyExpired` | `CleanExpired` ("Clean expired memory cache entries") can remove an entry that a read has just renewed and answered |
| `lost_add` | `AcknowledgedStay` | two `SetHashSet` for a new key: the second set replaces the first, an acknowledged value is gone |
| `unread_sliding` | `UnreadSlidingExpires` | an entry with a sliding expiration that is never read has no deadline and stays for ever |
| `restore_expiring` | `StoredIsRecovered` | the reader cannot read an entry with an expiration; one such entry makes the start begin with an empty cache |
| `never_saved` | `EventuallySaved` | a string that is not JSON makes every backup fail: nothing is saved while it is in the cache |

The connection has a behaviour that no document of the repository contradicts, and that a reader should know: `connect` to a second
server that refuses prints "Connected!" while the calls go on to the first (`ConnectRefused`). `PrintsTellSession` is worded accordingly. And `disconnect`
never prints "Connection closed!", because `Close` answers with the flag it has just reset.

`SetHashSet` has one, too: it ignores its expirations when the set exists already (`EndAdd` leaves them alone), so the members expire with the first call, or never.

`CleanJob` has a third: the cleaning is due each 60 seconds, the backup each 30, both for the first time at once, so each cleaning is due together with a backup. If the backup has its flag up first each time, no cleaning is ever done.
No document says when expired entries are cleaned, and a read does not serve them (`NeverServesExpired`), so there is no property about it; what holds is that a flag that is up comes down (`FlagsComeDown`).

`lost_add` is about clients that stop when they have used up their entries, so that run does not look for deadlocks.

### Fairness

`CacheCollector` has weak fairness of `Job(w)`: the thread pool runs a callback it has started, and no step of it waits for another thread (`FairHSpec` for `FlagsComeDown`). `BackedUpSpec`, used by the violation `never_saved` only, adds
strong fairness of `BackupBegin(w)`: the backup timer keeps firing and finds the flags down on some firings. Nothing is assumed about cleanings.
The provider has no fairness at all. `CallsCountDown` is the part of termination that needs none: with a pool that runs what it has started, a call returns once the others leave the key of its `AddOrUpdate` alone, and every other call returns whatever they do.
In `MonitorHub`, `FairSpec` assumes weak fairness of the events of a page, which a browser runs in turn, and of the
steps of a call of the hub, which the pool runs; nobody is assumed to load a page, to connect, to send or to cut.
`EventuallySaved` fails even under the strongest of these.
Clients are never assumed to call.

## 4. Proofs

`tlapm` checks eight modules with nothing assumed but the assumptions on the constants:
`TimesAssumption` (deadlines and spans are naturals, null is none), `ProviderAssumption` (bounds are naturals, null is no value and no object),
`ObjectsAssumption` (a request or pair is not null, a string is not a set of strings), `ItemsAssumption` (a string of the map is not null), `ConnectionAssumption` (accounts have logins, bounds are naturals, null is none of the values),
`CollectorAssumption` (the keys are finitely many and of one of the two types, clients store strings and sets of strings and add strings to them, null is no thread, no object and no value),
`MonitorAssumption` (the bounds are naturals). All but the bounds and the finitely many keys say that values of different C# types differ, and TLC evaluates them in the runs.
Some theorems have a hypothesis more, stated with them: `KeptPuts` (`RecoveryCorrect`), `OneWriter` (those of `HashSetProofs`), and finitely many keys (`CallsAreBounded`).
The theorems about the provider hold for any number of threads, keys, values, entries and ticks, any assignment of operations to threads, and with or without torn reads.

`ReCacheProviderProofs`:

* **Types** (`TypeCorrect`, `CastsCorrect`). `TypeOK` alone is not inductive: what a thread at "walk" holds must be a set, which needs
  `CastsSucceed`, which in turn needs that a new object is new - `EntriesBorn`: every object in
  the dictionary or in hand was made before. `TypeInv` is the three together. Each action has its lemma; those that
  return share `AnswerTypes`, those that go on share `GoTypes`.
* **One deleter** (`DeletedForGood`). `DeletedOnce` needs that an object is at one key at most
  (`DictInjective`): otherwise the deleter could take it from one key and leave it at another. `DeleteInv` is both.
* **Sweeps** (`SweepsEvictSelected`). A sweep acts on a pair it read earlier, so the invariant says of
  every thread at "evict" that its condition still could select the pair (`Selected`), and that a sliding deadline is only on an entry with a sliding span
  (`SlidingSet`). It holds on because time only goes forward and no step changes the expirations of
  an object once it is stored (`ExpirationFixed`, `TimeGoesOn`).

`ProviderRefinementProofs`:

* **The refinement** (`ProviderRefines`: `Spec => StoreSpec`). Every step is a step of the atomic map or a stutter, under `TypeInv` and `EvictInv`; each action has a lemma that
  names the step of `CacheStore` it is (`SetPuts`, `HitFinds`, `EvictWipes`, `CheckDelivers`, ...) or says that it is unseen (`SweepsUnseen`, `WalksUnseen`, `TickUnseen`).
  Two facts carry it: an object's item never changes (`ItemStays`), and a step on a hash set cannot touch an object with a string, because casts succeed (`StringEntries`).

`CallHistoryProofs`:

* **Answers** (`ServesNoneExpired`). When a call began is never later than now (`BeganOK`), and no deadline of a born object moves (`DeadlineFixed`), so the test that the getter made stays good for the whole answer.
* **Sweeps are complete** (`SweepsLeaveNone`). `SweepOK`: of the pairs of the beginning (`BeforeOK`) that are still there, a sweep has let pass only those it did not have to take; the keys in `todo` and the pair in hand are the ones open.
* **Calls come to their end** (`CallsAreBounded`). `StepsLeft` goes down with every step of its call and no step of another thread moves it. The lemmas go by label; in a sweep a key that was visited is out of `todo` from then on, so what others add or
  change under the enumeration cannot make it longer. The exception is `Overtaken`: `LostOK` says that a thread between look-up and exchange whose key is not what it found is one of `lost`, so the loop never starts again without another thread's change. So a call
  to `Set` can be kept looping by others that go on changing its key, and by nothing else. The keys of a program are not bounded in number; those of one enumeration are finitely many, and that is the hypothesis.

`HashSetProofs`:

* **Members** (`NoAddIsLost`, `ReadersMissNone`), for `OneWriter`: nothing expires, and one thread serves all the `SetHashSet` and `DelHashSet`; any number of others read, use strings, and take whole sets out with `RemoveHashSet`, `Clear` and `ClearAll` at any moment, also while the writer has such a set in hand.
  `lost_add` shows that two writers are too many. `HashSetInv`: what the writer holds is what the dictionary has under its key, or the key has nothing any more and nobody relies on what it adds; it is as the writer saw it;
  nobody relies on what a call in progress is to take away; a reader holds the object of the dictionary as long as it relies on a member at all, and the walk has seen it.
* **Removals** (`RemovalsLast`, `ReadersSeeNoneRemoved`), under the same hypothesis. With the two theorems above, what a key has is between what its clients rely on and what they are not rid of:
  `acked[k] \subseteq heap[dict[k]].value` and `heap[dict[k]].value \cap gone[k] = {}`. `WithdrawnStay` alone is not inductive: a member could come back
  from a call that is about to store it (`AskedOK`: what a call is to add is not in `gone`), or be left behind by a `Clear` (`ClearOK`: every set of its name space that is still there is at a key it has yet to visit, or is the pair in its hand; it needs `PairsMatch`, that an
  entry somebody got under one key is not found under another later). A reader is harder: it may serialize a set
  that has left the dictionary, so `LackingOK` says of the object in its hand, not of its key, that it has nothing of `lacking`. `GoneInv` is all of them; TLC checked it on the instance of `one_writer`.

`CollectorProofs`, about `BackupFormat` and `CacheCollector`:

* **Format.** `RoundTrip`: integers and sets of strings without expiration are read as they
  were written. `ExpirationUnreadable`: no entry with an expiration can be read, whatever its value. `UnquotedThrows`: a
  JSON string that holds no JSON is saved once and restored without its quotes, and then stops every later backup. `ReadAsWritten` closes the list: of all
  entries that can be written, with any value and any expiration, exactly those of `RoundTrip` come back as they were: no other number does, `-0` included.
* **Collector** (`TypeCorrect`, `FlagsCorrect`). `CollectorInv` says of every worker what its label means: who has the file open, whose flags are up,
  that what it copied are objects that were made.
* **Jobs end** (`JobsAreBounded`). As for the calls: each step of a job lowers `StepsLeft`, and no other step but the end of the process touches what the job has left. It needs that what
  a job has copied is finite, and that it begins with empty hands (`ArraysOK`): then the array never has more pairs than there are keys, however the cache changes under the enumeration. With `FlagsCorrect` this is why a flag comes down again once its job gets its turns.

`RecoveryProofs`:

* **Snapshots** (`BackupsCorrect`), for any clients, which change the sets that a backup writes as they like. The objects a worker copied are not the values it writes, so `BackupInv` is about facts, an entry or a member under a key. `Saves`: what was so since the worker began (`watched`), or is already safe, has its key still to visit, its pair
  copied, or an item in the document that says it (`Says`). `Copies`: every pair copied and every item written is about an entry, and members, that were there while the worker was at work (`passed`), one for each key, because it visits each key once. `Walks` is the part about the set in hand: what the walk has seen has passed,
  and a walk that ends was not broken, so nothing that stayed is missing. A change of members, or a renewed deadline, does not change what an item says of the rest (`Alike`). `ToImmutableArray` throws when the count does not fit, and a backup that throws does not complete. The document in the
  buffer is what the worker has written, and it is in the file when the worker closes it, since the file has one owner.
* **Restarts** (`RecoveryCorrect`: `KeptPuts` and `HSpec` imply `StoredIsRecovered`), on top of `BackupInv`. `KeptPuts` is what `restore_expiring` and `never_saved` make necessary: clients store values the format keeps, or entries that have expired when they arrive; what they add to sets and remove from them is free. `RecoveryInv` follows
  a promise through the worker's hands (`Saves`), to the file (`SafeIsSaved`), past the stop of the process (`PromisedIsSaved`) and through the reader (`RoundTrip`, `KeptRead`).
  Nothing else is in the file that could make it unreadable: a set in place stays one that the format keeps (`KeptChanges`), and the one a worker is walking has not expired (`KeptWalks`), so `KeptDocuments`.

`ConnectionProofs`:

* **Connection** (`TypeCorrect`, `CallsCorrect`, `PrintsCorrect`). The invariant `SessionInv` adds that the session of the user is the one
  of the client in the connection (`SessionHeld`), and that this client was made by the server its calls go to.

`MonitorProofs`:

* **Monitor** (`TypeCorrect`, `OrderCorrect`, `NoGaps`), for any pages, senders and numbers of calls. What a page got and what is on its way to it are one stream, and `OrderInv` says of this stream what the properties say of `got`,
  with what each call under way still has to write; `got` is a prefix of the stream (`GotIsPrefix`), and a loss takes from its end (`ShorterStream`).

Only model-checked: liveness (`FlagsComeDown`, `Delivered`), which is out of the prover's reach; `CallsAreBounded` and `JobsAreBounded` prove what there is of it without fairness. Every invariant and every action property of a passing run,
and the refinement, is a theorem; for `StoredIsRecovered`, `CallsCountDown` and the four properties of `one_writer` under the hypothesis named above, which the instance of the run meets. The five violations are TLC's.

## 5. Not modelled

* The server's start, its web pages without script, the demo and static files have no state of their own. The script and style sheets under `wwwroot/lib` are vendored.
* The back-pressure of connections in `MonitorHub`, the retries of a gRPC channel, and tokens that expire: they belong to libraries, and no code of the repository reacts to them.
* Sliding entries beside backups: a backup reads every value and so renews them. The document with such an entry cannot be read (`ExpirationUnreadable`),
  and what the span is to mean then is said nowhere, so no property is stated.
* Two clients that change one set at the same time while a backup writes it: each of the two halves is modelled, in `ReCacheProvider` and in `CacheCollector`, and not both at once.
* When a cleaning gets its turn, as said in section 3.
* `StoredIsRecovered` says nothing of a stop in the middle of a write of the file. There the code promises nothing: what was saved is gone.

`PROJECT.json` says for each hazard without a property why it has none.
