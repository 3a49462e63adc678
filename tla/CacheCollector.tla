--------------------------- MODULE CacheCollector ---------------------------
(***************************************************************************)
(* The background service of the server (class CacheCollectorService): it  *)
(* restores the cache when the process starts, and two timers clean it and *)
(* back it up to a file.  The timers' callbacks run on pool threads, keep  *)
(* out of each other's way with two plain flags, and can run twice at the  *)
(* same time.  Here the process can stop at any moment.  What the clients  *)
(* do to the dictionary and to the hash sets in it, and CleanExpired, are  *)
(* steps; ReCacheProvider has the detail.                                  *)
(***************************************************************************)
EXTENDS BackupFormat, FiniteSets

CONSTANTS
  Keys,         (* the keys: records with a KeyType                        *)
  Workers,      (* the pool threads that run the timers' callbacks         *)
  Puts,         (* the entries the clients store under each key            *)
  Values,       (* the strings they add to the sets they have stored       *)
  MaxEntries,   (* bound: entries stored under a key while the process runs *)
  MaxTime       (* bound: ticks of the wall clock                          *)

(* What an entry can hold: a string, or a set of strings.                  *)
Contents == Texts \cup Members(Texts)

(* The entry objects: number 0 of a key is the restored one.               *)
Refs == Keys \X (0 .. MaxEntries)

ASSUME CollectorAssumption ==
  /\ IsFiniteSet(Keys)
  /\ \A k \in Keys : k.KeyType \in {"Set", "HashSet"}
  /\ \A k \in Keys : Puts[k] \subseteq EntriesOf(Contents)
  /\ Values \subseteq Texts
  /\ MaxEntries \in Nat
  /\ MaxTime \in Nat
  /\ null \notin Workers \cup Refs \cup Contents

Unborn == NewEntry(null, null, null)

(* The entry is a hash set, of these members.                              *)
IsSet(entry) == entry.value # null /\ entry.value.form = "Members"

MembersOf(entry) == IF IsSet(entry) THEN entry.value.body ELSE {}

WithMembers(entry, members) ==
  [entry EXCEPT !.value = [form |-> "Members", body |-> members]]

(* The enumeration of a hash set: the entry it is in, what was in it when  *)
(* it began, and whether something was added since.                        *)
Walk(r, members) == [entry |-> r, seen |-> members, broken |-> FALSE]
NoWalk == Walk(null, {})

VARIABLES
  now,              (* DateTimeOffset.Now, in ticks                        *)
  up,               (* the process runs                                    *)
  cache,            (* the provider's dictionary                           *)
  heap,             (* the entry objects                                   *)
  made,             (* how many entries were stored under each key         *)
  _isCleaning,
  _runningBackup,
  pc,               (* what each worker does next                          *)
  opened,           (* the worker that has the backup file open, or null   *)
  size,             (* how many entries the worker counted                 *)
  rest,             (* keys the worker's enumeration has still to visit    *)
  array,            (* the pairs it copied, of which these are not written *)
  walk,             (* the hash set it enumerates, to write it             *)
  text,             (* the document the worker writes                      *)
  file              (* the backup file                                     *)

vars == << now, up, cache, heap, made, _isCleaning, _runningBackup,
           pc, opened, size, rest, array, walk, text, file >>

provider == <<now, cache, heap, made>>
flags    == <<_isCleaning, _runningBackup>>
buffers  == <<size, rest, array, walk, text>>

Stored == {k \in Keys : cache[k] # null}

Goto(w, label) == pc' = [pc EXCEPT ![w] = label]

(* The process before it starts: nothing of an earlier one is left.        *)
Down ==
  /\ up' = FALSE
  /\ cache' = [k \in Keys |-> null]
  /\ heap' = [r \in Refs |-> Unborn]
  /\ made' = [k \in Keys |-> 0]
  /\ _isCleaning' = FALSE
  /\ _runningBackup' = FALSE
  /\ pc' = [w \in Workers |-> "free"]
  /\ opened' = null
  /\ size' = [w \in Workers |-> 0]
  /\ rest' = [w \in Workers |-> {}]
  /\ array' = [w \in Workers |-> {}]
  /\ walk' = [w \in Workers |-> NoWalk]
  /\ text' = [w \in Workers |-> {}]

Init ==
  /\ now = 0
  /\ up = FALSE
  /\ cache = [k \in Keys |-> null]
  /\ heap = [r \in Refs |-> Unborn]
  /\ made = [k \in Keys |-> 0]
  /\ _isCleaning = FALSE
  /\ _runningBackup = FALSE
  /\ pc = [w \in Workers |-> "free"]
  /\ opened = null
  /\ size = [w \in Workers |-> 0]
  /\ rest = [w \in Workers |-> {}]
  /\ array = [w \in Workers |-> {}]
  /\ walk = [w \in Workers |-> NoWalk]
  /\ text = [w \in Workers |-> {}]
  /\ file = null

Document(entries, torn) == [entries |-> entries, torn |-> torn]

-----------------------------------------------------------------------------
(* The process starts, and stops, in order or not.                         *)

(* DeserializeFrom succeeds: the cache is what the document says.          *)
Restored ==
  LET entries == file.entries
      keys == {KeyRead(item) : item \in entries}
  IN  /\ DocumentReadable(entries)
      /\ cache' = [k \in Keys |-> IF k \in keys THEN <<k, 0>> ELSE null]
      /\ heap' = [r \in Refs |->
           IF r[2] = 0 /\ r[1] \in keys THEN ItemRead(entries, r[1]) ELSE Unborn]

(* It throws, which RestoreDictionary swallows.  A file that was not       *)
(* written to its end may be read all the same, or not.                    *)
RestoreFails ==
  /\ file.torn \/ ~DocumentReadable(file.entries)
  /\ UNCHANGED <<cache, heap>>

StartAsync ==
  /\ ~up
  /\ up' = TRUE
  /\ \/ file = null /\ UNCHANGED <<cache, heap>>
     \/ file # null /\ (Restored \/ RestoreFails)
  /\ UNCHANGED <<now, made, flags, pc, opened, buffers, file>>

Stop ==
  /\ up
  /\ Down
  /\ UNCHANGED <<now, file>>

-----------------------------------------------------------------------------
(* The clients, and time.                                                  *)

Tick ==
  /\ now < MaxTime
  /\ now' = now + 1
  /\ UNCHANGED <<up, cache, heap, made, flags, pc, opened, buffers, file>>

(* Set, and SetHashSet where it finds no set.                              *)
Put(k, entry) ==
  /\ up
  /\ made[k] < MaxEntries
  /\ made' = [made EXCEPT ![k] = @ + 1]
  /\ heap' = [heap EXCEPT ![<<k, made'[k]>>] = entry]
  /\ cache' = [cache EXCEPT ![k] = <<k, made'[k]>>]
  /\ UNCHANGED <<now, up, flags, pc, opened, buffers, file>>

(* Every read renews the sliding deadline.                                 *)
Get(k) ==
  /\ up
  /\ cache[k] # null
  /\ ~Expired(heap[cache[k]], now)
  /\ heap' = [heap EXCEPT ![cache[k]] = UpdateSliding(@, now)]
  /\ UNCHANGED <<now, up, cache, made, flags, pc, opened, buffers, file>>

(* SetHashSet and DelHashSet change the very set that they have found,     *)
(* which may have expired or left the cache meanwhile.  What is added to a *)
(* set breaks its enumerations, what is removed goes unnoticed there.      *)
AddMember(r, value) ==
  /\ up
  /\ IsSet(heap[r])
  /\ value \notin MembersOf(heap[r])
  /\ heap' = [heap EXCEPT ![r] = WithMembers(@, MembersOf(@) \cup {value})]
  /\ walk' = [w \in Workers |->
       IF walk[w].entry = r THEN [walk[w] EXCEPT !.broken = TRUE] ELSE walk[w]]
  /\ UNCHANGED <<now, up, cache, made, flags, pc, opened, size, rest, array, text, file>>

RemoveMember(r, value) ==
  /\ up
  /\ value \in MembersOf(heap[r])
  /\ heap' = [heap EXCEPT ![r] = WithMembers(@, MembersOf(@) \ {value})]
  /\ UNCHANGED <<now, up, cache, made, flags, pc, opened, buffers, file>>

Remove(k) ==
  /\ up
  /\ cache[k] # null
  /\ cache' = [cache EXCEPT ![k] = null]
  /\ UNCHANGED <<now, up, heap, made, flags, pc, opened, buffers, file>>

-----------------------------------------------------------------------------
(* CleanJob.                                                               *)

(* A timer has fired.  Both callbacks test the flags and set their own one *)
(* later, so that two threads can pass the test.                           *)
Begin(w, label) ==
  /\ up
  /\ pc[w] = "free"
  /\ ~_isCleaning
  /\ ~_runningBackup
  /\ Goto(w, label)
  /\ UNCHANGED <<up, provider, flags, opened, buffers, file>>

CleanBegin(w) == Begin(w, "clean")

CleanFlag(w) ==
  /\ pc[w] = "clean"
  /\ _isCleaning' = TRUE
  /\ Goto(w, "cleanExpired")
  /\ UNCHANGED <<up, provider, _runningBackup, opened, buffers, file>>

CleanExpired(w) ==
  /\ pc[w] = "cleanExpired"
  /\ cache' = [k \in Keys |->
       IF k \in Stored /\ Expired(heap[cache[k]], now) THEN null ELSE cache[k]]
  /\ Goto(w, "cleanEnd")
  /\ UNCHANGED <<now, up, heap, made, flags, opened, buffers, file>>

CleanEnd(w) ==
  /\ pc[w] = "cleanEnd"
  /\ _isCleaning' = FALSE
  /\ Goto(w, "free")
  /\ UNCHANGED <<up, provider, _runningBackup, opened, buffers, file>>

-----------------------------------------------------------------------------
(* BackupJob.                                                              *)

BackupBegin(w) == Begin(w, "backup")

BackupFlag(w) ==
  /\ pc[w] = "backup"
  /\ _runningBackup' = TRUE
  /\ Goto(w, "open")
  /\ UNCHANGED <<up, provider, _isCleaning, opened, buffers, file>>

(* Mutant of OpenWrite: the file is shared.                                *)
OpenShared(w) ==
  /\ pc[w] = "open"
  /\ opened' = w
  /\ file' = IF file = null THEN Document({}, TRUE) ELSE file
  /\ Goto(w, "count")
  /\ UNCHANGED <<up, provider, flags, buffers>>

(* OpenWrite shares the file with nobody.  It leaves what is in it, or     *)
(* creates an empty one.  What is left behind a shorter document is not    *)
(* read: GZipStream stops at the end of the document.                      *)
OpenWrite(w) ==
  /\ pc[w] = "open"
  /\ IF opened = null
     THEN /\ opened' = w
          /\ file' = IF file = null THEN Document({}, TRUE) ELSE file
          /\ Goto(w, "count")
     ELSE Goto(w, "end") /\ UNCHANGED <<opened, file>>
  /\ UNCHANGED <<up, provider, flags, buffers>>

(* ToImmutableArray: an array of as many elements as there are entries...  *)
Count(w) ==
  /\ pc[w] = "count"
  /\ size' = [size EXCEPT ![w] = Cardinality(Stored)]
  /\ rest' = [rest EXCEPT ![w] = Keys]
  /\ Goto(w, "enumerate")
  /\ UNCHANGED <<up, provider, flags, opened, array, walk, text, file>>

Visit(w, k) ==
  /\ pc[w] = "enumerate"
  /\ k \in rest[w]
  /\ rest' = [rest EXCEPT ![w] = @ \ {k}]
  /\ array' = [array EXCEPT ![w] =
       IF cache[k] = null THEN @ ELSE @ \cup {[key |-> k, entry |-> cache[k]]}]
  /\ UNCHANGED <<up, provider, flags, pc, opened, size, walk, text, file>>

(* Mutant of Enumerated: it tries again until the array fits.              *)
EnumeratedRetries(w) ==
  /\ pc[w] = "enumerate"
  /\ rest[w] = {}
  /\ Goto(w, IF Cardinality(array[w]) = size[w] THEN "write" ELSE "count")
  /\ UNCHANGED <<up, provider, flags, opened, buffers, file>>

(* ... has to be filled exactly, or it throws.                             *)
Enumerated(w) ==
  /\ pc[w] = "enumerate"
  /\ rest[w] = {}
  /\ Goto(w, IF Cardinality(array[w]) = size[w] THEN "write" ELSE "throw")
  /\ UNCHANGED <<up, provider, flags, opened, buffers, file>>

(* The entry's value is read, which renews its sliding deadline.  The      *)
(* string is written as it is...                                           *)
WriteEntry(w, pair) ==
  /\ pc[w] = "write"
  /\ pair \in array[w]
  /\ ~Throws(heap[pair.entry], now)
  /\ ~IsSet(heap[pair.entry])
  /\ heap' = [heap EXCEPT ![pair.entry] = UpdateSliding(@, now)]
  /\ array' = [array EXCEPT ![w] = @ \ {pair}]
  /\ text' = [text EXCEPT ![w] = @ \cup {Item(pair.key, heap[pair.entry])}]
  /\ UNCHANGED <<now, up, cache, made, flags, pc, opened, size, rest, walk, file>>

(* ... and the hash set is enumerated, the very one that clients change.   *)
WalkBegin(w, pair) ==
  /\ pc[w] = "write"
  /\ pair \in array[w]
  /\ ~Throws(heap[pair.entry], now)
  /\ IsSet(heap[pair.entry])
  /\ heap' = [heap EXCEPT ![pair.entry] = UpdateSliding(@, now)]
  /\ walk' = [walk EXCEPT ![w] = Walk(pair.entry, MembersOf(heap[pair.entry]))]
  /\ Goto(w, "walk")
  /\ UNCHANGED <<now, up, cache, made, flags, opened, size, rest, array, text, file>>

(* What was removed meanwhile is written or not.                           *)
WalkEnd(w, pair, members) ==
  /\ pc[w] = "walk"
  /\ pair \in array[w]
  /\ pair.entry = walk[w].entry
  /\ ~walk[w].broken
  /\ MembersOf(heap[pair.entry]) \subseteq members
  /\ array' = [array EXCEPT ![w] = @ \ {pair}]
  /\ walk' = [walk EXCEPT ![w] = NoWalk]
  /\ text' = [text EXCEPT ![w] = @ \cup {Item(pair.key, WithMembers(heap[pair.entry], members))}]
  /\ Goto(w, "write")
  /\ UNCHANGED <<up, provider, flags, opened, size, rest, file>>

(* Mutant of WalkThrows: the set is written as far as it was read.         *)
WalkGivesUp(w) ==
  /\ pc[w] = "walk"
  /\ walk[w].broken
  /\ \E pair \in array[w] :
       /\ pair.entry = walk[w].entry
       /\ array' = [array EXCEPT ![w] = @ \ {pair}]
       /\ text' = [text EXCEPT ![w] = @ \cup {Item(pair.key, WithMembers(heap[pair.entry], {}))}]
  /\ walk' = [walk EXCEPT ![w] = NoWalk]
  /\ Goto(w, "write")
  /\ UNCHANGED <<up, provider, flags, opened, size, rest, file>>

WalkThrows(w) ==
  /\ pc[w] = "walk"
  /\ walk[w].broken
  /\ walk' = [walk EXCEPT ![w] = NoWalk]
  /\ Goto(w, "throw")
  /\ UNCHANGED <<up, provider, flags, opened, size, rest, array, text, file>>

WriteThrows(w, pair) ==
  /\ pc[w] = "write"
  /\ pair \in array[w]
  /\ Throws(heap[pair.entry], now)
  /\ Goto(w, "throw")
  /\ UNCHANGED <<up, provider, flags, opened, buffers, file>>

(* The document goes to the file when it is complete, first its body.      *)
Flush(w) ==
  /\ pc[w] = "write"
  /\ array[w] = {}
  /\ file' = Document(text[w], TRUE)
  /\ Goto(w, "close")
  /\ UNCHANGED <<up, provider, flags, opened, buffers>>

Close(w) ==
  /\ pc[w] = "close"
  /\ file' = Document(file.entries, FALSE)
  /\ opened' = null
  /\ Goto(w, "end")
  /\ UNCHANGED <<up, provider, flags, buffers>>

(* Mutants of CloseUnwritten: the file stays open; the job ends there; the *)
(* file gets what there is of the document.                                *)
LeaveOpen(w) ==
  /\ pc[w] = "throw"
  /\ Goto(w, "end")
  /\ UNCHANGED <<up, provider, flags, opened, buffers, file>>

EscapeJob(w) ==
  /\ pc[w] = "throw"
  /\ opened' = null
  /\ Goto(w, "free")
  /\ UNCHANGED <<up, provider, flags, buffers, file>>

ClosePartWritten(w) ==
  /\ pc[w] = "throw"
  /\ opened' = null
  /\ file' = Document(text[w], FALSE)
  /\ Goto(w, "end")
  /\ UNCHANGED <<up, provider, flags, buffers>>

(* The using declarations close the file; nothing was written to it.       *)
CloseUnwritten(w) ==
  /\ pc[w] = "throw"
  /\ opened' = null
  /\ Goto(w, "end")
  /\ UNCHANGED <<up, provider, flags, buffers, file>>

BackupEnd(w) ==
  /\ pc[w] = "end"
  /\ _runningBackup' = FALSE
  /\ Goto(w, "free")
  /\ size' = [size EXCEPT ![w] = 0]
  /\ rest' = [rest EXCEPT ![w] = {}]
  /\ array' = [array EXCEPT ![w] = {}]
  /\ text' = [text EXCEPT ![w] = {}]
  /\ UNCHANGED <<up, provider, _isCleaning, opened, walk, file>>

-----------------------------------------------------------------------------
Job(w) ==
  \/ CleanFlag(w)
  \/ CleanExpired(w)
  \/ CleanEnd(w)
  \/ BackupFlag(w)
  \/ OpenWrite(w)
  \/ Count(w)
  \/ \E k \in Keys : Visit(w, k)
  \/ Enumerated(w)
  \/ \E pair \in array[w] : WriteEntry(w, pair)
  \/ \E pair \in array[w] : WriteThrows(w, pair)
  \/ \E pair \in array[w] : WalkBegin(w, pair)
  \/ \E pair \in array[w], members \in SUBSET walk[w].seen : WalkEnd(w, pair, members)
  \/ WalkThrows(w)
  \/ Flush(w)
  \/ Close(w)
  \/ CloseUnwritten(w)
  \/ BackupEnd(w)

Client ==
  \/ \E k \in Keys : Get(k) \/ Remove(k) \/ \E entry \in Puts[k] : Put(k, entry)
  \/ \E r \in Refs, value \in Values : AddMember(r, value) \/ RemoveMember(r, value)

Next ==
  \/ StartAsync
  \/ Stop
  \/ Tick
  \/ Client
  \/ \E w \in Workers : CleanBegin(w) \/ BackupBegin(w) \/ Job(w)

Spec == Init /\ [][Next]_vars

(* The thread pool runs every callback to its end.                         *)
FairSpec == Spec /\ \A w \in Workers : WF_vars(Job(w))

(* The backup timer fires again and again.                                 *)
BackedUpSpec == FairSpec /\ \A w \in Workers : SF_vars(BackupBegin(w))

-----------------------------------------------------------------------------
(* Properties.                                                             *)

Labels ==
  { "free", "clean", "cleanExpired", "cleanEnd", "backup", "open", "count",
    "enumerate", "write", "walk", "throw", "close", "end" }

(* The type invariant, with who has the file: exactly the worker that is   *)
(* at work on a document.                                                  *)
CollectorTypeOK ==
  /\ now \in 0 .. MaxTime
  /\ up \in BOOLEAN
  /\ cache \in [Keys -> Refs \cup {null}]
  /\ heap \in [Refs -> EntriesOf(Contents \cup {null})]
  /\ made \in [Keys -> 0 .. MaxEntries]
  /\ _isCleaning \in BOOLEAN
  /\ _runningBackup \in BOOLEAN
  /\ pc \in [Workers -> Labels]
  /\ \A w \in Workers :
       opened = w <=> pc[w] \in {"count", "enumerate", "write", "walk", "throw", "close"}
  /\ size \in [Workers -> 0 .. Cardinality(Keys)]
  /\ rest \in [Workers -> SUBSET Keys]
  /\ array \in [Workers -> SUBSET [key : Keys, entry : Refs]]
  /\ walk \in [Workers -> [entry : Refs \cup {null}, seen : SUBSET Texts, broken : BOOLEAN]]
  /\ file # null => file.torn \in BOOLEAN

(* Both flags stop every later job while they are set.  Whatever a job     *)
(* throws, and however the jobs overlap, no flag is left set by nobody.    *)
FlagsHaveOwners ==
  /\ _isCleaning => \E w \in Workers : pc[w] \in {"cleanExpired", "cleanEnd"}
  /\ _runningBackup => \E w \in Workers :
       pc[w] \in {"open", "count", "enumerate", "write", "walk", "throw", "close", "end"}

(* How many steps a job has left, at most.                                 *)
StepsLeft(w) ==
  CASE pc[w] = "free"                          -> 0
    [] pc[w] \in {"cleanEnd", "end"}           -> 1
    [] pc[w] \in {"cleanExpired", "throw", "close"} -> 2
    [] pc[w] = "clean"                         -> 3
    [] pc[w] = "walk"      -> 2 * Cardinality(array[w]) + 2
    [] pc[w] = "write"     -> 2 * Cardinality(array[w]) + 3
    [] pc[w] = "enumerate" -> 3 * Cardinality(rest[w]) + 2 * Cardinality(array[w]) + 4
    [] pc[w] = "count"     -> 3 * Cardinality(Keys) + 5
    [] pc[w] = "open"      -> 3 * Cardinality(Keys) + 6
    [] OTHER               -> 3 * Cardinality(Keys) + 7

(* No job goes on for ever: each of its steps brings its end nearer, and   *)
(* nothing the clients do meanwhile and no job on another thread puts it   *)
(* off, although the enumeration, the array and the document all depend on *)
(* a cache that changes.  (A job that does not end keeps its flag set.)    *)
JobsCountDown ==
  [][\A w \in Workers : pc[w] # "free" =>
       \/ UNCHANGED <<pc[w], rest[w], array[w]>>
       \/ StepsLeft(w)' < StepsLeft(w)]_vars

(* While a flag is set, every timer that fires is turned away.  That comes *)
(* to an end, if the callbacks run on: also a backup that throws, and two  *)
(* callbacks that have passed the test together.                           *)
FlagsComeDown ==
  (_isCleaning \/ _runningBackup) ~> ~(_isCleaning \/ _runningBackup)

(* README.md: an automatic backup to recover stored data.  What stays in   *)
(* the cache while the timer keeps firing is backed up at some time.       *)
EventuallySaved ==
  \A k \in Keys :
    (up /\ cache[k] # null) ~>
      \/ ~up \/ cache[k] = null
      \/ file # null /\ \E item \in file.entries : KeyRead(item) = k

=============================================================================
