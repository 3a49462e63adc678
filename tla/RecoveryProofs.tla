--------------------------- MODULE RecoveryProofs ---------------------------
(***************************************************************************)
(* What CollectorHistory promises, for any keys and workers: a backup is a *)
(* snapshot of the cache, although the clients change the hash sets while  *)
(* they are written, and a cache of values that the format keeps is        *)
(* recovered after the process stopped.                                    *)
(***************************************************************************)
EXTENDS CollectorHistory, CollectorProofs

-----------------------------------------------------------------------------
(* The inductive invariant of the backups, whatever the clients store.     *)

Pair(f) == [key |-> f.key, entry |-> f.entry]

PairsOf(c) == {[key |-> k, entry |-> c[k]] : k \in {k \in Keys : c[k] # null}}

(* While the process does not run, there is no cache and nobody at work.   *)
DownIsQuiet == ~up => PairsOf(cache) = {} /\ \A w \in Workers : pc[w] = "free"

(* A worker begins with empty hands.                                       *)
EmptyHanded ==
  \A w \in Workers :
    pc[w] \in {"free", "clean", "cleanExpired", "cleanEnd", "backup", "open", "count"}
      => array[w] = {} /\ text[w] = {}

(* What is in the cache, in the copy of a worker or in a fact is an object *)
(* that was made.                                                          *)
Born(x) == x.key \in Keys /\ x.entry \in {x.key} \X (0 .. made[x.key])

ObjectsBorn ==
  /\ \A pair \in PairsOf(cache) : Born(pair)
  /\ \A w \in Workers : \A x \in array[w] \cup passed[w] : Born(x)

HistoryOK ==
  /\ \A w \in Workers : watched[w] \subseteq FactsOf(cache, heap)
  /\ \A w \in Workers : pc[w] \notin {"enumerate", "write", "walk", "close"} => passed[w] = {}
  /\ \A w \in Workers : pc[w] = "enumerate" => FactsOf(cache, heap) \subseteq passed[w]
  /\ \A w \in Workers : pc[w] \in {"write", "walk"} =>
       Inside(passed[w], heap) \subseteq passed[w]
  /\ safe \subseteq FactsOf(cache, heap)
  /\ up => promised = {}

(* The items have one for the key, and each of them says so.               *)
Tells(items, k, entry, part) ==
  /\ \E item \in items : Says(item, k, entry, part)
  /\ \A item \in items : KeyRead(item) = k => Says(item, k, entry, part)

(* A worker at a backup.                                                   *)
AtWork(w) == pc[w] \in {"count", "enumerate", "write", "walk", "close"}

(* It is on the way to save the fact.                                      *)
Saves(w, f) ==
  /\ \A q \in array[w] : q.key = f.key => q = Pair(f)
  /\ \A item \in text[w] : KeyRead(item) = f.key => Says(item, f.key, heap[f.entry], f.part)
  /\ pc[w] = "enumerate" => f.key \in rest[w] \/ Pair(f) \in array[w]
  /\ pc[w] \in {"write", "walk"} =>
       \/ Pair(f) \in array[w]
       \/ \E item \in text[w] : Says(item, f.key, heap[f.entry], f.part)
  /\ pc[w] = "close" => Tells(file.entries, f.key, heap[f.entry], f.part)

(* It saves what it has found in the cache when it began, and what is safe *)
(* already.                                                                *)
BackupSaves ==
  \A w \in Workers : AtWork(w) => \A f \in watched[w] \cup safe : Saves(w, f)

(* The item is about an entry that has passed, and members that have.      *)
Passed(facts, item) ==
  \E f \in facts :
    /\ Says(item, f.key, heap[f.entry], f.part)
    /\ \A m \in MembersIn(item) : Fact(f.key, f.entry, {m}) \in facts

FromPassed(w, items) == \A item \in items : Passed(passed[w], item)

OneEach(items) == \A i, j \in items : KeyRead(i) = KeyRead(j) => i = j

(* The set it enumerates is one that it copied, and what it has seen there *)
(* has passed.                                                             *)
Walks(w) ==
  \A pair \in array[w] : pair.entry = walk[w].entry =>
    /\ IsSet(heap[pair.entry])
    /\ \A m \in walk[w].seen : Fact(pair.key, pair.entry, {m}) \in passed[w]

(* It saves nothing else, and nothing twice.                               *)
Copies(w) ==
  /\ \A pair \in array[w] : Fact(pair.key, pair.entry, {}) \in passed[w]
  /\ FromPassed(w, text[w]) /\ OneEach(text[w])
  /\ \A pair \in array[w] :
       /\ \A q \in array[w] : q.key = pair.key => q = pair
       /\ \A item \in text[w] : KeyRead(item) # pair.key
       /\ pc[w] = "enumerate" => pair.key \notin rest[w]
  /\ pc[w] = "enumerate" => text[w] = {}
  /\ pc[w] = "walk" => Walks(w)
  /\ pc[w] = "close" => FromPassed(w, file.entries) /\ OneEach(file.entries)

BackupCopies == \A w \in Workers : AtWork(w) => Copies(w)

(* A file that was written to its end has it.                              *)
Readily(k, entry, part) == file # null /\ ~file.torn => Tells(file.entries, k, entry, part)

SafeIsSaved == \A f \in safe : Readily(f.key, heap[f.entry], f.part)

PromisedIsSaved == \A p \in promised : p.key \in Keys /\ Readily(p.key, p.entry, p.part)

Tracked ==
  /\ DownIsQuiet /\ EmptyHanded /\ ObjectsBorn /\ HistoryOK
  /\ BackupSaves /\ BackupCopies /\ SafeIsSaved /\ PromisedIsSaved

BackupInv == CollectorInv /\ Tracked

-----------------------------------------------------------------------------
(* Facts.                                                                  *)

LEMMA PairFields ==
  ASSUME NEW c, NEW pair \in PairsOf(c)
  PROVE  /\ pair.key \in Keys /\ pair.entry = c[pair.key] /\ pair.entry # null
         /\ pair = [key |-> pair.key, entry |-> pair.entry]
BY DEF PairsOf

LEMMA FactFields ==
  ASSUME NEW c, NEW h, NEW f \in FactsOf(c, h)
  PROVE  /\ f.key \in Keys /\ c[f.key] # null /\ f.entry = c[f.key]
         /\ f.part \in PartsOf(h[f.entry]) /\ f.part \subseteq MembersOf(h[f.entry])
         /\ Pair(f) \in PairsOf(c)
<1>1. PICK k \in {k \in Keys : c[k] # null} :
        f \in {Fact(k, c[k], part) : part \in PartsOf(h[c[k]])}
  BY DEF FactsOf
<1>2. PICK part \in PartsOf(h[c[k]]) : f = Fact(k, c[k], part)
  BY <1>1
<1>3. f.key = k /\ f.entry = c[k] /\ f.part = part
  BY <1>2 DEF Fact
<1>4. f.part \subseteq MembersOf(h[f.entry])
  BY <1>2, <1>3 DEF PartsOf
<1> QED
  BY <1>2, <1>3, <1>4 DEF Pair, PairsOf

LEMMA FactMade ==
  ASSUME NEW c, NEW h, NEW k \in Keys, c[k] # null, NEW part \in PartsOf(h[c[k]])
  PROVE  Fact(k, c[k], part) \in FactsOf(c, h)
BY DEF FactsOf

LEMMA InsideFields ==
  ASSUME NEW facts, NEW h, NEW g \in Inside(facts, h)
  PROVE  \E f \in facts : g.key = f.key /\ g.entry = f.entry /\ g.part \in PartsOf(h[f.entry])
<1>1. PICK f \in facts : g \in {Fact(f.key, f.entry, part) : part \in PartsOf(h[f.entry])}
  BY DEF Inside
<1>2. PICK part \in PartsOf(h[f.entry]) : g = Fact(f.key, f.entry, part)
  BY <1>1
<1> QED
  BY <1>2 DEF Fact

LEMMA InsideMade ==
  ASSUME NEW facts, NEW h, NEW f \in facts, NEW part \in PartsOf(h[f.entry])
  PROVE  Fact(f.key, f.entry, part) \in Inside(facts, h)
BY DEF Inside

(* Nothing is found inside what was found inside.                          *)
LEMMA InsideTwice ==
  ASSUME NEW facts, NEW h
  PROVE  Inside(facts \cup Inside(facts, h), h) \subseteq facts \cup Inside(facts, h)
<1> SUFFICES ASSUME NEW g \in Inside(facts \cup Inside(facts, h), h)
             PROVE  g \in Inside(facts, h)
  OBVIOUS
<1>1. PICK f \in facts \cup Inside(facts, h) :
        g \in {Fact(f.key, f.entry, part) : part \in PartsOf(h[f.entry])}
  BY DEF Inside
<1>2. PICK e \in facts : f.key = e.key /\ f.entry = e.entry
  BY InsideFields
<1> QED
  BY <1>1, <1>2 DEF Inside

LEMMA BornIsTyped ==
  ASSUME BackupInv, NEW x, Born(x)
  PROVE  x.key \in Keys /\ x.entry \in Refs
<1>1. made[x.key] \in 0 .. MaxEntries
  BY DEF Born, BackupInv, CollectorInv, ProviderOK
<1> QED
  BY <1>1, CollectorAssumption DEF Born, Refs

(* What is a fact of the cache is about an object that was made.           *)
LEMMA FactIsBorn ==
  ASSUME BackupInv, NEW f \in FactsOf(cache, heap)
  PROVE  Born(f)
<1>1. Pair(f) \in PairsOf(cache)
  BY FactFields
<1> QED
  BY <1>1 DEF BackupInv, Tracked, ObjectsBorn, Born, Pair

-----------------------------------------------------------------------------
(* Items.                                                                  *)

LEMMA ItemKey ==
  ASSUME NEW k, NEW entry, NEW members
  PROVE  KeyRead(ItemOf(k, entry, members)) = k
BY DEF ItemOf, Item, KeyRead

LEMMA SaysKey ==
  ASSUME NEW item, NEW k, NEW entry, NEW part, Says(item, k, entry, part)
  PROVE  KeyRead(item) = k
BY ItemKey DEF Says

(* The members that are written are the ones that are read.                *)
LEMMA MembersWritten ==
  ASSUME NEW k, NEW entry
  PROVE  MembersIn(Item(k, entry)) = IF entry.value.form = "Members" THEN entry.value.body ELSE {}
<1> DEFINE v == entry.value
<1>1. EntryJson(Item(k, entry))[3] = ValueTokens(v)[1]
  <2>1. \/ ValueTokens(v) = <<Token("Number", v)>>
        \/ ValueTokens(v) = <<Token("Literal", v)>>
        \/ ValueTokens(v) = <<Token("String", v.body)>>
        \/ ValueTokens(v) = <<Token("Array", v)>>
        \/ ValueTokens(v) = <<Token("StartObject", null), EndObject>>
    BY DEF ValueTokens
  <2>2. EntryJson(Item(k, entry)) = Json(entry)
    BY DEF Item, EntryJson
  <2>3. ASSUME NEW t, ValueTokens(v) = <<t>>
        PROVE  Json(entry)[3] = t
    BY <2>3, JsonStart
  <2>4. CASE ValueTokens(v) = <<Token("StartObject", null), EndObject>>
    BY <2>2, <2>4 DEF Json, Optional
  <2> QED
    BY <2>1, <2>2, <2>3, <2>4
<1>2. CASE v.form = "Members"
  BY <1>1, <1>2 DEF ValueTokens, MembersIn, Token
<1>3. CASE v.form # "Members"
  <2>1. ValueTokens(v)[1].type # "Array"
    BY <1>3 DEF ValueTokens, Token
  <2> QED
    BY <1>1, <1>3, <2>1 DEF MembersIn
<1> QED
  BY <1>2, <1>3

(* So an item says what it was made of.                                    *)
LEMMA ItemSays ==
  ASSUME NEW k, NEW entry, NEW members, entry.value # null,
         NEW part, part \subseteq MembersOf(entry), MembersOf(entry) \subseteq members
  PROVE  /\ Says(ItemOf(k, entry, members), k, entry, part)
         /\ MembersIn(ItemOf(k, entry, members)) = IF IsSet(entry) THEN members ELSE {}
<1>1. CASE IsSet(entry)
  <2>1. WithMembers(entry, members).value.form = "Members"
        /\ WithMembers(entry, members).value.body = members
    BY <1>1 DEF WithMembers, IsSet
  <2>2. MembersIn(ItemOf(k, entry, members)) = members
    BY <1>1, <2>1, MembersWritten DEF ItemOf
  <2> QED
    BY <1>1, <2>2 DEF Says, ItemOf
<1>2. CASE ~IsSet(entry)
  <2>1. MembersIn(ItemOf(k, entry, members)) = {} /\ part = {}
    BY <1>2, MembersWritten DEF ItemOf, IsSet, MembersOf
  <2> QED
    BY <1>2, <2>1 DEF Says, ItemOf
<1> QED
  BY <1>1, <1>2

(* The entries are written the same, with the same members if they are     *)
(* sets.                                                                   *)
Alike(a, b) ==
  /\ IsSet(a) <=> IsSet(b)
  /\ \A k, members : ItemOf(k, a, members) = ItemOf(k, b, members)

LEMMA SaysAlike ==
  ASSUME NEW a, NEW b, Alike(a, b), NEW item, NEW k, NEW part
  PROVE  Says(item, k, a, part) <=> Says(item, k, b, part)
BY DEF Alike, Says

LEMMA TellsAlike ==
  ASSUME NEW a, NEW b, Alike(a, b), NEW items, NEW k, NEW part, Tells(items, k, a, part)
  PROVE  Tells(items, k, b, part)
BY SaysAlike DEF Tells

LEMMA SameIsAlike ==
  ASSUME NEW a
  PROVE  Alike(a, a)
BY DEF Alike

(* A read renews the sliding deadline, which the backup does not write.    *)
LEMMA RenewedIsAlike ==
  ASSUME NEW C, NEW entry \in EntriesOf(C), now \in Nat
  PROVE  /\ Alike(entry, UpdateSliding(entry, now))
         /\ MembersOf(UpdateSliding(entry, now)) = MembersOf(entry)
<1> DEFINE read == UpdateSliding(entry, now)
<1>1. /\ read \in EntriesOf(C) /\ read.value = entry.value
      /\ read.absolute = entry.absolute /\ read.sliding = entry.sliding
  BY RenewedType
<1> HIDE DEF read
<1>2. IsSet(read) = IsSet(entry) /\ MembersOf(read) = MembersOf(entry)
  BY <1>1 DEF IsSet, MembersOf
<1>3. ASSUME NEW members
      PROVE  /\ WithMembers(read, members).value = WithMembers(entry, members).value
             /\ WithMembers(read, members).absolute = WithMembers(entry, members).absolute
             /\ WithMembers(read, members).sliding = WithMembers(entry, members).sliding
  BY <1>1 DEF WithMembers, EntriesOf
<1>4. ASSUME NEW k, NEW members
      PROVE  ItemOf(k, entry, members) = ItemOf(k, read, members)
  <2>1. Json(WithMembers(read, members)) = Json(WithMembers(entry, members))
    BY <1>3 DEF Json
  <2>2. Json(read) = Json(entry)
    BY <1>1 DEF Json
  <2> QED
    BY <1>2, <2>1, <2>2 DEF ItemOf, Item
<1>5. Alike(entry, read)
  BY <1>2, <1>4 DEF Alike
<1> QED
  BY <1>2, <1>5 DEF read

(* So does a change of the members, which an item has anyway.              *)
LEMMA ChangedIsAlike ==
  ASSUME NEW C, NEW entry \in EntriesOf(C), IsSet(entry), NEW others \in SUBSET Texts
  PROVE  Alike(entry, WithMembers(entry, others)) /\ IsSet(WithMembers(entry, others))
<1> DEFINE after == WithMembers(entry, others)
<1>1. /\ after.value = [form |-> "Members", body |-> others]
      /\ after.absolute = entry.absolute /\ after.sliding = entry.sliding
  BY DEF WithMembers, EntriesOf
<1>2. IsSet(after)
  <2>1. after.value.form = "Members"
    BY <1>1
  <2>2. after.value # null
    BY <1>1, CollectorAssumption DEF Contents, Members
  <2> QED
    BY <2>1, <2>2 DEF IsSet
<1>3. \A members : WithMembers(after, members) = WithMembers(entry, members)
  BY DEF WithMembers, EntriesOf
<1>4. \A k, members : ItemOf(k, entry, members) = ItemOf(k, after, members)
  BY <1>2, <1>3 DEF ItemOf
<1> QED
  BY <1>2, <1>4 DEF Alike

-----------------------------------------------------------------------------
(* The history.                                                            *)

LEMMA HistoryTypes == Watch => HistoryOK'
<1> SUFFICES ASSUME Watch
             PROVE  HistoryOK'
  OBVIOUS
<1>1. \A w \in Workers : watched'[w] \subseteq FactsOf(cache', heap')
  BY DEF Watch
<1>2. safe' \subseteq FactsOf(cache', heap')
  BY DEF Watch
<1>3. up' => promised' = {}
  BY DEF Watch
<1>4. ASSUME NEW w \in Workers
      PROVE  /\ pc'[w] \notin {"enumerate", "write", "walk", "close"} => passed'[w] = {}
             /\ pc'[w] = "enumerate" => FactsOf(cache', heap') \subseteq passed'[w]
             /\ pc'[w] \in {"write", "walk"} => passed'[w] = passed[w] \cup Inside(passed[w], heap')
  BY DEF Watch
<1>5. ASSUME NEW w \in Workers, pc'[w] \in {"write", "walk"}
      PROVE  Inside(passed'[w], heap') \subseteq passed'[w]
  BY <1>4, <1>5, InsideTwice
<1>6. FactsOf(cache, heap)' = FactsOf(cache', heap')
      /\ \A w \in Workers : Inside(passed[w], heap)' = Inside(passed'[w], heap')
  BY DEF FactsOf, Inside, Fact, PartsOf, MembersOf, IsSet
<1> QED
  BY <1>1, <1>2, <1>3, <1>4, <1>5, <1>6 DEF HistoryOK

(* Nothing becomes safe, watched by a worker at work, or promised, unless  *)
(* a backup is complete or the process stops.                              *)
LEMMA HistoryShrinks ==
  ASSUME Watch, up' = up, \A w \in Workers : ~Completes(w)
  PROVE  /\ safe' \subseteq safe \cap FactsOf(cache', heap')
         /\ promised' \subseteq promised
         /\ \A w \in Workers : pc[w] # "free" =>
              watched'[w] \subseteq watched[w] \cap FactsOf(cache', heap')
<1>1. safe' \subseteq safe \cap FactsOf(cache', heap')
  BY DEF Watch
<1>2. promised' \subseteq promised
  BY DEF Watch
<1>3. \A w \in Workers : pc[w] # "free" =>
        watched'[w] \subseteq watched[w] \cap FactsOf(cache', heap')
  BY DEF Watch
<1> QED
  BY <1>1, <1>2, <1>3

(* What has passed a worker at work stays; what is added is in the cache,  *)
(* or inside of what has passed.                                           *)
LEMMA PassedGrows ==
  ASSUME Watch, NEW w \in Workers
  PROVE  /\ passed'[w] \subseteq passed[w] \cup FactsOf(cache', heap') \cup Inside(passed[w], heap')
         /\ pc'[w] \in {"enumerate", "write", "walk", "close"} => passed[w] \subseteq passed'[w]
BY DEF Watch

-----------------------------------------------------------------------------
LEMMA InitBackup == HInit => BackupInv
<1> SUFFICES ASSUME HInit
             PROVE  BackupInv
  OBVIOUS
<1>1. CollectorInv
  BY InitCollector DEF HInit
<1>2. PairsOf(cache) = {} /\ FactsOf(cache, heap) = {}
  BY DEF HInit, Init, PairsOf, FactsOf
<1>3. DownIsQuiet /\ EmptyHanded /\ ObjectsBorn /\ HistoryOK
  BY <1>2 DEF HInit, Init, DownIsQuiet, EmptyHanded, ObjectsBorn, HistoryOK
<1>4. BackupSaves /\ BackupCopies /\ SafeIsSaved /\ PromisedIsSaved
  BY DEF HInit, Init, BackupSaves, BackupCopies, AtWork, SafeIsSaved, PromisedIsSaved
<1> QED
  BY <1>1, <1>3, <1>4 DEF BackupInv, Tracked

(* Without a cache there is nothing to be safe.                            *)
LEMMA DownIsSafe ==
  ASSUME BackupInv, ~up
  PROVE  PairsOf(cache) = {} /\ safe = {}
<1>1. PairsOf(cache) = {} /\ safe \subseteq FactsOf(cache, heap)
  BY DEF BackupInv, Tracked, DownIsQuiet, HistoryOK
<1>2. FactsOf(cache, heap) = {}
  BY <1>1, FactFields
<1> QED
  BY <1>1, <1>2

(* The entries that are restored have the numbers 0.                       *)
LEMMA StartBackup ==
  ASSUME BackupInv, StartAsync, Watch
  PROVE  Tracked'
<1>1. /\ PairsOf(cache) = {} /\ safe = {}
      /\ \A w \in Workers : pc[w] = "free" /\ array[w] = {}
  BY DownIsSafe DEF StartAsync, BackupInv, Tracked, DownIsQuiet, EmptyHanded
<1>2. /\ up' = TRUE
      /\ UNCHANGED <<made, pc, opened, array, text, file>>
  BY DEF StartAsync, buffers
<1>3. safe' = {} /\ promised' = {} /\ \A w \in Workers : passed'[w] = {}
  BY <1>1, <1>2 DEF Watch, Completes
<1>4. ASSUME NEW pair \in PairsOf(cache')
      PROVE  Born(pair)'
  <2>1. pair.key \in Keys /\ pair.entry = cache'[pair.key] /\ cache'[pair.key] # null
    BY PairFields
  <2>2. Restored
    <3>1. UNCHANGED cache => PairsOf(cache') = {}
      BY <1>1
    <3> QED
      BY <3>1 DEF StartAsync, RestoreFails
  <2>3. pair.entry = <<pair.key, 0>>
    BY <2>1, <2>2 DEF Restored
  <2>4. 0 \in 0 .. made'[pair.key]
    BY <1>2, <2>1 DEF BackupInv, CollectorInv, ProviderOK
  <2> QED
    BY <2>1, <2>3, <2>4 DEF Born
<1>5. ObjectsBorn'
  BY <1>1, <1>2, <1>3, <1>4 DEF ObjectsBorn, PairsOf
<1>6. DownIsQuiet' /\ EmptyHanded'
  BY <1>2 DEF BackupInv, Tracked, DownIsQuiet, EmptyHanded
<1>7. BackupSaves' /\ BackupCopies' /\ SafeIsSaved' /\ PromisedIsSaved'
  BY <1>1, <1>2, <1>3 DEF BackupSaves, BackupCopies, AtWork, SafeIsSaved, PromisedIsSaved
<1> QED
  BY <1>5, <1>6, <1>7, HistoryTypes DEF Tracked

(* What is safe when the process stops is what the next start has to find. *)
LEMMA StopBackup ==
  ASSUME BackupInv, Stop, Watch
  PROVE  Tracked'
<1>1. up /\ up' = FALSE /\ file' = file
  BY DEF Stop, Down
<1>2. PairsOf(cache') = {} /\ FactsOf(cache', heap') = {}
  BY DEF Stop, Down, PairsOf, FactsOf
<1>3. \A w \in Workers : pc'[w] = "free" /\ array'[w] = {} /\ text'[w] = {}
  BY DEF Stop, Down
<1>4. safe' = {} /\ \A w \in Workers : passed'[w] = {}
  BY <1>2, <1>3 DEF Watch
<1>5. ASSUME NEW p \in promised'
      PROVE  p.key \in Keys /\ Readily(p.key, p.entry, p.part)
  <2>1. PICK f \in safe : p = [key |-> f.key, entry |-> heap[f.entry], part |-> f.part]
    BY <1>1, <1>5 DEF Watch
  <2>2. p.key = f.key /\ p.entry = heap[f.entry] /\ p.part = f.part
    BY <2>1
  <2>3. f.key \in Keys
    BY <2>1, FactFields DEF BackupInv, Tracked, HistoryOK
  <2>4. Readily(f.key, heap[f.entry], f.part)
    BY <2>1 DEF BackupInv, Tracked, SafeIsSaved
  <2> QED
    BY <2>2, <2>3, <2>4
<1>6. PromisedIsSaved'
  BY <1>1, <1>5 DEF PromisedIsSaved, Readily
<1>7. DownIsQuiet' /\ EmptyHanded' /\ ObjectsBorn'
  BY <1>2, <1>3, <1>4 DEF DownIsQuiet, EmptyHanded, ObjectsBorn, PairsOf
<1>8. BackupSaves' /\ BackupCopies' /\ SafeIsSaved'
  BY <1>3, <1>4 DEF BackupSaves, BackupCopies, AtWork, SafeIsSaved
<1> QED
  BY <1>6, <1>7, <1>8, HistoryTypes DEF Tracked

-----------------------------------------------------------------------------
(* The objects are made, and written as they were.                         *)
WrittenTheSame == \A x : Born(x) => Born(x)' /\ Alike(heap[x.entry], heap'[x.entry])

(* A worker that takes no step saves what it saved.                        *)
LEMMA SavesStay ==
  ASSUME NEW w \in Workers, NEW f, Saves(w, f),
         pc'[w] = pc[w], rest'[w] = rest[w], array'[w] = array[w], text'[w] = text[w],
         file' = file, Alike(heap[f.entry], heap'[f.entry])
  PROVE  Saves(w, f)'
<1>1. \A item : Says(item, f.key, heap[f.entry], f.part) <=> Says(item, f.key, heap'[f.entry], f.part)
  BY SaysAlike
<1>2. ASSUME pc[w] = "close"
      PROVE  Tells(file.entries, f.key, heap'[f.entry], f.part)
  BY <1>2, TellsAlike DEF Saves
<1>3. \A item : Says(item, f.key, heap[f.entry], f.part)' <=> Says(item, f.key, heap'[f.entry], f.part)
  BY DEF Says, ItemOf, IsSet, WithMembers
<1> QED
  BY <1>1, <1>2, <1>3 DEF Saves, Tells

LEMMA FromPassedStays ==
  ASSUME BackupInv, WrittenTheSame, NEW w \in Workers, passed[w] \subseteq passed'[w],
         NEW items, FromPassed(w, items)
  PROVE  \A item \in items : Passed(passed[w], item)'
<1> SUFFICES ASSUME NEW item \in items
             PROVE  Passed(passed[w], item)'
  OBVIOUS
<1>1. PICK f \in passed[w] :
        /\ Says(item, f.key, heap[f.entry], f.part)
        /\ \A m \in MembersIn(item) : Fact(f.key, f.entry, {m}) \in passed[w]
  BY DEF FromPassed, Passed
<1>2. Born(f)
  BY <1>1 DEF BackupInv, Tracked, ObjectsBorn
<1>3. Says(item, f.key, heap'[f.entry], f.part)
  BY <1>1, <1>2, SaysAlike DEF WrittenTheSame
<1>4. f \in passed'[w] /\ \A m \in MembersIn(item) : Fact(f.key, f.entry, {m}) \in passed'[w]
  BY <1>1
<1> QED
  BY <1>3, <1>4 DEF Passed, Says, ItemOf, IsSet, WithMembers

LEMMA WalksStay ==
  ASSUME BackupInv, WrittenTheSame, NEW w \in Workers, passed[w] \subseteq passed'[w], Walks(w),
         array'[w] = array[w], walk'[w].entry = walk[w].entry, walk'[w].seen = walk[w].seen
  PROVE  Walks(w)'
<1> SUFFICES ASSUME NEW pair \in array[w], pair.entry = walk[w].entry
             PROVE  /\ IsSet(heap'[pair.entry])
                    /\ \A m \in walk[w].seen : Fact(pair.key, pair.entry, {m}) \in passed'[w]
  BY DEF Walks, IsSet
<1>1. Born(pair)
  BY DEF BackupInv, Tracked, ObjectsBorn
<1>2. IsSet(heap'[pair.entry])
  BY <1>1 DEF WrittenTheSame, Alike, Walks
<1> QED
  BY <1>2 DEF Walks

LEMMA CopiesStay ==
  ASSUME BackupInv, Watch, WrittenTheSame, NEW w \in Workers, Copies(w), AtWork(w),
         pc'[w] = pc[w], rest'[w] = rest[w], array'[w] = array[w], text'[w] = text[w],
         file' = file, walk'[w].entry = walk[w].entry, walk'[w].seen = walk[w].seen
  PROVE  Copies(w)'
<1>1. CASE pc[w] = "count"
  <2>1. array[w] = {} /\ text[w] = {}
    BY <1>1 DEF BackupInv, Tracked, EmptyHanded
  <2> QED
    BY <1>1, <2>1 DEF Copies, FromPassed, OneEach
<1>2. CASE pc[w] # "count"
  <2>1. passed[w] \subseteq passed'[w]
    BY <1>2, PassedGrows DEF AtWork
  <2>2. FromPassed(w, text[w])'
    BY <2>1, FromPassedStays DEF Copies, FromPassed
  <2>3. pc[w] = "close" => FromPassed(w, file.entries)'
    <3> SUFFICES ASSUME pc[w] = "close"
                 PROVE  FromPassed(w, file.entries)'
      OBVIOUS
    <3>1. FromPassed(w, file.entries)
      BY DEF Copies
    <3> QED
      BY <2>1, <3>1, FromPassedStays DEF FromPassed
  <2>4. OneEach(text[w])' /\ (pc[w] = "close" => OneEach(file.entries)')
    BY DEF Copies, OneEach
  <2>5. pc[w] = "walk" => Walks(w)'
    BY <2>1, WalksStay DEF Copies
  <2> QED
    BY <2>1, <2>2, <2>3, <2>4, <2>5 DEF Copies
<1> QED
  BY <1>1, <1>2

(* Everything is made, or was there, when the cache gets only what is made.*)
LEMMA BornStay ==
  ASSUME BackupInv, Watch,
         \A x : Born(x) => Born(x)',
         \A pair \in PairsOf(cache') : pair \in PairsOf(cache) \/ Born(pair)',
         \A w \in Workers : array'[w] \subseteq array[w] \cup PairsOf(cache)
  PROVE  ObjectsBorn'
<1>1. \A pair \in PairsOf(cache') : Born(pair)'
  BY DEF BackupInv, Tracked, ObjectsBorn
<1>2. ASSUME NEW w \in Workers, NEW x \in array'[w]
      PROVE  Born(x)'
  BY DEF BackupInv, Tracked, ObjectsBorn
<1>3. ASSUME NEW f \in FactsOf(cache', heap')
      PROVE  Born(f)'
  <2>1. Pair(f) \in PairsOf(cache')
    BY FactFields
  <2> QED
    BY <1>1, <2>1 DEF Born, Pair
<1>4. ASSUME NEW w \in Workers, NEW f \in Inside(passed[w], heap')
      PROVE  Born(f)'
  <2>1. PICK g \in passed[w] : f.key = g.key /\ f.entry = g.entry
    BY InsideFields
  <2>2. Born(g)'
    BY DEF BackupInv, Tracked, ObjectsBorn
  <2> QED
    BY <2>1, <2>2 DEF Born
<1>5. ASSUME NEW w \in Workers, NEW f \in passed'[w]
      PROVE  Born(f)'
  <2>1. f \in passed[w] \/ f \in FactsOf(cache', heap') \/ f \in Inside(passed[w], heap')
    BY <1>5, PassedGrows
  <2>2. f \in passed[w] => Born(f)'
    BY DEF BackupInv, Tracked, ObjectsBorn
  <2> QED
    BY <1>3, <1>4, <2>1, <2>2
<1> QED
  BY <1>1, <1>2, <1>5 DEF ObjectsBorn, PairsOf

(* What was found or is safe is about an object that was made.             *)
LEMMA TrackedIsBorn ==
  ASSUME BackupInv, NEW w \in Workers, NEW f \in watched[w] \cup safe
  PROVE  Born(f)
BY FactIsBorn DEF BackupInv, Tracked, HistoryOK

(* What is safe and stays safe is still saved, with the same file.         *)
LEMMA SafeStays ==
  ASSUME BackupInv, WrittenTheSame, file' = file \/ file'.torn, safe' \subseteq safe
  PROVE  SafeIsSaved'
<1> SUFFICES ASSUME NEW f \in safe'
             PROVE  Readily(f.key, heap[f.entry], f.part)'
  BY DEF SafeIsSaved
<1>1. Readily(f.key, heap[f.entry], f.part) /\ Born(f)
  BY FactIsBorn DEF BackupInv, Tracked, SafeIsSaved, HistoryOK
<1>2. file' # null /\ ~file'.torn => Tells(file'.entries, f.key, heap'[f.entry], f.part)
  BY <1>1, TellsAlike DEF WrittenTheSame, Readily
<1> QED
  BY <1>2 DEF Readily, Tells, Says, ItemOf, IsSet, WithMembers

(* Steps outside of the jobs.                                              *)
LEMMA OutsideBackup ==
  ASSUME BackupInv, Watch, UNCHANGED <<up, pc, opened, rest, array, text, file>>,
         \A w \in Workers : walk'[w].entry = walk[w].entry /\ walk'[w].seen = walk[w].seen,
         up \/ UNCHANGED cache, WrittenTheSame,
         \A pair \in PairsOf(cache') : pair \in PairsOf(cache) \/ Born(pair)'
  PROVE  Tracked'
<1>1. \A w \in Workers : ~Completes(w)
  BY DEF Completes
<1>2. ObjectsBorn'
  BY BornStay DEF WrittenTheSame
<1>3. DownIsQuiet' /\ EmptyHanded'
  BY DEF BackupInv, Tracked, DownIsQuiet, EmptyHanded, PairsOf
<1>4. BackupSaves'
  <2> SUFFICES ASSUME NEW w \in Workers, AtWork(w)', NEW f \in watched'[w] \cup safe'
               PROVE  Saves(w, f)'
    BY DEF BackupSaves
  <2>1. AtWork(w) /\ f \in watched[w] \cup safe
    BY <1>1, HistoryShrinks DEF AtWork
  <2>2. Alike(heap[f.entry], heap'[f.entry])
    BY <2>1, TrackedIsBorn DEF WrittenTheSame
  <2>3. Saves(w, f)
    BY <2>1 DEF BackupInv, Tracked, BackupSaves
  <2> QED
    BY <2>2, <2>3, SavesStay
<1>5. BackupCopies'
  <2> SUFFICES ASSUME NEW w \in Workers, AtWork(w)'
               PROVE  Copies(w)'
    BY DEF BackupCopies
  <2>1. AtWork(w)
    BY DEF AtWork
  <2>2. Copies(w)
    BY <2>1 DEF BackupInv, Tracked, BackupCopies
  <2> QED
    BY <2>1, <2>2, CopiesStay
<1>6. SafeIsSaved'
  BY <1>1, HistoryShrinks, SafeStays
<1>7. PromisedIsSaved'
  <2>1. promised' \subseteq promised
    BY <1>1, HistoryShrinks
  <2> QED
    BY <2>1 DEF BackupInv, Tracked, PromisedIsSaved, Readily
<1> QED
  BY <1>2, <1>3, <1>4, <1>5, <1>6, <1>7, HistoryTypes DEF Tracked

LEMMA SameObjects ==
  ASSUME UNCHANGED <<heap, made>>
  PROVE  WrittenTheSame
BY SameIsAlike DEF WrittenTheSame, Born

LEMMA TickBackup ==
  ASSUME BackupInv, Watch, Tick
  PROVE  Tracked'
<1>1. UNCHANGED <<up, cache, heap, made, pc, opened, rest, array, walk, text, file>>
  BY DEF Tick, buffers
<1> QED
  BY <1>1, SameObjects, OutsideBackup

(* One entry is read, or a set gets other members.                         *)
LEMMA OneEntryChanges ==
  ASSUME BackupInv, UNCHANGED made, NEW r \in Refs, NEW entry,
         heap' = [heap EXCEPT ![r] = entry], Alike(heap[r], entry)
  PROVE  WrittenTheSame
<1> SUFFICES ASSUME NEW x, Born(x)
             PROVE  Born(x)' /\ Alike(heap[x.entry], heap'[x.entry])
  BY DEF WrittenTheSame
<1>1. x.entry \in Refs
  BY BornIsTyped
<1>2. heap'[x.entry] = IF x.entry = r THEN entry ELSE heap[x.entry]
  BY <1>1 DEF BackupInv, CollectorInv, ProviderOK
<1> QED
  BY <1>2, SameIsAlike DEF Born

(* A client's new object is another than all that were made.               *)
LEMMA PutIsNew ==
  ASSUME BackupInv, NEW k \in Keys, NEW entry \in Puts[k], Put(k, entry)
  PROVE  /\ \A x : Born(x) => Born(x)' /\ heap'[x.entry] = heap[x.entry]
         /\ \A pair \in PairsOf(cache') :
              \/ pair \in PairsOf(cache)
              \/ pair.key = k /\ Born(pair)' /\ heap'[pair.entry] = entry
<1> DEFINE r == <<k, made[k] + 1>>
<1>1. made[k] \in Nat /\ made'[k] = made[k] + 1 /\ r \in Refs /\ made[k] + 1 \in 0 .. made'[k]
  BY CollectorAssumption DEF Put, Refs, BackupInv, CollectorInv, ProviderOK
<1>2. \A j \in Keys : made[j] \in Nat /\ (j # k => made'[j] = made[j])
  BY CollectorAssumption DEF Put, BackupInv, CollectorInv, ProviderOK
<1>3. /\ heap'[r] = entry
      /\ \A q \in Refs : q # r => heap'[q] = heap[q]
  BY <1>1 DEF Put, BackupInv, CollectorInv, ProviderOK
<1>4. ASSUME NEW x, Born(x)
      PROVE  Born(x)' /\ heap'[x.entry] = heap[x.entry]
  <2>1. PICK i \in 0 .. made[x.key] : x.entry = <<x.key, i>>
    BY <1>4 DEF Born
  <2>2. x.key \in Keys /\ x.entry \in Refs
    BY <1>4, BornIsTyped
  <2>3. x.entry # r
    BY <1>1, <1>2, <2>1
  <2>4. i \in 0 .. made'[x.key]
    BY <1>1, <1>2, <2>1, <2>2
  <2> QED
    BY <1>3, <2>1, <2>2, <2>3, <2>4 DEF Born
<1>5. ASSUME NEW pair \in PairsOf(cache')
      PROVE  \/ pair \in PairsOf(cache)
             \/ pair.key = k /\ Born(pair)' /\ heap'[pair.entry] = entry
  <2>1. CASE pair.key # k
    BY <2>1 DEF Put, PairsOf, BackupInv, CollectorInv, ProviderOK
  <2>2. CASE pair.key = k
    <3>1. pair.entry = r
      BY <1>1, <2>2 DEF Put, PairsOf, BackupInv, CollectorInv, ProviderOK
    <3> QED
      BY <1>1, <1>3, <2>2, <3>1 DEF Born
  <2> QED
    BY <2>1, <2>2
<1> QED
  BY <1>4, <1>5

LEMMA KeyBackup ==
  ASSUME BackupInv, Watch, NEW k \in Keys,
         Get(k) \/ Remove(k) \/ \E entry \in Puts[k] : Put(k, entry)
  PROVE  Tracked'
<1>1. up /\ UNCHANGED <<up, pc, opened, rest, array, walk, text, file>>
  BY DEF Get, Remove, Put, buffers
<1>2. CASE Get(k)
  <2>0. cache[k] \in Refs /\ now \in Nat
    BY <1>2, CollectorAssumption DEF Get, BackupInv, CollectorInv, ProviderOK
  <2>1. cache[k] \in Refs /\ now \in Nat /\ heap[cache[k]] \in EntriesOf(Contents \cup {null})
    BY <2>0 DEF BackupInv, CollectorInv, ProviderOK
  <2>2. Alike(heap[cache[k]], UpdateSliding(heap[cache[k]], now))
    BY <2>1, RenewedIsAlike
  <2>3. WrittenTheSame /\ PairsOf(cache') = PairsOf(cache)
    BY <1>2, <2>1, <2>2, OneEntryChanges DEF Get
  <2> QED
    BY <1>1, <2>3, OutsideBackup
<1>3. CASE Remove(k)
  <2>1. WrittenTheSame
    BY <1>3, SameObjects DEF Remove
  <2>2. PairsOf(cache') \subseteq PairsOf(cache)
    BY <1>3 DEF Remove, PairsOf, BackupInv, CollectorInv, ProviderOK
  <2> QED
    BY <1>1, <2>1, <2>2, OutsideBackup
<1>4. ASSUME NEW entry \in Puts[k], Put(k, entry)
      PROVE  Tracked'
  <2>1. WrittenTheSame
    BY <1>4, PutIsNew, SameIsAlike DEF WrittenTheSame
  <2>2. \A pair \in PairsOf(cache') : pair \in PairsOf(cache) \/ Born(pair)'
    BY <1>4, PutIsNew
  <2> QED
    BY <1>1, <2>1, <2>2, OutsideBackup
<1> QED
  BY <1>2, <1>3, <1>4

(* A set that changes is the one that was copied: what is written of it    *)
(* later has the members that it has then.                                 *)
LEMMA MemberBackup ==
  ASSUME BackupInv, Watch, NEW r \in Refs, NEW value \in Values,
         AddMember(r, value) \/ RemoveMember(r, value)
  PROVE  Tracked'
<1>1. up /\ UNCHANGED <<up, cache, made, pc, opened, rest, array, text, file>>
  BY DEF AddMember, RemoveMember, buffers
<1>2. heap[r] \in EntriesOf(Contents \cup {null}) /\ value \in Texts
  BY CollectorAssumption DEF BackupInv, CollectorInv, ProviderOK
<1>3. MembersOf(heap[r]) \subseteq Texts
  BY <1>2, SetType
<1>4. IsSet(heap[r])
  BY DEF AddMember, RemoveMember, MembersOf
<1>5. PICK others \in SUBSET Texts : heap' = [heap EXCEPT ![r] = WithMembers(heap[r], others)]
  <2>1. CASE AddMember(r, value)
    <3>1. MembersOf(heap[r]) \cup {value} \in SUBSET Texts
      BY <1>2, <1>3
    <3> QED
      BY <2>1, <3>1 DEF AddMember
  <2>2. CASE RemoveMember(r, value)
    <3>1. MembersOf(heap[r]) \ {value} \in SUBSET Texts
      BY <1>3
    <3> QED
      BY <2>2, <3>1 DEF RemoveMember
  <2> QED
    BY <2>1, <2>2
<1>6. WrittenTheSame
  <2>1. Alike(heap[r], WithMembers(heap[r], others))
    BY <1>2, <1>4, ChangedIsAlike
  <2> QED
    BY <1>1, <1>5, <2>1, OneEntryChanges
<1>7. \A w \in Workers : walk'[w].entry = walk[w].entry /\ walk'[w].seen = walk[w].seen
  <2>1. CASE AddMember(r, value)
    BY <2>1 DEF AddMember, BackupInv, CollectorInv, BuffersOK
  <2>2. CASE RemoveMember(r, value)
    BY <2>2 DEF RemoveMember, buffers
  <2> QED
    BY <2>1, <2>2
<1>8. PairsOf(cache') = PairsOf(cache)
  BY <1>1
<1> QED
  BY <1>1, <1>6, <1>7, <1>8, OutsideBackup

-----------------------------------------------------------------------------
(* A step of a worker's job that completes no backup: the other workers    *)
(* are as they were, and the file too, or w is the one that writes it.     *)
LEMMA OnlyWriter ==
  ASSUME BackupInv, NEW w \in Workers, opened \in {w, null}, NEW v \in Workers, v # w
  PROVE  ~AtWork(v)
BY CollectorAssumption DEF AtWork, BackupInv, CollectorInv, WorkersOK

LEMMA JobBackup ==
  ASSUME BackupInv, Watch, NEW w \in Workers, up, UNCHANGED up, WrittenTheSame,
         PairsOf(cache') \subseteq PairsOf(cache),
         ~Completes(w),
         \A v \in Workers : v # w =>
           /\ pc'[v] = pc[v] /\ rest'[v] = rest[v] /\ walk'[v] = walk[v]
           /\ array'[v] = array[v] /\ text'[v] = text[v],
         array'[w] \subseteq array[w] \cup PairsOf(cache),
         pc'[w] \in {"free", "clean", "cleanExpired", "cleanEnd", "backup", "open", "count"}
           => array'[w] = {} /\ text'[w] = {},
         file' = file \/ (opened \in {w, null} /\ file'.torn),
         AtWork(w)' =>
           Copies(w)' /\ \A f \in watched'[w] \cup safe' : Saves(w, f)'
  PROVE  Tracked'
<1>1. \A v \in Workers : ~Completes(v)
  BY DEF Completes
<1>2. safe' \subseteq safe /\ promised' = {}
  BY <1>1, HistoryShrinks, HistoryTypes DEF HistoryOK
<1>3. DownIsQuiet' /\ EmptyHanded'
  BY DEF BackupInv, Tracked, DownIsQuiet, EmptyHanded
<1>4. ObjectsBorn'
  <2>1. \A x : Born(x) => Born(x)'
    BY DEF WrittenTheSame
  <2>2. \A v \in Workers : array'[v] \subseteq array[v] \cup PairsOf(cache)
    OBVIOUS
  <2> QED
    BY <2>1, <2>2, BornStay
<1>5. ASSUME NEW v \in Workers, v # w, AtWork(v)'
      PROVE  Copies(v)' /\ \A f \in watched'[v] \cup safe' : Saves(v, f)'
  <2>1. AtWork(v)
    BY <1>5 DEF AtWork
  <2>2. file' = file
    BY <1>5, <2>1, OnlyWriter
  <2>3. Copies(v)'
    <3>1. Copies(v)
      BY <2>1 DEF BackupInv, Tracked, BackupCopies
    <3> QED
      BY <1>5, <2>1, <2>2, <3>1, CopiesStay
  <2>4. ASSUME NEW f \in watched'[v] \cup safe'
        PROVE  Saves(v, f)'
    <3>1. f \in watched[v] \cup safe
      BY <1>1, <1>2, <1>5, <2>1, <2>4, HistoryShrinks DEF AtWork
    <3>2. Saves(v, f) /\ Born(f)
      BY <2>1, <3>1, TrackedIsBorn DEF BackupInv, Tracked, BackupSaves
    <3>3. Alike(heap[f.entry], heap'[f.entry])
      BY <3>2 DEF WrittenTheSame
    <3> QED
      BY <1>5, <2>2, <3>2, <3>3, SavesStay
  <2> QED
    BY <2>3, <2>4
<1>6. BackupSaves' /\ BackupCopies'
  BY <1>5 DEF BackupSaves, BackupCopies
<1>7. SafeIsSaved'
  BY <1>2, SafeStays
<1>8. PromisedIsSaved'
  BY <1>2 DEF PromisedIsSaved
<1> QED
  BY <1>3, <1>4, <1>6, <1>7, <1>8, HistoryTypes DEF Tracked

(* A worker at work belongs to a process that runs.                        *)
LEMMA WorkersRun ==
  ASSUME BackupInv, NEW w \in Workers, pc[w] # "free"
  PROVE  up
BY DEF BackupInv, Tracked, DownIsQuiet

LEMMA GotoFacts ==
  ASSUME BackupInv, NEW w \in Workers, NEW label, Goto(w, label)
  PROVE  pc'[w] = label /\ \A v \in Workers : v # w => pc'[v] = pc[v]
BY DEF Goto, BackupInv, CollectorInv, WorkersOK

(* The steps that leave hands and file as they are.                        *)
LEMMA QuietJob ==
  ASSUME BackupInv, Watch, NEW w \in Workers,
         \/ CleanBegin(w) \/ CleanFlag(w) \/ CleanExpired(w) \/ CleanEnd(w)
         \/ BackupBegin(w) \/ BackupFlag(w) \/ Enumerated(w) \/ CloseUnwritten(w) \/ WalkThrows(w)
         \/ \E pair \in array[w] : WriteThrows(w, pair)
  PROVE  Tracked'
<1>1. up /\ UNCHANGED <<up, heap, made, rest, array, text, file>>
      /\ \A v \in Workers : v # w => walk'[v] = walk[v]
  <2>1. UNCHANGED <<up, heap, made, rest, array, text, file>>
    BY DEF CleanBegin, CleanFlag, CleanExpired, CleanEnd, BackupBegin, Begin, BackupFlag,
       Enumerated, CloseUnwritten, WalkThrows, WriteThrows, provider, buffers
  <2>2. up
    BY WorkersRun DEF CleanBegin, CleanFlag, CleanExpired, CleanEnd, BackupBegin, Begin, BackupFlag,
       Enumerated, CloseUnwritten, WalkThrows, WriteThrows
  <2>3. CASE WalkThrows(w)
    BY <2>1, <2>2, <2>3 DEF WalkThrows, BackupInv, CollectorInv, BuffersOK
  <2>4. CASE ~WalkThrows(w)
    BY <2>1, <2>2, <2>4 DEF CleanBegin, CleanFlag, CleanExpired, CleanEnd, BackupBegin, Begin,
       BackupFlag, Enumerated, CloseUnwritten, WriteThrows, buffers
  <2> QED
    BY <2>3, <2>4
<1>2. PairsOf(cache') \subseteq PairsOf(cache)
  <2>1. CASE CleanExpired(w)
    BY <2>1 DEF CleanExpired, PairsOf
  <2>2. CASE ~CleanExpired(w)
    BY <2>2 DEF CleanBegin, CleanFlag, CleanEnd, BackupBegin, Begin, BackupFlag,
       Enumerated, CloseUnwritten, WalkThrows, WriteThrows, provider
  <2> QED
    BY <2>1, <2>2
<1>3. PICK label : Goto(w, label)
  BY DEF CleanBegin, CleanFlag, CleanExpired, CleanEnd, BackupBegin, Begin, BackupFlag,
     Enumerated, CloseUnwritten, WalkThrows, WriteThrows
<1>4. pc'[w] = label /\ \A v \in Workers : v # w => pc'[v] = pc[v]
  BY <1>3, GotoFacts
<1> DEFINE Early == {"free", "clean", "cleanExpired", "cleanEnd", "backup", "open", "count"}
<1>5. \/ pc[w] \in Early /\ pc'[w] \in Early \ {"count"}
      \/ pc[w] # "close" /\ pc'[w] \in {"throw", "end"}
      \/ Enumerated(w) /\ pc'[w] = "write"
  BY <1>4, GotoFacts DEF CleanBegin, CleanFlag, CleanExpired, CleanEnd, BackupBegin, Begin, BackupFlag,
     Enumerated, CloseUnwritten, WalkThrows, WriteThrows
<1>6. ~Completes(w)
  BY <1>5 DEF Completes, Enumerated
<1>7. pc'[w] \in Early => array'[w] = {} /\ text'[w] = {}
  BY <1>1, <1>5 DEF BackupInv, Tracked, EmptyHanded
<1>8. ASSUME AtWork(w)'
      PROVE  Copies(w)' /\ \A f \in watched'[w] \cup safe' : Saves(w, f)'
  <2>1. Enumerated(w) /\ pc'[w] = "write" /\ pc[w] = "enumerate" /\ rest[w] = {}
    BY <1>5, <1>8 DEF AtWork, Enumerated
  <2>2. \A v \in Workers : ~Completes(v)
    BY <1>4, <1>6 DEF Completes
  <2>3. \A f \in watched[w] \cup safe : Saves(w, f)
    BY <2>1 DEF BackupInv, Tracked, BackupSaves, AtWork
  <2>4. Copies(w)
    BY <2>1 DEF BackupInv, Tracked, BackupCopies, AtWork
  <2>5. text'[w] = {} /\ text[w] = {} /\ array'[w] = array[w]
    BY <1>1, <2>1, <2>4 DEF Copies
  <2>6. \A f \in watched'[w] \cup safe' : Saves(w, f)'
    <3> SUFFICES ASSUME NEW f \in watched'[w] \cup safe'
                 PROVE  Saves(w, f)'
      OBVIOUS
    <3>1. Saves(w, f)
      BY <1>1, <2>1, <2>2, <2>3, HistoryShrinks
    <3> QED
      BY <2>1, <2>5, <3>1 DEF Saves
  <2>7. \A pair \in array[w] : Fact(pair.key, pair.entry, {}) \in passed'[w]
    BY <2>1, <2>4, PassedGrows DEF Copies
  <2>8. Copies(w)'
    BY <2>1, <2>4, <2>5, <2>7 DEF Copies, FromPassed, OneEach
  <2> QED
    BY <2>6, <2>8
<1> QED
  BY <1>1, <1>2, <1>4, <1>6, <1>7, <1>8, JobBackup, SameObjects

(* A document is begun when the file is opened, with nothing in hand.      *)
LEMMA OpenBackup ==
  ASSUME BackupInv, Watch, NEW w \in Workers, OpenWrite(w)
  PROVE  Tracked'
<1>1. up /\ UNCHANGED <<up, cache, heap, made, rest, array, walk, text>>
  BY WorkersRun DEF OpenWrite, provider, buffers
<1>2. \A v \in Workers : v # w => pc'[v] = pc[v]
  BY GotoFacts DEF OpenWrite
<1>3. pc'[w] \in {"count", "end"} /\ ~Completes(w)
  BY GotoFacts DEF OpenWrite, Completes
<1>4. array'[w] = {} /\ text'[w] = {}
  BY <1>1 DEF OpenWrite, BackupInv, Tracked, EmptyHanded
<1>5. \/ file' = file
      \/ opened = null /\ file' = Document({}, TRUE)
  BY DEF OpenWrite
<1>6. file' = file \/ (opened \in {w, null} /\ file'.torn)
  BY <1>5 DEF Document
<1>7. AtWork(w)' => Copies(w)' /\ \A f : Saves(w, f)'
  BY <1>3, <1>4 DEF AtWork, Saves, Copies, FromPassed, OneEach
<1> QED
  BY <1>1, <1>2, <1>3, <1>4, <1>6, <1>7, JobBackup, SameObjects

(* It will visit every key.                                                *)
LEMMA CountBackup ==
  ASSUME BackupInv, Watch, NEW w \in Workers, Count(w)
  PROVE  Tracked'
<1>1. up /\ UNCHANGED <<up, cache, heap, made, array, walk, text, file>>
  BY WorkersRun DEF Count, provider
<1>2. pc'[w] = "enumerate" /\ ~Completes(w) /\ \A v \in Workers : v # w => pc'[v] = pc[v]
  BY GotoFacts DEF Count, Completes
<1>3. rest'[w] = Keys /\ \A v \in Workers : v # w => rest'[v] = rest[v]
  BY DEF Count, BackupInv, CollectorInv, BuffersOK
<1>4. array'[w] = {} /\ text'[w] = {}
  BY <1>1 DEF Count, BackupInv, Tracked, EmptyHanded
<1>5. ASSUME NEW f \in watched'[w] \cup safe'
      PROVE  Saves(w, f)'
  <2>1. f \in FactsOf(cache', heap')
    BY <1>5 DEF Watch
  <2>2. f.key \in Keys
    BY <2>1, FactFields
  <2> QED
    BY <1>2, <1>3, <1>4, <2>2 DEF Saves
<1>6. Copies(w)'
  BY <1>2, <1>4 DEF Copies, FromPassed, OneEach
<1> QED
  BY <1>1, <1>2, <1>3, <1>4, <1>5, <1>6, JobBackup, SameObjects

(* What it finds under a key is what is watched there, or safe.            *)
LEMMA VisitBackup ==
  ASSUME BackupInv, Watch, NEW w \in Workers, NEW k \in Keys, Visit(w, k)
  PROVE  Tracked'
<1>1. up /\ UNCHANGED <<up, cache, heap, made, pc, walk, text, file>>
  BY WorkersRun DEF Visit, provider
<1>2. pc[w] = "enumerate" /\ k \in rest[w] /\ \A v \in Workers : ~Completes(v)
  BY <1>1 DEF Visit, Completes
<1>3. /\ rest'[w] = rest[w] \ {k}
      /\ \A v \in Workers : v # w => rest'[v] = rest[v] /\ array'[v] = array[v]
  BY DEF Visit, BackupInv, CollectorInv, BuffersOK
<1> DEFINE found == [key |-> k, entry |-> cache[k]]
<1>4. array'[w] = IF cache[k] = null THEN array[w] ELSE array[w] \cup {found}
  BY DEF Visit, BackupInv, CollectorInv, BuffersOK
<1>5. cache[k] # null => found \in PairsOf(cache)
  BY DEF PairsOf
<1>6. array'[w] \subseteq array[w] \cup PairsOf(cache)
  BY <1>4, <1>5
<1>7. Copies(w) /\ text[w] = {}
  BY <1>2 DEF BackupInv, Tracked, BackupCopies, AtWork, Copies
<1>8. ASSUME NEW f \in watched'[w] \cup safe'
      PROVE  Saves(w, f)'
  <2>1. f \in watched[w] \cup safe
    BY <1>1, <1>2, <1>8, HistoryShrinks
  <2>2. f \in FactsOf(cache, heap)
    BY <2>1 DEF BackupInv, Tracked, HistoryOK
  <2>3. Pair(f) = [key |-> f.key, entry |-> cache[f.key]] /\ cache[f.key] # null
    BY <2>2, FactFields DEF Pair
  <2>4. Saves(w, f)
    BY <1>2, <2>1 DEF BackupInv, Tracked, BackupSaves, AtWork
  <2>5. f.key = k => found = Pair(f)
    BY <2>3
  <2>6. \A q \in array'[w] : q.key = f.key => q = Pair(f)
    BY <1>4, <2>4, <2>5 DEF Saves
  <2>7. f.key \in rest'[w] \/ Pair(f) \in array'[w]
    BY <1>2, <1>3, <1>4, <2>3, <2>4, <2>5 DEF Saves
  <2> QED
    BY <1>1, <1>2, <1>7, <2>6, <2>7 DEF Saves
<1>9. Copies(w)'
  <2>1. ASSUME NEW pair \in array'[w]
        PROVE  Fact(pair.key, pair.entry, {}) \in passed'[w]
    <3>1. CASE pair \in array[w]
      BY <1>1, <1>2, <1>7, <3>1, PassedGrows DEF Copies
    <3>2. CASE pair \notin array[w]
      <4>1. pair.key = k /\ pair.entry = cache[k] /\ cache[k] # null
        BY <1>4, <2>1, <3>2
      <4>2. {} \in PartsOf(heap[cache[k]])
        BY DEF PartsOf
      <4>3. Fact(pair.key, pair.entry, {}) \in FactsOf(cache, heap)
        BY <4>1, <4>2, FactMade
      <4> QED
        BY <1>1, <1>2, <4>3 DEF Watch
    <3> QED
      BY <3>1, <3>2
  <2>2. text'[w] = {}
    BY <1>1, <1>7
  <2>3. \A pair \in array[w] : pair.key # k
    BY <1>2, <1>7 DEF Copies
  <2>4. \A pair \in array'[w] :
          /\ \A q \in array'[w] : q.key = pair.key => q = pair
          /\ pair.key \notin rest'[w]
    BY <1>2, <1>3, <1>4, <1>7, <2>3 DEF Copies
  <2> QED
    BY <1>1, <1>2, <2>1, <2>2, <2>4 DEF Copies, FromPassed, OneEach
<1>10. pc'[w] = "enumerate"
  BY <1>1, <1>2
<1> QED
  BY <1>1, <1>2, <1>3, <1>6, <1>8, <1>9, <1>10, JobBackup, SameObjects

(* An item goes to the document that says of the entry what it is when the *)
(* item is written, and about the members that have passed.                *)
LEMMA ItemWritten ==
  ASSUME BackupInv, Watch, NEW w \in Workers, NEW pair \in array[w], NEW item,
         pc[w] \in {"write", "walk"}, pc'[w] = "write", WrittenTheSame,
         up, UNCHANGED <<up, cache, rest, file>>,
         array'[w] = array[w] \ {pair}, text'[w] = text[w] \cup {item},
         \A v \in Workers : v # w =>
           /\ pc'[v] = pc[v] /\ array'[v] = array[v]
           /\ text'[v] = text[v] /\ walk'[v] = walk[v],
         \A part : part \subseteq MembersOf(heap'[pair.entry]) =>
           Says(item, pair.key, heap[pair.entry], part),
         \A m \in MembersIn(item) : Fact(pair.key, pair.entry, {m}) \in passed[w]
  PROVE  Tracked'
<1>1. \A v \in Workers : ~Completes(v)
  BY DEF Completes
<1>2. Says(item, pair.key, heap[pair.entry], {}) /\ KeyRead(item) = pair.key
  BY SaysKey
<1>3. Copies(w) /\ AtWork(w)
  BY DEF BackupInv, Tracked, BackupCopies, AtWork
<1>4. ASSUME NEW f \in watched'[w] \cup safe'
      PROVE  Saves(w, f)'
  <2>1. f \in watched[w] \cup safe /\ f \in FactsOf(cache', heap')
    BY <1>1, <1>4, HistoryShrinks
  <2>2. Saves(w, f) /\ Born(f)
    BY <1>3, <2>1, TrackedIsBorn DEF BackupInv, Tracked, BackupSaves
  <2>3. Alike(heap[f.entry], heap'[f.entry])
    BY <2>2 DEF WrittenTheSame
  <2>4. pair.key = f.key => pair.entry = f.entry
    <3>1. pair.key = f.key => pair = Pair(f)
      BY <2>2 DEF Saves
    <3>2. Pair(f).entry = f.entry
      BY DEF Pair
    <3> QED
      BY <3>1, <3>2
  <2>5. f.part \subseteq MembersOf(heap'[f.entry])
    BY <2>1, FactFields
  <2>6. pair.key = f.key => Says(item, f.key, heap[f.entry], f.part)
    BY <2>4, <2>5
  <2>7. \A i \in text'[w] : KeyRead(i) = f.key => Says(i, f.key, heap'[f.entry], f.part)
    BY <1>2, <2>2, <2>3, <2>6, SaysAlike DEF Saves
  <2>8. Pair(f) \in array'[w] \/ \E i \in text'[w] : Says(i, f.key, heap'[f.entry], f.part)
    <3>1. CASE Pair(f) = pair
      <4>1. pair.key = f.key
        BY <3>1 DEF Pair
      <4> QED
        BY <2>3, <2>6, <4>1, SaysAlike
    <3>2. CASE Pair(f) # pair
      BY <2>2, <2>3, <3>2, SaysAlike DEF Saves
    <3> QED
      BY <3>1, <3>2
  <2>9. \A q \in array'[w] : q.key = f.key => q = Pair(f)
    BY <2>2 DEF Saves
  <2> QED
    BY <2>7, <2>8, <2>9 DEF Saves, Says, ItemOf, IsSet, WithMembers
<1>5. Copies(w)'
  <2>1. passed[w] \subseteq passed'[w]
    BY PassedGrows
  <2>2. Passed(passed[w], item)
    <3> DEFINE g == Fact(pair.key, pair.entry, {})
    <3>1. g \in passed[w] /\ g.key = pair.key /\ g.entry = pair.entry /\ g.part = {}
      BY <1>3 DEF Copies, Fact
    <3> HIDE DEF g
    <3> QED
      BY <1>2, <3>1 DEF Passed
  <2>3. FromPassed(w, text'[w])
    BY <1>3, <2>2 DEF Copies, FromPassed
  <2>4. FromPassed(w, text[w])'
    BY <2>1, <2>3, FromPassedStays DEF FromPassed
  <2>5. OneEach(text'[w])
    BY <1>2, <1>3 DEF Copies, OneEach
  <2>6. \A q \in array'[w] : \A i \in text'[w] : KeyRead(i) # q.key
    BY <1>2, <1>3 DEF Copies
  <2>7. \A q \in array'[w] :
          /\ Fact(q.key, q.entry, {}) \in passed'[w]
          /\ \A p \in array'[w] : p.key = q.key => p = q
    BY <1>3, <2>1 DEF Copies
  <2> QED
    BY <2>4, <2>5, <2>6, <2>7 DEF Copies, OneEach
<1>6. ~Completes(w) /\ PairsOf(cache') = PairsOf(cache)
  BY <1>1
<1> QED
  BY <1>4, <1>5, <1>6, JobBackup

(* The value that is read is the one that is written, also when the read   *)
(* renews the entry.                                                       *)
LEMMA ReadEntry ==
  ASSUME BackupInv, NEW w \in Workers, NEW pair \in array[w], UNCHANGED made,
         heap' = [heap EXCEPT ![pair.entry] = UpdateSliding(@, now)]
  PROVE  /\ WrittenTheSame
         /\ MembersOf(heap'[pair.entry]) = MembersOf(heap[pair.entry])
         /\ IsSet(heap'[pair.entry]) <=> IsSet(heap[pair.entry])
<1> DEFINE r == pair.entry
<1>1. r \in Refs
  BY BornIsTyped DEF BackupInv, Tracked, ObjectsBorn
<1>2. now \in Nat
  BY CollectorAssumption DEF BackupInv, CollectorInv, ProviderOK
<1>3. heap[r] \in EntriesOf(Contents \cup {null})
  BY <1>1 DEF BackupInv, CollectorInv, ProviderOK
<1>4. /\ Alike(heap[r], UpdateSliding(heap[r], now))
      /\ MembersOf(UpdateSliding(heap[r], now)) = MembersOf(heap[r])
  BY <1>2, <1>3, RenewedIsAlike
<1>5. WrittenTheSame
  BY <1>1, <1>4, OneEntryChanges
<1>6. heap'[r] = UpdateSliding(heap[r], now)
  BY <1>1 DEF BackupInv, CollectorInv, ProviderOK
<1> QED
  BY <1>4, <1>5, <1>6 DEF Alike

LEMMA WriteBackup ==
  ASSUME BackupInv, Watch, NEW w \in Workers, NEW pair \in array[w], WriteEntry(w, pair)
  PROVE  Tracked'
<1> DEFINE item == Item(pair.key, heap[pair.entry])
<1>1. up /\ UNCHANGED <<up, cache, made, pc, rest, walk, file>>
  BY WorkersRun DEF WriteEntry
<1>2. pc[w] = "write" /\ ~IsSet(heap[pair.entry]) /\ heap[pair.entry].value # null
  BY DEF WriteEntry, Throws
<1>3. /\ array'[w] = array[w] \ {pair} /\ text'[w] = text[w] \cup {item}
      /\ \A v \in Workers : v # w => array'[v] = array[v] /\ text'[v] = text[v]
  BY DEF WriteEntry, BackupInv, CollectorInv, BuffersOK
<1>4. WrittenTheSame /\ MembersOf(heap'[pair.entry]) = MembersOf(heap[pair.entry])
  BY <1>1, ReadEntry DEF WriteEntry
<1>5. MembersOf(heap[pair.entry]) = {} /\ item = ItemOf(pair.key, heap[pair.entry], {})
  BY <1>2 DEF MembersOf, ItemOf
<1>6. Says(item, pair.key, heap[pair.entry], {}) /\ MembersIn(item) = {}
  BY <1>2, <1>5, ItemSays
<1> HIDE DEF item
<1>7. \A part : part \subseteq MembersOf(heap'[pair.entry]) =>
        Says(item, pair.key, heap[pair.entry], part)
  <2>1. \A part : part \subseteq MembersOf(heap'[pair.entry]) => part = {}
    BY <1>4, <1>5
  <2> QED
    BY <1>6, <2>1
<1>8. pc'[w] = "write" /\ \A v \in Workers : v # w => pc'[v] = pc[v] /\ walk'[v] = walk[v]
  BY <1>1, <1>2
<1> QED
  BY <1>1, <1>2, <1>3, <1>4, <1>6, <1>7, <1>8, ItemWritten

(* The enumeration of a set begins: what is in it passes.                  *)
LEMMA WalkBeginBackup ==
  ASSUME BackupInv, Watch, NEW w \in Workers, NEW pair \in array[w], WalkBegin(w, pair)
  PROVE  Tracked'
<1>1. up /\ UNCHANGED <<up, cache, made, rest, array, text, file>>
  BY WorkersRun DEF WalkBegin
<1>2. /\ pc[w] = "write" /\ pc'[w] = "walk" /\ IsSet(heap[pair.entry])
      /\ \A v \in Workers : v # w => pc'[v] = pc[v]
  BY GotoFacts DEF WalkBegin
<1>3. /\ walk'[w] = Walk(pair.entry, MembersOf(heap[pair.entry]))
      /\ \A v \in Workers : v # w => walk'[v] = walk[v]
  BY DEF WalkBegin, BackupInv, CollectorInv, BuffersOK
<1>4. walk'[w].entry = pair.entry /\ walk'[w].seen = MembersOf(heap[pair.entry])
  BY <1>3 DEF Walk
<1>5. /\ WrittenTheSame
      /\ MembersOf(heap'[pair.entry]) = MembersOf(heap[pair.entry])
      /\ IsSet(heap'[pair.entry])
  BY <1>1, <1>2, ReadEntry DEF WalkBegin
<1>6. \A v \in Workers : ~Completes(v)
  BY <1>2 DEF Completes
<1>7. Copies(w) /\ AtWork(w)
  BY <1>2 DEF BackupInv, Tracked, BackupCopies, AtWork
<1>8. ASSUME NEW f \in watched'[w] \cup safe'
      PROVE  Saves(w, f)'
  <2>1. f \in watched[w] \cup safe
    BY <1>1, <1>2, <1>6, <1>8, HistoryShrinks
  <2>2. Saves(w, f) /\ Born(f)
    BY <1>7, <2>1, TrackedIsBorn DEF BackupInv, Tracked, BackupSaves
  <2>3. Alike(heap[f.entry], heap'[f.entry])
    BY <1>5, <2>2 DEF WrittenTheSame
  <2>4. \A i : Says(i, f.key, heap[f.entry], f.part) <=> Says(i, f.key, heap'[f.entry], f.part)
    BY <2>3, SaysAlike
  <2> QED
    BY <1>1, <1>2, <2>2, <2>4 DEF Saves, Says, ItemOf, IsSet, WithMembers
<1>9. Copies(w)'
  <2>1. passed'[w] = passed[w] \cup Inside(passed[w], heap')
    BY <1>2 DEF Watch
  <2>2. FromPassed(w, text[w])'
    BY <1>1, <1>5, <1>7, <2>1, FromPassedStays DEF Copies, FromPassed
  <2>3. ASSUME NEW p \in array[w], p.entry = pair.entry, NEW m \in MembersOf(heap[pair.entry])
        PROVE  Fact(p.key, p.entry, {m}) \in passed'[w]
    <3> DEFINE g == Fact(p.key, p.entry, {})
    <3>1. g \in passed[w] /\ g.key = p.key /\ g.entry = p.entry
      BY <1>7 DEF Copies, Fact
    <3> HIDE DEF g
    <3>2. {m} \in PartsOf(heap'[g.entry])
      BY <1>5, <2>3, <3>1 DEF PartsOf
    <3>3. Fact(g.key, g.entry, {m}) \in Inside(passed[w], heap')
      BY <3>1, <3>2, InsideMade
    <3> QED
      BY <2>1, <3>1, <3>3
  <2>4. Walks(w)'
    BY <1>1, <1>4, <1>5, <2>3 DEF Walks, IsSet
  <2> QED
    BY <1>1, <1>2, <1>7, <2>1, <2>2, <2>4 DEF Copies, OneEach
<1> QED
  BY <1>1, <1>2, <1>3, <1>5, <1>6, <1>8, <1>9, JobBackup

(* And it ends: nothing was added meanwhile, so that nothing is missing.   *)
LEMMA WalkEndBackup ==
  ASSUME BackupInv, Watch, NEW w \in Workers, NEW pair \in array[w],
         NEW members \in SUBSET walk[w].seen, WalkEnd(w, pair, members)
  PROVE  Tracked'
<1> DEFINE item == Item(pair.key, WithMembers(heap[pair.entry], members))
<1>1. up /\ UNCHANGED <<up, cache, heap, made, rest, file>>
  BY WorkersRun DEF WalkEnd, provider
<1>2. pc[w] = "walk" /\ pc'[w] = "write" /\ \A v \in Workers : v # w => pc'[v] = pc[v]
  BY GotoFacts DEF WalkEnd
<1>3. /\ array'[w] = array[w] \ {pair} /\ text'[w] = text[w] \cup {item}
      /\ \A v \in Workers : v # w =>
           array'[v] = array[v] /\ text'[v] = text[v] /\ walk'[v] = walk[v]
  BY DEF WalkEnd, BackupInv, CollectorInv, BuffersOK
<1>4. Walks(w)
  BY <1>2 DEF BackupInv, Tracked, BackupCopies, AtWork, Copies
<1>5. /\ IsSet(heap[pair.entry])
      /\ \A m \in members : Fact(pair.key, pair.entry, {m}) \in passed[w]
      /\ MembersOf(heap[pair.entry]) \subseteq members
  BY <1>4 DEF WalkEnd, Walks
<1>6. item = ItemOf(pair.key, heap[pair.entry], members) /\ heap[pair.entry].value # null
  BY <1>5 DEF ItemOf, IsSet
<1>7. /\ MembersIn(item) = members
      /\ \A part : part \subseteq MembersOf(heap[pair.entry]) =>
           Says(item, pair.key, heap[pair.entry], part)
  <2>1. ASSUME NEW part, part \subseteq MembersOf(heap[pair.entry])
        PROVE  MembersIn(item) = members /\ Says(item, pair.key, heap[pair.entry], part)
    <3> DEFINE same == ItemOf(pair.key, heap[pair.entry], members)
    <3>1. MembersIn(same) = members /\ Says(same, pair.key, heap[pair.entry], part)
      BY <1>5, <1>6, <2>1, ItemSays
    <3> HIDE DEF item, same
    <3> QED
      BY <1>6, <3>1 DEF same
  <2>2. {} \subseteq MembersOf(heap[pair.entry])
    OBVIOUS
  <2>3. MembersIn(item) = members
    BY <2>1, <2>2
  <2> QED
    BY <2>1, <2>3
<1> HIDE DEF item
<1>8. WrittenTheSame
  BY <1>1, SameObjects
<1> QED
  BY <1>1, <1>2, <1>3, <1>5, <1>7, <1>8, ItemWritten

(* The document is complete when nothing is left in hand.                  *)
LEMMA FlushBackup ==
  ASSUME BackupInv, Watch, NEW w \in Workers, Flush(w)
  PROVE  Tracked'
<1>1. up /\ UNCHANGED <<up, cache, heap, made, rest, array, walk, text>>
  BY WorkersRun DEF Flush, provider, buffers
<1>2. pc'[w] = "close" /\ \A v \in Workers : v # w => pc'[v] = pc[v]
  BY GotoFacts DEF Flush
<1>3. pc[w] = "write" /\ array[w] = {} /\ file' = Document(text[w], TRUE)
  BY DEF Flush
<1>4. \A v \in Workers : ~Completes(v)
  BY <1>2, <1>3 DEF Completes
<1>5. file'.torn /\ file'.entries = text[w]
  BY <1>3 DEF Document
<1>6. opened = w
  BY <1>3 DEF BackupInv, CollectorInv, WorkersOK
<1>7. WrittenTheSame
  BY <1>1, SameObjects
<1>8. ASSUME NEW f \in watched'[w] \cup safe'
      PROVE  Saves(w, f)'
  <2>1. f \in watched[w] \cup safe
    BY <1>1, <1>3, <1>4, <1>8, HistoryShrinks
  <2>2. Saves(w, f)
    BY <1>3, <2>1 DEF BackupInv, Tracked, BackupSaves, AtWork
  <2>3. Tells(text[w], f.key, heap[f.entry], f.part)
    BY <1>3, <2>2 DEF Saves, Tells
  <2> QED
    BY <1>1, <1>2, <1>5, <2>2, <2>3 DEF Saves, Tells, Says
<1>9. Copies(w)'
  <2>1. Copies(w)
    BY <1>3 DEF BackupInv, Tracked, BackupCopies, AtWork
  <2>2. passed[w] \subseteq passed'[w]
    BY <1>2, PassedGrows
  <2>3. FromPassed(w, text[w])' /\ FromPassed(w, file.entries)'
    BY <1>1, <1>5, <1>7, <2>1, <2>2, FromPassedStays DEF Copies, FromPassed
  <2> QED
    BY <1>1, <1>2, <1>3, <1>5, <2>1, <2>3 DEF Copies, OneEach
<1> QED
  BY <1>1, <1>2, <1>4, <1>5, <1>6, <1>7, <1>8, <1>9, JobBackup

(* The backup is complete: what it had found, and is still there, is safe. *)
LEMMA CloseBackup ==
  ASSUME BackupInv, Watch, NEW w \in Workers, Close(w)
  PROVE  Tracked'
<1>1. up /\ UNCHANGED <<up, cache, heap, made, rest, array, text>>
  BY WorkersRun DEF Close, provider, buffers
<1>2. pc'[w] = "end" /\ \A v \in Workers : v # w => pc'[v] = pc[v]
  BY GotoFacts DEF Close
<1>3. pc[w] = "close" /\ file'.entries = file.entries
  BY DEF Close, Document
<1>4. safe' \subseteq safe \cup watched[w]
  BY <1>2 DEF Watch, Completes
<1>5. PromisedIsSaved'
  BY <1>1 DEF Watch, PromisedIsSaved
<1>6. SafeIsSaved'
  <2> SUFFICES ASSUME NEW f \in safe'
               PROVE  Tells(file.entries, f.key, heap[f.entry], f.part)
    BY <1>1, <1>3 DEF SafeIsSaved, Readily, Tells, Says
  <2>1. Saves(w, f)
    BY <1>3, <1>4 DEF BackupInv, Tracked, BackupSaves, AtWork
  <2> QED
    BY <1>3, <2>1 DEF Saves
<1>7. BackupSaves' /\ BackupCopies'
  <2>1. opened = w
    BY <1>3 DEF BackupInv, CollectorInv, WorkersOK
  <2>2. \A v \in Workers : ~AtWork(v)'
    BY <1>2, <2>1, OnlyWriter DEF AtWork
  <2> QED
    BY <2>2 DEF BackupSaves, BackupCopies
<1>8. DownIsQuiet' /\ EmptyHanded'
  BY <1>1, <1>2, <1>3 DEF BackupInv, Tracked, DownIsQuiet, EmptyHanded
<1>9. ObjectsBorn'
  BY <1>1, BornStay DEF Born
<1> QED
  BY <1>5, <1>6, <1>7, <1>8, <1>9, HistoryTypes DEF Tracked

LEMMA EndBackup ==
  ASSUME BackupInv, Watch, NEW w \in Workers, BackupEnd(w)
  PROVE  Tracked'
<1>1. up /\ UNCHANGED <<up, cache, heap, made, walk, file>>
  BY WorkersRun DEF BackupEnd, provider
<1>2. pc[w] = "end" /\ pc'[w] = "free" /\ \A v \in Workers : v # w => pc'[v] = pc[v]
  BY GotoFacts DEF BackupEnd
<1>3. /\ array'[w] = {} /\ text'[w] = {}
      /\ \A v \in Workers : v # w =>
           rest'[v] = rest[v] /\ array'[v] = array[v] /\ text'[v] = text[v]
  BY DEF BackupEnd, BackupInv, CollectorInv, BuffersOK
<1> QED
  BY <1>1, <1>2, <1>3, JobBackup, SameObjects DEF Completes, AtWork

LEMMA NextBackup == BackupInv /\ [HNext]_<<vars, history>> => BackupInv'
<1> SUFFICES ASSUME BackupInv, [HNext]_<<vars, history>>
             PROVE  BackupInv'
  OBVIOUS
<1>1. CollectorInv'
  BY NextCollector DEF BackupInv, HNext, vars
<1>2. CASE UNCHANGED <<vars, history>>
  <2>1. DownIsQuiet' /\ EmptyHanded' /\ ObjectsBorn'
    BY <1>2 DEF vars, history, BackupInv, Tracked, DownIsQuiet, EmptyHanded, ObjectsBorn, Born, PairsOf
  <2>2. HistoryOK'
    <3>1. cache' = cache /\ heap' = heap /\ UNCHANGED <<up, pc, watched, passed, safe, promised>>
      BY <1>2 DEF vars, history
    <3>2. FactsOf(cache, heap)' = FactsOf(cache', heap')
          /\ \A w \in Workers : Inside(passed[w], heap)' = Inside(passed'[w], heap')
      BY DEF FactsOf, Inside, Fact, PartsOf, MembersOf, IsSet
    <3> QED
      BY <3>1, <3>2 DEF BackupInv, Tracked, HistoryOK
  <2>3. BackupSaves' /\ SafeIsSaved' /\ PromisedIsSaved'
    BY <1>2 DEF vars, history, BackupInv, Tracked, BackupSaves, AtWork, Saves, Tells, Says,
       SafeIsSaved, PromisedIsSaved, Readily
  <2>4. BackupCopies'
    BY <1>2 DEF vars, history, BackupInv, Tracked, BackupCopies, AtWork, Copies, FromPassed, Passed,
       OneEach, Walks, Says
  <2> QED
    BY <1>1, <2>1, <2>2, <2>3, <2>4 DEF BackupInv, Tracked
<1>3. ASSUME Next, Watch
      PROVE  Tracked'
  <2>1. CASE StartAsync \/ Stop \/ Tick
    BY <1>3, <2>1, StartBackup, StopBackup, TickBackup
  <2>2. CASE Client
    BY <1>3, <2>2, KeyBackup, MemberBackup DEF Client
  <2>3. ASSUME NEW w \in Workers, CleanBegin(w) \/ BackupBegin(w) \/ Job(w)
        PROVE  Tracked'
    <3>1. CASE \/ CleanBegin(w) \/ CleanFlag(w) \/ CleanExpired(w) \/ CleanEnd(w)
               \/ BackupBegin(w) \/ BackupFlag(w) \/ Enumerated(w) \/ CloseUnwritten(w) \/ WalkThrows(w)
               \/ \E pair \in array[w] : WriteThrows(w, pair)
      BY <1>3, <3>1, QuietJob
    <3>2. CASE OpenWrite(w) \/ Count(w) \/ \E k \in Keys : Visit(w, k)
      BY <1>3, <3>2, OpenBackup, CountBackup, VisitBackup
    <3>3. CASE \/ \E pair \in array[w] : WriteEntry(w, pair)
               \/ Flush(w) \/ Close(w) \/ BackupEnd(w)
      BY <1>3, <3>3, WriteBackup, FlushBackup, CloseBackup, EndBackup
    <3>4. CASE \/ \E pair \in array[w] : WalkBegin(w, pair)
               \/ \E pair \in array[w], members \in SUBSET walk[w].seen : WalkEnd(w, pair, members)
      BY <1>3, <3>4, WalkBeginBackup, WalkEndBackup
    <3> QED
      BY <2>3, <3>1, <3>2, <3>3, <3>4 DEF Job
  <2> QED
    BY <1>3, <2>1, <2>2, <2>3 DEF Next
<1> QED
  BY <1>1, <1>2, <1>3 DEF BackupInv, HNext

-----------------------------------------------------------------------------
(* A backup is complete when its worker closes the file, and never else.   *)
LEMMA OnlyCloseCompletes ==
  ASSUME BackupInv, Next, NEW w \in Workers, Completes(w)
  PROVE  Close(w)
<1>1. pc[w] = "close" /\ pc'[w] = "end"
  BY DEF Completes
<1>2. CASE StartAsync \/ Tick \/ Client
  BY <1>1, <1>2 DEF StartAsync, Tick, Client, Get, Remove, Put, AddMember, RemoveMember
<1>3. CASE Stop
  BY <1>1, <1>3 DEF Stop, Down
<1>4. ASSUME NEW v \in Workers, CleanBegin(v) \/ BackupBegin(v) \/ Job(v)
      PROVE  Close(w)
  <2>1. (\E k \in Keys : Visit(v, k)) \/ (\E pair \in array[v] : WriteEntry(v, pair))
          => pc' = pc
    BY DEF Visit, WriteEntry
  <2>2. \A label : Goto(v, label) => v = w
    BY <1>1, GotoFacts
  <2>3. CASE v = w
    BY <1>1, <1>4, <2>1, <2>3 DEF Job, CleanBegin, BackupBegin, Begin, CleanFlag, CleanExpired,
       CleanEnd, BackupFlag, OpenWrite, Count, Enumerated, WalkBegin, WalkEnd, WalkThrows,
       WriteThrows, Flush, CloseUnwritten, BackupEnd
  <2>4. CASE v # w
    BY <1>1, <1>4, <2>1, <2>2, <2>4 DEF Job, CleanBegin, BackupBegin, Begin, CleanFlag,
       CleanExpired, CleanEnd, BackupFlag, OpenWrite, Count, Enumerated, WalkBegin, WalkEnd,
       WalkThrows, WriteThrows, Flush, Close, CloseUnwritten, BackupEnd
  <2> QED
    BY <2>3, <2>4
<1> QED
  BY <1>2, <1>3, <1>4 DEF Next

LEMMA CompleteIsSnapshot ==
  ASSUME BackupInv, HNext, NEW w \in Workers, Completes(w)
  PROVE  /\ \A f \in watched[w] : \E item \in file'.entries :
              Says(item, f.key, heap[f.entry], f.part)
         /\ \A item \in file'.entries : \E f \in passed[w] :
              /\ Says(item, f.key, heap[f.entry], f.part)
              /\ \A m \in MembersIn(item) : Fact(f.key, f.entry, {m}) \in passed[w]
         /\ \A i, j \in file'.entries : KeyRead(i) = KeyRead(j) => i = j
<1>1. pc[w] = "close" /\ AtWork(w)
  BY DEF Completes, AtWork
<1>2. file'.entries = file.entries
  BY OnlyCloseCompletes DEF HNext, Close, Document
<1>3. \A f \in watched[w] : Tells(file.entries, f.key, heap[f.entry], f.part)
  BY <1>1 DEF BackupInv, Tracked, BackupSaves, Saves
<1>4. FromPassed(w, file.entries) /\ OneEach(file.entries)
  BY <1>1 DEF BackupInv, Tracked, BackupCopies, Copies
<1> QED
  BY <1>2, <1>3, <1>4 DEF Tells, FromPassed, Passed, OneEach

(* Whatever the clients store, remove, add to the sets and take out of     *)
(* them meanwhile, whatever expires, and however the jobs overlap: a       *)
(* backup that completes has every entry and every member that was in the  *)
(* cache all the time, no entry that was not in it while the worker        *)
(* copied, no member that was not in the set while it was at work, and no  *)
(* key twice.                                                              *)
THEOREM BackupsCorrect == HSpec => BackupsAreSnapshots
<1>1. BackupInv /\ [HNext]_<<vars, history>> =>
        [ \A w \in Workers : Completes(w) =>
            /\ \A f \in watched[w] : \E item \in file'.entries :
                 Says(item, f.key, heap[f.entry], f.part)
            /\ \A item \in file'.entries : \E f \in passed[w] :
                 /\ Says(item, f.key, heap[f.entry], f.part)
                 /\ \A m \in MembersIn(item) : Fact(f.key, f.entry, {m}) \in passed[w]
            /\ \A i, j \in file'.entries : KeyRead(i) = KeyRead(j) => i = j
        ]_<<vars, history>>
  BY CompleteIsSnapshot
<1> QED
  BY <1>1, InitBackup, NextBackup, PTL DEF HSpec, BackupsAreSnapshots

-----------------------------------------------------------------------------
(* The recovery.                                                           *)

(* The values that come out of a backup as they went in: see ReadAsWritten.*)
KeptValues(keyType) ==
  IF keyType = "Set" THEN {t \in BareTexts : t.form = "Integer"} ELSE Members(Texts)

Kept(k, entry) == \E v \in KeptValues(k.KeyType) : entry = NewEntry(v, null, null)

(* Clients store such values, without expiration, or entries that have     *)
(* expired when they arrive.  What they do to the sets later is free.      *)
Keepable(k, entry) == Kept(k, entry) \/ entry.absolute = 0

KeptPuts == \A k \in Keys : \A entry \in Puts[k] : Keepable(k, entry)

KeptItems ==
  UNION {{Item(k, NewEntry(v, null, null)) : v \in KeptValues(k.KeyType)} : k \in Keys}

(* Then the cache, and the copies the workers have, hold nothing else, and *)
(* neither do the documents and the promises.  A set that is being written *)
(* has not expired.                                                        *)
KeptObjects ==
  /\ \A pair \in PairsOf(cache) : Keepable(pair.key, heap[pair.entry])
  /\ \A w \in Workers : \A pair \in array[w] : Keepable(pair.key, heap[pair.entry])

KeptWalks ==
  \A w \in Workers : pc[w] = "walk" =>
    \A pair \in array[w] : pair.entry = walk[w].entry => Kept(pair.key, heap[pair.entry])

KeptDocuments ==
  /\ \A w \in Workers : text[w] \subseteq KeptItems
  /\ file # null \/ opened # null => file.entries \subseteq KeptItems

KeptPromises == \A p \in promised : Keepable(p.key, p.entry)

AllKept == KeptObjects /\ KeptWalks /\ KeptDocuments /\ KeptPromises

RecoveryInv == BackupInv /\ AllKept

-----------------------------------------------------------------------------
(* What the format keeps is read back as it was.                           *)
LEMMA KeptFields ==
  ASSUME NEW k \in Keys, NEW entry, Kept(k, entry)
  PROVE  /\ entry.absolute = null /\ entry.sliding = null
         /\ \/ k.KeyType = "Set" /\ entry.value \in BareTexts /\ entry.value.form = "Integer"
            \/ k.KeyType = "HashSet" /\ entry.value \in Members(Texts)
         /\ entry = NewEntry(entry.value, null, null)
<1>1. PICK v \in KeptValues(k.KeyType) : entry = NewEntry(v, null, null)
  BY DEF Kept
<1>2. entry.absolute = null /\ entry.sliding = null /\ entry.value = v
  BY <1>1 DEF NewEntry
<1>3. k.KeyType \in {"Set", "HashSet"}
  BY CollectorAssumption
<1>4. \/ k.KeyType = "Set" /\ v \in BareTexts /\ v.form = "Integer"
      \/ k.KeyType = "HashSet" /\ v \in Members(Texts)
  BY <1>1, <1>3 DEF KeptValues
<1> QED
  BY <1>1, <1>2, <1>4

LEMMA KeptRead ==
  ASSUME NEW k \in Keys, NEW entry, Kept(k, entry)
  PROVE  /\ Readable(k.KeyType, Json(entry))
         /\ EntryRead(Json(entry)) = entry
BY KeptFields, RoundTrip

(* Only the hash sets can be changed in place.                             *)
LEMMA KeptSet ==
  ASSUME NEW k \in Keys, NEW entry, Kept(k, entry)
  PROVE  IsSet(entry) <=> k.KeyType = "HashSet"
<1>1. \/ k.KeyType = "Set" /\ entry.value \in BareTexts /\ entry.value.form = "Integer"
      \/ k.KeyType = "HashSet" /\ entry.value \in Members(Texts)
  BY KeptFields
<1>2. CASE k.KeyType = "HashSet"
  <2>1. entry.value \in Members(Texts) /\ entry.value # null
    BY <1>1, <1>2, CollectorAssumption DEF Contents
  <2> QED
    BY <1>2, <2>1 DEF IsSet, Members
<1> QED
  BY <1>1, <1>2 DEF IsSet

(* With other members it is still one that the format keeps.               *)
LEMMA KeptChanges ==
  ASSUME NEW k \in Keys, NEW C, NEW entry \in EntriesOf(C), IsSet(entry),
         NEW others \in SUBSET Texts
  PROVE  /\ Kept(k, entry) => Kept(k, WithMembers(entry, others))
         /\ Keepable(k, entry) => Keepable(k, WithMembers(entry, others))
<1> DEFINE after == WithMembers(entry, others)
<1>1. ASSUME Kept(k, entry)
      PROVE  Kept(k, after)
  <2> DEFINE v == [form |-> "Members", body |-> others]
  <2>1. k.KeyType = "HashSet"
    BY <1>1, KeptSet
  <2>2. v \in KeptValues(k.KeyType)
    BY <2>1 DEF KeptValues, Members
  <2>3. PICK u \in KeptValues(k.KeyType) : entry = NewEntry(u, null, null)
    BY <1>1 DEF Kept
  <2>4. after = NewEntry(v, null, null)
    BY <2>3 DEF WithMembers, NewEntry
  <2> QED
    BY <2>2, <2>4 DEF Kept
<1>2. after.absolute = entry.absolute
  BY DEF WithMembers, EntriesOf
<1> QED
  BY <1>1, <1>2 DEF Keepable

LEMMA KeptItem ==
  ASSUME NEW item \in KeptItems
  PROVE  \E k \in Keys : \E entry : Kept(k, entry) /\ item = Item(k, entry)
BY DEF KeptItems, Kept

(* A document of such items can always be read.                            *)
LEMMA KeptReadable ==
  ASSUME NEW items, items \subseteq KeptItems
  PROVE  DocumentReadable(items)
<1> SUFFICES ASSUME NEW item \in items
             PROVE  Readable(KeyRead(item).KeyType, EntryJson(item))
  BY DEF DocumentReadable
<1>0. PICK k \in Keys : \E entry : Kept(k, entry) /\ item = Item(k, entry)
  BY KeptItem
<1>1. PICK entry : Kept(k, entry) /\ item = Item(k, entry)
  BY <1>0
<1>2. KeyRead(item) = k /\ EntryJson(item) = Json(entry)
  BY <1>1 DEF Item, KeyRead, EntryJson
<1> QED
  BY <1>1, <1>2, KeptRead

(* It gives back the entry that an item of it was made of.                 *)
LEMMA KeptItemRead ==
  ASSUME NEW items, items \subseteq KeptItems, NEW k, \E item \in items : KeyRead(item) = k
  PROVE  \E item \in items :
           /\ KeyRead(item) = k /\ k \in Keys
           /\ Kept(k, ItemRead(items, k))
           /\ item = Item(k, ItemRead(items, k))
<1> DEFINE item == CHOOSE i \in items : KeyRead(i) = k
<1>1. item \in items /\ KeyRead(item) = k
  OBVIOUS
<1> HIDE DEF item
<1>0. PICK j \in Keys : \E entry : Kept(j, entry) /\ item = Item(j, entry)
  BY <1>1, KeptItem
<1>2. PICK entry : Kept(j, entry) /\ item = Item(j, entry)
  BY <1>0
<1>3. j = k /\ EntryJson(item) = Json(entry)
  BY <1>1, <1>2 DEF Item, KeyRead, EntryJson
<1>4. ItemRead(items, k) = entry
  BY <1>2, <1>3, KeptRead DEF ItemRead, item
<1> QED
  BY <1>1, <1>2, <1>3, <1>4

(* So the document recovers the fact that it tells.                        *)
LEMMA ToldIsRead ==
  ASSUME NEW items, items \subseteq KeptItems, NEW k \in Keys, NEW entry, Kept(k, entry),
         NEW part, Tells(items, k, entry, part)
  PROVE  /\ \E item \in items : KeyRead(item) = k
         /\ Recovers(ItemRead(items, k), entry, part)
<1> DEFINE read == ItemRead(items, k)
<1>1. \E item \in items : KeyRead(item) = k
  BY SaysKey DEF Tells
<1>2. PICK item \in items : KeyRead(item) = k /\ Kept(k, read) /\ item = Item(k, read)
  BY <1>1, KeptItemRead
<1>3. Says(item, k, entry, part)
  BY <1>2 DEF Tells
<1> HIDE DEF read
<1>4. /\ read.absolute = null /\ read.sliding = null
      /\ entry.absolute = null /\ entry.sliding = null
  BY <1>2, KeptFields
<1>5. ASSUME IsSet(entry)
      PROVE  Recovers(read, entry, part)
  <2>1. IsSet(read)
    BY <1>2, <1>5, KeptSet
  <2>2. MembersIn(Item(k, read)) = MembersOf(read)
    BY <2>1, MembersWritten DEF IsSet, MembersOf
  <2>3. MembersIn(item) = MembersOf(read)
    BY <1>2, <2>2
  <2> QED
    BY <1>3, <1>4, <1>5, <2>1, <2>3 DEF Says, Recovers
<1>6. ASSUME ~IsSet(entry)
      PROVE  Recovers(read, entry, part)
  <2>1. item = Item(k, entry)
    BY <1>3, <1>6 DEF Says, ItemOf
  <2>2. Json(read) = Json(entry)
    <3>1. EntryJson(item) = Json(entry)
      BY <2>1 DEF Item, EntryJson
    <3>2. EntryJson(item) = Json(read)
      BY <1>2 DEF Item, EntryJson
    <3> QED
      BY <3>1, <3>2
  <2>3. read = entry
    BY <1>2, <2>2, KeptRead
  <2> QED
    BY <1>4, <1>6, <2>3 DEF Recovers
<1> QED
  BY <1>1, <1>5, <1>6 DEF read

(* An entry that can be written is one the format keeps, and its value is  *)
(* read without effect.                                                    *)
LEMMA LiveIsKept ==
  ASSUME NEW k, NEW entry, Keepable(k, entry), ~Expired(entry, now), now \in Nat
  PROVE  Kept(k, entry) /\ UpdateSliding(entry, now) = entry
<1>1. Kept(k, entry)
  BY TimesAssumption DEF Keepable, Expired, PastAbsolute
<1>2. entry.sliding = null
  BY <1>1 DEF Kept, NewEntry
<1> QED
  BY <1>1, <1>2 DEF UpdateSliding

-----------------------------------------------------------------------------
(* What the format keeps stays so, whatever is done to the objects.        *)
StaysKept ==
  \A x : Born(x) =>
    /\ Kept(x.key, heap[x.entry]) => Kept(x.key, heap'[x.entry])
    /\ Keepable(x.key, heap[x.entry]) => Keepable(x.key, heap'[x.entry])

(* A step other than a stop.                                               *)
LEMMA KeptStep ==
  ASSUME RecoveryInv, Watch, up' \/ ~up, StaysKept,
         \A pair \in PairsOf(cache') :
           pair \in PairsOf(cache) \/ Keepable(pair.key, heap'[pair.entry]),
         \A w \in Workers : array'[w] \subseteq array[w] \cup PairsOf(cache),
         \A w \in Workers : pc'[w] = "walk" =>
           \A pair \in array'[w] : pair.entry = walk'[w].entry =>
             Kept(pair.key, heap[pair.entry]),
         \A w \in Workers : text'[w] \subseteq KeptItems,
         file' # null \/ opened' # null => file'.entries \subseteq KeptItems
  PROVE  AllKept'
<1>1. \A pair \in PairsOf(cache) : Keepable(pair.key, heap'[pair.entry])
  BY DEF StaysKept, RecoveryInv, AllKept, KeptObjects, BackupInv, Tracked, ObjectsBorn
<1>2. \A w \in Workers : \A pair \in array[w] : Keepable(pair.key, heap'[pair.entry])
  BY DEF StaysKept, RecoveryInv, AllKept, KeptObjects, BackupInv, Tracked, ObjectsBorn
<1>3. KeptObjects'
  <2>1. \A w \in Workers : \A pair \in array'[w] : Keepable(pair.key, heap'[pair.entry])
    BY <1>1, <1>2
  <2>2. PairsOf(cache)' = PairsOf(cache')
    BY DEF PairsOf
  <2> QED
    BY <1>1, <2>1, <2>2 DEF KeptObjects
<1>4. KeptWalks'
  <2> SUFFICES ASSUME NEW w \in Workers, pc'[w] = "walk", NEW pair \in array'[w],
                      pair.entry = walk'[w].entry
               PROVE  Kept(pair.key, heap'[pair.entry])
    BY DEF KeptWalks
  <2>1. Born(pair)
    BY DEF RecoveryInv, BackupInv, Tracked, ObjectsBorn
  <2> QED
    BY <2>1 DEF StaysKept
<1>5. KeptPromises'
  BY DEF Watch, RecoveryInv, AllKept, KeptPromises
<1> QED
  BY <1>3, <1>4, <1>5 DEF AllKept, KeptDocuments

(* One that leaves the hands of the workers as they are.                   *)
LEMMA KeptOutside ==
  ASSUME RecoveryInv, Watch, up' \/ ~up, StaysKept,
         UNCHANGED <<pc, opened, array, text, file>>,
         \A w \in Workers : walk'[w].entry = walk[w].entry,
         \A pair \in PairsOf(cache') :
           pair \in PairsOf(cache) \/ Keepable(pair.key, heap'[pair.entry])
  PROVE  AllKept'
<1>1. \A w \in Workers : pc'[w] = "walk" =>
        \A pair \in array'[w] : pair.entry = walk'[w].entry => Kept(pair.key, heap[pair.entry])
  BY DEF RecoveryInv, AllKept, KeptWalks
<1>2. /\ \A w \in Workers : text'[w] \subseteq KeptItems
      /\ file' # null \/ opened' # null => file'.entries \subseteq KeptItems
  BY DEF RecoveryInv, AllKept, KeptDocuments
<1> QED
  BY <1>1, <1>2, KeptStep

LEMMA SameIsKept ==
  ASSUME UNCHANGED heap
  PROVE  StaysKept
BY DEF StaysKept

LEMMA InitRecovery ==
  ASSUME HInit
  PROVE  RecoveryInv
<1>1. BackupInv /\ PairsOf(cache) = {}
  BY InitBackup DEF HInit, Init, PairsOf
<1>2. KeptObjects /\ KeptWalks /\ KeptDocuments /\ KeptPromises
  BY <1>1 DEF HInit, Init, KeptObjects, KeptWalks, KeptDocuments, KeptPromises
<1> QED
  BY <1>1, <1>2 DEF RecoveryInv, AllKept

(* The cache that is restored holds what the format keeps.                 *)
LEMMA StartRecovery ==
  ASSUME RecoveryInv, StartAsync, Watch
  PROVE  AllKept'
<1>1. PairsOf(cache) = {} /\ \A w \in Workers : array[w] = {} /\ pc[w] = "free"
  BY DEF StartAsync, RecoveryInv, BackupInv, Tracked, DownIsQuiet, EmptyHanded
<1>2. up' = TRUE /\ UNCHANGED <<pc, opened, array, text, file>>
  BY DEF StartAsync, buffers
<1>3. ASSUME NEW pair \in PairsOf(cache')
      PROVE  Keepable(pair.key, heap'[pair.entry])
  <2> DEFINE k == pair.key
  <2>1. k \in Keys /\ pair.entry = cache'[k] /\ cache'[k] # null
    BY PairFields
  <2>2. file # null /\ Restored
    <3>1. UNCHANGED cache => PairsOf(cache') = {}
      BY <1>1
    <3> QED
      BY <3>1 DEF StartAsync, RestoreFails
  <2>3. cache'[k] = <<k, 0>> /\ \E item \in file.entries : KeyRead(item) = k
    BY <2>1, <2>2 DEF Restored
  <2>4. <<k, 0>> \in Refs
    BY <2>1, Bounds DEF Refs
  <2>5. heap'[<<k, 0>>] = ItemRead(file.entries, k)
    BY <2>2, <2>3, <2>4 DEF Restored
  <2>6. Kept(k, ItemRead(file.entries, k))
    BY <2>2, <2>3, KeptItemRead DEF RecoveryInv, AllKept, KeptDocuments
  <2> QED
    BY <2>1, <2>3, <2>5, <2>6 DEF Keepable
<1>4. KeptObjects' /\ KeptWalks'
  BY <1>1, <1>2, <1>3 DEF KeptObjects, KeptWalks, PairsOf
<1>5. KeptPromises'
  BY <1>2 DEF Watch, KeptPromises
<1>6. KeptDocuments'
  BY <1>2 DEF RecoveryInv, AllKept, KeptDocuments
<1> QED
  BY <1>4, <1>5, <1>6 DEF AllKept

LEMMA StopRecovery ==
  ASSUME RecoveryInv, Stop, Watch
  PROVE  AllKept'
<1>1. up /\ ~up' /\ file' = file /\ opened' = null
  BY DEF Stop, Down
<1>2. /\ PairsOf(cache') = {}
      /\ \A w \in Workers : array'[w] = {} /\ text'[w] = {}
  BY DEF Stop, Down, PairsOf
<1>3. KeptPromises'
  <2> SUFFICES ASSUME NEW p \in promised'
               PROVE  Keepable(p.key, p.entry)
    BY DEF KeptPromises
  <2>1. PICK f \in safe : p = [key |-> f.key, entry |-> heap[f.entry], part |-> f.part]
    BY <1>1 DEF Watch
  <2>2. p.key = f.key /\ p.entry = heap[f.entry]
    BY <2>1
  <2>3. Pair(f) \in PairsOf(cache)
    BY FactFields DEF RecoveryInv, BackupInv, Tracked, HistoryOK
  <2>4. Keepable(f.key, heap[f.entry])
    BY <2>3 DEF RecoveryInv, AllKept, KeptObjects, Pair
  <2> QED
    BY <2>2, <2>4
<1>4. KeptObjects' /\ KeptWalks'
  BY <1>2 DEF KeptObjects, KeptWalks, PairsOf
<1>5. KeptDocuments'
  BY <1>1, <1>2 DEF KeptDocuments, RecoveryInv, AllKept
<1> QED
  BY <1>3, <1>4, <1>5 DEF AllKept

LEMMA KeyRecovery ==
  ASSUME KeptPuts, RecoveryInv, Watch, NEW k \in Keys,
         Get(k) \/ Remove(k) \/ \E entry \in Puts[k] : Put(k, entry)
  PROVE  AllKept'
<1>1. up' /\ UNCHANGED <<pc, opened, array, walk, text, file>>
  BY DEF Get, Remove, Put, buffers
<1>2. CASE Get(k)
  <2>1. [key |-> k, entry |-> cache[k]] \in PairsOf(cache)
    BY <1>2 DEF Get, PairsOf
  <2>2. Keepable(k, heap[cache[k]])
    BY <2>1 DEF RecoveryInv, AllKept, KeptObjects
  <2>3. now \in Nat /\ cache[k] \in Refs
    BY <1>2, CollectorAssumption DEF Get, RecoveryInv, BackupInv, CollectorInv, ProviderOK
  <2>4. UpdateSliding(heap[cache[k]], now) = heap[cache[k]]
    BY <1>2, <2>2, <2>3, LiveIsKept DEF Get
  <2>5. heap' = heap
    BY <1>2, <2>3, <2>4 DEF Get, RecoveryInv, BackupInv, CollectorInv, ProviderOK
  <2>6. PairsOf(cache') = PairsOf(cache)
    BY <1>2 DEF Get
  <2> QED
    BY <1>1, <2>5, <2>6, SameIsKept, KeptOutside
<1>3. CASE Remove(k)
  <2>1. PairsOf(cache') \subseteq PairsOf(cache) /\ heap' = heap
    BY <1>3 DEF Remove, PairsOf, RecoveryInv, BackupInv, CollectorInv, ProviderOK
  <2> QED
    BY <1>1, <2>1, SameIsKept, KeptOutside
<1>4. ASSUME NEW entry \in Puts[k], Put(k, entry)
      PROVE  AllKept'
  <2>1. Keepable(k, entry)
    BY DEF KeptPuts
  <2>2. StaysKept
    BY <1>4, PutIsNew DEF RecoveryInv, StaysKept
  <2>3. \A pair \in PairsOf(cache') :
          pair \in PairsOf(cache) \/ Keepable(pair.key, heap'[pair.entry])
    BY <1>4, <2>1, PutIsNew DEF RecoveryInv
  <2> QED
    BY <1>1, <2>2, <2>3, KeptOutside
<1> QED
  BY <1>2, <1>3, <1>4

LEMMA MemberRecovery ==
  ASSUME RecoveryInv, Watch, NEW r \in Refs, NEW value \in Values,
         AddMember(r, value) \/ RemoveMember(r, value)
  PROVE  AllKept'
<1>1. up' /\ UNCHANGED <<cache, pc, opened, array, text, file>>
  BY DEF AddMember, RemoveMember, buffers
<1>2. heap[r] \in EntriesOf(Contents \cup {null}) /\ value \in Texts
  BY CollectorAssumption DEF RecoveryInv, BackupInv, CollectorInv, ProviderOK
<1>3. MembersOf(heap[r]) \subseteq Texts
  BY <1>2, SetType
<1>4. IsSet(heap[r])
  BY DEF AddMember, RemoveMember, MembersOf
<1>5. PICK others \in SUBSET Texts : heap' = [heap EXCEPT ![r] = WithMembers(heap[r], others)]
  <2>1. CASE AddMember(r, value)
    <3>1. MembersOf(heap[r]) \cup {value} \in SUBSET Texts
      BY <1>2, <1>3
    <3> QED
      BY <2>1, <3>1 DEF AddMember
  <2>2. CASE RemoveMember(r, value)
    <3>1. MembersOf(heap[r]) \ {value} \in SUBSET Texts
      BY <1>3
    <3> QED
      BY <2>2, <3>1 DEF RemoveMember
  <2> QED
    BY <2>1, <2>2
<1>6. StaysKept
  <2> SUFFICES ASSUME NEW x, Born(x)
               PROVE  /\ Kept(x.key, heap[x.entry]) => Kept(x.key, heap'[x.entry])
                      /\ Keepable(x.key, heap[x.entry]) => Keepable(x.key, heap'[x.entry])
    BY DEF StaysKept
  <2>1. x.key \in Keys /\ x.entry \in Refs
    BY BornIsTyped DEF RecoveryInv
  <2>2. heap'[x.entry] = IF x.entry = r THEN WithMembers(heap[r], others) ELSE heap[x.entry]
    BY <1>5, <2>1 DEF RecoveryInv, BackupInv, CollectorInv, ProviderOK
  <2>3. /\ Kept(x.key, heap[r]) => Kept(x.key, WithMembers(heap[r], others))
        /\ Keepable(x.key, heap[r]) => Keepable(x.key, WithMembers(heap[r], others))
    BY <1>2, <1>4, <2>1, KeptChanges
  <2> QED
    BY <2>2, <2>3
<1>7. \A w \in Workers : walk'[w].entry = walk[w].entry
  <2>1. CASE AddMember(r, value)
    BY <2>1 DEF AddMember, RecoveryInv, BackupInv, CollectorInv, BuffersOK
  <2>2. CASE RemoveMember(r, value)
    BY <2>2 DEF RemoveMember, buffers
  <2> QED
    BY <2>1, <2>2
<1>8. PairsOf(cache') = PairsOf(cache)
  BY <1>1
<1> QED
  BY <1>1, <1>6, <1>7, <1>8, KeptOutside

(* The steps of a job that write no entry.                                 *)
LEMMA JobRecovery ==
  ASSUME RecoveryInv, Watch, NEW w \in Workers, CleanBegin(w) \/ BackupBegin(w) \/ Job(w),
         ~\E pair \in array[w] : WriteEntry(w, pair) \/ WalkBegin(w, pair),
         ~\E pair \in array[w], members \in SUBSET walk[w].seen : WalkEnd(w, pair, members)
  PROVE  AllKept'
<1> DEFINE Visits == \E k \in Keys : Visit(w, k)
           Throws1 == \E pair \in array[w] : WriteThrows(w, pair)
<1>0. \/ CleanBegin(w) \/ CleanFlag(w) \/ CleanExpired(w) \/ CleanEnd(w) \/ BackupBegin(w)
      \/ BackupFlag(w) \/ OpenWrite(w) \/ Count(w) \/ Visits \/ Enumerated(w) \/ Throws1
      \/ WalkThrows(w) \/ Flush(w) \/ Close(w) \/ CloseUnwritten(w) \/ BackupEnd(w)
  BY DEF Job
<1>1. UNCHANGED <<up, heap>>
  BY <1>0 DEF CleanBegin, BackupBegin, Begin, CleanFlag, CleanExpired, CleanEnd, BackupFlag,
     OpenWrite, Count, Visit, Enumerated, WriteThrows, WalkThrows, Flush, Close, CloseUnwritten,
     BackupEnd, provider
<1>2. PairsOf(cache') \subseteq PairsOf(cache)
  <2>1. CASE CleanExpired(w)
    BY <2>1 DEF CleanExpired, PairsOf
  <2>2. CASE ~CleanExpired(w)
    BY <1>0, <2>2 DEF CleanBegin, BackupBegin, Begin, CleanFlag, CleanEnd, BackupFlag,
       OpenWrite, Count, Visit, Enumerated, WriteThrows, WalkThrows, Flush, Close, CloseUnwritten,
       BackupEnd, provider
  <2> QED
    BY <2>1, <2>2
<1>3. \A v \in Workers : array'[v] \subseteq array[v] \cup PairsOf(cache)
  <2>1. CASE Visits
    <3>1. PICK k \in Keys : Visit(w, k)
      BY <2>1
    <3>2. cache[k] # null => [key |-> k, entry |-> cache[k]] \in PairsOf(cache)
      BY DEF PairsOf
    <3> QED
      BY <3>1, <3>2 DEF Visit, RecoveryInv, BackupInv, CollectorInv, BuffersOK
  <2>2. CASE BackupEnd(w)
    BY <2>2 DEF BackupEnd, RecoveryInv, BackupInv, CollectorInv, BuffersOK
  <2>3. CASE ~BackupEnd(w) /\ ~Visits
    BY <1>0, <2>3 DEF CleanBegin, BackupBegin, Begin, CleanFlag, CleanExpired, CleanEnd, BackupFlag,
       OpenWrite, Count, Enumerated, WriteThrows, WalkThrows, Flush, Close, CloseUnwritten, buffers
  <2> QED
    BY <2>1, <2>2, <2>3
<1>4. \A v \in Workers : text'[v] \subseteq KeptItems
  <2>1. CASE BackupEnd(w)
    BY <2>1 DEF BackupEnd, RecoveryInv, AllKept, KeptDocuments, BackupInv, CollectorInv, BuffersOK
  <2>2. CASE ~BackupEnd(w)
    <3>1. text' = text
      BY <1>0, <2>2 DEF CleanBegin, BackupBegin, Begin, CleanFlag, CleanExpired, CleanEnd, BackupFlag,
         OpenWrite, Count, Visit, Enumerated, WriteThrows, WalkThrows, Flush, Close, CloseUnwritten,
         buffers
    <3> QED
      BY <3>1 DEF RecoveryInv, AllKept, KeptDocuments
  <2> QED
    BY <2>1, <2>2
<1>5. file' # null \/ opened' # null => file'.entries \subseteq KeptItems
  <2>1. CASE OpenWrite(w)
    BY <2>1 DEF OpenWrite, Document, RecoveryInv, AllKept, KeptDocuments
  <2>2. CASE Flush(w)
    BY <2>2 DEF Flush, Document, RecoveryInv, AllKept, KeptDocuments
  <2>3. CASE Close(w)
    <3>1. opened = w
      BY <2>3 DEF Close, RecoveryInv, BackupInv, CollectorInv, WorkersOK
    <3> QED
      BY <2>3, <3>1, CollectorAssumption DEF Close, Document, RecoveryInv, AllKept, KeptDocuments
  <2>4. CASE ~OpenWrite(w) /\ ~Flush(w) /\ ~Close(w)
    <3>1. file' = file /\ (opened' = opened \/ opened' = null)
      BY <1>0, <2>4 DEF CleanBegin, BackupBegin, Begin, CleanFlag, CleanExpired, CleanEnd, BackupFlag,
         Count, Visit, Enumerated, WriteThrows, WalkThrows, CloseUnwritten, BackupEnd
    <3> QED
      BY <3>1 DEF RecoveryInv, AllKept, KeptDocuments
  <2> QED
    BY <2>1, <2>2, <2>3, <2>4
<1>6. ASSUME NEW v \in Workers, pc'[v] = "walk"
      PROVE  pc[v] = "walk" /\ array'[v] = array[v] /\ walk'[v] = walk[v]
  <2>1. CASE Visits
    <3>1. PICK k \in Keys : Visit(w, k)
      BY <2>1
    <3>2. pc[v] = "walk" /\ v # w /\ walk'[v] = walk[v]
      BY <1>6, <3>1 DEF Visit
    <3> QED
      BY <3>1, <3>2 DEF Visit, RecoveryInv, BackupInv, CollectorInv, BuffersOK
  <2>2. CASE ~Visits
    <3>1. \/ Goto(w, "count") \/ Goto(w, "end") \/ Goto(w, "write") \/ Goto(w, "throw")
          \/ Goto(w, "clean") \/ Goto(w, "cleanExpired") \/ Goto(w, "cleanEnd") \/ Goto(w, "free")
          \/ Goto(w, "backup") \/ Goto(w, "open") \/ Goto(w, "enumerate") \/ Goto(w, "close")
      BY <1>0, <2>2 DEF CleanBegin, BackupBegin, Begin, CleanFlag, CleanExpired, CleanEnd, BackupFlag,
         OpenWrite, Count, Enumerated, WriteThrows, WalkThrows, Flush, Close, CloseUnwritten, BackupEnd
    <3>2. v # w /\ pc[v] = "walk"
      <4>1. pc'[w] # "walk" /\ \A u \in Workers : u # w => pc'[u] = pc[u]
        BY <3>1, GotoFacts DEF RecoveryInv
      <4> QED
        BY <1>6, <4>1
    <3>3. array'[v] = array[v] /\ walk'[v] = walk[v]
      <4>1. CASE BackupEnd(w) \/ WalkThrows(w)
        BY <3>2, <4>1 DEF BackupEnd, WalkThrows, RecoveryInv, BackupInv, CollectorInv, BuffersOK
      <4>2. CASE ~BackupEnd(w) /\ ~WalkThrows(w)
        BY <1>0, <2>2, <4>2 DEF CleanBegin, BackupBegin, Begin, CleanFlag, CleanExpired, CleanEnd,
           BackupFlag, OpenWrite, Count, Enumerated, WriteThrows, Flush, Close, CloseUnwritten,
           buffers
      <4> QED
        BY <4>1, <4>2
    <3> QED
      BY <3>2, <3>3
  <2> QED
    BY <2>1, <2>2
<1>7. \A v \in Workers : pc'[v] = "walk" =>
        \A pair \in array'[v] : pair.entry = walk'[v].entry => Kept(pair.key, heap[pair.entry])
  BY <1>6 DEF RecoveryInv, AllKept, KeptWalks
<1>8. up' \/ ~up
  BY <1>1
<1> QED
  BY <1>1, <1>2, <1>3, <1>4, <1>5, <1>7, <1>8, SameIsKept, KeptStep

(* What is about to be written is what the format keeps.                   *)
LEMMA WrittenIsKept ==
  ASSUME RecoveryInv, NEW w \in Workers, NEW pair \in array[w], ~Throws(heap[pair.entry], now)
  PROVE  /\ pair.key \in Keys /\ pair.entry \in Refs
         /\ Kept(pair.key, heap[pair.entry])
         /\ [heap EXCEPT ![pair.entry] = UpdateSliding(@, now)] = heap
<1>1. pair.key \in Keys /\ pair.entry \in Refs
  BY BornIsTyped DEF RecoveryInv, BackupInv, Tracked, ObjectsBorn
<1>2. Keepable(pair.key, heap[pair.entry]) /\ now \in Nat
  BY CollectorAssumption DEF RecoveryInv, AllKept, KeptObjects, BackupInv, CollectorInv, ProviderOK
<1>3. Kept(pair.key, heap[pair.entry]) /\ UpdateSliding(heap[pair.entry], now) = heap[pair.entry]
  BY <1>2, LiveIsKept DEF Throws
<1>4. [heap EXCEPT ![pair.entry] = UpdateSliding(@, now)] = heap
  BY <1>1, <1>3 DEF RecoveryInv, BackupInv, CollectorInv, ProviderOK
<1> QED
  BY <1>1, <1>3, <1>4

LEMMA WriteRecovery ==
  ASSUME RecoveryInv, Watch, NEW w \in Workers, NEW pair \in array[w], WriteEntry(w, pair)
  PROVE  AllKept'
<1>1. UNCHANGED <<up, cache, pc, opened, walk, file>>
  BY DEF WriteEntry
<1>2. /\ pair.key \in Keys /\ Kept(pair.key, heap[pair.entry]) /\ heap' = heap
      /\ pc[w] = "write"
  BY WrittenIsKept DEF WriteEntry
<1>3. Item(pair.key, heap[pair.entry]) \in KeptItems
  BY <1>2 DEF Kept, KeptItems
<1>4. \A v \in Workers : array'[v] \subseteq array[v] /\ text'[v] \subseteq KeptItems
  BY <1>3 DEF WriteEntry, RecoveryInv, AllKept, KeptDocuments, BackupInv, CollectorInv, BuffersOK
<1>5. up' \/ ~up
  BY <1>1
<1>6. \A v \in Workers : pc'[v] = "walk" =>
        \A p \in array'[v] : p.entry = walk'[v].entry => Kept(p.key, heap[p.entry])
  BY <1>1, <1>4 DEF RecoveryInv, AllKept, KeptWalks
<1>7. file' # null \/ opened' # null => file'.entries \subseteq KeptItems
  BY <1>1 DEF RecoveryInv, AllKept, KeptDocuments
<1>8. \A p \in PairsOf(cache') : p \in PairsOf(cache)
  BY <1>1
<1> QED
  BY <1>2, <1>4, <1>5, <1>6, <1>7, <1>8, SameIsKept, KeptStep

LEMMA WalkBeginRecovery ==
  ASSUME RecoveryInv, Watch, NEW w \in Workers, NEW pair \in array[w], WalkBegin(w, pair)
  PROVE  AllKept'
<1>1. UNCHANGED <<up, cache, opened, array, text, file>>
  BY DEF WalkBegin
<1>2. Kept(pair.key, heap[pair.entry]) /\ heap' = heap
  BY WrittenIsKept DEF WalkBegin
<1>3. /\ walk'[w].entry = pair.entry
      /\ \A v \in Workers : v # w => walk'[v] = walk[v] /\ pc'[v] = pc[v]
  BY GotoFacts DEF WalkBegin, Walk, RecoveryInv, BackupInv, CollectorInv, BuffersOK
<1>4. ASSUME NEW v \in Workers, pc'[v] = "walk", NEW p \in array'[v], p.entry = walk'[v].entry
      PROVE  Kept(p.key, heap[p.entry])
  <2>1. CASE v = w
    <3>1. Born(p) /\ Born(pair) /\ p.entry = pair.entry
      BY <1>1, <1>3, <1>4, <2>1 DEF RecoveryInv, BackupInv, Tracked, ObjectsBorn
    <3>2. p.key = pair.key
      BY <3>1 DEF Born
    <3> QED
      BY <1>2, <3>1, <3>2
  <2>2. CASE v # w
    BY <1>1, <1>3, <1>4, <2>2 DEF RecoveryInv, AllKept, KeptWalks
  <2> QED
    BY <2>1, <2>2
<1>5. up' \/ ~up
  BY <1>1
<1>6. /\ \A v \in Workers : text'[v] \subseteq KeptItems
      /\ file' # null \/ opened' # null => file'.entries \subseteq KeptItems
  BY <1>1 DEF RecoveryInv, AllKept, KeptDocuments
<1>7. /\ \A p \in PairsOf(cache') : p \in PairsOf(cache)
      /\ \A v \in Workers : array'[v] \subseteq array[v]
  BY <1>1
<1> QED
  BY <1>2, <1>4, <1>5, <1>6, <1>7, SameIsKept, KeptStep

LEMMA WalkEndRecovery ==
  ASSUME RecoveryInv, Watch, NEW w \in Workers, NEW pair \in array[w],
         NEW members \in SUBSET walk[w].seen, WalkEnd(w, pair, members)
  PROVE  AllKept'
<1>1. UNCHANGED <<up, cache, heap, opened, file>>
  BY DEF WalkEnd, provider
<1>2. pc[w] = "walk" /\ pc'[w] = "write" /\ \A v \in Workers : v # w => pc'[v] = pc[v]
  BY GotoFacts DEF WalkEnd, RecoveryInv
<1>3. pair.key \in Keys /\ pair.entry \in Refs /\ Kept(pair.key, heap[pair.entry])
  BY <1>2, BornIsTyped DEF WalkEnd, RecoveryInv, AllKept, KeptWalks, BackupInv, Tracked, ObjectsBorn
<1>4. heap[pair.entry] \in EntriesOf(Contents \cup {null}) /\ members \in SUBSET Texts
  BY <1>3 DEF RecoveryInv, BackupInv, CollectorInv, ProviderOK, BuffersOK
<1>5. IsSet(heap[pair.entry])
  BY <1>2 DEF WalkEnd, RecoveryInv, BackupInv, Tracked, BackupCopies, AtWork, Copies, Walks
<1>6. Kept(pair.key, WithMembers(heap[pair.entry], members))
  BY <1>3, <1>4, <1>5, KeptChanges
<1>7. Item(pair.key, WithMembers(heap[pair.entry], members)) \in KeptItems
  BY <1>3, <1>6 DEF Kept, KeptItems
<1>8. \A v \in Workers :
        /\ array'[v] \subseteq array[v] /\ text'[v] \subseteq KeptItems
        /\ v # w => walk'[v] = walk[v]
  BY <1>7 DEF WalkEnd, RecoveryInv, AllKept, KeptDocuments, BackupInv, CollectorInv, BuffersOK
<1>9. \A v \in Workers : pc'[v] = "walk" =>
        \A p \in array'[v] : p.entry = walk'[v].entry => Kept(p.key, heap[p.entry])
  BY <1>2, <1>8 DEF RecoveryInv, AllKept, KeptWalks
<1>10. up' \/ ~up
  BY <1>1
<1>11. file' # null \/ opened' # null => file'.entries \subseteq KeptItems
  BY <1>1 DEF RecoveryInv, AllKept, KeptDocuments
<1>12. \A p \in PairsOf(cache') : p \in PairsOf(cache)
  BY <1>1
<1> QED
  BY <1>1, <1>8, <1>9, <1>10, <1>11, <1>12, SameIsKept, KeptStep

LEMMA NextRecovery ==
  ASSUME KeptPuts, RecoveryInv, [HNext]_<<vars, history>>
  PROVE  RecoveryInv'
<1>1. BackupInv'
  BY NextBackup DEF RecoveryInv
<1>2. CASE UNCHANGED <<vars, history>>
  BY <1>1, <1>2 DEF vars, history, RecoveryInv, AllKept, KeptObjects, KeptWalks, PairsOf,
     KeptDocuments, KeptPromises
<1>3. ASSUME Next, Watch
      PROVE  AllKept'
  <2>1. CASE StartAsync \/ Stop
    BY <1>3, <2>1, StartRecovery, StopRecovery
  <2>2. CASE Tick
    <3>1. UNCHANGED <<up, cache, heap, pc, opened, array, walk, text, file>>
      BY <2>2 DEF Tick, buffers
    <3>2. up' \/ ~up
      BY <3>1
    <3>3. PairsOf(cache') = PairsOf(cache)
      BY <3>1
    <3> QED
      BY <1>3, <3>1, <3>2, <3>3, SameIsKept, KeptOutside
  <2>3. CASE Client
    BY <1>3, <2>3, KeyRecovery, MemberRecovery DEF Client
  <2>4. ASSUME NEW w \in Workers, CleanBegin(w) \/ BackupBegin(w) \/ Job(w)
        PROVE  AllKept'
    BY <1>3, <2>4, JobRecovery, WriteRecovery, WalkBeginRecovery, WalkEndRecovery
  <2> QED
    BY <1>3, <2>1, <2>2, <2>3, <2>4 DEF Next
<1> QED
  BY <1>1, <1>2, <1>3 DEF RecoveryInv, HNext

-----------------------------------------------------------------------------
(* A start that finds a complete file recovers what was promised.          *)
LEMMA StartRecovers ==
  ASSUME RecoveryInv, StartAsync, file # null, ~file.torn, NEW p \in promised
  PROVE  \/ Expired(p.entry, now)
         \/ /\ cache'[p.key] # null
            /\ Recovers(heap'[cache'[p.key]], p.entry, p.part)
<1> SUFFICES ASSUME ~Expired(p.entry, now)
             PROVE  cache'[p.key] # null /\ Recovers(heap'[cache'[p.key]], p.entry, p.part)
  OBVIOUS
<1> DEFINE k == p.key
<1>1. k \in Keys /\ Keepable(k, p.entry) /\ Tells(file.entries, k, p.entry, p.part)
  BY DEF RecoveryInv, AllKept, KeptPromises, BackupInv, Tracked, PromisedIsSaved, Readily
<1>2. now \in Nat
  BY CollectorAssumption DEF RecoveryInv, BackupInv, CollectorInv, ProviderOK
<1>3. Kept(k, p.entry)
  BY <1>1, <1>2, LiveIsKept
<1>4. file.entries \subseteq KeptItems
  BY DEF RecoveryInv, AllKept, KeptDocuments
<1>5. Restored
  BY <1>4, KeptReadable DEF StartAsync, RestoreFails
<1>6. /\ Recovers(ItemRead(file.entries, k), p.entry, p.part)
      /\ \E item \in file.entries : KeyRead(item) = k
  BY <1>1, <1>3, <1>4, ToldIsRead
<1>7. <<k, 0>> \in Refs /\ <<k, 0>> # null
  BY <1>1, Bounds, CollectorAssumption DEF Refs
<1>8. cache'[k] = <<k, 0>>
  BY <1>1, <1>5, <1>6 DEF Restored
<1>9. heap'[<<k, 0>>] = ItemRead(file.entries, k)
  BY <1>5, <1>6, <1>7 DEF Restored
<1> QED
  BY <1>6, <1>7, <1>8, <1>9

(* Whatever stops when, and whatever the clients add to the hash sets and  *)
(* take out of them, also while they are written: as long as they store    *)
(* values that the format keeps, without expiration, a start that does not *)
(* find the middle of a write has every entry, and every member, that was  *)
(* in the cache from the begin of a complete backup until the stop.        *)
THEOREM RecoveryCorrect ==
  ASSUME KeptPuts
  PROVE  HSpec => StoredIsRecovered
<1>1. RecoveryInv =>
        ( (StartAsync /\ file # null /\ ~file.torn) =>
            \A p \in promised :
              \/ Expired(p.entry, now)
              \/ /\ cache'[p.key] # null
                 /\ Recovers(heap'[cache'[p.key]], p.entry, p.part) )
  BY StartRecovers
<1> QED
  BY <1>1, InitRecovery, NextRecovery, PTL DEF HSpec, StoredIsRecovered

=============================================================================
