-------------------------- MODULE CollectorProofs ---------------------------
(***************************************************************************)
(* Theorems about BackupFormat, for any strings and any times, and about   *)
(* CacheCollector, for any keys, entries and workers.                      *)
(***************************************************************************)
EXTENDS CacheCollector, FiniteSetTheorems, TLAPS

-----------------------------------------------------------------------------
(* The format.                                                             *)

(* The first tokens of an entry whose value is one token.                  *)
LEMMA JsonStart ==
  ASSUME NEW entry, NEW v, ValueTokens(entry.value) = <<v>>
  PROVE  /\ Json(entry)[3] = v
         /\ entry.absolute = null /\ entry.sliding = null => Json(entry)[4] = EndObject
         /\ entry.absolute # null =>
              /\ Json(entry)[4] = Name("AbsoluteExpiration")
              /\ Json(entry)[5] = Token("String", entry.absolute)
         /\ entry.absolute = null /\ entry.sliding # null =>
              Json(entry)[4] = Name("SlidingExpiration")
<1>1. CASE entry.absolute = null /\ entry.sliding = null
  BY <1>1 DEF Json, Optional
<1>2. CASE entry.absolute # null /\ entry.sliding = null
  BY <1>2 DEF Json, Optional
<1>3. CASE entry.absolute = null /\ entry.sliding # null
  BY <1>3 DEF Json, Optional
<1>4. CASE entry.absolute # null /\ entry.sliding # null
  BY <1>4 DEF Json, Optional
<1> QED
  BY <1>1, <1>2, <1>3, <1>4

(* A backup keeps integers, and sets of any strings, that have no          *)
(* expiration: the restore reads the very value that was written.          *)
THEOREM RoundTrip ==
  ASSUME NEW entry, entry.absolute = null, entry.sliding = null, NEW keyType,
         \/ keyType = "Set" /\ entry.value \in BareTexts /\ entry.value.form = "Integer"
         \/ keyType = "HashSet" /\ entry.value \in Members(Texts)
  PROVE  /\ Readable(keyType, Json(entry))
         /\ EntryRead(Json(entry)) = NewEntry(entry.value, null, null)
<1>1. CASE keyType = "Set" /\ entry.value.form = "Integer"
  <2>1. ValueTokens(entry.value) = <<Token("Number", entry.value)>>
    BY <1>1 DEF ValueTokens
  <2>2. /\ Json(entry)[3] = Token("Number", entry.value)
        /\ Json(entry)[4] = EndObject
    BY <2>1, JsonStart
  <2>3. [form |-> "Integer", body |-> entry.value.body] = entry.value
    BY <1>1 DEF BareTexts
  <2> QED
    BY <1>1, <2>2, <2>3 DEF Readable, ReadsValue, EntryRead, ValueRead, HasAbsolute, HasSliding,
       AfterValue, AfterAbsolute, Token, EndObject
<1>2. CASE keyType = "HashSet" /\ entry.value.form = "Members"
  <2>1. ValueTokens(entry.value) = <<Token("Array", entry.value)>>
    BY <1>2 DEF ValueTokens
  <2>2. /\ Json(entry)[3] = Token("Array", entry.value)
        /\ Json(entry)[4] = EndObject
    BY <2>1, JsonStart
  <2> QED
    BY <1>2, <2>2 DEF Readable, ReadsValue, EntryRead, ValueRead, HasAbsolute, HasSliding,
       AfterValue, AfterAbsolute, Token, EndObject
<1> QED
  BY <1>1, <1>2 DEF Members

(* An entry with an expiration, of any kind and with any value, cannot be  *)
(* read back: the restore of every document that has one fails.            *)
THEOREM ExpirationUnreadable ==
  ASSUME NEW entry, NEW keyType, entry.absolute # null \/ entry.sliding # null
  PROVE  ~Readable(keyType, Json(entry))
<1>1. CASE \E v : ValueTokens(entry.value) = <<v>>
  <2>1. PICK v : ValueTokens(entry.value) = <<v>>
    BY <1>1
  <2>2. CASE entry.absolute # null
    <3>1. /\ Json(entry)[4] = Name("AbsoluteExpiration")
          /\ Json(entry)[5] = Token("String", entry.absolute)
      BY <2>1, <2>2, JsonStart
    <3>2. Json(entry)[4].type = "PropertyName" /\ Json(entry)[5].type = "String"
      BY <3>1 DEF Name, Token
    <3> QED
      BY <3>2 DEF Readable, HasAbsolute, HasSliding, AfterValue, AfterAbsolute, Named
  <2>3. CASE entry.absolute = null /\ entry.sliding # null
    <3>1. Json(entry)[4] = Name("SlidingExpiration")
      BY <2>1, <2>3, JsonStart
    <3> QED
      BY <3>1 DEF Readable, HasAbsolute, AfterValue, Named, Name, Token
  <2> QED
    BY <2>2, <2>3
<1>2. CASE ValueTokens(entry.value) = <<Token("StartObject", null), EndObject>>
  <2>1. Json(entry)[3] = Token("StartObject", null)
    BY <1>2 DEF Json, Optional
  <2> QED
    BY <2>1 DEF Readable, Token
<1>3. CASE entry.value.form \notin {"Integer", "OddInteger", "OtherNumber", "Literal", "Quoted", "Members"}
  <2>1. ValueTokens(entry.value) = <<Token("StartObject", null), EndObject>>
    BY <1>3 DEF ValueTokens
  <2> QED
    BY <1>2, <2>1
<1>4. CASE entry.value.form \in {"Integer", "OddInteger", "OtherNumber", "Literal", "Quoted", "Members"}
  <2>1. \/ ValueTokens(entry.value) = <<Token("Number", entry.value)>>
        \/ ValueTokens(entry.value) = <<Token("Literal", entry.value)>>
        \/ ValueTokens(entry.value) = <<Token("String", entry.value.body)>>
        \/ ValueTokens(entry.value) = <<Token("Array", entry.value)>>
    BY <1>4 DEF ValueTokens
  <2> QED
    BY <1>1, <2>1
<1> QED
  BY <1>3, <1>4

(* And nothing else is kept.  Of the entries that can be written, exactly  *)
(* the sets of strings and the strings that are integers, without any      *)
(* expiration, come back as they were: every other one makes the whole     *)
(* document unreadable, or comes back with another value.                  *)
THEOREM ReadAsWritten ==
  ASSUME NEW entry, NEW keyType, NEW time, ~Throws(entry, time),
         \/ keyType = "Set" /\ entry.value \in Texts
         \/ keyType = "HashSet" /\ entry.value \in Members(Texts)
  PROVE  ( /\ Readable(keyType, Json(entry))
           /\ EntryRead(Json(entry)).value = entry.value )
           <=> ( /\ entry.absolute = null /\ entry.sliding = null
                 /\ keyType = "Set" => entry.value.form = "Integer" )
<1> DEFINE v == entry.value
<1>1. ASSUME entry.absolute = null, entry.sliding = null,
             keyType = "Set" => v.form = "Integer"
      PROVE  Readable(keyType, Json(entry)) /\ EntryRead(Json(entry)).value = v
  <2>1. keyType = "Set" => v \in BareTexts
    BY <1>1 DEF Texts, QuotedTexts
  <2> QED
    BY <1>1, <2>1, RoundTrip DEF NewEntry
<1>2. ASSUME Readable(keyType, Json(entry)), EntryRead(Json(entry)).value = v
      PROVE  /\ entry.absolute = null /\ entry.sliding = null
             /\ keyType = "Set" => v.form = "Integer"
  <2>1. entry.absolute = null /\ entry.sliding = null
    BY <1>2, ExpirationUnreadable
  <2>2. SUFFICES ASSUME keyType = "Set", v.form # "Integer"
                 PROVE  FALSE
    BY <2>1
  <2>3. v \in Texts /\ v # null /\ v.form # "Plain"
    BY <2>2 DEF Throws
  <2>4. Json(entry)[3] = ValueTokens(v)[1]
    BY <2>3 DEF Json, ValueTokens, Optional
  <2>5. EntryRead(Json(entry)).value = ValueRead(Json(entry)[3])
    BY DEF EntryRead, NewEntry
  <2>6. CASE v.form = "OtherNumber"
    BY <1>2, <2>2, <2>4, <2>6 DEF ValueTokens, Readable, ReadsValue, Token
  <2>10. CASE v.form = "OddInteger"
    BY <1>2, <2>4, <2>5, <2>10 DEF ValueTokens, ValueRead, Token
  <2>7. CASE v.form = "Composite"
    BY <1>2, <2>4, <2>7 DEF ValueTokens, Readable, Token
  <2>8. CASE v.form = "Literal"
    BY <1>2, <2>3, <2>4, <2>5, <2>8 DEF ValueTokens, ValueRead, Token
  <2>9. CASE v.form = "Quoted"
    <3>1. v.body.form # "Quoted"
      BY <2>3, <2>9 DEF Texts, BareTexts, QuotedTexts, Forms
    <3> QED
      BY <1>2, <2>4, <2>5, <2>9, <3>1 DEF ValueTokens, ValueRead, Token
  <2> QED
    BY <2>2, <2>3, <2>6, <2>7, <2>8, <2>9, <2>10 DEF Texts, BareTexts, QuotedTexts, Forms
<1> QED
  BY <1>1, <1>2

(* A JSON string that holds no JSON goes into the backup, and comes back   *)
(* without its quotes: from then on no document can be written as long as  *)
(* the key has it.                                                         *)
THEOREM UnquotedThrows ==
  ASSUME NEW entry, entry.absolute = null, entry.sliding = null,
         entry.value \in QuotedTexts, entry.value.body.form = "Plain",
         entry.slidingFromNow = null, NEW time, null \notin QuotedTexts
  PROVE  /\ ~Throws(entry, time)
         /\ Readable("Set", Json(entry))
         /\ Throws(EntryRead(Json(entry)), time)
<1>1. ValueTokens(entry.value) = <<Token("String", entry.value.body)>>
  BY DEF ValueTokens, QuotedTexts
<1>2. /\ Json(entry)[3] = Token("String", entry.value.body)
      /\ Json(entry)[4] = EndObject
  BY <1>1, JsonStart
<1>3. ~Throws(entry, time)
  BY DEF Throws, Expired, PastAbsolute, PastSliding, QuotedTexts
<1>4. Readable("Set", Json(entry))
  BY <1>2 DEF Readable, ReadsValue, HasAbsolute, HasSliding, AfterValue, AfterAbsolute,
     Token, EndObject
<1>5. EntryRead(Json(entry)).value = entry.value.body
  BY <1>2 DEF EntryRead, ValueRead, NewEntry, Token
<1> QED
  BY <1>3, <1>4, <1>5 DEF Throws

-----------------------------------------------------------------------------
(* The collector.                                                          *)

(* What a backup can contain.                                              *)
Items == {Item(k, e) : k \in Keys, e \in EntriesOf(Contents)}

Documents == [entries : SUBSET Items, torn : BOOLEAN]

(* CollectorTypeOK in parts, with what the documents are made of.          *)
ProviderOK ==
  /\ now \in 0 .. MaxTime
  /\ up \in BOOLEAN
  /\ cache \in [Keys -> Refs \cup {null}]
  /\ heap \in [Refs -> EntriesOf(Contents \cup {null})]
  /\ made \in [Keys -> 0 .. MaxEntries]

FlagsOK == _isCleaning \in BOOLEAN /\ _runningBackup \in BOOLEAN

BuffersOK ==
  /\ size \in [Workers -> 0 .. Cardinality(Keys)]
  /\ rest \in [Workers -> SUBSET Keys]
  /\ array \in [Workers -> SUBSET [key : Keys, entry : Refs]]
  /\ walk \in [Workers -> [entry : Refs \cup {null}, seen : SUBSET Texts, broken : BOOLEAN]]
  /\ text \in [Workers -> SUBSET Items]

WorkersOK ==
  /\ pc \in [Workers -> Labels]
  /\ \A w \in Workers :
       opened = w <=> pc[w] \in {"count", "enumerate", "write", "walk", "throw", "close"}

DocumentsOK ==
  /\ file \in Documents \cup {null}
  /\ opened # null => file \in Documents

CollectorInv ==
  ProviderOK /\ FlagsOK /\ BuffersOK /\ WorkersOK /\ DocumentsOK /\ FlagsHaveOwners

LEMMA CollectorTypes == CollectorInv => CollectorTypeOK
BY DEF CollectorInv, ProviderOK, FlagsOK, BuffersOK, WorkersOK, DocumentsOK, Documents, CollectorTypeOK

-----------------------------------------------------------------------------
(* What the format reads back is an entry, and has no expiration.          *)
LEMMA ReadType ==
  ASSUME NEW entry \in EntriesOf(Contents), NEW keyType, Readable(keyType, Json(entry))
  PROVE  EntryRead(Json(entry)) \in EntriesOf(Contents \cup {null})
<1>1. entry.absolute = null /\ entry.sliding = null
  BY ExpirationUnreadable
<1> DEFINE v == entry.value
<1>2. v \in Contents
  BY DEF EntriesOf
<1>3. CASE \E token : ValueTokens(v) = <<token>>
  <2>1. PICK token : ValueTokens(v) = <<token>>
    BY <1>3
  <2>2. Json(entry)[3] = token /\ Json(entry)[4] = EndObject
    BY <1>1, <2>1, JsonStart
  <2>3. ~HasAbsolute(Json(entry)) /\ ~HasSliding(Json(entry))
    BY <2>2 DEF HasAbsolute, HasSliding, AfterValue, AfterAbsolute, EndObject, Token
  <2>4. \/ /\ v.form \in {"Integer", "OddInteger", "OtherNumber"}
           /\ token = Token("Number", v)
        \/ token = Token("Literal", v)
        \/ v.form = "Quoted" /\ token = Token("String", v.body)
        \/ token = Token("Array", v)
    BY <2>1 DEF ValueTokens
  <2>5. v.form = "Quoted" => v.body \in Contents
    BY <1>2 DEF Contents, Texts, BareTexts, QuotedTexts, Members, Forms
  <2>6. v.form \in {"Integer", "OddInteger", "OtherNumber"}
          => [form |-> "Integer", body |-> v.body] \in Contents
    BY <1>2 DEF Contents, Texts, BareTexts, QuotedTexts, Members, Forms
  <2>7. ValueRead(token) \in Contents \cup {null}
    BY <1>2, <2>4, <2>5, <2>6 DEF ValueRead, Token
  <2> QED
    BY <2>2, <2>3, <2>7 DEF EntryRead, NewEntry, EntriesOf
<1>4. CASE ~\E token : ValueTokens(v) = <<token>>
  <2>1. ValueTokens(v) = <<Token("StartObject", null), EndObject>>
    BY <1>4 DEF ValueTokens
  <2>2. Json(entry)[3] = Token("StartObject", null)
    BY <2>1 DEF Json, Optional
  <2> QED
    BY <2>2 DEF Readable, Token
<1> QED
  BY <1>3, <1>4

LEMMA RestoredType ==
  ASSUME DocumentsOK, file # null, Restored
  PROVE  /\ cache' \in [Keys -> Refs \cup {null}]
         /\ heap' \in [Refs -> EntriesOf(Contents \cup {null})]
<1> DEFINE entries == file.entries
           keys == {KeyRead(item) : item \in entries}
<1>1. entries \subseteq Items /\ DocumentReadable(entries)
  BY DEF DocumentsOK, Documents, Restored
<1>2. ASSUME NEW k \in keys
      PROVE  ItemRead(entries, k) \in EntriesOf(Contents \cup {null})
  <2> DEFINE item == CHOOSE i \in entries : KeyRead(i) = k
  <2>1. item \in entries
    OBVIOUS
  <2> HIDE DEF item
  <2>2. PICK j \in Keys, e \in EntriesOf(Contents) : item = Item(j, e)
    BY <1>1, <2>1 DEF Items
  <2>3. KeyRead(item) = j /\ EntryJson(item) = Json(e)
    BY <2>2 DEF Item, KeyRead, EntryJson
  <2>4. Readable(j.KeyType, Json(e))
    BY <1>1, <2>1, <2>3 DEF DocumentReadable
  <2> QED
    BY <2>3, <2>4, ReadType DEF ItemRead, item
<1>3. Unborn \in EntriesOf(Contents \cup {null})
  BY DEF Unborn, NewEntry, EntriesOf
<1>4. 0 \in 0 .. MaxEntries
  BY CollectorAssumption
<1> QED
  BY <1>2, <1>3, <1>4 DEF Restored, Refs

LEMMA RenewedType ==
  ASSUME NEW C, NEW entry \in EntriesOf(C), now \in Nat
  PROVE  /\ UpdateSliding(entry, now) \in EntriesOf(C)
         /\ UpdateSliding(entry, now).value = entry.value
         /\ UpdateSliding(entry, now).absolute = entry.absolute
         /\ UpdateSliding(entry, now).sliding = entry.sliding
<1>1. CASE entry.sliding = null
  BY <1>1 DEF UpdateSliding
<1>2. CASE entry.sliding # null
  <2> DEFINE span == entry.sliding
  <2>0. span \in Nat
    BY <1>2, TimesAssumption DEF EntriesOf
  <2>1. now + span \in Nat
    BY <2>0
  <2> QED
    BY <1>2, <2>1 DEF UpdateSliding, EntriesOf
<1> QED
  BY <1>1, <1>2

(* The members of a set are strings, and with others it is still an entry. *)
LEMMA SetType ==
  ASSUME NEW entry \in EntriesOf(Contents \cup {null})
  PROVE  /\ MembersOf(entry) \subseteq Texts
         /\ \A members \in SUBSET Texts :
              WithMembers(entry, members) \in EntriesOf(Contents \cup {null})
<1>1. IsSet(entry) => entry.value \in Members(Texts)
  BY DEF IsSet, EntriesOf, Contents, Texts, BareTexts, QuotedTexts, Forms
<1>2. MembersOf(entry) \subseteq Texts
  BY <1>1 DEF MembersOf, Members
<1>3. ASSUME NEW members \in SUBSET Texts
      PROVE  WithMembers(entry, members) \in EntriesOf(Contents \cup {null})
  <2>1. [form |-> "Members", body |-> members] \in Contents
    BY DEF Contents, Members
  <2> QED
    BY <2>1 DEF WithMembers, EntriesOf
<1> QED
  BY <1>2, <1>3

(* What is written of a set has a value.                                   *)
LEMMA WrittenType ==
  ASSUME NEW entry \in EntriesOf(Contents \cup {null}), NEW members \in SUBSET Texts
  PROVE  WithMembers(entry, members) \in EntriesOf(Contents)
<1>1. [form |-> "Members", body |-> members] \in Contents
  BY DEF Contents, Members
<1> QED
  BY <1>1 DEF WithMembers, EntriesOf

LEMMA NoWalkType ==
  NoWalk \in [entry : Refs \cup {null}, seen : SUBSET Texts, broken : BOOLEAN]
BY DEF NoWalk, Walk

(* No more entries are counted than there are keys.                        *)
LEMMA StoredCount == Cardinality(Stored) \in 0 .. Cardinality(Keys)
<1>1. IsFiniteSet(Keys) /\ Stored \subseteq Keys
  BY CollectorAssumption DEF Stored
<1>2. IsFiniteSet(Stored) /\ Cardinality(Stored) <= Cardinality(Keys)
  BY <1>1, FS_Subset
<1> QED
  BY <1>1, <1>2, FS_CardinalityType

-----------------------------------------------------------------------------
LEMMA Bounds == 0 \in 0 .. MaxTime /\ 0 \in 0 .. MaxEntries
BY CollectorAssumption

(* The process before it starts has nothing in hand.                       *)
LEMMA InitCollector == Init => CollectorInv
<1> SUFFICES ASSUME Init
             PROVE  CollectorInv
  OBVIOUS
<1>1. Unborn \in EntriesOf(Contents \cup {null})
  BY DEF Unborn, NewEntry, EntriesOf
<1>2. Cardinality(Keys) \in Nat
  BY CollectorAssumption, FS_CardinalityType
<1>3. ProviderOK
  BY <1>1, Bounds DEF Init, ProviderOK
<1>4. BuffersOK
  BY <1>2, NoWalkType DEF Init, BuffersOK
<1>5. WorkersOK
  <2>1. pc \in [Workers -> Labels]
    BY DEF Init, Labels
  <2>2. \A w \in Workers : pc[w] = "free" /\ opened # w
    BY CollectorAssumption DEF Init
  <2> QED
    BY <2>1, <2>2 DEF WorkersOK
<1> QED
  BY <1>3, <1>4, <1>5 DEF Init, CollectorInv, FlagsOK, DocumentsOK, FlagsHaveOwners

LEMMA StopCollector ==
  ASSUME CollectorInv, Stop
  PROVE  CollectorInv'
<1>1. Unborn \in EntriesOf(Contents \cup {null})
  BY DEF Unborn, NewEntry, EntriesOf
<1>2. Cardinality(Keys) \in Nat
  BY CollectorAssumption, FS_CardinalityType
<1>3. ProviderOK'
  BY <1>1, Bounds DEF Stop, Down, CollectorInv, ProviderOK
<1>4. BuffersOK'
  BY <1>2, NoWalkType DEF Stop, Down, BuffersOK
<1>5. WorkersOK'
  <2>1. pc' \in [Workers -> Labels]
    BY DEF Stop, Down, Labels
  <2>2. \A w \in Workers : pc'[w] = "free" /\ opened' # w
    BY CollectorAssumption DEF Stop, Down
  <2> QED
    BY <2>1, <2>2 DEF WorkersOK
<1> QED
  BY <1>3, <1>4, <1>5 DEF Stop, Down, CollectorInv, FlagsOK, DocumentsOK, FlagsHaveOwners

(* What the jobs have in hand is as good as before when none takes a step. *)
LEMMA JobsStay ==
  ASSUME CollectorInv, UNCHANGED <<flags, pc, opened, buffers, file>>
  PROVE  FlagsOK' /\ BuffersOK' /\ WorkersOK' /\ DocumentsOK' /\ FlagsHaveOwners'
<1>1. FlagsOK' /\ FlagsHaveOwners'
  BY DEF CollectorInv, flags, FlagsOK, FlagsHaveOwners
<1>2. BuffersOK' /\ DocumentsOK'
  BY DEF CollectorInv, buffers, BuffersOK, DocumentsOK
<1>3. WorkersOK'
  BY DEF CollectorInv, WorkersOK
<1> QED
  BY <1>1, <1>2, <1>3

LEMMA StartCollector ==
  ASSUME CollectorInv, StartAsync
  PROVE  CollectorInv'
<1>1. /\ cache' \in [Keys -> Refs \cup {null}]
      /\ heap' \in [Refs -> EntriesOf(Contents \cup {null})]
  BY RestoredType DEF StartAsync, RestoreFails, CollectorInv, ProviderOK
<1>2. ProviderOK'
  BY <1>1 DEF StartAsync, CollectorInv, ProviderOK
<1> QED
  BY <1>2, JobsStay DEF StartAsync, CollectorInv

LEMMA ClientCollector ==
  ASSUME CollectorInv, NEW k \in Keys,
         Get(k) \/ Remove(k) \/ \E entry \in Puts[k] : Put(k, entry)
  PROVE  CollectorInv'
<1>1. CASE Remove(k)
  <2>1. ProviderOK'
    BY <1>1 DEF Remove, CollectorInv, ProviderOK
  <2> QED
    BY <1>1, <2>1, JobsStay DEF Remove, CollectorInv
<1>2. ASSUME NEW entry \in Puts[k], Put(k, entry)
      PROVE  CollectorInv'
  <2>1. made[k] + 1 \in 0 .. MaxEntries /\ made'[k] = made[k] + 1
    BY <1>2, CollectorAssumption DEF Put, CollectorInv, ProviderOK
  <2>2. <<k, made'[k]>> \in Refs
    BY <2>1 DEF Refs
  <2>3. entry \in EntriesOf(Contents \cup {null})
    BY <1>2, CollectorAssumption DEF EntriesOf
  <2>4. ProviderOK'
    BY <1>2, <2>1, <2>2, <2>3 DEF Put, CollectorInv, ProviderOK
  <2> QED
    BY <1>2, <2>4, JobsStay DEF Put, CollectorInv
<1>3. CASE Get(k)
  <2>1. cache[k] \in Refs /\ now \in Nat
    BY <1>3, CollectorAssumption DEF Get, CollectorInv, ProviderOK
  <2>2. UpdateSliding(heap[cache[k]], now) \in EntriesOf(Contents \cup {null})
    BY <2>1, RenewedType DEF CollectorInv, ProviderOK
  <2>3. ProviderOK'
    BY <1>3, <2>1, <2>2 DEF Get, CollectorInv, ProviderOK
  <2> QED
    BY <1>3, <2>3, JobsStay DEF Get, CollectorInv
<1> QED
  BY <1>1, <1>2, <1>3

(* A set gets another member, or loses one.                                *)
LEMMA MemberCollector ==
  ASSUME CollectorInv, NEW r \in Refs, NEW value \in Values,
         AddMember(r, value) \/ RemoveMember(r, value)
  PROVE  CollectorInv'
<1>1. heap[r] \in EntriesOf(Contents \cup {null})
  BY DEF CollectorInv, ProviderOK
<1>2. value \in Texts /\ MembersOf(heap[r]) \subseteq Texts
  BY <1>1, SetType, CollectorAssumption
<1>3. \E members \in SUBSET Texts : heap' = [heap EXCEPT ![r] = WithMembers(heap[r], members)]
  <2>1. CASE AddMember(r, value)
    <3>1. MembersOf(heap[r]) \cup {value} \in SUBSET Texts
      BY <1>2
    <3> QED
      BY <2>1, <3>1 DEF AddMember
  <2>2. CASE RemoveMember(r, value)
    <3>1. MembersOf(heap[r]) \ {value} \in SUBSET Texts
      BY <1>2
    <3> QED
      BY <2>2, <3>1 DEF RemoveMember
  <2> QED
    BY <2>1, <2>2
<1>4. ProviderOK'
  <2>1. heap' \in [Refs -> EntriesOf(Contents \cup {null})]
    BY <1>1, <1>3, SetType DEF CollectorInv, ProviderOK
  <2> QED
    BY <2>1 DEF AddMember, RemoveMember, CollectorInv, ProviderOK
<1>5. UNCHANGED <<flags, pc, opened, size, rest, array, text, file>>
  BY DEF AddMember, RemoveMember, buffers
<1>6. walk' \in [Workers -> [entry : Refs \cup {null}, seen : SUBSET Texts, broken : BOOLEAN]]
  <2>1. CASE AddMember(r, value)
    BY <2>1 DEF AddMember, CollectorInv, BuffersOK
  <2>2. CASE RemoveMember(r, value)
    BY <2>2 DEF RemoveMember, buffers, CollectorInv, BuffersOK
  <2> QED
    BY <2>1, <2>2
<1>7. FlagsOK' /\ FlagsHaveOwners'
  BY <1>5 DEF flags, CollectorInv, FlagsOK, FlagsHaveOwners
<1>8. BuffersOK' /\ WorkersOK' /\ DocumentsOK'
  BY <1>5, <1>6 DEF CollectorInv, BuffersOK, WorkersOK, DocumentsOK
<1> QED
  BY <1>4, <1>7, <1>8 DEF CollectorInv

LEMMA CleanCollector ==
  ASSUME CollectorInv, NEW w \in Workers,
         CleanBegin(w) \/ CleanFlag(w) \/ CleanExpired(w) \/ CleanEnd(w)
  PROVE  CollectorInv'
<1>1. UNCHANGED <<up, now, heap, made, _runningBackup, opened, buffers, file>>
  BY DEF CleanBegin, Begin, CleanFlag, CleanExpired, CleanEnd, provider, flags
<1>2. WorkersOK'
  BY DEF CleanBegin, Begin, CleanFlag, CleanExpired, CleanEnd, Goto, Labels, CollectorInv, WorkersOK
<1>3. ProviderOK'
  <2>1. \A k \in Keys : cache'[k] \in {cache[k], null}
    BY DEF CleanBegin, Begin, CleanFlag, CleanExpired, CleanEnd, provider
  <2>2. cache' \in [Keys -> Refs \cup {null}]
    <3>1. CASE CleanExpired(w)
      BY <3>1, <2>1 DEF CleanExpired, CollectorInv, ProviderOK
    <3>2. CASE CleanBegin(w) \/ CleanFlag(w) \/ CleanEnd(w)
      BY <3>2 DEF CleanBegin, Begin, CleanFlag, CleanEnd, provider, CollectorInv, ProviderOK
    <3> QED
      BY <3>1, <3>2
  <2> QED
    BY <1>1, <2>2 DEF CollectorInv, ProviderOK
<1>4. FlagsOK'
  BY <1>1 DEF CleanBegin, Begin, CleanFlag, CleanExpired, CleanEnd, flags, CollectorInv, FlagsOK
<1>5. FlagsHaveOwners'
  <2>1. pc[w] \in {"free", "clean", "cleanExpired", "cleanEnd"}
    BY DEF CleanBegin, Begin, CleanFlag, CleanExpired, CleanEnd
  <2>2. \A v \in Workers : v # w => pc'[v] = pc[v]
    BY DEF CleanBegin, Begin, CleanFlag, CleanExpired, CleanEnd, Goto, CollectorInv, WorkersOK
  <2>3. \/ _isCleaning' = FALSE
        \/ _isCleaning' = _isCleaning /\ pc[w] \notin {"cleanExpired", "cleanEnd"}
        \/ pc'[w] \in {"cleanExpired", "cleanEnd"}
    BY DEF CleanBegin, Begin, CleanFlag, CleanExpired, CleanEnd, Goto, flags, CollectorInv, WorkersOK
  <2> QED
    BY <1>1, <2>1, <2>2, <2>3 DEF CollectorInv, FlagsHaveOwners
<1> QED
  BY <1>1, <1>2, <1>3, <1>4, <1>5 DEF buffers, CollectorInv, BuffersOK, DocumentsOK

-----------------------------------------------------------------------------
(* BackupJob: a worker w goes to the label that its step leads to.         *)
Working == {"open", "count", "enumerate", "write", "walk", "throw", "close", "end"}

LEMMA BackupFlags ==
  ASSUME CollectorInv, NEW w \in Workers, NEW label, Goto(w, label),
         pc[w] \notin {"cleanExpired", "cleanEnd"}, _isCleaning' = _isCleaning,
         \/ _runningBackup' = FALSE
         \/ label \in Working
         \/ _runningBackup' = _runningBackup /\ pc[w] \notin Working
  PROVE  FlagsHaveOwners'
<1>1. pc'[w] = label /\ \A v \in Workers : v # w => pc'[v] = pc[v]
  BY DEF Goto, CollectorInv, WorkersOK
<1>2. _isCleaning' => \E v \in Workers : pc'[v] \in {"cleanExpired", "cleanEnd"}
  BY <1>1 DEF CollectorInv, FlagsHaveOwners
<1>3. _runningBackup' => \E v \in Workers : pc'[v] \in Working
  BY <1>1 DEF CollectorInv, FlagsHaveOwners, Working
<1> QED
  BY <1>2, <1>3 DEF FlagsHaveOwners, Working

(* Only the worker that has the file open, and the one that opens it, come *)
(* to the labels at which it is open.                                      *)
LEMMA BackupWorkers ==
  ASSUME CollectorInv, NEW w \in Workers, NEW label \in Labels, Goto(w, label),
         LET open == {"count", "enumerate", "write", "walk", "throw", "close"}
         IN  \/ opened' = opened /\ (pc[w] \in open <=> label \in open)
             \/ pc[w] = "open" /\ opened = null /\ opened' = w /\ label \in open
             \/ pc[w] \in open /\ opened' = null /\ label \notin open
  PROVE  WorkersOK'
<1>1. pc' \in [Workers -> Labels] /\ pc'[w] = label
  BY DEF Goto, CollectorInv, WorkersOK
<1>2. \A v \in Workers : v # w => pc'[v] = pc[v]
  BY DEF Goto, CollectorInv, WorkersOK
<1>3. null \notin Workers
  BY CollectorAssumption
<1> QED
  BY <1>1, <1>2, <1>3 DEF CollectorInv, WorkersOK

(* The steps of a backup that change nothing but where the worker is, the  *)
(* flag, and who has the file.                                             *)
LEMMA QuietBackup ==
  ASSUME CollectorInv, NEW w \in Workers,
         BackupBegin(w) \/ BackupFlag(w) \/ Enumerated(w) \/ CloseUnwritten(w)
           \/ \E pair \in array[w] : WriteThrows(w, pair)
  PROVE  CollectorInv'
<1>1. UNCHANGED <<up, provider, _isCleaning, buffers, file>>
  BY DEF BackupBegin, Begin, BackupFlag, Enumerated, CloseUnwritten, WriteThrows, flags
<1>2. ProviderOK' /\ BuffersOK'
  BY <1>1 DEF provider, buffers, CollectorInv, ProviderOK, BuffersOK
<1>5. DocumentsOK'
  BY <1>1 DEF BackupBegin, Begin, BackupFlag, Enumerated, CloseUnwritten, WriteThrows,
     CollectorInv, DocumentsOK
<1>3. FlagsOK'
  BY <1>1 DEF BackupBegin, Begin, BackupFlag, Enumerated, CloseUnwritten, WriteThrows, flags,
     CollectorInv, FlagsOK
<1>4. WorkersOK' /\ FlagsHaveOwners'
  <2>1. CASE BackupBegin(w)
    BY <2>1, BackupFlags, BackupWorkers DEF BackupBegin, Begin, flags, Labels, Working
  <2>2. CASE BackupFlag(w)
    BY <2>2, BackupFlags, BackupWorkers DEF BackupFlag, Labels, Working
  <2>3. CASE Enumerated(w)
    BY <2>3, BackupFlags, BackupWorkers DEF Enumerated, flags, Labels, Working
  <2>4. CASE CloseUnwritten(w)
    BY <2>4, BackupFlags, BackupWorkers DEF CloseUnwritten, flags, Labels, Working
  <2>5. CASE \E pair \in array[w] : WriteThrows(w, pair)
    BY <2>5, BackupFlags, BackupWorkers DEF WriteThrows, flags, Labels, Working
  <2> QED
    BY <2>1, <2>2, <2>3, <2>4, <2>5
<1> QED
  BY <1>2, <1>3, <1>4, <1>5 DEF CollectorInv

(* The file holds what was collected, from items that entries can give.    *)
LEMMA FileBackup ==
  ASSUME CollectorInv, NEW w \in Workers, OpenWrite(w) \/ Flush(w) \/ Close(w)
  PROVE  CollectorInv'
<1>1. UNCHANGED <<up, provider, flags, buffers>>
  BY DEF OpenWrite, Flush, Close
<1>2. ProviderOK' /\ BuffersOK' /\ FlagsOK'
  BY <1>1 DEF provider, buffers, flags, CollectorInv, ProviderOK, BuffersOK, FlagsOK
<1>3. WorkersOK' /\ FlagsHaveOwners'
  <2>1. CASE OpenWrite(w)
    BY <2>1, BackupFlags, BackupWorkers DEF OpenWrite, flags, Labels, Working
  <2>2. CASE Flush(w)
    BY <2>2, BackupFlags, BackupWorkers DEF Flush, flags, Labels, Working
  <2>3. CASE Close(w)
    BY <2>3, BackupFlags, BackupWorkers DEF Close, flags, Labels, Working
  <2> QED
    BY <2>1, <2>2, <2>3
<1>4. DocumentsOK'
  <2>1. CASE OpenWrite(w)
    <3>1. Document({}, TRUE) \in Documents
      BY DEF Document, Documents
    <3> QED
      BY <2>1, <3>1 DEF OpenWrite, CollectorInv, DocumentsOK
  <2>2. CASE Flush(w)
    <3>1. text[w] \subseteq Items
      BY DEF CollectorInv, BuffersOK
    <3> QED
      BY <2>2, <3>1 DEF Flush, Document, DocumentsOK, Documents
  <2>3. CASE Close(w)
    <3>1. file \in Documents
      BY <2>3, CollectorAssumption DEF Close, CollectorInv, WorkersOK, DocumentsOK
    <3> QED
      BY <2>3, <3>1 DEF Close, Document, DocumentsOK, Documents
  <2> QED
    BY <2>1, <2>2, <2>3
<1> QED
  BY <1>2, <1>3, <1>4 DEF CollectorInv

(* What a worker counts, copies and writes comes from the cache.           *)
LEMMA BufferBackup ==
  ASSUME CollectorInv, NEW w \in Workers,
         \/ Count(w)
         \/ \E k \in Keys : Visit(w, k)
         \/ \E pair \in array[w] : WriteEntry(w, pair)
         \/ BackupEnd(w)
  PROVE  CollectorInv'
<1>1. UNCHANGED <<now, up, cache, made, _isCleaning, opened, file>>
  BY DEF Count, Visit, WriteEntry, BackupEnd, provider, flags
<1>2. DocumentsOK'
  BY <1>1 DEF CollectorInv, DocumentsOK
<1>3. FlagsOK'
  BY <1>1 DEF Count, Visit, WriteEntry, BackupEnd, provider, flags, CollectorInv, FlagsOK
<1>4. CASE Count(w)
  <2>1. size' \in [Workers -> 0 .. Cardinality(Keys)]
    BY <1>4, StoredCount DEF Count, CollectorInv, BuffersOK
  <2>2. BuffersOK'
    BY <1>4, <2>1 DEF Count, CollectorInv, BuffersOK
  <2>3. ProviderOK'
    BY <1>4 DEF Count, provider, CollectorInv, ProviderOK
  <2>4. WorkersOK' /\ FlagsHaveOwners'
    BY <1>4, BackupFlags, BackupWorkers DEF Count, flags, Labels, Working
  <2> QED
    BY <1>2, <1>3, <2>2, <2>3, <2>4 DEF CollectorInv
<1>5. ASSUME NEW k \in Keys, Visit(w, k)
      PROVE  CollectorInv'
  <2>1. array' \in [Workers -> SUBSET [key : Keys, entry : Refs]]
    <3>1. cache[k] # null => [key |-> k, entry |-> cache[k]] \in [key : Keys, entry : Refs]
      BY DEF CollectorInv, ProviderOK
    <3> QED
      BY <1>5, <3>1 DEF Visit, CollectorInv, BuffersOK
  <2>2. BuffersOK'
    BY <1>5, <2>1 DEF Visit, CollectorInv, BuffersOK
  <2>3. ProviderOK'
    BY <1>5 DEF Visit, provider, CollectorInv, ProviderOK
  <2>4. WorkersOK' /\ FlagsHaveOwners'
    BY <1>1, <1>5 DEF Visit, flags, CollectorInv, WorkersOK, FlagsHaveOwners
  <2> QED
    BY <1>2, <1>3, <2>2, <2>3, <2>4 DEF CollectorInv
<1>6. ASSUME NEW pair \in array[w], WriteEntry(w, pair)
      PROVE  CollectorInv'
  <2> DEFINE entry == heap[pair.entry]
  <2>1. pair.key \in Keys /\ pair.entry \in Refs
    BY DEF CollectorInv, BuffersOK
  <2>2. entry \in EntriesOf(Contents \cup {null})
    BY <2>1 DEF CollectorInv, ProviderOK
  <2>3. entry \in EntriesOf(Contents)
    BY <1>6, <2>2 DEF WriteEntry, Throws, EntriesOf
  <2>4. Item(pair.key, entry) \in Items
    BY <2>1, <2>3 DEF Items
  <2>5. now \in Nat
    BY CollectorAssumption DEF CollectorInv, ProviderOK
  <2>6. heap' \in [Refs -> EntriesOf(Contents \cup {null})]
    BY <1>6, <2>1, <2>2, <2>5, RenewedType DEF WriteEntry, CollectorInv, ProviderOK
  <2>7. ProviderOK'
    BY <1>1, <2>6 DEF CollectorInv, ProviderOK
  <2>8. BuffersOK'
    BY <1>6, <2>4 DEF WriteEntry, CollectorInv, BuffersOK
  <2>9. WorkersOK' /\ FlagsHaveOwners'
    BY <1>1, <1>6 DEF WriteEntry, flags, CollectorInv, WorkersOK, FlagsHaveOwners
  <2> QED
    BY <1>2, <1>3, <2>7, <2>8, <2>9 DEF CollectorInv
<1>7. CASE BackupEnd(w)
  <2>1. Cardinality(Keys) \in Nat
    BY CollectorAssumption, FS_CardinalityType
  <2>2. BuffersOK'
    BY <1>7, <2>1 DEF BackupEnd, CollectorInv, BuffersOK
  <2>3. ProviderOK'
    BY <1>7 DEF BackupEnd, provider, CollectorInv, ProviderOK
  <2>4. WorkersOK' /\ FlagsHaveOwners'
    BY <1>7, BackupFlags, BackupWorkers DEF BackupEnd, flags, Labels, Working
  <2> QED
    BY <1>2, <1>3, <2>2, <2>3, <2>4 DEF CollectorInv
<1> QED
  BY <1>4, <1>5, <1>6, <1>7

(* The enumeration of a hash set.                                          *)
LEMMA WalkBackup ==
  ASSUME CollectorInv, NEW w \in Workers,
         \/ \E pair \in array[w] : WalkBegin(w, pair)
         \/ \E pair \in array[w], members \in SUBSET walk[w].seen : WalkEnd(w, pair, members)
         \/ WalkThrows(w)
  PROVE  CollectorInv'
<1>1. UNCHANGED <<now, up, cache, made, flags, opened, size, rest, file>>
  BY DEF WalkBegin, WalkEnd, WalkThrows, provider
<1>2. DocumentsOK' /\ FlagsOK'
  BY <1>1 DEF flags, CollectorInv, DocumentsOK, FlagsOK
<1>3. WorkersOK' /\ FlagsHaveOwners'
  <2>1. CASE \E pair \in array[w] : WalkBegin(w, pair)
    BY <2>1, BackupFlags, BackupWorkers DEF WalkBegin, flags, Labels, Working
  <2>2. CASE \E pair \in array[w], members \in SUBSET walk[w].seen : WalkEnd(w, pair, members)
    BY <2>2, BackupFlags, BackupWorkers DEF WalkEnd, flags, Labels, Working
  <2>3. CASE WalkThrows(w)
    BY <2>3, BackupFlags, BackupWorkers DEF WalkThrows, flags, Labels, Working
  <2> QED
    BY <2>1, <2>2, <2>3
<1>4. ASSUME NEW pair \in array[w]
      PROVE  /\ pair.key \in Keys /\ pair.entry \in Refs
             /\ heap[pair.entry] \in EntriesOf(Contents \cup {null})
  <2>1. pair \in [key : Keys, entry : Refs]
    BY DEF CollectorInv, BuffersOK
  <2> QED
    BY <2>1 DEF CollectorInv, ProviderOK
<1>5. ASSUME NEW pair \in array[w], WalkBegin(w, pair)
      PROVE  ProviderOK' /\ BuffersOK'
  <2>1. now \in Nat
    BY CollectorAssumption DEF CollectorInv, ProviderOK
  <2>2. heap' \in [Refs -> EntriesOf(Contents \cup {null})]
    BY <1>4, <1>5, <2>1, RenewedType DEF WalkBegin, CollectorInv, ProviderOK
  <2>3. Walk(pair.entry, MembersOf(heap[pair.entry]))
          \in [entry : Refs \cup {null}, seen : SUBSET Texts, broken : BOOLEAN]
    BY <1>4, SetType DEF Walk
  <2>4. BuffersOK'
    BY <1>5, <2>3 DEF WalkBegin, CollectorInv, BuffersOK
  <2> QED
    BY <1>1, <2>2, <2>4 DEF CollectorInv, ProviderOK
<1>6. ASSUME NEW pair \in array[w], NEW members \in SUBSET walk[w].seen,
             WalkEnd(w, pair, members)
      PROVE  ProviderOK' /\ BuffersOK'
  <2>1. members \in SUBSET Texts
    BY DEF CollectorInv, BuffersOK
  <2>2. WithMembers(heap[pair.entry], members) \in EntriesOf(Contents)
    BY <1>4, <2>1, WrittenType
  <2>3. Item(pair.key, WithMembers(heap[pair.entry], members)) \in Items
    BY <1>4, <2>2 DEF Items
  <2>4. BuffersOK'
    BY <1>6, <2>3, NoWalkType DEF WalkEnd, CollectorInv, BuffersOK
  <2> QED
    BY <1>6, <2>4 DEF WalkEnd, provider, CollectorInv, ProviderOK
<1>7. CASE WalkThrows(w)
  <2>1. BuffersOK'
    BY <1>7, NoWalkType DEF WalkThrows, CollectorInv, BuffersOK
  <2> QED
    BY <1>2, <1>3, <1>7, <2>1 DEF WalkThrows, provider, CollectorInv, ProviderOK
<1> QED
  BY <1>2, <1>3, <1>5, <1>6, <1>7 DEF CollectorInv

LEMMA NextCollector == CollectorInv /\ [Next]_vars => CollectorInv'
<1> SUFFICES ASSUME CollectorInv, [Next]_vars
             PROVE  CollectorInv'
  OBVIOUS
<1>1. CASE UNCHANGED vars
  BY <1>1, JobsStay DEF vars, flags, buffers, CollectorInv, ProviderOK
<1>2. CASE StartAsync \/ Stop
  BY <1>2, StartCollector, StopCollector
<1>3. CASE Tick
  <2>1. ProviderOK'
    <3>1. now' \in 0 .. MaxTime
      BY <1>3, CollectorAssumption DEF Tick, CollectorInv, ProviderOK
    <3> QED
      BY <1>3, <3>1 DEF Tick, CollectorInv, ProviderOK
  <2> QED
    BY <1>3, <2>1, JobsStay DEF Tick, CollectorInv
<1>4. CASE Client
  BY <1>4, ClientCollector, MemberCollector DEF Client
<1>5. ASSUME NEW w \in Workers, CleanBegin(w) \/ BackupBegin(w) \/ Job(w)
      PROVE  CollectorInv'
  BY <1>5, CleanCollector, QuietBackup, FileBackup, BufferBackup, WalkBackup DEF Job
<1> QED
  BY <1>1, <1>2, <1>3, <1>4, <1>5 DEF Next

(* In every reachable state every variable has its type, and the backup    *)
(* file is open for the worker that is at work on a document.              *)
THEOREM TypeCorrect == Spec => []CollectorTypeOK
BY InitCollector, NextCollector, CollectorTypes, PTL DEF Spec

(* No flag stays set for nobody, whatever a job throws and however the     *)
(* jobs overlap.                                                           *)
THEOREM FlagsCorrect == Spec => []FlagsHaveOwners
<1>1. CollectorInv => FlagsHaveOwners
  BY DEF CollectorInv
<1> QED
  BY <1>1, InitCollector, NextCollector, PTL DEF Spec


-----------------------------------------------------------------------------
(* The jobs count down.  What a job copies is finite, and it begins with   *)
(* empty hands.                                                            *)

ArraysOK ==
  \A w \in Workers :
    /\ IsFiniteSet(array[w])
    /\ pc[w] \notin {"enumerate", "write", "walk", "throw", "close", "end"} => array[w] = {}
    /\ pc[w] = "walk" => array[w] # {}

LEMMA InitArrays == Init => ArraysOK
  BY FS_EmptySet DEF Init, ArraysOK

(* A step of one job leaves what the others have in hand.                  *)
LEMMA OtherJobsStay ==
  ASSUME CollectorInv, NEW w \in Workers, CleanBegin(w) \/ BackupBegin(w) \/ Job(w),
         NEW v \in Workers \ {w}
  PROVE  pc'[v] = pc[v] /\ rest'[v] = rest[v] /\ array'[v] = array[v]
<1>1. /\ pc \in [Workers -> Labels] /\ rest \in [Workers -> SUBSET Keys]
      /\ array \in [Workers -> SUBSET [key : Keys, entry : Refs]]
  BY DEF CollectorInv, WorkersOK, BuffersOK
<1>2. CASE CleanBegin(w) \/ BackupBegin(w) \/ CleanFlag(w) \/ CleanExpired(w) \/ CleanEnd(w)
  BY <1>1, <1>2
  DEF CleanBegin, BackupBegin, Begin, CleanFlag, CleanExpired, CleanEnd, Goto, buffers
<1>3. CASE BackupFlag(w) \/ OpenWrite(w) \/ Enumerated(w) \/ Flush(w) \/ Close(w)
           \/ CloseUnwritten(w) \/ \E pair \in array[w] : WriteThrows(w, pair)
  BY <1>1, <1>3
  DEF BackupFlag, OpenWrite, Enumerated, Flush, Close, CloseUnwritten, WriteThrows, Goto,
      buffers
<1>4. CASE Count(w) \/ BackupEnd(w)
  BY <1>1, <1>4 DEF Count, BackupEnd, Goto
<1>5. CASE \E k \in Keys : Visit(w, k)
  BY <1>1, <1>5 DEF Visit
<1>6. CASE \E pair \in array[w] : WriteEntry(w, pair) \/ WalkBegin(w, pair)
  BY <1>1, <1>6 DEF WriteEntry, WalkBegin, Goto
<1>7. CASE WalkThrows(w) \/ \E pair \in array[w], members \in SUBSET walk[w].seen :
                              WalkEnd(w, pair, members)
  BY <1>1, <1>7 DEF WalkEnd, WalkThrows, Goto
<1> QED
  BY <1>2, <1>3, <1>4, <1>5, <1>6, <1>7 DEF Job

(* What a job does with its array.                                         *)
LEMMA JobArray ==
  ASSUME CollectorInv, NEW w \in Workers, Job(w)
  PROVE  \/ /\ array'[w] = array[w] /\ rest'[w] = rest[w] /\ pc'[w] # pc[w]
            /\ \/ pc[w] = "clean" /\ pc'[w] = "cleanExpired"
               \/ pc[w] = "cleanExpired" /\ pc'[w] = "cleanEnd"
               \/ pc[w] = "cleanEnd" /\ pc'[w] = "free"
               \/ pc[w] = "backup" /\ pc'[w] = "open"
               \/ pc[w] = "open" /\ pc'[w] \in {"count", "end"}
               \/ pc[w] = "enumerate" /\ pc'[w] \in {"write", "throw"}
               \/ pc[w] = "write" /\ pc'[w] \in {"throw", "close"}
               \/ pc[w] = "write" /\ pc'[w] = "walk" /\ array[w] # {}
               \/ pc[w] = "walk" /\ pc'[w] = "throw"
               \/ pc[w] \in {"throw", "close"} /\ pc'[w] = "end"
         \/ /\ pc[w] = "count" /\ pc'[w] = "enumerate"
            /\ array'[w] = array[w] /\ rest'[w] = Keys
         \/ /\ pc[w] = "enumerate" /\ pc'[w] = "enumerate"
            /\ \E k \in rest[w] : rest'[w] = rest[w] \ {k}
            /\ array'[w] = array[w] \/ \E pair : array'[w] = array[w] \cup {pair}
         \/ /\ pc[w] \in {"write", "walk"} /\ pc'[w] = "write" /\ rest'[w] = rest[w]
            /\ \E pair \in array[w] : array'[w] = array[w] \ {pair}
         \/ /\ pc[w] = "end" /\ pc'[w] = "free" /\ array'[w] = {}
<1>1. /\ pc \in [Workers -> Labels] /\ rest \in [Workers -> SUBSET Keys]
      /\ array \in [Workers -> SUBSET [key : Keys, entry : Refs]]
  BY DEF CollectorInv, WorkersOK, BuffersOK
<1>2. CASE CleanFlag(w) \/ CleanExpired(w) \/ CleanEnd(w)
  BY <1>1, <1>2 DEF CleanFlag, CleanExpired, CleanEnd, Goto, buffers
<1>3. CASE BackupFlag(w) \/ OpenWrite(w) \/ Enumerated(w) \/ Flush(w) \/ Close(w)
           \/ CloseUnwritten(w) \/ \E pair \in array[w] : WriteThrows(w, pair)
  BY <1>1, <1>3
  DEF BackupFlag, OpenWrite, Enumerated, Flush, Close, CloseUnwritten, WriteThrows, Goto,
      buffers
<1>4. CASE Count(w) \/ BackupEnd(w)
  BY <1>1, <1>4 DEF Count, BackupEnd, Goto
<1>5. CASE \E k \in Keys : Visit(w, k)
  BY <1>1, <1>5 DEF Visit
<1>6. CASE \E pair \in array[w] : WriteEntry(w, pair) \/ WalkBegin(w, pair)
  BY <1>1, <1>6 DEF WriteEntry, WalkBegin, Goto
<1>7. CASE WalkThrows(w) \/ \E pair \in array[w], members \in SUBSET walk[w].seen :
                              WalkEnd(w, pair, members)
  BY <1>1, <1>7 DEF WalkEnd, WalkThrows, Goto
<1> QED
  BY <1>2, <1>3, <1>4, <1>5, <1>6, <1>7 DEF Job

LEMMA NextArrays ==
  ASSUME CollectorInv, ArraysOK, [Next]_vars PROVE ArraysOK'
<1> SUFFICES ASSUME NEW v \in Workers
             PROVE  /\ IsFiniteSet(array'[v])
                    /\ pc'[v] \notin {"enumerate", "write", "walk", "throw", "close", "end"}
                         => array'[v] = {}
                    /\ pc'[v] = "walk" => array'[v] # {}
  BY DEF ArraysOK
<1>1. IsFiniteSet(array[v])
  BY DEF ArraysOK
<1>2. CASE Job(v)
  <2>1. \A x : IsFiniteSet(array[v] \cup {x}) /\ IsFiniteSet(array[v] \ {x})
    BY <1>1, FS_AddElement, FS_RemoveElement
  <2>2. IsFiniteSet(array'[v])
    BY <1>1, <1>2, <2>1, JobArray, FS_EmptySet
  <2> QED
    BY <1>2, <2>2, JobArray DEF ArraysOK
<1>3. CASE CleanBegin(v) \/ BackupBegin(v)
  BY <1>3 DEF CleanBegin, BackupBegin, Begin, Goto, buffers, ArraysOK, CollectorInv, WorkersOK
<1>4. CASE \E w \in Workers \ {v} : CleanBegin(w) \/ BackupBegin(w) \/ Job(w)
  BY <1>4, OtherJobsStay DEF ArraysOK
<1>5. CASE Stop
  BY <1>5, FS_EmptySet DEF Stop, Down
<1>6. CASE UNCHANGED vars \/ StartAsync \/ Tick \/ Client
  <2>1. UNCHANGED <<pc, array>>
    BY <1>6 DEF vars, StartAsync, Tick, Client, Get, Remove, Put, AddMember, RemoveMember, buffers
  <2> QED
    BY <2>1 DEF ArraysOK
<1> QED
  BY <1>2, <1>3, <1>4, <1>5, <1>6 DEF Next

(* Each step of a job brings its end nearer.                               *)
LEMMA JobCountsDown ==
  ASSUME CollectorInv, ArraysOK, NEW w \in Workers, Job(w)
  PROVE  StepsLeft(w)' < StepsLeft(w)
<1> DEFINE a == Cardinality(array[w])
           b == Cardinality(array'[w])
           n == Cardinality(Keys)
           r == Cardinality(rest[w])
           s == Cardinality(rest'[w])
<1>1. IsFiniteSet(Keys) /\ IsFiniteSet(rest[w]) /\ IsFiniteSet(array[w]) /\ r <= n
  <2>1. IsFiniteSet(Keys) /\ rest[w] \in SUBSET Keys
    BY CollectorAssumption DEF CollectorInv, BuffersOK
  <2> QED
    BY <2>1, FS_Subset DEF ArraysOK
<1>2. a \in Nat /\ n \in Nat /\ r \in Nat
  BY <1>1, FS_CardinalityType
<1>3. CASE pc[w] \in {"clean", "cleanExpired", "cleanEnd", "backup", "open", "throw", "close", "end"}
  <2>1. \/ pc[w] = "clean" /\ pc'[w] = "cleanExpired"
        \/ pc[w] = "cleanExpired" /\ pc'[w] = "cleanEnd"
        \/ pc[w] = "cleanEnd" /\ pc'[w] = "free"
        \/ pc[w] = "backup" /\ pc'[w] = "open"
        \/ pc[w] = "open" /\ pc'[w] \in {"count", "end"}
        \/ pc[w] \in {"throw", "close"} /\ pc'[w] = "end"
        \/ pc[w] = "end" /\ pc'[w] = "free"
    BY <1>3, JobArray
  <2> QED
    BY <1>2, <2>1 DEF StepsLeft
<1>4. CASE pc[w] = "count"
  <2>1. pc'[w] = "enumerate" /\ array'[w] = array[w] /\ rest'[w] = Keys
    BY <1>4, JobArray
  <2>2. array'[w] = {}
    BY <1>4, <2>1 DEF ArraysOK
  <2>3. Cardinality(array'[w]) = 0
    BY <2>2, FS_EmptySet
  <2>4. StepsLeft(w) = 3 * n + 5 /\ StepsLeft(w)' = 3 * n + 2 * 0 + 4
    BY <1>4, <2>1, <2>3 DEF StepsLeft
  <2> QED
    BY <1>2, <2>4
<1>5. CASE pc[w] = "enumerate" /\ pc'[w] = "enumerate"
  <2>1. /\ \E k \in rest[w] : rest'[w] = rest[w] \ {k}
        /\ array'[w] = array[w] \/ \E pair : array'[w] = array[w] \cup {pair}
    BY <1>5, JobArray
  <2>2. s = r - 1 /\ s \in Nat
    <3>1. PICK k \in rest[w] : rest'[w] = rest[w] \ {k}
      BY <2>1
    <3>2. IsFiniteSet(rest'[w]) /\ Cardinality(rest'[w]) = r - 1
      BY <1>1, <3>1, FS_RemoveElement
    <3> QED
      BY <3>2, FS_CardinalityType
  <2>3. b \in {a, a + 1}
    <3>1. \A pair : Cardinality(array[w] \cup {pair}) \in {a, a + 1}
      BY <1>1, FS_AddElement
    <3> QED
      BY <2>1, <3>1
  <2>4. StepsLeft(w) = 3 * r + 2 * a + 4 /\ StepsLeft(w)' = 3 * s + 2 * b + 4
    BY <1>5 DEF StepsLeft
  <2> HIDE DEF a, b, r, s
  <2> QED
    BY <1>2, <2>2, <2>3, <2>4
<1>6. CASE pc[w] = "enumerate" /\ pc'[w] # "enumerate"
  <2>1. array'[w] = array[w] /\ pc'[w] \in {"write", "throw"}
    BY <1>6, JobArray
  <2>2. StepsLeft(w) = 3 * r + 2 * a + 4 /\ StepsLeft(w)' \in {2 * a + 3, 2}
    BY <1>6, <2>1 DEF StepsLeft
  <2> HIDE DEF a, r
  <2> QED
    BY <1>2, <2>2
<1>7. CASE pc[w] \in {"write", "walk"} /\ pc'[w] = "write"
  <2>1. PICK pair \in array[w] : array'[w] = array[w] \ {pair}
    BY <1>7, JobArray
  <2>2. b = a - 1
    BY <1>1, <2>1, FS_RemoveElement
  <2>3. StepsLeft(w) \in {2 * a + 3, 2 * a + 2} /\ StepsLeft(w)' = 2 * b + 3
    BY <1>7 DEF StepsLeft
  <2> HIDE DEF a, b
  <2> QED
    BY <1>2, <2>2, <2>3
<1>8. CASE pc[w] \in {"write", "walk"} /\ pc'[w] # "write"
  <2>1. \/ pc'[w] \in {"throw", "close"}
        \/ pc[w] = "write" /\ pc'[w] = "walk" /\ array'[w] = array[w]
    BY <1>8, JobArray
  <2>2. StepsLeft(w) = IF pc[w] = "write" THEN 2 * a + 3 ELSE 2 * a + 2
    BY <1>8 DEF StepsLeft
  <2>3. StepsLeft(w)' = 2 \/ (pc[w] = "write" /\ StepsLeft(w)' = 2 * a + 2)
    BY <1>8, <2>1 DEF StepsLeft
  <2>4. pc[w] = "walk" => a > 0
    BY <1>1, <1>2, FS_EmptySet DEF ArraysOK
  <2> HIDE DEF a
  <2> QED
    BY <1>2, <1>8, <2>2, <2>3, <2>4
<1>9. pc[w] \in {"clean", "cleanExpired", "cleanEnd", "backup", "open", "throw", "close", "end",
                 "count", "enumerate", "write", "walk"}
  BY JobArray
<1> QED
  BY <1>3, <1>4, <1>5, <1>6, <1>7, <1>8, <1>9

(* No job goes on for ever, and none can be made to by what the clients or *)
(* another job do meanwhile: each of its steps brings it nearer to its end *)
(* and no other step touches what it has left, but the end of the process. *)
THEOREM JobsAreBounded ==
  Spec => /\ JobsCountDown
          /\ [][\A w \in Workers : Job(w) => StepsLeft(w)' < StepsLeft(w)]_vars
<1> DEFINE AllDown == \A w \in Workers : pc[w] # "free" =>
             \/ UNCHANGED <<pc[w], rest[w], array[w]>>
             \/ StepsLeft(w)' < StepsLeft(w)
           JobsDown == \A w \in Workers : Job(w) => StepsLeft(w)' < StepsLeft(w)
<1>1. CollectorInv /\ ArraysOK /\ [Next]_vars => [AllDown]_vars
  <2> SUFFICES ASSUME CollectorInv, ArraysOK, Next, NEW v \in Workers, pc[v] # "free"
               PROVE  UNCHANGED <<pc[v], rest[v], array[v]>> \/ StepsLeft(v)' < StepsLeft(v)
    OBVIOUS
  <2>1. CASE Job(v)
    BY <2>1, JobCountsDown
  <2>2. CASE \E w \in Workers \ {v} : CleanBegin(w) \/ BackupBegin(w) \/ Job(w)
    BY <2>2, OtherJobsStay
  <2>3. CASE CleanBegin(v) \/ BackupBegin(v)
    BY <2>3 DEF CleanBegin, BackupBegin, Begin
  <2>4. CASE Stop
    <3>1. pc'[v] = "free"
      BY <2>4 DEF Stop, Down
    <3>2. StepsLeft(v)' = 0
      BY <3>1 DEF StepsLeft
    <3>3. StepsLeft(v) \in Nat /\ StepsLeft(v) > 0
      <4>1. IsFiniteSet(Keys) /\ IsFiniteSet(rest[v]) /\ IsFiniteSet(array[v])
        <5>1. IsFiniteSet(Keys) /\ rest[v] \in SUBSET Keys
          BY CollectorAssumption DEF CollectorInv, BuffersOK
        <5> QED
          BY <5>1, FS_Subset DEF ArraysOK
      <4>2. /\ Cardinality(Keys) \in Nat /\ Cardinality(rest[v]) \in Nat
            /\ Cardinality(array[v]) \in Nat
        BY <4>1, FS_CardinalityType
      <4>3. pc[v] \in Labels
        BY DEF CollectorInv, WorkersOK
      <4> DEFINE n == Cardinality(Keys)
                 r == Cardinality(rest[v])
                 a == Cardinality(array[v])
      <4>4. StepsLeft(v) \in { 1, 2, 3, 2 * a + 2, 2 * a + 3, 3 * r + 2 * a + 4,
                               3 * n + 5, 3 * n + 6, 3 * n + 7 }
        BY <4>3 DEF StepsLeft, Labels
      <4> HIDE DEF n, r, a
      <4> QED
        BY <4>2, <4>4 DEF n, r, a
    <3> QED
      BY <3>2, <3>3
  <2>5. CASE StartAsync \/ Tick \/ Client
    BY <2>5 DEF StartAsync, Tick, Client, Get, Remove, Put, AddMember, RemoveMember, buffers
  <2> QED
    BY <2>1, <2>2, <2>3, <2>4, <2>5 DEF Next
<1>2. CollectorInv /\ ArraysOK /\ [Next]_vars => [JobsDown]_vars
  BY JobCountsDown
<1>3. CollectorInv /\ ArraysOK /\ [Next]_vars => (CollectorInv /\ ArraysOK)'
  BY NextCollector, NextArrays
<1> QED
  BY <1>1, <1>2, <1>3, InitCollector, InitArrays, PTL DEF Spec, JobsCountDown

=============================================================================
