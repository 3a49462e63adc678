---------------------------- MODULE BackupFormat ----------------------------
(***************************************************************************)
(* The JSON the backup writes and what the restore makes of it: classes    *)
(* ReCacheEntryConverter and ReCacheDictionaryConverter.  An entry becomes *)
(* a sequence of tokens; the reader walks over them with a cursor, and     *)
(* where it does not find what it expects it throws, which aborts the      *)
(* whole document.                                                         *)
(***************************************************************************)
EXTENDS ReCacheEntry, Sequences

CONSTANT Bodies       (* what the strings say, whatever their form          *)

(* A string, by what it is as JSON: an integer of 64 bits as it is printed *)
(* or written in another way (-0), any other number, true or false or      *)
(* null, an object or array, or no JSON at all; or a JSON string, in       *)
(* quotes, that holds one of these.                                        *)
Forms       == {"Integer", "OddInteger", "OtherNumber", "Literal", "Composite", "Plain"}
BareTexts   == [form : Forms, body : Bodies]
QuotedTexts == [form : {"Quoted"}, body : BareTexts]
Texts       == BareTexts \cup QuotedTexts

Members(texts) == [form : {"Members"}, body : SUBSET texts]

Token(type, text) == [type |-> type, text |-> text]
Name(text)        == Token("PropertyName", text)
EndObject         == Token("EndObject", null)

Named(token, text) == token.type = "PropertyName" /\ token.text = text

Optional(present, tokens) == IF present THEN tokens ELSE <<>>

-----------------------------------------------------------------------------
(* Writing.                                                                *)

(* A string is written raw, so that it becomes whatever JSON it is.  What  *)
(* is inside an object or array plays no role.                             *)
ValueTokens(value) ==
  CASE value.form \in {"Integer", "OddInteger", "OtherNumber"} -> <<Token("Number", value)>>
    [] value.form = "Literal" -> <<Token("Literal", value)>>
    [] value.form = "Quoted"  -> <<Token("String", value.body)>>
    [] value.form = "Members" -> <<Token("Array", value)>>
    [] OTHER                  -> <<Token("StartObject", null), EndObject>>

(* Writing the entry throws: its value reads as null, which leaves a       *)
(* property without a value, or is not JSON.                               *)
Throws(entry, now) ==
  \/ Expired(entry, now)
  \/ entry.value = null
  \/ entry.value.form = "Plain"

Json(entry) ==
  << Token("StartObject", null), Name("Value") >>
    \o ValueTokens(entry.value)
    \o Optional(entry.absolute # null,
         << Name("AbsoluteExpiration"), Token("String", entry.absolute) >>)
    \o Optional(entry.sliding # null,
         << Name("SlidingExpiration"), Token("Number", entry.sliding) >>)
    \o << EndObject >>

-----------------------------------------------------------------------------
(* Reading.                                                                *)

(* ReadSet and ReadHashSet: a number has to be an integer of 64 bits and   *)
(* is printed again, a JSON string loses its quotes, anything else is      *)
(* skipped.                                                                *)
ReadsValue(keyType, token) ==
  IF keyType = "Set"
  THEN token.type = "Number" => token.text.form \in {"Integer", "OddInteger"}
  ELSE token.type = "Array"

ValueRead(token) ==
  CASE token.type = "Number"              -> [form |-> "Integer", body |-> token.text.body]
    [] token.type \in {"String", "Array"} -> token.text
    [] OTHER                              -> null

(* The cursor stands on the value.  What follows it is either the end or   *)
(* an absolute expiration.  After reading one the cursor still stands on   *)
(* its value, where the end or the name of a sliding expiration should be. *)
(* A sliding expiration is written as a number and read as a string.  In   *)
(* the end the cursor has to be at the end of the object it began with.    *)
AfterValue(json)    == json[4]
HasAbsolute(json)   == AfterValue(json).type # "EndObject"
AfterAbsolute(json) == IF HasAbsolute(json) THEN json[5] ELSE AfterValue(json)
HasSliding(json)    == AfterAbsolute(json).type # "EndObject"
SlidingRead(json)   == json[6]

Readable(keyType, json) ==
  /\ ReadsValue(keyType, json[3])
  /\ HasAbsolute(json) => Named(AfterValue(json), "AbsoluteExpiration")
  /\ HasSliding(json) =>
       /\ Named(AfterAbsolute(json), "SlidingExpiration")
       /\ SlidingRead(json).type = "String"
  /\ json[3].type # "StartObject"

(* What the constructors of ReCacheEntrySet and ReCacheEntryHashSet get.   *)
EntryRead(json) ==
  NewEntry( ValueRead(json[3]),
            IF HasAbsolute(json) THEN json[5].text ELSE null,
            IF HasSliding(json) THEN SlidingRead(json).text ELSE null )

-----------------------------------------------------------------------------
(* A document is a set of items.  A key is written as its three texts, and *)
(* they are read back as they were, whatever they are.                     *)
Item(k, entry)  == <<k, Json(entry)>>
KeyRead(item)   == item[1]
EntryJson(item) == item[2]

DocumentReadable(document) ==
  \A item \in document : Readable(KeyRead(item).KeyType, EntryJson(item))

ItemRead(document, k) ==
  EntryRead(EntryJson(CHOOSE item \in document : KeyRead(item) = k))

=============================================================================
