---------------------------- MODULE ReCacheEntry ----------------------------
(***************************************************************************)
(* One cached entry (class ReCacheEntry): a value, an optional absolute    *)
(* deadline, an optional sliding span, and the deadline the span was last  *)
(* turned into.  The entry object is shared: the dictionary and every call *)
(* that looked it up hold the same object, and reading its Value writes    *)
(* the sliding deadline.  This module has the entry's pure part; the steps *)
(* of the Value getter are actions of ReCacheProvider.                     *)
(***************************************************************************)
EXTENDS Naturals

CONSTANTS
  null,           (* the C# null: no deadline, no entry, no data           *)
  AbsoluteTimes,  (* absolute deadlines the clients ask for                *)
  SlidingSpans    (* sliding spans the clients ask for                     *)

ASSUME TimesAssumption ==
  /\ AbsoluteTimes \subseteq Nat
  /\ SlidingSpans \subseteq Nat
  /\ null \notin Nat

(* The constructor: the sliding deadline is not set, only the first read   *)
(* of Value sets it.                                                       *)
NewEntry(value, absolute, sliding) ==
  [ value          |-> value,
    absolute       |-> absolute,
    sliding        |-> sliding,
    slidingFromNow |-> null ]

EntriesOf(Contents) ==
  [ value          : Contents,
    absolute       : AbsoluteTimes \cup {null},
    sliding        : SlidingSpans \cup {null},
    slidingFromNow : Nat \cup {null} ]

PastAbsolute(entry, now) ==
  entry.absolute # null /\ entry.absolute <= now

PastSliding(entry, now) ==
  entry.slidingFromNow # null /\ entry.slidingFromNow <= now

(* The property Expired.                                                   *)
Expired(entry, now) == PastAbsolute(entry, now) \/ PastSliding(entry, now)

(* UpdateSlidingExpirationFromNow: a read renews the sliding deadline.     *)
UpdateSliding(entry, now) ==
  IF entry.sliding = null
  THEN entry
  ELSE [entry EXCEPT !.slidingFromNow = now + entry.sliding]

(* The entry can disappear by itself.                                      *)
Mortal(entry) == entry.absolute # null \/ entry.sliding # null

=============================================================================
