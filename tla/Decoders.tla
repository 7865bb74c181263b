------------------------------ MODULE Decoders ------------------------------
(***************************************************************************)
(* All the calls of the decoders' API: those of Security and of Messages,  *)
(* and the views of a value.                                               *)
(***************************************************************************)
EXTENDS Messages, Trees

CONSTANTS
  Shuffled,        \* [doc, base]: one value, its maps written in two orders
  Docs,            \* values, also with duplicate keys
  JsonTexts        \* JSON values

-----------------------------------------------------------------------------
(* The calls.                                                              *)

Init ==
  \/ SecurityInit
  \/ MessagesInit
  \/ /\ answer = None
     /\ \/ /\ call = "canonical"
           /\ \E s \in Shuffled, m \in Mode : sent = [doc |-> s.doc, base |-> s.base, mode |-> m]
        \/ call = "well_formed" /\ sent \in Docs
        \/ call = "from_json" /\ sent \in JsonTexts
        \/ call = "tag_views" /\ \E d \in Docs, t \in {1, 2} : sent = [doc |-> d, want |-> t]

MakeCanonical == Answered("canonical", Canonicalize(sent.doc, sent.mode))

CheckWellFormed == Answered("well_formed", WellFormed(sent))

MakeFromJson == Answered("from_json", FromJson(sent))

TagViews ==
  Answered("tag_views",
    [tags |-> Tags(sent.doc, <<>>), untag |-> Untag(sent.doc, sent.want),
     json |-> ToJson(sent.doc), diagnostic |-> Render(sent.doc)])

Next ==
  \/ SecurityNext
  \/ CoseHeaders \/ ReadClaims
  \/ MakeCanonical \/ CheckWellFormed \/ MakeFromJson \/ TagViews

Spec == Init /\ [][Next]_vars

-----------------------------------------------------------------------------
(* Properties.                                                             *)

\* Every map below v lists its keys in strictly ascending order.
RECURSIVE Ascending(_, _)
Ascending(v, mode) ==
  CASE Is(v, "array") -> \A i \in DOMAIN v.items : Ascending(v.items[i], mode)
    [] Is(v, "map")   -> /\ \A i \in 2 .. Len(v.entries) :
                              KeyLess(mode, Encode(v.entries[i - 1][1]), Encode(v.entries[i][1]))
                         /\ \A i \in DOMAIN v.entries :
                              Ascending(v.entries[i][1], mode) /\ Ascending(v.entries[i][2], mode)
    [] Is(v, "tag")   -> Ascending(v.inner, mode)
    [] OTHER          -> TRUE

\* "Required to recompute WebAuthn signatures" (encode.rs): the canonical form of
\* a value does not depend on the order its maps were written in, at any depth
\* and also inside keys, and is ordered as the mode says.
CanonicalForgetsOrder ==
  Answer("canonical") =>
    /\ Encode(Get(answer)) = Canonical(sent.base, sent.mode)
    /\ Ascending(Get(answer), sent.mode)

\* The same value with one zero and one NaN, as values_equal takes them.
RECURSIVE Alike(_)
Alike(v) ==
  CASE Is(v, "float") -> IF IsNaN(v) THEN NaN(0) ELSE Float(v.half)
    [] Is(v, "array") -> Array([i \in DOMAIN v.items |-> Alike(v.items[i])])
    [] Is(v, "map")   -> Map([i \in DOMAIN v.entries |-> <<Alike(v.entries[i][1]), Alike(v.entries[i][2])>>])
    [] Is(v, "tag")   -> Tag(v.tag, Alike(v.inner))
    [] OTHER          -> v

\* Some map below v has two neighbouring keys of the same bytes.
RECURSIVE SameKeysBeside(_)
SameKeysBeside(v) ==
  CASE Is(v, "array") -> \E i \in DOMAIN v.items : SameKeysBeside(v.items[i])
    [] Is(v, "map")   -> \/ \E i \in 2 .. Len(v.entries) : Encode(v.entries[i - 1][1]) = Encode(v.entries[i][1])
                         \/ \E i \in DOMAIN v.entries, part \in {1, 2} : SameKeysBeside(v.entries[i][part])
    [] Is(v, "tag")   -> SameKeysBeside(v.inner)
    [] OTHER          -> FALSE

\* No key of a map below v would be rewritten by canonical.
RECURSIVE KeysInOrder(_)
KeysInOrder(v) ==
  CASE Is(v, "array") -> \A i \in DOMAIN v.items : KeysInOrder(v.items[i])
    [] Is(v, "map")   -> \A i \in DOMAIN v.entries :
                           /\ Canonicalize(v.entries[i][1], "core") = v.entries[i][1]
                           /\ KeysInOrder(v.entries[i][1]) /\ KeysInOrder(v.entries[i][2])
    [] Is(v, "tag")   -> KeysInOrder(v.inner)
    [] OTHER          -> TRUE

\* well_formed and canonical have the same notion of a key, but for two differences.
\* To well_formed the two zeros are one key and all NaNs are (value.rs:149), where
\* canonical keeps their bytes apart: hence Alike.  And it compares keys as they
\* are written, so of two map-valued keys that differ only in the order of their
\* entries it says nothing.  What it reports, then, stands side by side in the
\* canonical form, and what stands there is reported unless a key was rewritten.
DuplicatesFound ==
  Answer("well_formed") =>
    LET found == Get(answer) = "duplicate-key"
        beside == SameKeysBeside(Canonicalize(Alike(sent), "core"))
    IN  /\ found => beside
        /\ beside /\ KeysInOrder(Alike(sent)) => found

\* A JSON value comes back from CBOR as it was, at the limits of i64 and u64 too.
JsonRoundTrips == Answer("from_json") => ToJson(Get(answer)) = sent

\* untag(blob, t) lists exactly the values tags(blob) reports for t, in its order.
TagViewsAgree ==
  Answer("tag_views") =>
    LET hits == SelectSeq(Get(answer).tags, LAMBDA h : h.tag = sent.want)
    IN  Get(answer).untag = [i \in DOMAIN hits |-> hits[i].value]
=============================================================================
