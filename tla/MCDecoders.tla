----------------------------- MODULE MCDecoders -----------------------------
(***************************************************************************)
(* Decoders with small integers (I64 = 40: above the registered labels),   *)
(* authenticatorData with one byte for each hash, and what senders mean:   *)
(* every order of a few entries, every stack of up to three envelopes.     *)
(***************************************************************************)
EXTENDS Decoders

Orders(n) == {p \in [1 .. n -> 1 .. n] : IsInjective(p)}
AllOrders(seq) == {[i \in DOMAIN seq |-> seq[o[i]]] : o \in Orders(Len(seq))}
Selections(seq) == {SelectSeq(seq, LAMBDA x : x \in s) : s \in SUBSET Range(seq)}
Stacks(layers) == UNION {[1 .. n -> layers] : n \in 0 .. 3}
Name(n) == [name |-> n]

\* Headers: every parameter somewhere, alg and x5chain also in both maps.
Inner ==
  <<<<"alg", Name(-7)>>, <<"kid", Opaque(1)>>, <<"x5chain", <<Opaque(2)>>>>, <<"other", Int_(3)>>>>
Outer == <<<<"alg", [text |-> "ES256"]>>, <<"x5chain", <<Opaque(5), Opaque(6)>>>>>>
Rare == <<<<"crit", Json(Array(<<Int_(2)>>))>>, <<"content_type", [text |-> "cwt"]>>,
          <<"iv", Opaque(7)>>, <<"x5t", <<Some(Name(5)), Opaque(8)>>>>>>
Headers(protected, unprotected, stacks) ==
  {[protected |-> p, unprotected |-> u, wrapped |-> w, payload |-> b, layers |-> l] :
     p \in protected, u \in unprotected, w \in BOOLEAN, b \in {None, Some(Opaque(0))}, l \in stacks}
MCMessages ==
  Headers(UNION {AllOrders(s) : s \in Selections(Inner)}, UNION {AllOrders(s) : s \in Selections(Outer)},
          {<<>>, <<"tagged", "cwt">>})
  \cup Headers({Rare}, {Outer}, Stacks({"self-described", "cwt"}))
  \cup Headers(AllOrders(Rare), {Outer}, {<<>>})

\* Keys: an RSA key in every order that lists kty before e.
Ec == <<<<"kty", Name(2)>>, <<"crv", Name(1)>>, <<"x", Opaque(1)>>, <<"y", Opaque(2)>>, <<"alg", Name(-7)>>>>
Rsa_ == <<<<"kty", Name(3)>>, <<"n", Opaque(1)>>, <<"e", Opaque(2)>>, <<"kid", Opaque(3)>>>>
At(seq, f) == CHOOSE i \in DOMAIN seq : seq[i][1] = f
MCKeys == AllOrders(Ec) \cup {k \in AllOrders(Rsa_) : At(k, "kty") < At(k, "e")}

\* Every order of the key is explored on its own.
MCAnyKeys == AllOrders(Ec) \cup AllOrders(Rsa_)

\* Claims.
MCClaimSets ==
  LET text == <<"iss", Json(Text("me")), "plain">>
      more == <<"cti", Opaque(1), "plain">>
      private == <<"scope", Json(Array(<<Int_(1)>>)), "plain">>
      sets == UNION {AllOrders(<<text, more, <<f, t, form>>, private>>) :
                       f \in {"exp", "nbf"}, t \in {-40, -1, 0, 39}, form \in {"plain", "tagged", "float"}}
      layers == {"self-described", "cwt", "sign1", "untagged"}
  IN  {[claims |-> c, layers |-> l] : c \in sets, l \in {<<>>, <<"sign1", "cwt">>}}
      \cup {[claims |-> <<text, more>>, layers |-> l] : l \in Stacks(layers)}

\* Authenticators: with and without a credential, with and without extensions.
MCAuthenticators ==
  {[rp |-> <<7>>, flags |-> f, count |-> c, credential |-> k, ext |-> e] :
     f \in {1, 4, 24}, c \in {0, 258},
     k \in {None} \cup {Some([aaguid |-> <<9>>, id |-> id, key |-> key]) :
                          id \in {<<>>, <<162>>, <<1, 2>>},
                          key \in AllOrders(<<<<"kty", Name(2)>>, <<"alg", Name(-7)>>>>) \cup {<<>>}},
     e \in {None, Some(<<>>), Some(<<<<1, -2>>>>)}}
MCStatements == {[alg |-> -7, sig |-> Opaque(1), x5c |-> x] : x \in {<<>>, <<Opaque(2), Opaque(3)>>}}

\* Maps, also inside keys: CTAP2 and the core rules order a text and an array
\* differently, and the two small maps change places with their entries' order.
Pair == Map(<<<<Int_(1), Int_(0)>>, <<Int_(-1), Int_(0)>>>>)
Other == Map(<<<<Int_(2), Int_(0)>>, <<Int_(3), Int_(0)>>>>)
Swap(v) == IF v \in {Pair, Other} THEN Map(<<v.entries[2], v.entries[1]>>) ELSE v
Names == <<Int_(1), Text(<<1, 1>>), Array(<<Int_(1)>>), Tag(2, Int_(1)), Pair, Other>>
Bases == UNION {{Map([i \in DOMAIN k |-> <<k[i], x[i]>>]) : x \in [DOMAIN k -> {Int_(0), Pair}]} :
                  k \in {s \in Selections(Names) : Len(s) <= 3}}
MCShuffled ==
  UNION {{[doc |-> Map([i \in DOMAIN b.entries |->
                          <<IF keys THEN Swap(b.entries[o[i]][1]) ELSE b.entries[o[i]][1],
                            IF values THEN Swap(b.entries[o[i]][2]) ELSE b.entries[o[i]][2]>>]),
           base |-> b] :
            o \in Orders(Len(b.entries)), keys \in BOOLEAN, values \in BOOLEAN} : b \in Bases}

\* Maps of up to three entries with the same key in any places, at any depth:
\* keys of every kind, and keys that are equal to one function and not to another.
Zeros(zero) == Map(<<<<zero, Null>>, <<Float(2), Null>>>>)
MCDocs ==
  LET kinds == {Int_(1), Text(<<1>>), Bytes(<<1>>), Array(<<Int_(1)>>), Tag(1, Int_(1)), Map(<<>>)}
      likes == {Int_(1), Float(0), NegativeZero, Float(2), NaN(0), NaN(1), Pair, Swap(Pair),
                Zeros(Float(0)), Zeros(NegativeZero)}
      flat == UNION {{Map([i \in 1 .. n |-> <<k[i], Tag(i, Int_(i))>>]) :
                        k \in [1 .. n -> kinds] \cup [1 .. n -> likes]} : n \in 0 .. 3}
  IN  flat
      \cup UNION {{Array(<<m, Bool(TRUE)>>), Tag(1, Tag(2, m)), Tag(1, Array(<<Tag(1, m)>>)),
                   Map(<<<<m, Null>>>>), Map(<<<<Null, m>>>>), Map(<<<<m, m>>, <<Null, m>>>>)} : m \in flat}

\* Numbers at the limits of i64 and u64, floats, texts, arrays and objects.
MCJsonTexts ==
  LET scalars == {Null, Bool(FALSE)} \cup {JsonNumber(n) : n \in {-40, -1, 0, 24, 39, 40, 79}}
                 \cup {JsonString(s) : s \in {<<>>, <<1>>, <<66, 1>>}}
                 \cup {JsonDouble(v) : v \in {Float(2), Float(-1), NegativeZero}}
      names == {<<1>>, <<1, 1>>, <<2>>}
      objects(inner) == UNION {{JsonObject(f) : f \in [d -> inner]} : d \in SUBSET names}
      few == {JsonNumber(-40), JsonString(<<1>>)}
  IN  scalars \cup objects(few) \cup {JsonArray(<<a, b>>) : a, b \in scalars}
      \cup {JsonArray(<<o>>) : o \in objects(few)}
      \cup objects({JsonNumber(79), JsonObject([n \in names |-> JsonNumber(0)]), JsonArray(<<>>)})

MCNone == {}
=============================================================================
