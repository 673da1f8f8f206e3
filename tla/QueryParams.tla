---------------------------- MODULE QueryParams ----------------------------
(***************************************************************************)
(* Query parameters: QueryPairs of crates/rqx-core/src/query_params.rs,    *)
(* behind the immutable rqx.QueryParams and the copy_*_param methods of    *)
(* rqx.URL.  The program that uses them is in Url.                         *)
(*                                                                         *)
(* The dictionary of httpx is kept as one flat vector of pairs.  The query *)
(* of a URL is text: it is parsed, changed and written out again each      *)
(* time, and a query that came with the URL has its pairs in any order.    *)
(* Percent-encoding keeps keys and values, so the text of a query is the   *)
(* sequence of the pairs written in it.                                    *)
(***************************************************************************)
EXTENDS Keyed

CONSTANTS Keys,
          Values    \* the text of a value; a None is the empty text

Pair == [key : Keys, value : Values]

P(k, v) == [key |-> k, value |-> v]

\* Mutant of Push: every pair goes last.
PushLast(ps, k, v) == Append(ps, P(k, v))

\* push: behind the last pair with this key, or last.
Push(ps, k, v) ==
    LET at == {i \in DOMAIN ps : ps[i].key = k} IN
    IF at = {} THEN Append(ps, P(k, v))
    ELSE InsertAt(ps, (CHOOSE i \in at : \A j \in at : j <= i) + 1, P(k, v))

\* The pairs of text, one after the other.
PushAll(ps, text) ==
    LET out[n \in 0..Len(text)] == IF n = 0 THEN ps
                                   ELSE Push(out[n - 1], text[n].key, text[n].value)
    IN  out[Len(text)]

\* parse, of the pairs of a query string.
Parse(text) == PushAll(<<>>, text)

\* from_items: a list fans out to one pair per element.
FanOut(item) == [i \in DOMAIN item.values |-> P(item.key, item.values[i])]

FromItems(items) ==
    LET out[n \in 0..Len(items)] == IF n = 0 THEN <<>>
                                    ELSE PushAll(out[n - 1], FanOut(items[n]))
    IN  out[Len(items)]

WithKey(ps, k) == Only(ps, {k})

GetList(ps, k) == LET found == WithKey(ps, k) IN [i \in DOMAIN found |-> found[i].value]

\* keys: each key where it first appears.
AddKey(ks, p) == IF Contains(ks, p.key) THEN ks ELSE Append(ks, p.key)

KeysOf(ps) ==
    LET ks[n \in 0..Len(ps)] == IF n = 0 THEN <<>> ELSE AddKey(ks[n - 1], ps[n])
    IN  ks[Len(ps)]

RemoveKey(ps, k) == Without(ps, k)

\* Mutant of Set: the values the key has stay.
SetAdds(ps, k, v) == Push(ps, k, v)

\* set: the first pair with the key is replaced, the others go.
Replaced(out, k, v) == IF HasKey(out, k) THEN out ELSE Append(out, P(k, v))

Set(ps, k, v) ==
    LET out[n \in 0..Len(ps)] == IF n = 0 THEN <<>>
                                 ELSE IF ps[n].key = k THEN Replaced(out[n - 1], k, v)
                                 ELSE Append(out[n - 1], ps[n])
    IN  Replaced(out[Len(ps)], k, v)

Add(ps, k, v) == Push(ps, k, v)

\* merge: the other wins for its keys, where we had them; its new keys go last.
\* A key is taken when the outcome has it.
Taken(out, p, other) ==
    IF HasKey(out, p.key) THEN out ELSE out \o WithKey(other, p.key)

Kept(ps, other) ==
    LET out[n \in 0..Len(ps)] == IF n = 0 THEN <<>>
                                 ELSE IF HasKey(other, ps[n].key)
                                      THEN Taken(out[n - 1], ps[n], other)
                                 ELSE Append(out[n - 1], ps[n])
    IN  out[Len(ps)]

Merge(ps, other) ==
    LET kept == Kept(ps, other)
    IN  kept \o Only(other, KeySet(other) \ KeySet(kept))

\* What a params object is made from.
Items == UNION {[1..n -> [key : Keys, values : UNION {[1..m -> Values] : m \in 0..2}]] : n \in 0..2}

\* The dictionary a vector of pairs stands for, by the accessors keys() and
\* get_list().
DictOf(ps) ==
    LET ks == KeysOf(ps)
    IN  [n \in DOMAIN ks |-> [key |-> ks[n], values |-> GetList(ps, ks[n])]]

=============================================================================
