------------------------------- MODULE Keyed -------------------------------
(***************************************************************************)
(* Sequences of records with a key: the pairs of QueryParams and the       *)
(* entries of MultiDict.                                                   *)
(***************************************************************************)
EXTENDS Naturals, SequencesExt

KeySet(s) == {s[i].key : i \in DOMAIN s}

HasKey(s, k) == k \in KeySet(s)

\* Those whose key is in ks, in their order.
Only(s, ks) ==
    LET kept[n \in 0..Len(s)] == IF n = 0 THEN <<>>
                                 ELSE IF s[n].key \in ks THEN Append(kept[n - 1], s[n])
                                 ELSE kept[n - 1]
    IN  kept[Len(s)]

\* Those with another key than k.
Without(s, k) == Only(s, KeySet(s) \ {k})

=============================================================================
