----------------------------- MODULE MultiDict -----------------------------
(***************************************************************************)
(* What rqx.QueryParams promises: httpx's dict[str, list[str]], an ordered *)
(* dictionary from a key to its values.  Two of them matter to a program:  *)
(* the params object it holds and the query of the URL it holds, which     *)
(* parameters can be moved between.  Each call of the program does to the  *)
(* one it is made on what its name and its arguments say, and nothing to   *)
(* the other.                                                              *)
(***************************************************************************)
EXTENDS Keyed

CONSTANTS Keys, Values,
          Given   \* the dictionaries the program has as the query of a text

VARIABLES params,  \* the dictionary of the QueryParams object
          query,   \* the dictionary of the URL's query
          called   \* the call of the last step: its name and its arguments

vars == <<params, query, called>>

\* A dictionary is a sequence of entries, in the order of insertion.
Lookup(d, k) ==
    IF HasKey(d, k) THEN d[CHOOSE i \in DOMAIN d : d[i].key = k].values ELSE <<>>

\* d[k] = vs: in place when k is there, last when it is new.
Put(d, k, vs) ==
    LET entry == [key |-> k, values |-> vs] IN
    IF HasKey(d, k) THEN [i \in DOMAIN d |-> IF d[i].key = k THEN entry ELSE d[i]]
                    ELSE Append(d, entry)

\* {**d, **e}: the values of e for its keys, its new keys last.
Merged(d, e) ==
    [i \in DOMAIN d |-> IF HasKey(e, d[i].key)
                        THEN [key |-> d[i].key, values |-> Lookup(e, d[i].key)] ELSE d[i]]
    \o Only(e, KeySet(e) \ KeySet(d))

-----------------------------------------------------------------------------

\* Any two dictionaries to start with.
Init ==
    /\ called = <<>>
    /\ \A d \in {params, query} : \A i \in DOMAIN d :
          /\ d[i].key \in Keys /\ d[i].values # <<>>
          /\ \A j \in DOMAIN d : d[j].key = d[i].key => j = i

\* params.set(k, v), params.add(k, v), params.remove(k)
SetParam(k, v) ==
    /\ called' = <<"set", k, v>>
    /\ params' = Put(params, k, <<v>>)
    /\ UNCHANGED query

AddParam(k, v) ==
    /\ called' = <<"add", k, v>>
    /\ params' = Put(params, k, Append(Lookup(params, k), v))
    /\ UNCHANGED query

RemoveParam(k) ==
    /\ called' = <<"remove", k>>
    /\ params' = Without(params, k)
    /\ UNCHANGED query

\* url.params, and params.merge(url.params)
UrlParams ==
    /\ called' = <<"params">>
    /\ params' = query
    /\ UNCHANGED query

MergeParams ==
    /\ called' = <<"merge">>
    /\ params' = Merged(params, query)
    /\ UNCHANGED query

\* The same on the URL: copy_set_param and so on.
CopySetParam(k, v) ==
    /\ called' = <<"copy_set_param", k, v>>
    /\ query' = Put(query, k, <<v>>)
    /\ UNCHANGED params

CopyAddParam(k, v) ==
    /\ called' = <<"copy_add_param", k, v>>
    /\ query' = Put(query, k, Append(Lookup(query, k), v))
    /\ UNCHANGED params

CopyRemoveParam(k) ==
    /\ called' = <<"copy_remove_param", k>>
    /\ query' = Without(query, k)
    /\ UNCHANGED params

CopyMergeParams ==
    /\ called' = <<"copy_merge_params">>
    /\ query' = Merged(query, params)
    /\ UNCHANGED params

\* A request with params=.
RequestParams ==
    /\ called' = <<"request">>
    /\ query' = params
    /\ UNCHANGED params

\* A reference with a query brings it along; one without may leave the old.
Join(d) ==
    /\ called' = <<"join", d>>
    /\ query' \in IF d = <<>> THEN {query, <<>>} ELSE {d}
    /\ UNCHANGED params

\* copy_with: one of the queries that are given takes the place of the old.
Copy(ds) ==
    /\ called' = <<"copy_with", ds>>
    /\ query' \in IF ds = {} THEN {query} ELSE ds
    /\ UNCHANGED params

Next ==
    \/ \E k \in Keys, v \in Values :
          SetParam(k, v) \/ AddParam(k, v) \/ CopySetParam(k, v) \/ CopyAddParam(k, v)
    \/ \E k \in Keys : RemoveParam(k) \/ CopyRemoveParam(k)
    \/ UrlParams \/ MergeParams \/ CopyMergeParams \/ RequestParams
    \/ \E d \in Given : Join(d)
    \/ \E ds \in SUBSET Given : Copy(ds)

Spec == Init /\ [][Next]_vars

=============================================================================
