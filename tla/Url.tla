-------------------------------- MODULE Url --------------------------------
(***************************************************************************)
(* rqx.URL: UrlReference, its components and base_url                      *)
(* (crates/rqx-core/src/url/, crates/rqx/src/url/py_url.rs), used by a     *)
(* program that holds a params object and a URL.  Both are immutable: an   *)
(* operation yields a new value, which replaces the one the program had;   *)
(* an operation that raises leaves it.                                     *)
(*                                                                         *)
(* A URL is kept as text and read again by every operation.  The text is   *)
(* given by its parts: a path is the sequence of what stands between the   *)
(* slashes (<<"">> is the empty path, <<"", "">> is "/"), a query is the   *)
(* sequence of its pairs, and "" is a part that is not there.  `net' says  *)
(* that there is a "//", that is an authority, whose host may be empty.    *)
(* Parts that are put together can be read back as other parts: a path     *)
(* that begins with "//" as an authority, a segment with a colon as a      *)
(* scheme.  Percent-encoding, IDNA and passwords are left out.             *)
(***************************************************************************)
EXTENDS QueryParams

CONSTANTS Places,       \* the URLs a program starts with
          References,   \* the texts it joins to one
          Kwargs,       \* the keyword arguments it gives to copy_with
          Colon,        \* a segment with a colon, for example "items:search", ...
          ColonScheme,  \* ... what stands before the colon and ...
          ColonRest,    \* ... what stands behind it
          MaxPairs,     \* bound: pairs in a query or in a params object
          MaxSegments   \* bound: segments of a path

VARIABLES program,  \* what it is about: "parameters" or "references"
          pairs,    \* the QueryPairs of the params object
          url,      \* the UrlReference
          called    \* the call of the last step, which no step reads

vars == <<program, pairs, url, called>>

Fields == {"scheme", "user", "host", "port", "path", "query", "fragment"}

\* The parts of a URL, as its accessors give them; here none is there.
Empty == [scheme |-> "", net |-> FALSE, user |-> "", host |-> "", port |-> "",
          path |-> <<"">>, query |-> <<>>, fragment |-> ""]

\* u has these parts and no other.
IsUrl(u) == u = [f \in DOMAIN Empty |-> u[f]]

IsPath(path) == path \in Seq(STRING) /\ path # <<>>

Invalid == [Empty EXCEPT !.path = <<>>]  \* InvalidURL

Rooted(path) == Len(path) > 1 /\ Head(path) = ""

TwoSlashes(path) == Len(path) > 2 /\ path[1] = "" /\ path[2] = ""

\* trim_start_matches('/')
Trim(path) ==
    LET kept == {i \in DOMAIN path : path[i] # ""} \cup {Len(path)}
    IN  SubSeq(path, CHOOSE i \in kept : \A j \in kept : i <= j, Len(path))

-----------------------------------------------------------------------------
(* Reading a text                                                          *)

\* The parts a reader finds in a text that was put together from parts.
Read(text) ==
    IF text.scheme # "" \/ text.net THEN text
    ELSE IF TwoSlashes(text.path)
         THEN IF text.path[3] = Colon THEN Invalid  \* a port that is no number
              ELSE [text EXCEPT !.net = TRUE, !.host = text.path[3],
                                !.path = <<"">> \o SubSeq(@, 4, Len(@))]
    ELSE IF Head(text.path) = Colon
         THEN [text EXCEPT !.scheme = ColonScheme, !.path = <<ColonRest>> \o Tail(@)]
    ELSE text

RemoveDots(path) ==
    LET Step(done, segment) ==
            CASE segment = "."  -> done
              [] segment = ".." -> IF Len(done) > 1 THEN Front(done) ELSE done
              [] OTHER          -> Append(done, segment)
        out == FoldLeft(Step, <<>>, path)
    IN  IF Last(path) \in {".", ".."} THEN Append(out, "") ELSE out

\* url::Url: dot segments are removed, except from an opaque path, which has
\* neither an authority nor a slash before it; http has a default port and
\* always a path.
Normal(text) ==
    IF text.scheme = "" \/ ~(text.net \/ Rooted(text.path)) THEN text
    ELSE IF text.scheme = "http"
         THEN [text EXCEPT !.path = RemoveDots(IF @ = <<"">> THEN <<"", "">> ELSE @),
                           !.port = IF @ = "80" THEN "" ELSE @]
    ELSE [text EXCEPT !.path = RemoveDots(@)]

\* UrlReference::parse: an absolute URL is normalised, a reference without a
\* scheme is kept as it is written.
ParseUrl(text) == Normal(Read(text))

IsAbsolute(u) == u.scheme # "" /\ u.host # ""

-----------------------------------------------------------------------------
(* join                                                                    *)

Authority(u) == [net |-> u.net, user |-> u.user, host |-> u.host, port |-> u.port]

\* RFC 3986 5.2.2, transform references.
Transform(base, other) ==
    LET there == [other EXCEPT !.scheme = base.scheme]
        here == [base EXCEPT !.query = other.query, !.fragment = other.fragment]
    IN  IF other.net THEN there
        ELSE IF other.path = <<"">>
             THEN [here EXCEPT !.query = IF @ = <<>> THEN base.query ELSE @]
        ELSE IF Rooted(other.path) THEN [here EXCEPT !.path = other.path]
        ELSE [here EXCEPT !.path = IF base.path = <<"">> /\ base.net THEN <<"">> \o other.path
                                   ELSE Front(base.path) \o other.path]

\* Url::join.  An opaque path resolves a fragment only.
UrlJoin(base, other) ==
    IF other.scheme # "" THEN Normal(other)
    ELSE IF /\ ~(base.net \/ Rooted(base.path))
            /\ other.net \/ other.path # <<"">> \/ other.query # <<>> \/ other.fragment = ""
         THEN Invalid
    ELSE Normal(Transform(base, other))

Anchor == [Empty EXCEPT !.scheme = "http", !.net = TRUE, !.host = "rqx.invalid"]

\* Mutant of JoinRelative: the query of the base is not anchored.
JoinRelativeForgets(base, other) ==
    IF other.scheme # "" \/ other.net THEN ParseUrl(other)
    ELSE LET anchored == Normal([Anchor EXCEPT !.path = <<"">> \o Trim(base.path)])
             tail == UrlJoin(anchored, other)
         IN  ParseUrl([tail EXCEPT !.scheme = "", !.net = base.net, !.user = base.user,
                                   !.host = base.host, !.port = base.port,
                                   !.path = IF base.net \/ Rooted(base.path) \/ Rooted(other.path)
                                            THEN @ ELSE Trim(@)])

\* join_relative: the base is resolved on a borrowed one, which is then taken
\* off again, and the result is read from the text that remains.
JoinRelative(base, other) ==
    IF other.scheme # "" \/ other.net THEN ParseUrl(other)
    ELSE LET anchored == Normal([Anchor EXCEPT !.path = <<"">> \o Trim(base.path),
                                               !.query = base.query])
             tail == UrlJoin(anchored, other)
         IN  ParseUrl([tail EXCEPT !.scheme = "", !.net = base.net, !.user = base.user,
                                   !.host = base.host, !.port = base.port,
                                   !.path = IF base.net \/ Rooted(base.path) \/ Rooted(other.path)
                                            THEN @ ELSE Trim(@)])

JoinUrl(base, other) ==
    IF other = Empty THEN base
    ELSE IF base.scheme # "" THEN UrlJoin(base, other)
    ELSE JoinRelative(base, other)

-----------------------------------------------------------------------------
(* copy_with                                                               *)

\* The parts a call names over the ones the URL has.
Over(base, named) ==
    [f \in DOMAIN base |-> IF f \in DOMAIN named THEN named[f] ELSE base[f]]

\* What compose writes: without a host neither scheme nor authority, and a
\* slash between a host and a path that has none.
Written(parts) ==
    IF parts.host = ""
    THEN [parts EXCEPT !.scheme = "", !.net = FALSE, !.user = "", !.port = ""]
    ELSE [parts EXCEPT !.net = TRUE,
                       !.path = IF @ = <<"">> \/ Rooted(@) THEN @ ELSE <<"">> \o @]

\* Mutant of Compose: a port that is cleared counts as not given.
ComposeKeepsPort(base, named) ==
    LET parts == Over(base, named)
    IN  ParseUrl(Written([parts EXCEPT !.port = IF @ = "" THEN base.port ELSE @]))

Compose(base, named) == ParseUrl(Written(Over(base, named)))

\* from_hash_map: one keyword after the other, in the order of the HashMap, so
\* that either of query= and params= may be the last to set the query.  An
\* unknown keyword or a port that is no number raises.
Components(kwargs) ==
    LET named(q) == [f \in (DOMAIN kwargs \cap Fields) \cup (IF q = {} THEN {} ELSE {"query"}) |->
                        IF f = "query" THEN kwargs[CHOOSE k \in q : TRUE] ELSE kwargs[f]]
        queries == DOMAIN kwargs \cap {"query", "params"}
    IN  IF ~(DOMAIN kwargs \subseteq Fields \cup {"params"}) THEN {}
        ELSE IF "port" \in DOMAIN kwargs /\ kwargs.port = "text" THEN {}
        ELSE IF queries = {} THEN {named({})}
        ELSE {named({k}) : k \in queries}

\* The URLs copy_with may yield.
CopyWith(base, kwargs) ==
    IF DOMAIN kwargs = {} THEN {base}
    ELSE {Compose(base, named) : named \in Components(kwargs)} \ {Invalid}

\* with_params
WithParams(base, ps) == Compose(base, [query |-> ps])

-----------------------------------------------------------------------------
(* base_url                                                                *)

\* BaseUrl::new
TrailingSlash(base) == [base EXCEPT !.path = IF Len(@) > 1 /\ Last(@) = "" THEN @ ELSE Append(@, "")]

\* raw_path: path and query, as they go on the request line.
RawPath(u) ==
    [Empty EXCEPT !.path = IF u.path = <<"">> THEN <<"", "">> ELSE u.path, !.query = u.query]

\* Mutant of BaseJoin: the path is joined with its slashes.
BaseJoinRooted(base, u) == UrlJoin(base, Read(RawPath(u)))

\* BaseUrl::join
BaseJoin(base, u) ==
    LET raw == RawPath(u) IN UrlJoin(base, Read([raw EXCEPT !.path = Trim(@)]))

\* merge_url, with a base_url.
MergeUrl(base, u) == IF u.scheme # "" /\ u.net THEN u ELSE BaseJoin(base, u)

-----------------------------------------------------------------------------
(* The operations of a program                                             *)

\* Bound: a program about references has queries of one pair.
Limit == IF program = "parameters" THEN MaxPairs ELSE 1

Plain == [Anchor EXCEPT !.path = <<"", "">>]

\* A params object made from items and a URL with a query, or any URL.
Init ==
    /\ called = <<>>
    /\ \/ /\ program = "parameters"
          /\ pairs \in {ps \in {FromItems(items) : items \in Items} : Len(ps) <= MaxPairs}
          /\ \E q \in UNION {[1..n -> Pair] : n \in 0..MaxPairs} : url = [Plain EXCEPT !.query = q]
       \/ /\ program = "references"
          /\ pairs = <<>>
          /\ \E text \in Places : url = ParseUrl(text)

NewParams(ps) ==
    /\ program = "parameters"
    /\ Len(ps) <= MaxPairs
    /\ pairs' = ps
    /\ UNCHANGED <<program, url>>

NewUrl(u) ==
    /\ u # Invalid
    /\ Len(u.query) <= Limit
    /\ Len(u.path) <= MaxSegments
    /\ url' = u
    /\ UNCHANGED <<program, pairs>>

SetParam ==
    \E k \in Keys, v \in Values :
        called' = <<"set", k, v>> /\ NewParams(Set(pairs, k, v))
AddParam ==
    \E k \in Keys, v \in Values :
        called' = <<"add", k, v>> /\ NewParams(Add(pairs, k, v))
RemoveParam ==
    \E k \in Keys : called' = <<"remove", k>> /\ NewParams(RemoveKey(pairs, k))

\* url.params, alone and as the argument of merge.
UrlParams == called' = <<"params">> /\ NewParams(Parse(url.query))
MergeParams == called' = <<"merge">> /\ NewParams(Merge(pairs, Parse(url.query)))

CopySetParam ==
    \E k \in Keys, v \in Values :
        /\ called' = <<"copy_set_param", k, v>>
        /\ NewUrl(WithParams(url, Set(Parse(url.query), k, v)))
CopyAddParam ==
    \E k \in Keys, v \in Values :
        /\ called' = <<"copy_add_param", k, v>>
        /\ NewUrl(WithParams(url, Add(Parse(url.query), k, v)))
CopyRemoveParam ==
    \E k \in Keys :
        /\ called' = <<"copy_remove_param", k>>
        /\ NewUrl(WithParams(url, RemoveKey(Parse(url.query), k)))
CopyMergeParams ==
    /\ called' = <<"copy_merge_params">>
    /\ NewUrl(WithParams(url, Merge(Parse(url.query), pairs)))

\* A request with params= replaces the query of its URL.
RequestParams ==
    /\ program = "parameters"
    /\ called' = <<"request">>
    /\ NewUrl([url EXCEPT !.query = pairs])

Join ==
    /\ program = "references"
    /\ \E other \in References :
          called' = <<"join", DictOf(other.query)>> /\ NewUrl(JoinUrl(url, other))

\* The queries among the keyword arguments.
Queries(kwargs) == {DictOf(kwargs[k]) : k \in DOMAIN kwargs \cap {"query", "params"}}

Copy ==
    /\ program = "references"
    /\ \E kwargs \in Kwargs : \E u \in CopyWith(url, kwargs) :
          called' = <<"copy_with", Queries(kwargs)>> /\ NewUrl(u)

Next ==
    \/ SetParam \/ AddParam \/ RemoveParam \/ UrlParams \/ MergeParams
    \/ CopySetParam \/ CopyAddParam \/ CopyRemoveParam \/ CopyMergeParams \/ RequestParams
    \/ Join \/ Copy

Spec == Init /\ [][Next]_vars

\* The texts a program starts from are taken apart as a reader does; a path has
\* a segment, if an empty one, a host an authority, and behind an authority a
\* path begins with a slash.
ASSUME UrlAssumption ==
    /\ MaxPairs \in Nat /\ MaxSegments \in Nat
    /\ ColonRest \in STRING /\ Colon # ""
    /\ \A text \in Places \cup References :
          /\ IsUrl(text) /\ Read(text) = text
          /\ IsPath(text.path) /\ text.query \in Seq(Pair)
          /\ text.host # "" => text.net
          /\ text.net => text.path = <<"">> \/ Rooted(text.path)
    /\ \A kwargs \in Kwargs :
          /\ "path" \in DOMAIN kwargs => IsPath(kwargs.path)
          /\ \A k \in DOMAIN kwargs \cap {"query", "params"} : kwargs[k] \in Seq(Pair)

-----------------------------------------------------------------------------
(* Properties                                                              *)

\* The queries a program about references brings along.
Brought == {DictOf(other.query) : other \in References} \cup UNION {Queries(kwargs) : kwargs \in Kwargs}

Dict == INSTANCE MultiDict
            WITH params <- DictOf(pairs), query <- DictOf(url.query), Given <- Brought

\* query_params.rs:44-45 and 116: each call does to the flat vector what a call
\* of that name with these arguments does to "the dict[str, list[str]] httpx
\* keeps", order of keys and of values included, also through the text of a
\* URL, whose query only a call on the URL changes.
ImplementsMultiDict == Dict!Spec

\* query_params.rs:44, "Values sit under the first appearance of their key":
\* whatever was set, added, merged or parsed, and in whatever order, the pairs
\* of a key are neighbours, so that multi_items() and the request line list
\* the keys in the order of keys().
Grouped ==
    \A i, j \in DOMAIN pairs :
        pairs[i].key = pairs[j].key => \A m \in i..j : pairs[m].key = pairs[i].key

\* Where a reference leads from the root of a site.
FromRoot(u) == IF u = Invalid THEN Invalid ELSE UrlJoin(Plain, u)

\* The joins whose result no longer says what was meant: the path of one side
\* begins with two slashes, or a first segment with a colon has lost what
\* stood before it.
Misread(base, other) ==
    LET path == UrlJoin(FromRoot(base), other).path IN
    /\ base.scheme = "" /\ other.scheme = "" /\ ~other.net
    /\ \/ TwoSlashes(base.path)
       \/ ~base.net /\ TwoSlashes(path)
       \/ ~base.net /\ ~Rooted(base.path) /\ ~Rooted(other.path) /\ path[2] = Colon

\* reference.rs:316-318, an argument "merges against it, on a borrowed absolute
\* base" that "the result is then taken back off": joining two references and going where
\* the result leads is going where the first leads and from there where the
\* second does, for every base that joins and copies can produce.
JoinResolves ==
    \A other \in References \ {Empty} :
        \/ Misread(url, other)
        \/ FromRoot(JoinUrl(url, other)) = UrlJoin(FromRoot(url), other)

\* copy_with and the copy_*_param methods change the parts they name and no
\* other, although every part is written out and read again: scheme, port and
\* userinfo can be given, changed and cleared one by one.  It holds of every
\* URL with a host, and of a reference that has none of these and a path that
\* cannot be taken for them.
CopyKeepsTheRest ==
    \A kwargs \in Kwargs : \A named \in Components(kwargs) :
        LET parts == Over(url, named)
            meant == [parts EXCEPT !.net = (parts.host # "")]
        IN  \/ /\ parts.host = ""
               /\ \/ \E f \in {"scheme", "user", "port"} : parts[f] # ""
                  \/ TwoSlashes(parts.path) \/ Head(parts.path) = Colon
            \/ Compose(url, named) = Normal(meant)
            \/ /\ parts.host # "" /\ ~Rooted(parts.path)
               /\ Compose(url, named) = Normal([meant EXCEPT !.path = <<"">> \o @])

\* base_url.rs:35-36, "contributes its path and query only": whatever the URL
\* of a request was made from, it stays on the site of the base_url and, unless
\* it climbs with "..", under its path, and it keeps its own query, or gets
\* that of the base_url when it has neither path nor query; only a path whose
\* first segment has a colon goes elsewhere.
BaseUrlConfines ==
    \A text \in {t \in Places : IsAbsolute(t)} :
        LET base == TrailingSlash(ParseUrl(text))
            target == MergeUrl(base, url)
        IN  \/ url.scheme # "" /\ url.net
            \/ Head(Trim(url.path)) = Colon
            \/ /\ Authority(target) = Authority(base) /\ target.scheme = base.scheme
               /\ target.query = IF url.query = <<>> /\ Trim(url.path) = <<"">>
                                 THEN base.query ELSE url.query
               /\ (".." \in {url.path[i] : i \in DOMAIN url.path}
                     \/ IsPrefix(Front(base.path), target.path))

=============================================================================
