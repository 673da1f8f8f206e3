------------------------------- MODULE MCUrl -------------------------------
(***************************************************************************)
(* A place for every way a URL can be written: without a scheme or with    *)
(* one, with an authority or without, rooted or not, with dots, double     *)
(* slashes and a colon where they can be taken for something else.  Keys   *)
(* are interchangeable: no operation orders them.                          *)
(***************************************************************************)
EXTENDS Url, TLC

Path(path) == [Empty EXCEPT !.path = path]
Net(text, host, port) == [text EXCEPT !.net = TRUE, !.host = host, !.port = port]
Http(text, host, port) == [Net(text, host, port) EXCEPT !.scheme = "http"]
Fragment(text) == [text EXCEPT !.fragment = "f"]

OnePair == {<<P(k, "1")>> : k \in Keys}

WithQuery(text) == {[text EXCEPT !.query = q] : q \in OnePair}

MCPlaces ==
    {Empty, Fragment(Path(<<"a", "b">>)), Path(<<"", "a">>), Path(<<"..", "a">>),
     Path(<<".", "c:d">>), Path(<<".", "", "a">>),
     Net(Empty, "h", ""), [Net(Path(<<"", "a", "..">>), "h", "80") EXCEPT !.user = "u"],
     Net(Path(<<"", "", "a">>), "h", ""),
     Http(Empty, "h", "80"), [Http(Path(<<"", "a", "b">>), "h", "8080") EXCEPT !.user = "u"],
     [Path(<<"d", "a">>) EXCEPT !.scheme = "c"], [Path(<<"", "a", "..">>) EXCEPT !.scheme = "c"],
     [Net(Empty, "h", "80") EXCEPT !.scheme = "c"]}
    \cup WithQuery(Path(<<"b">>)) \cup WithQuery(Http(Path(<<"", "a">>), "h", ""))

MCReferences ==
    {Empty, Fragment(Empty), Path(<<"a">>), Path(<<"b", "">>), Path(<<"..">>),
     Path(<<"..", "b">>), Path(<<"", "a">>), Path(<<".", "c:d">>), Path(<<"", ".", "", "a">>),
     Net(Path(<<"", "b">>), "g", ""), Http(Path(<<"", "..", "b">>), "g", "80"),
     [Path(<<"d">>) EXCEPT !.scheme = "c"]}
    \cup WithQuery(Empty) \cup WithQuery(Fragment(Path(<<"a">>)))

MCKwargs ==
    {<<>>, [scheme |-> ""], [scheme |-> "http"], [scheme |-> "c", host |-> "g"],
     [user |-> ""], [user |-> "u"], [host |-> ""], [host |-> "g"],
     [port |-> ""], [port |-> "80"], [port |-> "text"], [colour |-> ""],
     [path |-> <<"">>], [path |-> <<"b">>], [path |-> <<"c:d">>], [path |-> <<"", "", "a">>],
     [fragment |-> ""], [fragment |-> "f", path |-> <<"", "a", "..", "b">>]}
    \cup {[query |-> <<>>, params |-> q] : q \in OnePair}
    \cup {[query |-> q, port |-> ""] : q \in OnePair}

KeySymmetry == Permutations(Keys)

\* No step reads called: states that differ in it alone go on alike.  Every step,
\* also one to a state that was seen before, is compared with MultiDict.
WithoutCalled == <<program, pairs, url>>

=============================================================================
