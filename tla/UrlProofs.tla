----------------------------- MODULE UrlProofs -----------------------------
(***************************************************************************)
(* Proofs about Url for every set of URLs a program starts with, of        *)
(* references it joins and of arguments it copies with.  What copy_with    *)
(* and the site of a base_url promise holds whatever RemoveDots does to a  *)
(* path; the path of a base_url needs its fold, taken step by step.        *)
(*                                                                         *)
(* The second half is about the query, for any keys, values and number of  *)
(* pairs.  The recursive functions of QueryParams are shown to take one    *)
(* element at a time; from that follow what each operation leaves grouped  *)
(* and what it does to the dictionary that keys() and get_list() show.     *)
(*                                                                         *)
(* The last part is about joins.  Every URL the program holds is settled:  *)
(* to normalise it once more changes nothing.  Both ways to take two joins *)
(* then lead to one site and to one path without dots.                     *)
(***************************************************************************)
EXTENDS Url, SequenceTheorems, WellFoundedInduction, TLAPS

-----------------------------------------------------------------------------
(* Every operation yields a URL with all its parts                         *)

Parts == {"scheme", "net", "user", "host", "port", "path", "query", "fragment"}

LEMMA EmptyParts == DOMAIN Empty = Parts
BY DEF Empty, Parts

LEMMA ConstantsAreUrls == IsUrl(Empty) /\ IsUrl(Invalid) /\ IsUrl(Anchor) /\ IsUrl(Plain)
<1>1. IsUrl(Empty)
    BY EmptyParts DEF IsUrl, Empty, Parts
<1> QED
    BY <1>1, EmptyParts DEF IsUrl, Invalid, Anchor, Plain, Parts

LEMMA ReadIsUrl == ASSUME NEW u, IsUrl(u) PROVE IsUrl(Read(u))
BY ConstantsAreUrls, EmptyParts DEF IsUrl, Read, Parts

LEMMA NormalIsUrl == ASSUME NEW u, IsUrl(u) PROVE IsUrl(Normal(u))
BY EmptyParts DEF IsUrl, Normal, Parts

LEMMA ParseIsUrl == ASSUME NEW u, IsUrl(u) PROVE IsUrl(ParseUrl(u))
BY ReadIsUrl, NormalIsUrl DEF ParseUrl

LEMMA TransformIsUrl ==
    ASSUME NEW b, IsUrl(b), NEW u, IsUrl(u) PROVE IsUrl(Transform(b, u))
BY EmptyParts DEF IsUrl, Transform, Parts

LEMMA UrlJoinIsUrl ==
    ASSUME NEW b, IsUrl(b), NEW u, IsUrl(u) PROVE IsUrl(UrlJoin(b, u))
BY ConstantsAreUrls, NormalIsUrl, TransformIsUrl DEF UrlJoin

LEMMA JoinRelativeIsUrl ==
    ASSUME NEW b, IsUrl(b), NEW u, IsUrl(u) PROVE IsUrl(JoinRelative(b, u))
<1> DEFINE anchored == Normal([Anchor EXCEPT !.path = <<"">> \o Trim(b.path),
                                             !.query = b.query])
           tail == UrlJoin(anchored, u)
           text == [tail EXCEPT !.scheme = "", !.net = b.net, !.user = b.user,
                                !.host = b.host, !.port = b.port,
                                !.path = IF b.net \/ Rooted(b.path) \/ Rooted(u.path)
                                         THEN @ ELSE Trim(@)]
<1>1. IsUrl([Anchor EXCEPT !.path = <<"">> \o Trim(b.path), !.query = b.query])
    BY ConstantsAreUrls, EmptyParts DEF IsUrl, Parts
<1>2. IsUrl(tail)
    BY <1>1, NormalIsUrl, UrlJoinIsUrl
<1>3. IsUrl(text)
    <2> HIDE DEF tail
    <2> QED
        BY <1>2, EmptyParts DEF IsUrl, Parts
<1>4. IsUrl(ParseUrl(text))
    BY <1>3, ParseIsUrl
<1>5. IsUrl(ParseUrl(u))
    BY ParseIsUrl
<1> QED
    BY <1>4, <1>5 DEF JoinRelative

LEMMA JoinIsUrl == ASSUME NEW b, IsUrl(b), NEW u, IsUrl(u) PROVE IsUrl(JoinUrl(b, u))
BY UrlJoinIsUrl, JoinRelativeIsUrl DEF JoinUrl

LEMMA OverIsUrl == ASSUME NEW b, IsUrl(b), NEW named PROVE IsUrl(Over(b, named))
BY EmptyParts DEF IsUrl, Over, Parts

LEMMA WrittenIsUrl == ASSUME NEW u, IsUrl(u) PROVE IsUrl(Written(u))
BY EmptyParts DEF IsUrl, Written, Parts

LEMMA ComposeIsUrl == ASSUME NEW b, IsUrl(b), NEW named PROVE IsUrl(Compose(b, named))
BY OverIsUrl, WrittenIsUrl, ParseIsUrl DEF Compose

LEMMA CopyIsUrl ==
    ASSUME NEW b, IsUrl(b), NEW kwargs, NEW u \in CopyWith(b, kwargs) PROVE IsUrl(u)
BY ComposeIsUrl DEF CopyWith

-----------------------------------------------------------------------------
(* copy_with                                                               *)

\* The inductive invariant: the URL of the program has all its parts.
HasParts == IsUrl(url)

LEMMA UrlInit == Init => HasParts
<1>1. ASSUME NEW q PROVE IsUrl([Plain EXCEPT !.query = q])
    BY ConstantsAreUrls, EmptyParts DEF IsUrl, Parts
<1>2. ASSUME NEW text \in Places PROVE IsUrl(ParseUrl(text))
    BY UrlAssumption, ParseIsUrl
<1> QED
    BY <1>1, <1>2 DEF Init, HasParts

LEMMA UrlStep == HasParts /\ [Next]_vars => HasParts'
<1> SUFFICES ASSUME IsUrl(url), [Next]_vars PROVE IsUrl(url')
    BY DEF HasParts
<1>1. CASE SetParam \/ AddParam \/ RemoveParam \/ UrlParams \/ MergeParams \/ UNCHANGED vars
    BY <1>1 DEF SetParam, AddParam, RemoveParam, UrlParams, MergeParams, NewParams, vars
<1>2. CASE CopySetParam \/ CopyAddParam \/ CopyRemoveParam \/ CopyMergeParams
    BY <1>2, ComposeIsUrl
    DEF CopySetParam, CopyAddParam, CopyRemoveParam, CopyMergeParams, WithParams, NewUrl
<1>3. CASE RequestParams
    <2>1. IsUrl([url EXCEPT !.query = pairs])
        BY EmptyParts DEF IsUrl, Parts
    <2> QED
        BY <1>3, <2>1 DEF RequestParams, NewUrl
<1>4. CASE Join
    BY <1>4, UrlAssumption, JoinIsUrl DEF Join, NewUrl
<1>5. CASE Copy
    BY <1>5, CopyIsUrl DEF Copy, NewUrl
<1> QED
    BY <1>1, <1>2, <1>3, <1>4, <1>5 DEF Next

\* What compose writes is read back as it was meant, for any arguments, when
\* the result has a host, or has none of the parts that need one and no path
\* that looks like one of them.
LEMMA WrittenReadsBack ==
    ASSUME NEW parts, IsUrl(parts), NEW meant, meant = [parts EXCEPT !.net = (parts.host # "")]
    PROVE  \/ /\ parts.host = ""
              /\ \/ \E f \in {"scheme", "user", "port"} : parts[f] # ""
                 \/ TwoSlashes(parts.path) \/ Head(parts.path) = Colon
           \/ ParseUrl(Written(parts)) = Normal(meant)
           \/ /\ parts.host # "" /\ ~Rooted(parts.path)
              /\ ParseUrl(Written(parts)) = Normal([meant EXCEPT !.path = <<"">> \o @])
<1>1. ParseUrl(Written(parts)) = Normal(Read(Written(parts)))
    BY DEF ParseUrl
<1>2. CASE parts.host # ""
    <2>1. Read(Written(parts)) = Written(parts)
        BY <1>2, EmptyParts DEF IsUrl, Written, Read, Parts
    <2>2. CASE parts.path = <<"">> \/ Rooted(parts.path)
        <3>1. Written(parts) = meant
            BY <1>2, <2>2, EmptyParts DEF IsUrl, Written, Parts
        <3> QED
            BY <1>1, <2>1, <3>1
    <2>3. CASE ~(parts.path = <<"">> \/ Rooted(parts.path))
        <3>1. Written(parts) = [meant EXCEPT !.path = <<"">> \o @]
            BY <1>2, <2>3, EmptyParts DEF IsUrl, Written, Parts
        <3> QED
            BY <1>1, <1>2, <2>1, <2>3, <3>1
    <2> QED
        BY <2>2, <2>3
<1>3. CASE /\ parts.host = "" /\ parts.scheme = "" /\ parts.user = "" /\ parts.port = ""
           /\ ~TwoSlashes(parts.path) /\ Head(parts.path) # Colon
    <2>1. Written(parts) = meant
        BY <1>3, EmptyParts DEF IsUrl, Written, Parts
    <2>2. meant.scheme = "" /\ meant.net = FALSE /\ meant.path = parts.path
        BY <1>3, EmptyParts DEF IsUrl, Parts
    <2>3. Read(meant) = meant
        BY <1>3, <2>2 DEF Read
    <2> QED
        BY <1>1, <2>1, <2>3
<1> QED
    BY <1>2, <1>3

\* copy_with, and the copy_*_param methods with it, change the parts they name
\* and no other, of every URL that joins and copies can produce, for any
\* starting points, references and arguments.
THEOREM CopyKeeps == Spec => []CopyKeepsTheRest
<1>1. ASSUME HasParts, NEW kwargs \in Kwargs, NEW named \in Components(kwargs),
             NEW parts, parts = Over(url, named),
             NEW meant, meant = [parts EXCEPT !.net = (parts.host # "")]
      PROVE  \/ /\ parts.host = ""
                /\ \/ \E f \in {"scheme", "user", "port"} : parts[f] # ""
                   \/ TwoSlashes(parts.path) \/ Head(parts.path) = Colon
             \/ Compose(url, named) = Normal(meant)
             \/ /\ parts.host # "" /\ ~Rooted(parts.path)
                /\ Compose(url, named) = Normal([meant EXCEPT !.path = <<"">> \o @])
    <2>1. IsUrl(parts) /\ Compose(url, named) = ParseUrl(Written(parts))
        BY <1>1, OverIsUrl DEF HasParts, Compose
    <2> QED
        BY <1>1, <2>1, WrittenReadsBack
<1>2. HasParts => CopyKeepsTheRest
    BY <1>1 DEF CopyKeepsTheRest
<1>3. Spec => []HasParts
    BY UrlInit, UrlStep, PTL DEF Spec
<1> QED
    BY <1>2, <1>3, PTL

-----------------------------------------------------------------------------
(* base_url                                                                *)

\* A set of naturals has a least element.
LEMMA LeastOf ==
    ASSUME NEW T, T \subseteq Nat, T # {}
    PROVE  \E i \in T : \A j \in T : i <= j
<1>1. PICK x \in T : \A y \in T : ~ (<<y, x>> \in OpToRel(<, Nat))
    BY NatLessThanWellFounded, WFMin
<1>2. \A y \in T : ~(y < x)
    BY <1>1 DEF OpToRel
<1> QED
    BY <1>2

\* The end of a sequence from its k-th element on.
LEMMA HeadFrom ==
    ASSUME NEW S, NEW s \in Seq(S), NEW k \in 1..Len(s)
    PROVE  /\ Head(SubSeq(s, k, Len(s))) = s[k] /\ SubSeq(s, k, Len(s))[1] = s[k]
           /\ k = Len(s) => SubSeq(s, k, Len(s)) = <<s[k]>>
<1>0. Len(s) \in Nat
    OBVIOUS
<1>1. Len(s) \in k..Len(s) /\ Len(s) \in 1..Len(s)
    BY <1>0
<1>2. Head(SubSeq(s, k, Len(s))) = s[k]
    BY <1>1, HeadTailOfSubSeq
<1>3. SubSeq(s, k, Len(s)) = <<s[k]>> \o SubSeq(s, k + 1, Len(s))
    BY <1>1, SubSeqRecursiveFirst
<1>4. ASSUME k = Len(s) PROVE SubSeq(s, k + 1, Len(s)) = <<>>
    <2>1. Len(s) < k + 1 /\ k + 1 \in Int /\ Len(s) \in Int
        BY <1>0, <1>4
    <2> QED
        BY <2>1, SubSeqEmpty
<1>5. <<s[k]>> \o <<>> = <<s[k]>>
    OBVIOUS
<1>6. SubSeq(s, k, Len(s))[1] = s[k]
    <2>1. k \in Int /\ Len(s) \in Int /\ 1 \in 1..(Len(s) - k + 1) /\ k + 1 - 1 = k
        BY <1>0, <1>1
    <2>2. \A i \in k..Len(s) : s[i] \in S
        OBVIOUS
    <2>3. SubSeq(s, k, Len(s))[1] = s[k + 1 - 1]
        BY <2>1, <2>2, SubSeqProperties
    <2> QED
        BY <2>1, <2>3
<1> QED
    BY <1>2, <1>3, <1>4, <1>5, <1>6

\* Trim leaves an empty path or one that begins with a segment of its argument.
LEMMA TrimHead ==
    ASSUME NEW S, NEW path \in Seq(S), path # <<>>
    PROVE  \/ Trim(path) = <<"">>
           \/ /\ Head(Trim(path)) # "" /\ Trim(path)[1] # ""
              /\ \E i \in 1..Len(path) : Head(Trim(path)) = path[i]
<1> DEFINE kept == {i \in DOMAIN path : path[i] # ""} \cup {Len(path)}
           first == CHOOSE i \in kept : \A j \in kept : i <= j
<1>1. DOMAIN path = 1..Len(path) /\ Len(path) \in Nat /\ Len(path) > 0
    OBVIOUS
<1>2. kept \subseteq 1..Len(path) /\ kept # {}
    <2>1. Len(path) \in 1..Len(path)
        BY <1>1
    <2>2. {i \in DOMAIN path : path[i] # ""} \subseteq 1..Len(path)
        BY <1>1, Zenon
    <2> QED
        BY <2>1, <2>2
<1>3. \E i \in kept : \A j \in kept : i <= j
    <2> HIDE DEF kept
    <2>1. kept \subseteq Nat
        BY <1>2
    <2> QED
        BY <1>2, <2>1, LeastOf
<1>4. first \in kept
    <2> HIDE DEF kept
    <2> QED
        BY <1>3
<1>5. Trim(path) = SubSeq(path, first, Len(path))
    BY DEF Trim
<1> HIDE DEF first
<1>6. first \in 1..Len(path)
    BY <1>2, <1>4
<1>7. path[first] # "" \/ first = Len(path)
    BY <1>4
<1>8. Head(Trim(path)) = path[first] /\ Trim(path)[1] = path[first]
    BY <1>5, <1>6, HeadFrom
<1>9. first = Len(path) => Trim(path) = <<path[first]>>
    BY <1>5, <1>6, HeadFrom
<1> QED
    BY <1>6, <1>7, <1>8, <1>9

LEMMA OneOrTwo ==
    ASSUME NEW x
    PROVE  /\ <<x>> \in Seq({x}) /\ <<x>> # <<>> /\ \A i \in 1..Len(<<x>>) : <<x>>[i] = x
           /\ <<x, x>> \in Seq({x}) /\ <<x, x>> # <<>>
           /\ \A i \in 1..Len(<<x, x>>) : <<x, x>>[i] = x
<1>1. Len(<<x>>) = 1 /\ \A i \in 1..1 : <<x>>[i] = x
    OBVIOUS
<1>2. Len(<<x, x>>) = 2 /\ \A i \in 1..2 : <<x, x>>[i] = x
    OBVIOUS
<1>3. x \in {x}
    OBVIOUS
<1>4. ASSUME NEW S, x \in S PROVE <<x>> \in Seq(S) /\ <<x, x>> \in Seq(S)
    BY <1>4
<1>5. <<x>> # <<>> /\ <<x, x>> # <<>>
    OBVIOUS
<1> QED
    BY <1>1, <1>2, <1>3, <1>4, <1>5, Zenon

LEMMA TrimSlashes == Trim(<<"">>) = <<"">> /\ Trim(<<"", "">>) = <<"">>
<1> DEFINE one == <<"">>
           two == <<"", "">>
<1>1. one \in Seq({""}) /\ one # <<>> /\ \A i \in 1..Len(one) : one[i] = ""
    BY OneOrTwo
<1>2. two \in Seq({""}) /\ two # <<>> /\ \A i \in 1..Len(two) : two[i] = ""
    BY OneOrTwo
<1> HIDE DEF one, two
<1>3. Trim(one) = <<"">>
    BY <1>1, TrimHead
<1>4. Trim(two) = <<"">>
    BY <1>2, TrimHead
<1> QED
    BY <1>3, <1>4 DEF one, two

LEMMA EmptyNotRooted == ~Rooted(<<"">>)
BY DEF Rooted

LEMMA EmptyNoSlashes == ~TwoSlashes(<<"">>)
BY DEF TwoSlashes

LEMMA NoSlashBefore ==
    ASSUME NEW path, path = <<"">> \/ (Head(path) # "" /\ path[1] # "")
    PROVE  ~Rooted(path) /\ ~TwoSlashes(path)
<1>1. Head(path) # "" => ~Rooted(path)
    BY DEF Rooted
<1>2. path[1] # "" => ~TwoSlashes(path)
    BY DEF TwoSlashes
<1> QED
    BY EmptyNotRooted, EmptyNoSlashes, <1>1, <1>2, Zenon

\* What UrlJoin makes of a reference that is a path without slashes before it:
\* the site of the base stays.
LEMMA JoinOfPath ==
    ASSUME NEW b, IsUrl(b), b.scheme # "", b.net = TRUE, ~(b.scheme = "http" /\ b.port = "80"),
           NEW o, IsUrl(o), o.scheme = "", o.net = FALSE, ~Rooted(o.path)
    PROVE  /\ Authority(UrlJoin(b, o)) = Authority(b)
           /\ UrlJoin(b, o).scheme = b.scheme
           /\ UrlJoin(b, o).query = IF o.query = <<>> /\ o.path = <<"">> THEN b.query ELSE o.query
<1> DEFINE t == Transform(b, o)
<1>1. UrlJoin(b, o) = Normal(t)
    BY DEF UrlJoin
<1>2. IsUrl(t)
    BY TransformIsUrl
<1>3. /\ t.scheme = b.scheme /\ t.net = TRUE /\ t.user = b.user /\ t.host = b.host
      /\ t.port = b.port
      /\ t.query = IF o.query = <<>> /\ o.path = <<"">> THEN b.query ELSE o.query
    BY EmptyParts DEF IsUrl, Transform, Parts
<1> HIDE DEF t
<1>4. /\ Normal(t).scheme = t.scheme /\ Normal(t).net = t.net /\ Normal(t).user = t.user
      /\ Normal(t).host = t.host /\ Normal(t).port = t.port /\ Normal(t).query = t.query
    BY <1>2, <1>3, EmptyParts DEF IsUrl, Normal, Parts
<1> QED
    BY <1>1, <1>3, <1>4 DEF Authority

\* A request that is not absolute is joined to its base_url as a path without
\* slashes before it.
LEMMA MergeIsJoin ==
    ASSUME NEW base, NEW u, IsUrl(u), NEW S, u.path \in Seq(S), u.path # <<>>,
           ~(u.scheme # "" /\ u.net), Head(Trim(u.path)) # Colon
    PROVE  \E o : /\ IsUrl(o) /\ o.scheme = "" /\ o.net = FALSE /\ o.query = u.query
                  /\ o.path = Trim(u.path) /\ ~Rooted(o.path)
                  /\ MergeUrl(base, u) = UrlJoin(base, o)
<1> DEFINE path == IF u.path = <<"">> THEN <<"", "">> ELSE u.path
           o == [RawPath(u) EXCEPT !.path = Trim(@)]
<1>0. Trim(u.path) = <<"">> \/ (Head(Trim(u.path)) # "" /\ Trim(u.path)[1] # "")
    <2>1. u.path \in Seq(S) /\ u.path # <<>>
        OBVIOUS
    <2> QED
        BY <2>1, TrimHead, Zenon
<1>1. Trim(path) = Trim(u.path)
    BY TrimSlashes
<1>2. /\ IsUrl(o) /\ o.scheme = "" /\ o.net = FALSE /\ o.query = u.query
      /\ o.path = Trim(path)
    BY EmptyParts DEF IsUrl, RawPath, Empty, Parts
<1> HIDE DEF o, path
<1>3. ~Rooted(o.path) /\ ~TwoSlashes(o.path) /\ Head(o.path) # Colon
    <2>1. o.path = Trim(u.path)
        BY <1>1, <1>2
    <2> QED
        BY <1>0, <2>1, NoSlashBefore
<1>4. Read(o) = o
    BY <1>2, <1>3 DEF Read
<1>5. MergeUrl(base, u) = UrlJoin(base, o)
    BY <1>4 DEF MergeUrl, BaseJoin, o
<1> QED
    BY <1>1, <1>2, <1>3, <1>5

\* A request stays on the site of its base_url, whatever its URL was made from,
\* and keeps its query: for every URL without a scheme or without an authority,
\* however many slashes its path begins with, and every base_url.  The excepted
\* path, whose first segment has a colon, is read as an absolute URL.
THEOREM BaseUrlKeepsSite ==
    ASSUME NEW base, IsUrl(base), base.scheme # "", base.net = TRUE,
           ~(base.scheme = "http" /\ base.port = "80"),
           NEW u, IsUrl(u), NEW S, u.path \in Seq(S), u.path # <<>>,
           ~(u.scheme # "" /\ u.net), Head(Trim(u.path)) # Colon
    PROVE  /\ Authority(MergeUrl(base, u)) = Authority(base)
           /\ MergeUrl(base, u).scheme = base.scheme
           /\ MergeUrl(base, u).query = IF u.query = <<>> /\ Trim(u.path) = <<"">>
                                        THEN base.query ELSE u.query
<1>1. PICK o : /\ IsUrl(o) /\ o.scheme = "" /\ o.net = FALSE /\ o.query = u.query
               /\ o.path = Trim(u.path) /\ ~Rooted(o.path)
               /\ MergeUrl(base, u) = UrlJoin(base, o)
    BY MergeIsJoin
<1>2. /\ Authority(UrlJoin(base, o)) = Authority(base)
      /\ UrlJoin(base, o).scheme = base.scheme
      /\ UrlJoin(base, o).query = IF o.query = <<>> /\ o.path = <<"">>
                                  THEN base.query ELSE o.query
    BY <1>1, JoinOfPath
<1> QED
    BY <1>1, <1>2

-----------------------------------------------------------------------------
(* RemoveDots: the recursive function of its fold exists                   *)

\* A set of numbers with 0 and, for each but the last, the next one.
LEMMA Climb ==
    ASSUME NEW n \in Nat, NEW T, 0 \in T, \A k \in 1..n : k - 1 \in T => k \in T
    PROVE  0..n \subseteq T
<1> DEFINE Bad == (0..n) \ T
<1>1. SUFFICES ASSUME Bad # {} PROVE FALSE
    OBVIOUS
<1>2. PICK k \in Bad : \A j \in Bad : k <= j
    <2>1. Bad \subseteq Nat
        OBVIOUS
    <2> HIDE DEF Bad
    <2> QED
        BY <1>1, <2>1, LeastOf
<1>3. k \in 0..n /\ k \notin T /\ k # 0
    BY <1>2
<1>4. k \in 1..n /\ k - 1 \in 0..n /\ ~(k <= k - 1)
    BY <1>3
<1>5. k - 1 \notin T
    BY <1>3, <1>4
<1>6. k - 1 \in Bad
    BY <1>4, <1>5
<1> HIDE DEF Bad
<1> QED
    BY <1>2, <1>4, <1>6

DotStep(done, segment) ==
    CASE segment = "."  -> done
      [] segment = ".." -> IF Len(done) > 1 THEN Front(done) ELSE done
      [] OTHER          -> Append(done, segment)

Fold(path) == FoldLeft(DotStep, <<>>, path)

LEMMA RemoveDotsIs ==
    \A path : RemoveDots(path) =
        IF Last(path) \in {".", ".."} THEN Append(Fold(path), "") ELSE Fold(path)
BY DEF RemoveDots, Fold, FoldLeft, MapThenFoldSet, DotStep

FoldBody(b, g, s) ==
    IF s = {} THEN <<>> ELSE DotStep(g[s \ {Max(s)}], b[Max(s)])
Folded(b, m, g) == g = [s \in SUBSET (1..m) |-> FoldBody(b, g, s)]
FoldFn(b) == CHOOSE g : Folded(b, Len(b), g)

LEMMA MaxOf ==
    ASSUME NEW m \in Nat, NEW s, s \subseteq 1..m, m \in s
    PROVE  Max(s) = m
<1>1. m \in s /\ \A y \in s : m >= y
    OBVIOUS
<1>2. PICK x : x = Max(s)
    OBVIOUS
<1>3. x \in s /\ \A y \in s : x >= y
    BY <1>1, <1>2 DEF Max
<1>4. x \in 1..m
    BY <1>3
<1>5. x >= m /\ m >= x
    BY <1>1, <1>3
<1> QED
    BY <1>2, <1>4, <1>5

LEMMA FoldedExists ==
    ASSUME NEW b, NEW n \in Nat
    PROVE  \E g : Folded(b, n, g)
<1> DEFINE T == {m \in Nat : \E g : Folded(b, m, g)}
<1>1. 0 \in T
    <2>1. PICK g : g = [s \in SUBSET (1..0) |-> <<>>]
        OBVIOUS
    <2>2. \A s \in SUBSET (1..0) : s = {}
        OBVIOUS
    <2>3. [s \in SUBSET (1..0) |-> FoldBody(b, g, s)] = [s \in SUBSET (1..0) |-> <<>>]
        BY <2>2 DEF FoldBody
    <2>4. Folded(b, 0, g)
        BY <2>1, <2>3 DEF Folded
    <2> QED
        BY <2>4
<1>2. ASSUME NEW k \in 1..n, k - 1 \in T PROVE k \in T
    <2>0. k \in Nat /\ k - 1 \in Nat
        OBVIOUS
    <2>1. PICK g : Folded(b, k - 1, g)
        BY <1>2
    <2>2. PICK f : f = [s \in SUBSET (1..k) |-> IF k \in s THEN FoldBody(b, g, s) ELSE g[s]]
        OBVIOUS
    <2>3. \A s \in SUBSET (1..(k - 1)) : s \in SUBSET (1..k) /\ k \notin s /\ f[s] = g[s]
        <3>1. 1..(k - 1) \subseteq 1..k /\ k \notin 1..(k - 1)
            BY <2>0
        <3>2. \A s \in SUBSET (1..(k - 1)) : s \in SUBSET (1..k) /\ k \notin s
            BY <3>1
        <3> QED
            BY <2>2, <3>2
    <2>4. ASSUME NEW s \in SUBSET (1..k) PROVE f[s] = FoldBody(b, f, s)
        <3>1. CASE k \in s
            <4>1. Max(s) = k
                BY <2>0, <3>1, MaxOf
            <4>2. s \ {k} \in SUBSET (1..(k - 1))
                BY <2>0
            <4>3. FoldBody(b, f, s) = FoldBody(b, g, s)
                BY <2>3, <4>1, <4>2 DEF FoldBody
            <4> QED
                BY <2>2, <3>1, <4>3
        <3>2. CASE k \notin s
            <4>1. s \in SUBSET (1..(k - 1))
                BY <2>0, <3>2
            <4>2. g[s] = FoldBody(b, g, s) /\ f[s] = g[s]
                BY <2>1, <2>3, <4>1 DEF Folded
            <4>3. s \ {Max(s)} \in SUBSET (1..(k - 1))
                BY <4>1
            <4>4. FoldBody(b, f, s) = FoldBody(b, g, s)
                BY <2>3, <4>3 DEF FoldBody
            <4> QED
                BY <4>2, <4>4
        <3> QED
            BY <3>1, <3>2
    <2>5. Folded(b, k, f)
        <3>1. f = [s \in SUBSET (1..k) |-> f[s]]
            BY <2>2
        <3> QED
            BY <2>4, <3>1, Zenon DEF Folded
    <2> QED
        BY <2>0, <2>5
<1> HIDE DEF T
<1>3. n \in T
    BY <1>1, <1>2, Climb
<1> QED
    BY <1>3 DEF T

\* What is left of a path after each segment.
Run(b, d, n) == d[0] = <<>> /\ \A k \in 1..n : d[k] = DotStep(d[k - 1], b[k])

LEMMA FoldIsRun ==
    ASSUME NEW S, NEW b \in Seq(S)
    PROVE  \E d : Run(b, d, Len(b)) /\ Fold(b) = d[Len(b)]
<1>0. Len(b) \in Nat /\ DOMAIN b = 1..Len(b)
    BY LenProperties
<1>1. PICK n, g : n = Len(b) /\ g = FoldFn(b)
    OBVIOUS
<1>2. Folded(b, n, g)
    BY <1>0, <1>1, FoldedExists DEF FoldFn
<1>3. Fold(b) = g[1..n]
    <2>1. g = CHOOSE f : f = [s \in SUBSET DOMAIN b |->
                IF s = {} THEN <<>> ELSE DotStep(f[s \ {Max(s)}], b[Max(s)])]
        BY <1>0, <1>1 DEF FoldFn, Folded, FoldBody
    <2>2. Fold(b) = g[DOMAIN b]
        BY <2>1 DEF Fold, FoldLeft, MapThenFoldSet
    <2> QED
        BY <1>0, <1>1, <2>2
<1>4. PICK d : d = [k \in 0..n |-> g[1..k]]
    OBVIOUS
<1>5. d[0] = <<>>
    <2>1. 1..0 = {} /\ {} \in SUBSET (1..n) /\ 0 \in 0..n
        BY <1>0, <1>1
    <2>2. g[{}] = <<>>
        BY <1>2, <2>1 DEF Folded, FoldBody
    <2> QED
        BY <1>4, <2>1, <2>2
<1>6. ASSUME NEW k \in 1..n PROVE d[k] = DotStep(d[k - 1], b[k])
    <2>1. /\ k \in Nat /\ k \in 0..n /\ k - 1 \in 0..n
          /\ k \in 1..k /\ 1..k \in SUBSET (1..n)
        BY <1>0, <1>1
    <2>2. Max(1..k) = k
        BY <2>1, MaxOf
    <2>3. (1..k) \ {k} = 1..(k - 1)
        BY <2>1
    <2>4. g[1..k] = FoldBody(b, g, 1..k)
        BY <1>2, <2>1 DEF Folded
    <2>5. g[1..k] = DotStep(g[(1..k) \ {k}], b[k])
        BY <2>1, <2>2, <2>4 DEF FoldBody
    <2> QED
        BY <1>4, <2>1, <2>3, <2>5
<1>7. d[n] = g[1..n]
    BY <1>0, <1>1, <1>4
<1> QED
    BY <1>1, <1>3, <1>5, <1>6, <1>7 DEF Run

-----------------------------------------------------------------------------
(* What RemoveDots leaves of a path                                        *)

\* Segments, and those that are not dots.
Segments == STRING \cup {""}
Names == Segments \ {".", ".."}

LEMMA OneSegment ==
    ASSUME NEW S, NEW x \in S
    PROVE  /\ <<x>> \in Seq(S) /\ <<x>> # <<>> /\ Len(<<x>>) = 1
           /\ <<x>>[1] = x /\ \A i \in 1..1 : <<x>>[i] = x
<1>1. <<x>> \in Seq(S) /\ Len(<<x>>) = 1 /\ <<x>>[1] = x
    OBVIOUS
<1>2. \A i \in 1..1 : i = 1
    OBVIOUS
<1>3. Len(<<>>) = 0
    BY EmptySeq
<1> QED
    BY <1>1, <1>2, <1>3

LEMMA EmptyName == "" \in Names /\ Names \subseteq Segments
<1>1. "" \in Segments /\ "" # "." /\ "" # ".."
    BY DEF Segments
<1> QED
    BY <1>1 DEF Names

\* A path has a segment, which may be empty.
Path(path) == path \in Seq(Segments) /\ path # <<>>

LEMMA PathIs == \A path : IsPath(path) => Path(path)
<1>1. STRING \subseteq Segments
    BY DEF Segments
<1> QED
    BY <1>1, SeqMonotonic DEF IsPath, Path

LEMMA PathOfNames == \A s \in Seq(Names) : s \in Seq(Segments)
BY EmptyName, SeqMonotonic

LEMMA FrontIs ==
    ASSUME NEW S, NEW s \in Seq(S), Len(s) > 0
    PROVE  /\ Front(s) \in Seq(S) /\ Len(Front(s)) = Len(s) - 1
           /\ Last(s) = s[Len(s)] /\ s[Len(s)] \in S
           /\ s = Append(Front(s), s[Len(s)])
           /\ s = Front(s) \o <<s[Len(s)]>>
<1>0. Len(s) \in Nat /\ \A i \in 1..Len(s) : s[i] \in S
    BY LenProperties
<1>1. 1 \in 1..Len(s) /\ Len(s) \in 1..Len(s) /\ Len(s) - 1 \in Int
    BY <1>0
<1>2. /\ SubSeq(s, 1, Len(s) - 1) \in Seq(S)
      /\ Len(SubSeq(s, 1, Len(s) - 1)) = IF 1 <= Len(s) - 1 THEN Len(s) - 1 - 1 + 1 ELSE 0
    <2>1. \A i \in 1..(Len(s) - 1) : s[i] \in S
        BY <1>0
    <2> QED
        BY <1>1, <2>1, SubSeqProperties
<1>3. Len(SubSeq(s, 1, Len(s) - 1)) = Len(s) - 1
    <2>1. PICK m, n : m = Len(SubSeq(s, 1, Len(s) - 1)) /\ n = Len(s)
        OBVIOUS
    <2>2. n \in Nat /\ n > 0 /\ m = IF 1 <= n - 1 THEN n - 1 - 1 + 1 ELSE 0
        BY <1>0, <1>2, <2>1, Zenon
    <2>3. m = n - 1
        BY <2>2
    <2> QED
        BY <2>1, <2>3
<1>4. SubSeq(s, 1, Len(s)) = SubSeq(s, 1, Len(s) - 1) \o <<s[Len(s)]>>
    BY <1>1, SubSeqRecursiveSecond
<1>5. SubSeq(s, 1, Len(s)) = s
    BY SubSeqFull
<1>6. Append(SubSeq(s, 1, Len(s) - 1), s[Len(s)]) = SubSeq(s, 1, Len(s) - 1) \o <<s[Len(s)]>>
    BY <1>0, <1>1, <1>2, AppendIsConcat
<1> QED
    BY <1>0, <1>1, <1>2, <1>3, <1>4, <1>5, <1>6 DEF Front, Last

LEMMA AppendTo ==
    \A s \in Seq(Names), x \in Names :
        /\ Append(s, x) \in Seq(Names) /\ Append(s, x) # <<>> /\ Append(s, x) = s \o <<x>>
<1> SUFFICES ASSUME NEW s \in Seq(Names), NEW x \in Names
             PROVE  Append(s, x) \in Seq(Names) /\ Append(s, x) # <<>> /\ Append(s, x) = s \o <<x>>
    OBVIOUS
<1>1. Append(s, x) \in Seq(Names) /\ Len(Append(s, x)) = Len(s) + 1 /\ Len(s) \in Nat
    BY AppendProperties, LenProperties
<1>2. Append(s, x) = s \o <<x>>
    BY AppendIsConcat
<1>3. Append(s, x) # <<>>
    BY <1>1, EmptySeq
<1> QED
    BY <1>1, <1>2, <1>3

LEMMA DotStepNames ==
    ASSUME NEW done \in Seq(Names), NEW x \in Segments
    PROVE  DotStep(done, x) \in Seq(Names)
<1>1. CASE x = "."
    BY <1>1 DEF DotStep
<1>2. CASE x = ".."
    <2>1. Len(done) > 1 => Front(done) \in Seq(Names)
        <3>1. Len(done) \in Nat
            BY LenProperties
        <3>2. ASSUME Len(done) > 1 PROVE Front(done) \in Seq(Names)
            <4>1. Len(done) > 0
                BY <3>1, <3>2
            <4> QED
                BY <4>1, FrontIs
        <3> QED
            BY <3>2
    <2> QED
        BY <1>2, <2>1 DEF DotStep
<1>3. CASE x \notin {".", ".."}
    BY <1>3, AppendTo DEF DotStep, Names
<1> QED
    BY <1>1, <1>2, <1>3

LEMMA RunNames ==
    ASSUME NEW b \in Seq(Segments), NEW d, Run(b, d, Len(b))
    PROVE  \A k \in 0..Len(b) : d[k] \in Seq(Names)
<1>0. Len(b) \in Nat /\ \A i \in 1..Len(b) : b[i] \in Segments
    BY LenProperties
<1> DEFINE T == {k \in Nat : k \in 0..Len(b) => d[k] \in Seq(Names)}
<1>1. 0 \in T
    BY EmptySeq DEF Run
<1>2. ASSUME NEW k \in 1..Len(b), k - 1 \in T PROVE k \in T
    <2>1. k \in Nat /\ k - 1 \in 0..Len(b)
        BY <1>0
    <2>2. d[k - 1] \in Seq(Names) /\ b[k] \in Segments
        BY <1>0, <1>2, <2>1
    <2>3. d[k] = DotStep(d[k - 1], b[k])
        BY DEF Run
    <2>4. d[k] \in Seq(Names)
        BY <2>2, <2>3, DotStepNames
    <2> QED
        BY <2>1, <2>4
<1> HIDE DEF T
<1>3. 0..Len(b) \subseteq T
    BY <1>0, <1>1, <1>2, Climb
<1> QED
    BY <1>3 DEF T

\* A path without dots, which is never empty.
LEMMA RemoveDotsNames ==
    ASSUME NEW b, Path(b)
    PROVE  RemoveDots(b) \in Seq(Names) /\ RemoveDots(b) # <<>>
<1>0. b \in Seq(Segments) /\ Len(b) \in Nat /\ Len(b) > 0
    <2>1. b \in Seq(Segments) /\ Len(b) \in Nat /\ Len(b) # 0
        BY EmptySeq, LenProperties DEF Path
    <2> QED
        BY <2>1
<1>1. PICK n, x : n = Len(b) /\ x = b[n]
    OBVIOUS
<1>2. x \in Segments /\ Last(b) = x
    BY <1>0, <1>1, FrontIs
<1>3. PICK d : Run(b, d, Len(b)) /\ Fold(b) = d[Len(b)]
    BY <1>0, FoldIsRun
<1>4. d[n] \in Seq(Names) /\ d[n - 1] \in Seq(Names) /\ d[n] = DotStep(d[n - 1], x)
    <2>1. \A k \in 0..Len(b) : d[k] \in Seq(Names)
        BY <1>0, <1>3, RunNames
    <2>2. n \in 0..Len(b) /\ n - 1 \in 0..Len(b) /\ n \in 1..n
        BY <1>0, <1>1
    <2> QED
        BY <1>1, <1>3, <2>1, <2>2 DEF Run
<1>5. CASE x \in {".", ".."}
    <2>1. RemoveDots(b) = Append(d[n], "")
        BY <1>1, <1>2, <1>3, <1>5, RemoveDotsIs
    <2>2. "" \in Names
        BY EmptyName
    <2> QED
        BY <1>4, <2>1, <2>2, AppendTo
<1>6. CASE x \notin {".", ".."}
    <2>1. RemoveDots(b) = d[n]
        BY <1>1, <1>2, <1>3, <1>6, RemoveDotsIs
    <2>2. d[n] = Append(d[n - 1], x) /\ x \in Names
        BY <1>2, <1>4, <1>6 DEF DotStep, Names
    <2> QED
        BY <1>4, <2>1, <2>2, AppendTo
<1> QED
    BY <1>5, <1>6

LEMMA PrefixOfConcat ==
    ASSUME NEW S, NEW s \in Seq(S), NEW t \in Seq(S)
    PROVE  IsPrefix(s, s \o t)
<1>1. /\ Len(s) \in Nat /\ Len(t) \in Nat /\ s \o t \in Seq(S) /\ Len(s \o t) = Len(s) + Len(t)
      /\ \A i \in 1..(Len(s) + Len(t)) : (s \o t)[i] = IF i <= Len(s) THEN s[i] ELSE t[i - Len(s)]
    BY LenProperties, ConcatProperties
<1>2. \A i \in 1..Len(s) : (s \o t)[i] = s[i] /\ s[i] \in S
    BY <1>1, LenProperties
<1>3. SubSeq(s, 1, Len(s)) = s
    BY SubSeqFull
<1> DEFINE u == SubSeq(s \o t, 1, Len(s))
<1>4. u \in Seq(S) /\ Len(u) = Len(s) /\ \A i \in 1..Len(s) : u[i] = s[i]
    <2>1. Len(s) \in Int /\ 1 \in Int /\ \A i \in 1..Len(s) : (s \o t)[i] \in S
        BY <1>1, <1>2
    <2>2. /\ u \in Seq(S)
          /\ Len(u) = IF 1 <= Len(s) THEN Len(s) - 1 + 1 ELSE 0
          /\ \A i \in 1..(Len(s) - 1 + 1) : u[i] = (s \o t)[1 + i - 1]
        BY <2>1, SubSeqProperties
    <2> QED
        BY <1>1, <1>2, <2>2
<1> HIDE DEF u
<1>5. u = s
    BY <1>4, SeqEqual
<1> QED
    BY <1>1, <1>3, <1>5 DEF IsPrefix, u

LEMMA GrowByOne ==
    \A a, t \in Seq(Names) : \A x \in Names :
        \E r \in Seq(Names) : Append(a \o t, x) = a \o r
<1> SUFFICES ASSUME NEW a \in Seq(Names), NEW t \in Seq(Names), NEW x \in Names
             PROVE  \E r \in Seq(Names) : Append(a \o t, x) = a \o r
    OBVIOUS
<1>1. a \o t \in Seq(Names) /\ <<x>> \in Seq(Names)
    BY ConcatProperties, OneSegment
<1>2. Append(a \o t, x) = (a \o t) \o <<x>> /\ Append(t, x) = t \o <<x>> /\ Append(t, x) \in Seq(Names)
    BY <1>1, AppendTo
<1>3. (a \o t) \o <<x>> = a \o (t \o <<x>>)
    BY <1>1, ConcatAssociative, SMTT(30)
<1> QED
    BY <1>2, <1>3

LEMMA StepOnName ==
    ASSUME NEW done, NEW x \in Names PROVE DotStep(done, x) = Append(done, x)
BY DEF DotStep, Names

\* What is left of a path that begins with a, after k segments.
Grown(a, left, k) ==
    IF k <= Len(a) THEN left = SubSeq(a, 1, k) ELSE \E t \in Seq(Names) : left = a \o t

\* A path without dots stays in front of whatever follows and does not climb.
LEMMA RemoveDotsKeeps ==
    ASSUME NEW a \in Seq(Names), NEW b \in Seq(Segments), \A i \in 1..Len(b) : b[i] # ".."
    PROVE  IsPrefix(a, RemoveDots(a \o b))
<1>0. PICK p, m, n : p = a \o b /\ m = Len(a) /\ n = Len(p)
    OBVIOUS
<1>1. a \in Seq(Segments)
    BY PathOfNames
<1>2. /\ m \in Nat /\ n \in Nat /\ m <= n /\ p \in Seq(Segments) /\ n = m + Len(b) /\ Len(b) \in Nat
      /\ \A i \in 1..m : p[i] = a[i] /\ a[i] \in Names
      /\ \A i \in (m + 1)..n : p[i] = b[i - m] /\ i - m \in 1..Len(b) /\ p[i] \in Segments /\ p[i] # ".."
    <2>1. /\ p \in Seq(Segments) /\ Len(p) = Len(a) + Len(b)
          /\ \A i \in 1..(Len(a) + Len(b)) : p[i] = IF i <= Len(a) THEN a[i] ELSE b[i - Len(a)]
        BY <1>0, <1>1, ConcatProperties
    <2>2. /\ Len(a) \in Nat /\ Len(b) \in Nat /\ \A i \in 1..Len(a) : a[i] \in Names
        BY LenProperties
    <2>3. \A i \in 1..Len(b) : b[i] \in Segments
        BY LenProperties
    <2>4. ASSUME NEW i \in (m + 1)..n PROVE p[i] = b[i - m] /\ i - m \in 1..Len(b)
        BY <1>0, <2>1, <2>2, <2>4
    <2> QED
        BY <1>0, <2>1, <2>2, <2>3, <2>4
<1>3. PICK d : Run(p, d, n) /\ Fold(p) = d[n]
    <2>1. \E d : Run(p, d, Len(p)) /\ Fold(p) = d[Len(p)]
        BY <1>2, FoldIsRun
    <2> QED
        BY <1>0, <2>1
<1> DEFINE T == {k \in Nat : k \in 0..n => Grown(a, d[k], k)}
<1>4. 0 \in T
    <2>1. d[0] = <<>> /\ SubSeq(a, 1, 0) = <<>>
        BY <1>3, SubSeqEmpty DEF Run
    <2>2. 0 <= Len(a)
        BY <1>0, <1>2
    <2>3. Grown(a, d[0], 0)
        BY <2>1, <2>2 DEF Grown
    <2> QED
        BY <2>3
<1>e. a \o <<>> = a /\ <<>> \in Seq(Names) /\ SubSeq(a, 1, m) = a
    BY <1>0, ConcatEmptySeq, EmptySeq, SubSeqFull
<1>5. ASSUME NEW k \in 1..n, k - 1 \in T PROVE k \in T
    <2>1. k \in Nat /\ k - 1 \in 0..n /\ d[k] = DotStep(d[k - 1], p[k])
        BY <1>2, <1>3 DEF Run
    <2>g. IF k - 1 <= m THEN d[k - 1] = SubSeq(a, 1, k - 1)
          ELSE \E t \in Seq(Names) : d[k - 1] = a \o t
        BY <1>0, <1>5, <2>1 DEF Grown
    <2>2. CASE k <= m
        <3>1. d[k - 1] = SubSeq(a, 1, k - 1) /\ k \in 1..m
            BY <1>2, <2>1, <2>2, <2>g
        <3>2. p[k] = a[k] /\ a[k] \in Names
            BY <1>2, <3>1
        <3>3. d[k] = Append(SubSeq(a, 1, k - 1), a[k])
            BY <2>1, <3>1, <3>2, StepOnName
        <3>4. SubSeq(a, 1, k) = Append(SubSeq(a, 1, k - 1), a[k])
            <4>1. 1 \in 1..Len(a) /\ k \in 1..Len(a)
                BY <1>0, <1>2, <3>1
            <4>2. SubSeq(a, 1, k) = SubSeq(a, 1, k - 1) \o <<a[k]>>
                BY <4>1, SubSeqRecursiveSecond
            <4>3. SubSeq(a, 1, k - 1) \in Seq(Names)
                <5>1. k - 1 \in Int /\ \A i \in 1..(k - 1) : a[i] \in Names
                    BY <1>2, <3>1
                <5> QED
                    BY <5>1, SubSeqProperties
            <4>4. Append(SubSeq(a, 1, k - 1), a[k]) = SubSeq(a, 1, k - 1) \o <<a[k]>>
                BY <3>2, <4>3, AppendTo
            <4> QED
                BY <4>2, <4>4
        <3>5. Grown(a, d[k], k)
            BY <1>0, <2>2, <3>3, <3>4 DEF Grown
        <3> QED
            BY <2>1, <3>5
    <2>3. CASE ~(k <= m)
        <3>1. \E t \in Seq(Names) : d[k - 1] = a \o t
            <4>1. CASE k - 1 = m
                BY <1>2, <1>e, <2>1, <2>g, <4>1
            <4>2. CASE k - 1 # m
                <5>1. ~(k - 1 <= m)
                    BY <1>2, <2>1, <2>3, <4>2
                <5> QED
                    BY <2>g, <5>1
            <4> QED
                BY <4>1, <4>2
        <3>2. PICK t \in Seq(Names) : d[k - 1] = a \o t
            BY <3>1
        <3>3. k \in (m + 1)..n
            BY <1>2, <2>1, <2>3
        <3>4. p[k] \in Segments /\ p[k] # ".."
            BY <1>2, <3>3
        <3>5. CASE p[k] = "."
            <4>1. d[k] = a \o t
                BY <2>1, <3>2, <3>5 DEF DotStep
            <4> QED
                BY <1>0, <2>1, <2>3, <4>1 DEF Grown
        <3>6. CASE p[k] # "."
            <4>1. p[k] \in Names
                BY <3>4, <3>6 DEF Names
            <4>2. d[k] = Append(a \o t, p[k])
                BY <2>1, <3>2, <4>1, StepOnName
            <4>3. \E r \in Seq(Names) : d[k] = a \o r
                <5>1. \E r \in Seq(Names) : Append(a \o t, p[k]) = a \o r
                    BY <4>1, GrowByOne
                <5> QED
                    BY <4>2, <5>1
            <4> QED
                BY <1>0, <2>1, <2>3, <4>3 DEF Grown
        <3> QED
            BY <3>5, <3>6
    <2> QED
        BY <2>2, <2>3
<1>6. Grown(a, d[n], n)
    <2> HIDE DEF T
    <2>1. 0..n \subseteq T
        BY <1>2, <1>4, <1>5, Climb
    <2>2. n \in T /\ n \in 0..n
        BY <1>2, <2>1
    <2> QED
        BY <2>2 DEF T
<1>7. PICK t \in Seq(Names) : d[n] = a \o t
    <2>1. CASE n = m
        BY <1>0, <1>2, <1>6, <1>e, <2>1 DEF Grown
    <2>2. CASE n # m
        <3>1. ~(n <= m)
            BY <1>2, <2>2
        <3> QED
            BY <1>0, <1>6, <3>1 DEF Grown
    <2> QED
        BY <2>1, <2>2
<1> HIDE DEF T
<1>8. \E r \in Seq(Names) : RemoveDots(p) = a \o r
    <2>1. RemoveDots(p) = Append(a \o t, "") \/ RemoveDots(p) = a \o t
        BY <1>3, <1>7, RemoveDotsIs
    <2>2. \E r \in Seq(Names) : Append(a \o t, "") = a \o r
        BY EmptyName, GrowByOne
    <2> QED
        BY <2>1, <2>2
<1> QED
    BY <1>0, <1>8, PrefixOfConcat

-----------------------------------------------------------------------------
(* Every operation yields a URL with a path                                *)

Good(u) == IsUrl(u) /\ Path(u.path)
Answer(u) == Good(u) \/ u = Invalid

LEMMA PathLength == \A p : Path(p) => p \in Seq(Segments) /\ Len(p) \in Nat /\ Len(p) > 0
<1> SUFFICES ASSUME NEW p, Path(p) PROVE p \in Seq(Segments) /\ Len(p) \in Nat /\ Len(p) > 0
    OBVIOUS
<1>1. p \in Seq(Segments) /\ Len(p) \in Nat /\ Len(p) # 0
    BY EmptySeq, LenProperties DEF Path
<1> QED
    BY <1>1

LEMMA PathConcat ==
    \A p, q \in Seq(Segments) : Path(p) \/ Path(q) => Path(p \o q)
<1> SUFFICES ASSUME NEW p \in Seq(Segments), NEW q \in Seq(Segments), Path(p) \/ Path(q)
             PROVE  Path(p \o q)
    OBVIOUS
<1>1. Len(p) \in Nat /\ Len(q) \in Nat /\ (Len(p) > 0 \/ Len(q) > 0)
    BY PathLength, LenProperties
<1>2. p \o q \in Seq(Segments) /\ Len(p \o q) = Len(p) + Len(q)
    BY ConcatProperties
<1>3. Len(p \o q) # 0
    BY <1>1, <1>2
<1> QED
    BY <1>2, <1>3, EmptySeq DEF Path

LEMMA OnePath == \A x \in Segments : Path(<<x>>)
BY OneSegment DEF Path

LEMMA PathPieces ==
    \A p : Path(p) => /\ Front(p) \in Seq(Segments) /\ Tail(p) \in Seq(Segments)
                      /\ \A k \in Nat : k > 0 => SubSeq(p, k, Len(p)) \in Seq(Segments)
<1> SUFFICES ASSUME NEW p, Path(p)
             PROVE  /\ Front(p) \in Seq(Segments) /\ Tail(p) \in Seq(Segments)
                    /\ \A k \in Nat : k > 0 => SubSeq(p, k, Len(p)) \in Seq(Segments)
    OBVIOUS
<1>1. p \in Seq(Segments) /\ Len(p) \in Nat /\ Len(p) > 0 /\ p # <<>>
    BY PathLength DEF Path
<1>2. Front(p) \in Seq(Segments)
    BY <1>1, FrontIs
<1>3. Tail(p) \in Seq(Segments)
    BY <1>1, HeadTailProperties
<1>4. ASSUME NEW k \in Nat, k > 0 PROVE SubSeq(p, k, Len(p)) \in Seq(Segments)
    <2>1. \A i \in 1..Len(p) : p[i] \in Segments
        BY <1>1, LenProperties
    <2>2. k \in Int /\ Len(p) \in Int /\ \A i \in k..Len(p) : p[i] \in Segments
        BY <1>1, <1>4, <2>1
    <2> QED
        BY <2>2, SubSeqProperties
<1> QED
    BY <1>2, <1>3, <1>4

LEMMA TrimPath == \A p : Path(p) => Path(Trim(p))
<1> SUFFICES ASSUME NEW p, Path(p) PROVE Path(Trim(p))
    OBVIOUS
<1>1. p \in Seq(Segments) /\ Len(p) \in Nat /\ Len(p) > 0 /\ p # <<>> /\ DOMAIN p = 1..Len(p)
    BY PathLength, LenProperties DEF Path
<1> DEFINE kept == {i \in DOMAIN p : p[i] # ""} \cup {Len(p)}
           first == CHOOSE i \in kept : \A j \in kept : i <= j
<1>2. kept \subseteq 1..Len(p) /\ kept # {}
    <2>1. Len(p) \in 1..Len(p)
        BY <1>1
    <2>2. {i \in DOMAIN p : p[i] # ""} \subseteq 1..Len(p)
        BY <1>1, Zenon
    <2> QED
        BY <2>1, <2>2
<1>3. first \in 1..Len(p)
    <2> HIDE DEF kept
    <2>1. kept \subseteq Nat
        BY <1>2
    <2>2. \E i \in kept : \A j \in kept : i <= j
        BY <1>2, <2>1, LeastOf
    <2> QED
        BY <1>2, <2>2
<1>4. Trim(p) = SubSeq(p, first, Len(p))
    BY DEF Trim
<1> HIDE DEF first
<1>5. \A i \in 1..Len(p) : p[i] \in Segments
    BY <1>1, LenProperties
<1>6. first \in Int /\ Len(p) \in Int /\ \A i \in first..Len(p) : p[i] \in Segments
    BY <1>1, <1>3, <1>5
<1>7. /\ SubSeq(p, first, Len(p)) \in Seq(Segments)
      /\ Len(SubSeq(p, first, Len(p))) = IF first <= Len(p) THEN Len(p) - first + 1 ELSE 0
    BY <1>6, SubSeqProperties
<1>8. Len(SubSeq(p, first, Len(p))) # 0
    BY <1>1, <1>3, <1>7
<1> QED
    BY <1>4, <1>7, <1>8, EmptySeq DEF Path

LEMMA NamesPath == \A p : Path(p) => Path(RemoveDots(p))
BY RemoveDotsNames, PathOfNames DEF Path

LEMMA ConstantsAreGood == Good(Empty) /\ Good(Anchor) /\ Good(Plain) /\ ColonRest \in Segments
<1>1. Path(<<"">>) /\ "" \in Segments
    BY OnePath, EmptyName
<1>2. Path(<<"", "">>)
    <2>1. <<"", "">> \in Seq({""}) /\ <<"", "">> # <<>>
        BY OneOrTwo
    <2>2. {""} \subseteq Segments
        BY <1>1
    <2> QED
        BY <2>1, <2>2, SeqMonotonic DEF Path
<1>3. Empty.path = <<"">> /\ Anchor.path = <<"">> /\ Plain.path = <<"", "">>
    BY DEF Empty, Anchor, Plain
<1>4. ColonRest \in Segments
    BY UrlAssumption DEF Segments
<1> QED
    BY <1>1, <1>2, <1>3, <1>4, ConstantsAreUrls DEF Good

LEMMA InvalidNormal == Normal(Invalid) = Invalid
BY DEF Normal, Invalid, Empty

LEMMA ReadGood == \A u : Good(u) => Answer(Read(u))
<1> SUFFICES ASSUME NEW u, Good(u), Read(u) # Invalid PROVE Path(Read(u).path)
    BY ReadIsUrl DEF Good, Answer
<1>1. PICK p : p = u.path
    OBVIOUS
<1>2. Path(p) /\ IsUrl(u) /\ Path(<<"">>) /\ <<"">> \in Seq(Segments)
    BY <1>1, OnePath, EmptyName DEF Good, Path
<1>3. Path(<<ColonRest>> \o Tail(p))
    <2>1. <<ColonRest>> \in Seq(Segments) /\ Tail(p) \in Seq(Segments) /\ Path(<<ColonRest>>)
        BY <1>2, ConstantsAreGood, OneSegment, PathPieces, OnePath
    <2> QED
        BY <2>1, PathConcat
<1>4. Path(<<"">> \o SubSeq(p, 4, Len(p)))
    <2>0. 4 \in Nat /\ 4 > 0
        OBVIOUS
    <2>1. SubSeq(p, 4, Len(p)) \in Seq(Segments)
        BY <1>2, <2>0, PathPieces, Zenon
    <2> QED
        BY <1>2, <2>1, PathConcat
<1> QED
    BY <1>1, <1>2, <1>3, <1>4, EmptyParts DEF Read, IsUrl, Parts

LEMMA NormalGood == \A u : Good(u) => Good(Normal(u))
<1> SUFFICES ASSUME NEW u, Good(u) PROVE Path(Normal(u).path)
    BY NormalIsUrl DEF Good
<1>1. PICK p : p = u.path
    OBVIOUS
<1>2. Path(p) /\ IsUrl(u) /\ Path(RemoveDots(p)) /\ Path(RemoveDots(<<"", "">>))
    <2>1. Path(<<"", "">>)
        BY ConstantsAreGood DEF Good, Plain, Anchor, Empty
    <2> QED
        BY <1>1, <2>1, NamesPath DEF Good
<1> QED
    BY <1>1, <1>2, EmptyParts DEF Normal, IsUrl, Parts

LEMMA ParseGood == \A u : Good(u) => Answer(ParseUrl(u))
BY ReadGood, NormalGood, InvalidNormal DEF ParseUrl, Answer

LEMMA TransformGood == \A b, u : Good(b) /\ Good(u) => Good(Transform(b, u))
<1> SUFFICES ASSUME NEW b, NEW u, Good(b), Good(u) PROVE Path(Transform(b, u).path)
    BY TransformIsUrl DEF Good
<1>1. PICK p, q : p = b.path /\ q = u.path
    OBVIOUS
<1>2. Path(p) /\ Path(q) /\ IsUrl(b) /\ IsUrl(u)
    BY <1>1 DEF Good
<1>3. Path(<<"">> \o q) /\ Path(Front(p) \o q)
    <2>1. <<"">> \in Seq(Segments) /\ Front(p) \in Seq(Segments) /\ q \in Seq(Segments)
        BY <1>2, EmptyName, OneSegment, PathPieces DEF Path
    <2> QED
        BY <1>2, <2>1, PathConcat
<1> QED
    BY <1>1, <1>2, <1>3, EmptyParts DEF Transform, IsUrl, Parts

LEMMA UrlJoinGood ==
    \A b, u : Good(b) /\ Good(u) => Answer(UrlJoin(b, u)) /\ (b.net => Good(UrlJoin(b, u)))
BY NormalGood, TransformGood DEF UrlJoin, Answer

LEMMA JoinRelativeGood == \A b, u : Good(b) /\ Good(u) => Answer(JoinRelative(b, u))
<1> SUFFICES ASSUME NEW b, NEW u, Good(b), Good(u) PROVE Answer(JoinRelative(b, u))
    OBVIOUS
<1> DEFINE start == [Anchor EXCEPT !.path = <<"">> \o Trim(b.path), !.query = b.query]
           tail == UrlJoin(Normal(start), u)
           text == [tail EXCEPT !.scheme = "", !.net = b.net, !.user = b.user,
                                !.host = b.host, !.port = b.port,
                                !.path = IF b.net \/ Rooted(b.path) \/ Rooted(u.path)
                                         THEN @ ELSE Trim(@)]
<1>1. Path(<<"">> \o Trim(b.path))
    <2>1. Path(Trim(b.path)) /\ Path(<<"">>)
        BY TrimPath, OnePath, EmptyName DEF Good
    <2> QED
        BY <2>1, PathConcat DEF Path
<1>2. Good(start) /\ start.net
    <2>0. PICK p : p = <<"">> \o Trim(b.path)
        OBVIOUS
    <2>1. IsUrl(Anchor) /\ Anchor.net
        BY ConstantsAreUrls, EmptyParts DEF Anchor, Parts
    <2>2. IsUrl([Anchor EXCEPT !.path = p, !.query = b.query])
        BY <2>1, EmptyParts DEF IsUrl, Parts
    <2>3. /\ [Anchor EXCEPT !.path = p, !.query = b.query].path = p
          /\ [Anchor EXCEPT !.path = p, !.query = b.query].net
        BY <2>1, EmptyParts DEF IsUrl, Parts
    <2> QED
        BY <1>1, <2>0, <2>2, <2>3 DEF Good
<1> HIDE DEF start
<1>3. Good(Normal(start)) /\ Normal(start).net
    BY <1>2, NormalGood, EmptyParts DEF Normal, Good, IsUrl, Parts
<1>4. Good(tail) /\ Path(Trim(tail.path))
    BY <1>3, UrlJoinGood, TrimPath DEF Good
<1> HIDE DEF tail
<1>5. Good(text)
    BY <1>4, EmptyParts DEF Good, IsUrl, Parts
<1>6. JoinRelative(b, u) = ParseUrl(u) \/ JoinRelative(b, u) = ParseUrl(text)
    BY DEF JoinRelative, tail, start
<1> HIDE DEF text
<1> QED
    BY <1>5, <1>6, ParseGood

LEMMA JoinGood == \A b, u : Good(b) /\ Good(u) => Answer(JoinUrl(b, u))
BY UrlJoinGood, JoinRelativeGood DEF JoinUrl, Answer

LEMMA OverGood ==
    \A b, named : Good(b) /\ ("path" \in DOMAIN named => Path(named.path)) => Good(Over(b, named))
<1> SUFFICES ASSUME NEW b, NEW named, Good(b), "path" \in DOMAIN named => Path(named.path)
             PROVE  Path(Over(b, named).path)
    BY OverIsUrl DEF Good
<1> QED
    BY EmptyParts DEF Good, Over, IsUrl, Parts

LEMMA WrittenGood == \A u : Good(u) => Good(Written(u))
<1> SUFFICES ASSUME NEW u, Good(u) PROVE Path(Written(u).path)
    BY WrittenIsUrl DEF Good
<1>1. PICK p : p = u.path
    OBVIOUS
<1>2. Path(p) /\ Path(<<"">> \o p)
    BY <1>1, OnePath, EmptyName, PathConcat DEF Path, Good
<1> QED
    BY <1>1, <1>2, EmptyParts DEF Written, Good, IsUrl, Parts

LEMMA ComposeGood ==
    \A b, named : Good(b) /\ ("path" \in DOMAIN named => Path(named.path))
                    => Answer(Compose(b, named))
BY OverGood, WrittenGood, ParseGood DEF Compose

LEMMA NamedPath ==
    ASSUME NEW kwargs \in Kwargs, NEW named \in Components(kwargs), "path" \in DOMAIN named
    PROVE  Path(named.path)
<1> DEFINE given(q) == (DOMAIN kwargs \cap Fields) \cup (IF q = {} THEN {} ELSE {"query"})
<1>0. PICK q : named = [f \in given(q) |-> IF f = "query" THEN kwargs[CHOOSE k \in q : TRUE]
                                                          ELSE kwargs[f]]
    BY Zenon DEF Components
<1>1. "path" \in DOMAIN kwargs /\ named.path = kwargs.path
    <2>1. DOMAIN named = given(q) /\ "path" \in given(q)
        BY <1>0, Zenon
    <2>2. "path" # "query"
        OBVIOUS
    <2>3. named["path"] = kwargs["path"]
        BY <1>0, <2>1, <2>2, Zenon
    <2>4. "path" \in DOMAIN kwargs
        BY <2>1, <2>2
    <2> QED
        BY <2>3, <2>4
<1> QED
    BY <1>1, UrlAssumption, PathIs

LEMMA CopyGood ==
    ASSUME NEW b, Good(b), NEW kwargs \in Kwargs, NEW u \in CopyWith(b, kwargs)
    PROVE  Good(u)
<1>1. CASE DOMAIN kwargs = {}
    BY <1>1 DEF CopyWith
<1>2. CASE DOMAIN kwargs # {}
    <2>1. PICK named \in Components(kwargs) : u = Compose(b, named) /\ u # Invalid
        BY <1>2 DEF CopyWith
    <2> QED
        BY <2>1, NamedPath, ComposeGood DEF Answer
<1> QED
    BY <1>1, <1>2

LEMMA ParamsGood == \A b, ps : Good(b) => Answer(WithParams(b, ps))
<1> SUFFICES ASSUME NEW b, NEW ps, Good(b) PROVE Answer(WithParams(b, ps))
    OBVIOUS
<1>1. "path" \notin DOMAIN [query |-> ps]
    OBVIOUS
<1> QED
    BY <1>1, ComposeGood DEF WithParams

\* The inductive invariant: the URL of the program has all its parts and a path.
HasPath == Good(url)

LEMMA PlacesAreGood ==
    \A text \in Places \cup References : Good(text) /\ ParseUrl(text) = Normal(text)
BY UrlAssumption, PathIs DEF Good, ParseUrl

LEMMA PathInit == Init => HasPath
<1>1. ASSUME NEW q PROVE Good([Plain EXCEPT !.query = q])
    BY ConstantsAreGood, EmptyParts DEF Good, IsUrl, Parts
<1>2. ASSUME NEW text \in Places PROVE Good(ParseUrl(text))
    BY PlacesAreGood, NormalGood
<1> QED
    BY <1>1, <1>2 DEF Init, HasPath

LEMMA PathStep == HasPath /\ [Next]_vars => HasPath'
<1> SUFFICES ASSUME Good(url), [Next]_vars PROVE Good(url')
    BY DEF HasPath
<1>1. CASE SetParam \/ AddParam \/ RemoveParam \/ UrlParams \/ MergeParams \/ UNCHANGED vars
    BY <1>1 DEF SetParam, AddParam, RemoveParam, UrlParams, MergeParams, NewParams, vars
<1>2. CASE CopySetParam \/ CopyAddParam \/ CopyRemoveParam \/ CopyMergeParams
    BY <1>2, ParamsGood
    DEF CopySetParam, CopyAddParam, CopyRemoveParam, CopyMergeParams, NewUrl, Answer
<1>3. CASE RequestParams
    <2>1. Good([url EXCEPT !.query = pairs])
        BY EmptyParts DEF Good, IsUrl, Parts
    <2> QED
        BY <1>3, <2>1 DEF RequestParams, NewUrl
<1>4. CASE Join
    BY <1>4, PlacesAreGood, JoinGood DEF Join, NewUrl, Answer
<1>5. CASE Copy
    BY <1>5, CopyGood DEF Copy, NewUrl
<1> QED
    BY <1>1, <1>2, <1>3, <1>4, <1>5 DEF Next

LEMMA AlwaysPath == Spec => []HasPath
BY PathInit, PathStep, PTL DEF Spec

\* Trim leaves segments of its argument only.
LEMMA TrimParts ==
    ASSUME NEW p, Path(p), \A j \in 1..Len(p) : p[j] # ".."
    PROVE  \A i \in 1..Len(Trim(p)) : Trim(p)[i] # ".."
<1>1. p \in Seq(Segments) /\ Len(p) \in Nat /\ Len(p) > 0 /\ DOMAIN p = 1..Len(p)
    BY PathLength, LenProperties
<1> DEFINE kept == {i \in DOMAIN p : p[i] # ""} \cup {Len(p)}
           first == CHOOSE i \in kept : \A j \in kept : i <= j
<1>2. kept \subseteq 1..Len(p) /\ kept # {}
    <2>1. Len(p) \in 1..Len(p)
        BY <1>1
    <2>2. {i \in DOMAIN p : p[i] # ""} \subseteq 1..Len(p)
        BY <1>1, Zenon
    <2> QED
        BY <2>1, <2>2
<1>3. first \in 1..Len(p)
    <2> HIDE DEF kept
    <2>1. kept \subseteq Nat
        BY <1>2
    <2>2. \E i \in kept : \A j \in kept : i <= j
        BY <1>2, <2>1, LeastOf
    <2> QED
        BY <1>2, <2>2
<1>4. Trim(p) = SubSeq(p, first, Len(p))
    BY DEF Trim
<1> HIDE DEF first
<1>5. PICK n, s, k : n = Len(p) /\ k = first /\ s = SubSeq(p, k, n)
    OBVIOUS
<1>6. k \in Int /\ n \in Int /\ (\A i \in k..n : p[i] \in Segments) /\ k \in 1..n
    <2>1. \A i \in 1..Len(p) : p[i] \in Segments
        BY <1>1, LenProperties
    <2> QED
        BY <1>1, <1>3, <1>5, <2>1
<1>7. /\ Len(s) = IF k <= n THEN n - k + 1 ELSE 0
      /\ \A i \in 1..(n - k + 1) : s[i] = p[k + i - 1]
    BY <1>5, <1>6, SubSeqProperties
<1>8. ASSUME NEW i \in 1..Len(s) PROVE s[i] # ".."
    <2>1. k + i - 1 \in 1..n /\ i \in 1..(n - k + 1)
        BY <1>6, <1>7
    <2>2. s[i] = p[k + i - 1]
        BY <1>7, <2>1
    <2> QED
        BY <1>5, <2>1, <2>2
<1> QED
    BY <1>4, <1>5, <1>8

LEMMA Sums ==
    \A m, n \in Nat : /\ n > 1 => n > 0 /\ n # 1
                      /\ n # 0 => n + 1 > 1
                      /\ n # 0 /\ m > 0 => n + m # 1
OBVIOUS

\* The path of a base_url: names, and an empty one behind them.
BasePath(p) == p \in Seq(Names) /\ Len(p) > 1 /\ Last(p) = ""

LEMMA SlashBehind ==
    \A p \in Seq(Names) : p # <<>> =>
        BasePath(IF Len(p) > 1 /\ Last(p) = "" THEN p ELSE Append(p, ""))
<1> SUFFICES ASSUME NEW p \in Seq(Names), p # <<>>, ~(Len(p) > 1 /\ Last(p) = "")
             PROVE  BasePath(Append(p, ""))
    BY DEF BasePath
<1>1. PICK q : q = Append(p, "")
    OBVIOUS
<1>2. PICK n, m : n = Len(p) /\ m = Len(q)
    OBVIOUS
<1>3. "" \in Names /\ n \in Nat /\ n # 0
    BY <1>2, EmptyName, LenProperties, EmptySeq
<1>4. q \in Seq(Names) /\ m = n + 1 /\ q[n + 1] = ""
    BY <1>1, <1>2, <1>3, AppendProperties
<1>5. m > 1
    BY <1>3, <1>4, Sums, Zenon
<1>6. q[m] = ""
    BY <1>4, Zenon
<1> QED
    BY <1>1, <1>2, <1>4, <1>5, <1>6 DEF BasePath, Last

LEMMA BasePathParts ==
    \A p : BasePath(p) => /\ p \in Seq(Names) /\ Front(p) \in Seq(Names)
                          /\ p = Front(p) \o <<"">> /\ Front(p) # <<>>
<1> SUFFICES ASSUME NEW p, BasePath(p)
             PROVE  /\ Front(p) \in Seq(Names) /\ p = Front(p) \o <<"">> /\ Front(p) # <<>>
    BY DEF BasePath
<1>1. PICK n, f : n = Len(p) /\ f = Front(p)
    OBVIOUS
<1>2. p \in Seq(Names) /\ n > 1 /\ Last(p) = "" /\ n \in Nat
    BY <1>1, LenProperties DEF BasePath
<1>3. n > 0 /\ n # 1
    BY <1>2, Sums, Zenon
<1>4. f \in Seq(Names) /\ p = f \o <<"">>
    <2>1. /\ Front(p) \in Seq(Names) /\ Last(p) = p[Len(p)] /\ p = Front(p) \o <<p[Len(p)]>>
        BY <1>1, <1>2, <1>3, FrontIs, Zenon
    <2> QED
        BY <1>1, <1>2, <2>1
<1>5. f # <<>>
    <2>1. Len(<<"">>) = 1 /\ <<>> \o <<"">> = <<"">>
        OBVIOUS
    <2> QED
        BY <1>1, <1>3, <1>4, <2>1, Zenon
<1> QED
    BY <1>1, <1>4, <1>5

LEMMA NormalNames ==
    \A u : Good(u) /\ u.scheme # "" /\ u.net =>
               Normal(u).path \in Seq(Names) /\ Normal(u).path # <<>>
<1> SUFFICES ASSUME NEW u, Good(u), u.scheme # "", u.net
             PROVE  Normal(u).path \in Seq(Names) /\ Normal(u).path # <<>>
    OBVIOUS
<1>1. PICK p, q : p = u.path /\ q = <<"", "">>
    OBVIOUS
<1>2. Path(p) /\ Path(q) /\ IsUrl(u)
    BY <1>1, ConstantsAreGood DEF Good, Plain, Anchor, Empty
<1>3. /\ RemoveDots(p) \in Seq(Names) /\ RemoveDots(p) # <<>>
      /\ RemoveDots(q) \in Seq(Names) /\ RemoveDots(q) # <<>>
    BY <1>2, RemoveDotsNames
<1> QED
    BY <1>1, <1>2, <1>3, EmptyParts DEF Normal, IsUrl, Parts

\* The base_url of an absolute place.
LEMMA BaseIsGood ==
    ASSUME NEW text \in Places, IsAbsolute(text), NEW base, base = TrailingSlash(ParseUrl(text))
    PROVE  /\ IsUrl(base) /\ base.scheme # "" /\ base.net = TRUE
           /\ ~(base.scheme = "http" /\ base.port = "80") /\ BasePath(base.path)
<1>1. PICK n : n = Normal(text)
    OBVIOUS
<1>2. Good(text) /\ text.scheme # "" /\ text.net /\ base = TrailingSlash(n)
    BY <1>1, PlacesAreGood, UrlAssumption DEF IsAbsolute
<1>3. Good(n) /\ n.path \in Seq(Names) /\ n.path # <<>>
    BY <1>1, <1>2, NormalGood, NormalNames
<1>4. n.scheme # "" /\ n.net = TRUE /\ ~(n.scheme = "http" /\ n.port = "80")
    BY <1>1, <1>2, EmptyParts DEF Normal, Good, IsUrl, Parts
<1>5. PICK p, q : /\ p = n.path
                  /\ q = IF Len(p) > 1 /\ Last(p) = "" THEN p ELSE Append(p, "")
    OBVIOUS
<1>6. BasePath(q)
    BY <1>3, <1>5, SlashBehind
<1>7. base = [n EXCEPT !.path = q]
    BY <1>2, <1>5 DEF TrailingSlash
<1> QED
    BY <1>3, <1>4, <1>6, <1>7, EmptyParts DEF Good, IsUrl, Parts

\* What a path without slashes before it is resolved to: the path of the
\* base_url up to its last slash, and behind it the path.
LEMMA PathOfJoin ==
    ASSUME NEW b, IsUrl(b), b.scheme # "", b.net = TRUE, BasePath(b.path),
           NEW o, Good(o), o.scheme = "", o.net = FALSE, ~Rooted(o.path)
    PROVE  UrlJoin(b, o).path = RemoveDots(Front(b.path) \o o.path)
<1>1. PICK p, f, q : p = b.path /\ f = Front(p) /\ q = o.path
    OBVIOUS
<1>2. f \in Seq(Names) /\ f # <<>> /\ p = f \o <<"">> /\ Path(q)
    BY <1>1, BasePathParts DEF Good
<1>3. PICK t : t = Transform(b, o)
    OBVIOUS
<1>4. UrlJoin(b, o) = Normal(t) /\ IsUrl(t)
    BY <1>3, TransformIsUrl DEF UrlJoin, Good
<1>5. \A x : Path(x) => f \o x # <<"">>
    <2> SUFFICES ASSUME NEW x, Path(x) PROVE f \o x # <<"">>
        OBVIOUS
    <2>1. Len(f) \in Nat /\ Len(f) # 0 /\ Len(x) \in Nat /\ Len(x) > 0 /\ x \in Seq(Segments)
        BY <1>2, PathLength, LenProperties, EmptySeq
    <2>2. f \in Seq(Segments)
        BY <1>2, PathOfNames
    <2>3. Len(f \o x) = Len(f) + Len(x)
        BY <2>1, <2>2, ConcatProperties
    <2>4. Len(f \o x) # 1
        BY <2>1, <2>3, Sums, Zenon
    <2>5. Len(<<"">>) = 1
        OBVIOUS
    <2> QED
        BY <2>4, <2>5, Zenon
<1>6. p # <<"">> /\ f \o q # <<"">>
    BY <1>2, <1>5, OnePath, EmptyName
<1>7. t.scheme # "" /\ t.net = TRUE /\ t.path = f \o q
    BY <1>1, <1>2, <1>3, <1>6, EmptyParts DEF Good, IsUrl, Transform, Parts
<1> QED
    BY <1>1, <1>4, <1>6, <1>7, EmptyParts DEF IsUrl, Normal, Parts

\* A request stays under the path of its base_url, unless it climbs.
LEMMA StaysUnder ==
    ASSUME NEW b, IsUrl(b), b.scheme # "", b.net = TRUE, BasePath(b.path),
           NEW u, Good(u), ~(u.scheme # "" /\ u.net), Head(Trim(u.path)) # Colon,
           ".." \notin {u.path[i] : i \in DOMAIN u.path}
    PROVE  IsPrefix(Front(b.path), MergeUrl(b, u).path)
<1>1. u.path \in Seq(Segments) /\ u.path # <<>> /\ IsUrl(u) /\ Path(u.path)
    BY DEF Good, Path
<1>2. PICK o : /\ IsUrl(o) /\ o.scheme = "" /\ o.net = FALSE
               /\ o.path = Trim(u.path) /\ ~Rooted(o.path)
               /\ MergeUrl(b, u) = UrlJoin(b, o)
    BY <1>1, MergeIsJoin
<1>3. Path(o.path) /\ \A i \in 1..Len(o.path) : o.path[i] # ".."
    <2>1. \A j \in 1..Len(u.path) : u.path[j] # ".."
        BY <1>1, LenProperties
    <2> QED
        BY <1>1, <1>2, <2>1, TrimPath, TrimParts
<1>4. MergeUrl(b, u).path = RemoveDots(Front(b.path) \o o.path)
    <2>1. Good(o)
        BY <1>2, <1>3 DEF Good
    <2>2. UrlJoin(b, o).path = RemoveDots(Front(b.path) \o o.path)
        BY <1>2, <2>1, PathOfJoin
    <2> QED
        BY <1>2, <2>2
<1>5. Front(b.path) \in Seq(Names) /\ o.path \in Seq(Segments)
    BY <1>3, BasePathParts DEF Path
<1> QED
    BY <1>3, <1>4, <1>5, RemoveDotsKeeps

\* Whatever the URL of a request was made from, by joins and copies of any
\* texts, it stays on the site of the base_url and, unless it climbs with
\* "..", under its path, and it keeps its own query, or gets that of the
\* base_url when it has neither path nor query: base_url.rs:35-36, for every
\* base_url, reference and argument.  Only a path whose first segment has a
\* colon is excepted, as in the property.
THEOREM BaseUrlConfined == Spec => []BaseUrlConfines
<1>1. ASSUME HasPath, NEW text \in {t \in Places : IsAbsolute(t)},
             NEW base, base = TrailingSlash(ParseUrl(text)),
             ~(url.scheme # "" /\ url.net), Head(Trim(url.path)) # Colon
      PROVE  /\ Authority(MergeUrl(base, url)) = Authority(base)
             /\ MergeUrl(base, url).scheme = base.scheme
             /\ MergeUrl(base, url).query = IF url.query = <<>> /\ Trim(url.path) = <<"">>
                                            THEN base.query ELSE url.query
             /\ (".." \in {url.path[i] : i \in DOMAIN url.path}
                   \/ IsPrefix(Front(base.path), MergeUrl(base, url).path))
    <2>1. /\ IsUrl(base) /\ base.scheme # "" /\ base.net = TRUE
          /\ ~(base.scheme = "http" /\ base.port = "80") /\ BasePath(base.path)
        BY <1>1, BaseIsGood
    <2>2. Good(url) /\ IsUrl(url) /\ url.path \in Seq(Segments) /\ url.path # <<>>
        BY <1>1 DEF HasPath, Good, Path
    <2>3. /\ Authority(MergeUrl(base, url)) = Authority(base)
          /\ MergeUrl(base, url).scheme = base.scheme
          /\ MergeUrl(base, url).query = IF url.query = <<>> /\ Trim(url.path) = <<"">>
                                         THEN base.query ELSE url.query
        BY <1>1, <2>1, <2>2, BaseUrlKeepsSite
    <2>4. \/ ".." \in {url.path[i] : i \in DOMAIN url.path}
          \/ IsPrefix(Front(base.path), MergeUrl(base, url).path)
        BY <1>1, <2>1, <2>2, StaysUnder
    <2> QED
        BY <2>3, <2>4
<1>2. HasPath => BaseUrlConfines
    BY <1>1 DEF BaseUrlConfines
<1> QED
    BY <1>2, AlwaysPath, PTL

-----------------------------------------------------------------------------
(* Folds: the recursive functions they are defined by exist                *)

\* What a fold with the step function f yields after each element of b.
IsRun(f, base, b, d) == d[0] = base /\ \A k \in 1..Len(b) : d[k] = f[<<d[k - 1], b[k]>>]

\* A run can always be extended by one more element.
LEMMA RunExists ==
    ASSUME NEW X, NEW Y, NEW f \in [X \X Y -> X], NEW base \in X, NEW b \in Seq(Y)
    PROVE  \E d \in [0..Len(b) -> X] : IsRun(f, base, b, d)
<1>0. Len(b) \in Nat /\ \A i \in 1..Len(b) : b[i] \in Y
    BY LenProperties
<1> DEFINE Upto(m, d) == d[0] = base /\ \A k \in 1..m : d[k] = f[<<d[k - 1], b[k]>>]
           T == {m \in Nat : \E d \in [0..m -> X] : Upto(m, d)}
<1>1. 0 \in T
    <2>1. PICK d : d = [i \in 0..0 |-> base]
        OBVIOUS
    <2>2. d \in [0..0 -> X] /\ d[0] = base /\ 1..0 = {}
        BY <2>1
    <2> QED
        BY <2>2
<1>2. ASSUME NEW k \in 1..Len(b), k - 1 \in T PROVE k \in T
    <2>0. k \in Nat /\ k - 1 \in Nat /\ k - 1 \in 0..(k - 1) /\ b[k] \in Y /\ k \notin 0..(k - 1)
        BY <1>0
    <2>1. PICK d \in [0..(k - 1) -> X] : Upto(k - 1, d)
        BY <1>2
    <2>2. PICK y : y = f[<<d[k - 1], b[k]>>]
        OBVIOUS
    <2>3. y \in X
        BY <2>0, <2>1, <2>2
    <2>4. PICK e : e = [i \in 0..k |-> IF i = k THEN y ELSE d[i]]
        OBVIOUS
    <2>5. e \in [0..k -> X] /\ (\A i \in 0..(k - 1) : e[i] = d[i]) /\ e[k] = y
        BY <2>0, <2>1, <2>3, <2>4
    <2>6. ASSUME NEW i \in 1..k PROVE e[i] = f[<<e[i - 1], b[i]>>]
        <3>1. i - 1 \in 0..(k - 1)
            BY <2>0
        <3>2. CASE i = k
            BY <2>2, <2>5, <3>1, <3>2
        <3>3. CASE i # k
            <4>1. i \in 1..(k - 1) /\ i \in 0..(k - 1)
                BY <2>0, <3>3
            <4> QED
                BY <2>1, <2>5, <3>1, <4>1
        <3> QED
            BY <3>2, <3>3
    <2>7. e[0] = base
        BY <2>0, <2>1, <2>5
    <2> QED
        BY <2>0, <2>5, <2>6, <2>7
<1> HIDE DEF T
<1>3. Len(b) \in T
    <2>1. 0..Len(b) \subseteq T
        BY <1>0, <1>1, <1>2, Climb
    <2> QED
        BY <1>0, <2>1
<1>4. PICK d \in [0..Len(b) -> X] : Upto(Len(b), d)
    BY <1>3 DEF T
<1> QED
    BY <1>4 DEF IsRun

LEMMA RunUnique ==
    \A f, base, b, d, e : \A n \in Nat :
        /\ n = Len(b) /\ IsRun(f, base, b, d) /\ IsRun(f, base, b, e)
        => d[n] = e[n]
<1> SUFFICES ASSUME NEW f, NEW base, NEW b, NEW d, NEW e, NEW n \in Nat,
                    n = Len(b), IsRun(f, base, b, d), IsRun(f, base, b, e)
             PROVE  d[n] = e[n]
    OBVIOUS
<1>0. /\ d[0] = base /\ \A k \in 1..n : d[k] = f[<<d[k - 1], b[k]>>]
      /\ e[0] = base /\ \A k \in 1..n : e[k] = f[<<e[k - 1], b[k]>>]
    BY DEF IsRun
<1> DEFINE T == {k \in Nat : d[k] = e[k]}
<1>1. 0 \in T
    BY <1>0
<1>2. ASSUME NEW k \in 1..n, k - 1 \in T PROVE k \in T
    <2>1. d[k - 1] = e[k - 1] /\ k \in Nat
        BY <1>2
    <2> QED
        BY <1>0, <2>1
<1> HIDE DEF T
<1>3. n \in T
    <2>1. 0..n \subseteq T
        BY <1>1, <1>2, Climb
    <2> QED
        BY <2>1
<1> QED
    BY <1>3 DEF T

\* The outcome.
Out(f, base, b) == LET d == CHOOSE d : IsRun(f, base, b, d) IN d[Len(b)]

\* A run is the only one, so that its end is the outcome.
LEMMA OutIs ==
    \A f, base, b, e : Len(b) \in Nat /\ IsRun(f, base, b, e) => Out(f, base, b) = e[Len(b)]
<1> SUFFICES ASSUME NEW f, NEW base, NEW b, NEW e, Len(b) \in Nat, IsRun(f, base, b, e)
             PROVE  Out(f, base, b) = e[Len(b)]
    OBVIOUS
<1>1. PICK c : c = CHOOSE d : IsRun(f, base, b, d)
    OBVIOUS
<1>2. IsRun(f, base, b, c) /\ Out(f, base, b) = c[Len(b)]
    BY <1>1 DEF Out
<1> QED
    BY <1>2, RunUnique

LEMMA OutEmpty == \A f, base : Out(f, base, <<>>) = base
<1> SUFFICES ASSUME NEW f, NEW base PROVE Out(f, base, <<>>) = base
    OBVIOUS
<1>1. Len(<<>>) = 0
    BY EmptySeq
<1>2. PICK d : d = [i \in 0..0 |-> base]
    OBVIOUS
<1>3. d[0] = base
    BY <1>2
<1>4. IsRun(f, base, <<>>, d)
    BY <1>1, <1>3 DEF IsRun
<1> QED
    BY <1>1, <1>3, <1>4, OutIs

\* f is a step and base a start, both within X.
IsFold(X, Y, f, base) == f \in [X \X Y -> X] /\ base \in X

LEMMA OutIn ==
    \A X, Y, f, base, b :
        IsFold(X, Y, f, base) /\ b \in Seq(Y) => Out(f, base, b) \in X
<1> SUFFICES ASSUME NEW X, NEW Y, NEW f, NEW base, IsFold(X, Y, f, base), NEW b \in Seq(Y)
             PROVE  Out(f, base, b) \in X
    OBVIOUS
<1>f. f \in [X \X Y -> X] /\ base \in X
    BY DEF IsFold
<1>0. Len(b) \in Nat
    BY LenProperties
<1>1. PICK d \in [0..Len(b) -> X] : IsRun(f, base, b, d)
    BY <1>f, RunExists
<1>2. Out(f, base, b) = d[Len(b)]
    BY <1>0, <1>1, OutIs
<1> QED
    BY <1>0, <1>1, <1>2, <1>f

LEMMA OutAppend ==
    \A X, Y, f, base, b, x :
        IsFold(X, Y, f, base) /\ b \in Seq(Y) /\ x \in Y
        => Out(f, base, Append(b, x)) = f[<<Out(f, base, b), x>>]
<1> SUFFICES ASSUME NEW X, NEW Y, NEW f, NEW base, IsFold(X, Y, f, base), NEW b \in Seq(Y), NEW x \in Y
             PROVE  Out(f, base, Append(b, x)) = f[<<Out(f, base, b), x>>]
    OBVIOUS
<1>f. f \in [X \X Y -> X] /\ base \in X
    BY DEF IsFold
<1>1. PICK n, c : n = Len(b) /\ c = Append(b, x)
    OBVIOUS
<1>2. n \in Nat /\ c \in Seq(Y) /\ Len(c) = n + 1 /\ c[n + 1] = x /\ \A i \in 1..n : c[i] = b[i]
    BY <1>1, AppendProperties, LenProperties
<1>3. PICK d \in [0..Len(c) -> X] : IsRun(f, base, c, d)
    BY <1>2, <1>f, RunExists
<1>4. \A k \in 1..n : k \in 1..(n + 1)
    BY <1>2
<1>5. IsRun(f, base, b, d)
    BY <1>1, <1>2, <1>3, <1>4 DEF IsRun
<1>6. Out(f, base, b) = d[n] /\ Out(f, base, c) = d[n + 1]
    <2>1. Out(f, base, b) = d[Len(b)]
        BY <1>1, <1>2, <1>5, OutIs
    <2>2. Len(c) \in Nat
        BY <1>2
    <2>3. Out(f, base, c) = d[Len(c)]
        BY <1>3, <2>2, OutIs
    <2> QED
        BY <1>1, <1>2, <2>1, <2>3
<1>7. n + 1 \in 1..(n + 1) /\ (n + 1) - 1 = n /\ n \in 0..(n + 1)
    BY <1>2
<1>8. d[n + 1] = f[<<d[n], x>>] /\ d[n] \in X
    BY <1>2, <1>3, <1>7 DEF IsRun
<1> QED
    BY <1>1, <1>6, <1>8

\* A recursive definition over the indices of b is such a fold.
IsRec(X, f, base, b, g) ==
    g[0] = base /\ \A k \in 1..Len(b) : g[k - 1] \in X => g[k] = f[<<g[k - 1], b[k]>>]

LEMMA OutOfRec ==
    \A X, Y, f, base, b, g :
        IsFold(X, Y, f, base) /\ b \in Seq(Y) /\ IsRec(X, f, base, b, g)
        => g[Len(b)] = Out(f, base, b)
<1> SUFFICES ASSUME NEW X, NEW Y, NEW f, NEW base, IsFold(X, Y, f, base), NEW b \in Seq(Y), NEW g,
                    IsRec(X, f, base, b, g)
             PROVE  g[Len(b)] = Out(f, base, b)
    OBVIOUS
<1>f. f \in [X \X Y -> X] /\ base \in X
    BY DEF IsFold
<1>0. Len(b) \in Nat /\ \A i \in 1..Len(b) : b[i] \in Y
    BY LenProperties
<1> DEFINE T == {k \in Nat : k <= Len(b) /\ g[k] \in X}
<1>a. g[0] = base /\ \A k \in 1..Len(b) : g[k - 1] \in X => g[k] = f[<<g[k - 1], b[k]>>]
    BY DEF IsRec
<1>1. 0 \in T
    BY <1>0, <1>a, <1>f
<1>2. ASSUME NEW k \in 1..Len(b), k - 1 \in T PROVE k \in T
    <2>1. g[k] = f[<<g[k - 1], b[k]>>] /\ g[k - 1] \in X /\ b[k] \in Y /\ k \in Nat /\ k <= Len(b)
        BY <1>0, <1>2, <1>a, <1>f
    <2>2. g[k] \in X
        BY <2>1, <1>f
    <2> QED
        BY <2>1, <2>2
<1> HIDE DEF T
<1>3. 0..Len(b) \subseteq T
    BY <1>0, <1>1, <1>2, Climb
<1>4. \A k \in 1..Len(b) : k - 1 \in T
    BY <1>0, <1>3
<1>5. \A k \in 1..Len(b) : g[k - 1] \in X
    BY <1>4 DEF T
<1>6. IsRun(f, base, b, g)
    BY <1>5, <1>a DEF IsRun
<1> QED
    BY <1>0, <1>6, OutIs

\* A set of sequences with the empty one and, for each, those one longer.
LEMMA SeqClimb ==
    ASSUME NEW Y, NEW T, <<>> \in T, \A s \in Seq(Y), x \in Y : s \in T => Append(s, x) \in T
    PROVE  Seq(Y) \subseteq T
<1> SUFFICES ASSUME NEW b \in Seq(Y) PROVE b \in T
    OBVIOUS
<1>0. Len(b) \in Nat /\ \A i \in 1..Len(b) : b[i] \in Y
    BY LenProperties
<1> DEFINE U == {k \in Nat : SubSeq(b, 1, k) \in T}
<1>1. 0 \in U
    <2>1. SubSeq(b, 1, 0) = <<>>
        BY SubSeqEmpty
    <2> QED
        BY <2>1
<1>2. ASSUME NEW k \in 1..Len(b), k - 1 \in U PROVE k \in U
    <2>1. 1 \in 1..Len(b) /\ k \in 1..Len(b) /\ k \in 1..k /\ k \in Nat
        BY <1>0
    <2>2. PICK s : s = SubSeq(b, 1, k - 1)
        OBVIOUS
    <2>3. s \in Seq(Y) /\ s \in T
        <3>1. \A i \in 1..(k - 1) : b[i] \in Y
            BY <1>0
        <3>2. 1 \in Int /\ k - 1 \in Int
            OBVIOUS
        <3> QED
            BY <1>2, <2>2, <3>1, <3>2, SubSeqProperties
    <2>4. SubSeq(b, 1, k) = s \o <<b[k]>>
        BY <1>0, <2>1, <2>2, SubSeqRecursiveSecond
    <2>5. SubSeq(b, 1, k) = Append(s, b[k])
        BY <1>0, <2>3, <2>4, AppendIsConcat
    <2> QED
        BY <1>0, <2>1, <2>3, <2>5
<1> HIDE DEF U
<1>3. Len(b) \in U
    <2>1. 0..Len(b) \subseteq U
        BY <1>0, <1>1, <1>2, Climb
    <2> QED
        BY <1>0, <2>1
<1>4. SubSeq(b, 1, Len(b)) = b
    BY SubSeqFull
<1> QED
    BY <1>3, <1>4 DEF U

-----------------------------------------------------------------------------
(* The recursive functions of QueryParams, element by element              *)

\* What Only takes.
OnlyStep(s, x, ks) == IF x.key \in ks THEN Append(s, x) ELSE s

LEMMA OnlyLaws ==
    ASSUME NEW Y, NEW ks
    PROVE  /\ Only(<<>>, ks) = <<>>
           /\ \A b \in Seq(Y) : Only(b, ks) \in Seq(Y)
           /\ \A b \in Seq(Y), x \in Y : Only(Append(b, x), ks) = OnlyStep(Only(b, ks), x, ks)
<1>0. PICK X : X = Seq(Y)
    OBVIOUS
<1>a. <<>> \in X /\ <<>> \in Seq(Y)
    BY <1>0, EmptySeq
<1>1. PICK f : f = [z \in X \X Y |-> OnlyStep(z[1], z[2], ks)]
    OBVIOUS
<1>2. \A s \in X, x \in Y : OnlyStep(s, x, ks) \in X
    BY <1>0, AppendProperties DEF OnlyStep
<1>3. f \in [X \X Y -> X]
    BY <1>1, <1>2
<1>c. IsFold(X, Y, f, <<>>)
    BY <1>a, <1>3 DEF IsFold
<1>b. \A s \in X, x \in Y : f[<<s, x>>] = OnlyStep(s, x, ks)
    BY <1>1
<1>4. ASSUME NEW b \in Seq(Y) PROVE Only(b, ks) = Out(f, <<>>, b)
    <2>0. Len(b) \in Nat /\ \A n \in 1..Len(b) : b[n] \in Y
        BY LenProperties
    <2>1. PICK d \in [0..Len(b) -> X] : IsRun(f, <<>>, b, d)
        BY <1>a, <1>3, RunExists
    <2>2. d = [n \in 0..Len(b) |-> IF n = 0 THEN <<>> ELSE OnlyStep(d[n - 1], b[n], ks)]
        <3>1. d[0] = <<>> /\ \A n \in 1..Len(b) : d[n] = f[<<d[n - 1], b[n]>>]
            BY <2>1 DEF IsRun
        <3>2. ASSUME NEW n \in 0..Len(b), n # 0 PROVE d[n] = OnlyStep(d[n - 1], b[n], ks)
            <4>1. n \in 1..Len(b) /\ n - 1 \in 0..Len(b)
                BY <2>0, <3>2
            <4>2. d[n] = f[<<d[n - 1], b[n]>>] /\ d[n - 1] \in X /\ b[n] \in Y
                BY <2>0, <2>1, <3>1, <4>1
            <4> QED
                BY <1>b, <4>2
        <3> QED
            BY <2>1, <3>1, <3>2
    <2>3. PICK h : h = CHOOSE g : g = [n \in 0..Len(b) |->
                              IF n = 0 THEN <<>> ELSE OnlyStep(g[n - 1], b[n], ks)]
        OBVIOUS
    <2>4. h = [n \in 0..Len(b) |-> IF n = 0 THEN <<>> ELSE OnlyStep(h[n - 1], b[n], ks)]
        BY <2>2, <2>3
    <2>5. Only(b, ks) = h[Len(b)]
        BY <2>3 DEF Only, OnlyStep
    <2>6. ASSUME NEW n \in 1..Len(b), h[n - 1] \in X PROVE h[n] = f[<<h[n - 1], b[n]>>]
        <3>a. n \in 0..Len(b) /\ n # 0 /\ b[n] \in Y
            BY <2>0
        <3>1. h[n] = OnlyStep(h[n - 1], b[n], ks) /\ b[n] \in Y
            BY <2>4, <3>a
        <3> QED
            BY <1>b, <2>6, <3>1
    <2>7. h[0] = <<>>
        BY <2>0, <2>4
    <2>8. IsRec(X, f, <<>>, b, h)
        BY <2>6, <2>7 DEF IsRec
    <2> QED
        BY <1>c, <2>5, <2>8, OutOfRec
<1>5. ASSUME NEW b \in Seq(Y) PROVE Only(b, ks) \in X
    BY <1>c, <1>4, OutIn
<1>6. ASSUME NEW b \in Seq(Y), NEW x \in Y
      PROVE  Only(Append(b, x), ks) = OnlyStep(Only(b, ks), x, ks)
    <2>1. PICK s : s = Only(b, ks)
        OBVIOUS
    <2>2. s \in X /\ s = Out(f, <<>>, b) /\ Append(b, x) \in Seq(Y)
        BY <1>4, <1>5, <2>1, AppendProperties
    <2>3. Out(f, <<>>, Append(b, x)) = f[<<s, x>>]
        BY <1>c, <2>2, OutAppend
    <2> QED
        BY <1>4, <1>b, <2>1, <2>2, <2>3
<1>7. Only(<<>>, ks) = <<>>
    BY <1>4, <1>a, OutEmpty
<1> QED
    BY <1>0, <1>5, <1>6, <1>7

\* The keys, each where it first appears.
LEMMA KeysLaws ==
    ASSUME NEW Y, \A x \in Y : x.key \in Keys
    PROVE  /\ KeysOf(<<>>) = <<>>
           /\ \A b \in Seq(Y) : KeysOf(b) \in Seq(Keys)
           /\ \A b \in Seq(Y), x \in Y : KeysOf(Append(b, x)) = AddKey(KeysOf(b), x)
<1>0. PICK X : X = Seq(Keys)
    OBVIOUS
<1>a. <<>> \in X /\ <<>> \in Seq(Y)
    BY <1>0, EmptySeq
<1>1. PICK f : f = [z \in X \X Y |-> AddKey(z[1], z[2])]
    OBVIOUS
<1>2. \A s \in X, x \in Y : AddKey(s, x) \in X
    BY <1>0, AppendProperties DEF AddKey
<1>3. f \in [X \X Y -> X]
    BY <1>1, <1>2
<1>c. IsFold(X, Y, f, <<>>)
    BY <1>a, <1>3 DEF IsFold
<1>b. \A s \in X, x \in Y : f[<<s, x>>] = AddKey(s, x)
    BY <1>1
<1>4. ASSUME NEW b \in Seq(Y) PROVE KeysOf(b) = Out(f, <<>>, b)
    <2>0. Len(b) \in Nat /\ \A n \in 1..Len(b) : b[n] \in Y
        BY LenProperties
    <2>1. PICK d \in [0..Len(b) -> X] : IsRun(f, <<>>, b, d)
        BY <1>a, <1>3, RunExists
    <2>2. d = [n \in 0..Len(b) |-> IF n = 0 THEN <<>> ELSE AddKey(d[n - 1], b[n])]
        <3>1. d[0] = <<>> /\ \A n \in 1..Len(b) : d[n] = f[<<d[n - 1], b[n]>>]
            BY <2>1 DEF IsRun
        <3>2. ASSUME NEW n \in 0..Len(b), n # 0 PROVE d[n] = AddKey(d[n - 1], b[n])
            <4>1. n \in 1..Len(b) /\ n - 1 \in 0..Len(b)
                BY <2>0, <3>2
            <4>2. d[n] = f[<<d[n - 1], b[n]>>] /\ d[n - 1] \in X /\ b[n] \in Y
                BY <2>0, <2>1, <3>1, <4>1
            <4> QED
                BY <1>b, <4>2
        <3> QED
            BY <2>1, <3>1, <3>2
    <2>3. PICK h : h = CHOOSE g : g = [n \in 0..Len(b) |->
                              IF n = 0 THEN <<>> ELSE AddKey(g[n - 1], b[n])]
        OBVIOUS
    <2>4. h = [n \in 0..Len(b) |-> IF n = 0 THEN <<>> ELSE AddKey(h[n - 1], b[n])]
        BY <2>2, <2>3
    <2>5. KeysOf(b) = h[Len(b)]
        BY <2>3 DEF KeysOf
    <2>6. ASSUME NEW n \in 1..Len(b), h[n - 1] \in X PROVE h[n] = f[<<h[n - 1], b[n]>>]
        <3>a. n \in 0..Len(b) /\ n # 0 /\ b[n] \in Y
            BY <2>0
        <3>1. h[n] = AddKey(h[n - 1], b[n]) /\ b[n] \in Y
            BY <2>4, <3>a
        <3> QED
            BY <1>b, <2>6, <3>1
    <2>7. h[0] = <<>>
        BY <2>0, <2>4
    <2>8. IsRec(X, f, <<>>, b, h)
        BY <2>6, <2>7 DEF IsRec
    <2> QED
        BY <1>c, <2>5, <2>8, OutOfRec
<1>5. ASSUME NEW b \in Seq(Y) PROVE KeysOf(b) \in X
    BY <1>c, <1>4, OutIn
<1>6. ASSUME NEW b \in Seq(Y), NEW x \in Y PROVE KeysOf(Append(b, x)) = AddKey(KeysOf(b), x)
    <2>1. PICK s : s = KeysOf(b)
        OBVIOUS
    <2>2. s \in X /\ s = Out(f, <<>>, b) /\ Append(b, x) \in Seq(Y)
        BY <1>4, <1>5, <2>1, AppendProperties
    <2>3. Out(f, <<>>, Append(b, x)) = f[<<s, x>>]
        BY <1>c, <2>2, OutAppend
    <2> QED
        BY <1>4, <1>b, <2>1, <2>2, <2>3
<1>7. KeysOf(<<>>) = <<>>
    BY <1>4, <1>a, OutEmpty
<1> QED
    BY <1>0, <1>5, <1>6, <1>7

\* The last of a set of places.
LEMMA GreatestOf ==
    ASSUME NEW n \in Nat, NEW S, S \subseteq 1..n, S # {}
    PROVE  \E i \in S : \A j \in S : j <= i
<1>1. PICK T : T = {n - i : i \in S}
    OBVIOUS
<1>2. T \subseteq Nat /\ T # {}
    <2>1. \A i \in 1..n : n - i \in Nat
        OBVIOUS
    <2>2. \A i \in S : n - i \in Nat
        BY <2>1
    <2> QED
        BY <1>1, <2>2
<1>3. PICK t \in T : \A u \in T : t <= u
    BY <1>2, LeastOf
<1>4. PICK i \in S : t = n - i
    BY <1>1
<1>5. ASSUME NEW j \in S PROVE j <= i
    <2>1. n - j \in T
        BY <1>1
    <2>2. n - i <= n - j
        BY <1>3, <1>4, <2>1
    <2>3. i \in 1..n /\ j \in 1..n
        OBVIOUS
    <2> QED
        BY <2>2, <2>3
<1> QED
    BY <1>5

\* A sequence cut behind its i-th element.
LEMMA Cut ==
    \A Y, s, i : s \in Seq(Y) /\ i \in 0..Len(s) =>
        /\ SubSeq(s, 1, i) \in Seq(Y) /\ SubSeq(s, i + 1, Len(s)) \in Seq(Y)
        /\ Len(SubSeq(s, 1, i)) = i /\ Len(SubSeq(s, i + 1, Len(s))) = Len(s) - i
        /\ \A j \in 1..i : SubSeq(s, 1, i)[j] = s[j]
        /\ \A j \in 1..(Len(s) - i) : SubSeq(s, i + 1, Len(s))[j] = s[i + j]
        /\ s = SubSeq(s, 1, i) \o SubSeq(s, i + 1, Len(s))
<1> SUFFICES ASSUME NEW Y, NEW s, s \in Seq(Y), NEW i, i \in 0..Len(s)
             PROVE  /\ SubSeq(s, 1, i) \in Seq(Y) /\ SubSeq(s, i + 1, Len(s)) \in Seq(Y)
                    /\ Len(SubSeq(s, 1, i)) = i /\ Len(SubSeq(s, i + 1, Len(s))) = Len(s) - i
                    /\ \A j \in 1..i : SubSeq(s, 1, i)[j] = s[j]
                    /\ \A j \in 1..(Len(s) - i) : SubSeq(s, i + 1, Len(s))[j] = s[i + j]
                    /\ s = SubSeq(s, 1, i) \o SubSeq(s, i + 1, Len(s))
    OBVIOUS
<1>0. Len(s) \in Nat /\ i \in Nat /\ i <= Len(s) /\ \A j \in 1..Len(s) : s[j] \in Y
    BY LenProperties
<1>1. PICK a : a = SubSeq(s, 1, i)
    OBVIOUS
<1>2. PICK c : c = SubSeq(s, i + 1, Len(s))
    OBVIOUS
<1>3. a \in Seq(Y) /\ Len(a) = i /\ \A j \in 1..i : a[j] = s[j]
    <2>1. \A j \in 1..i : s[j] \in Y
        BY <1>0
    <2>2. 1 \in Int /\ i \in Int
        BY <1>0
    <2>3. a \in Seq(Y) /\ Len(a) = (IF 1 <= i THEN i - 1 + 1 ELSE 0) /\ \A j \in 1..(i - 1 + 1) : a[j] = s[1 + j - 1]
        BY <1>1, <2>1, <2>2, SubSeqProperties
    <2>4. (IF 1 <= i THEN i - 1 + 1 ELSE 0) = i /\ i - 1 + 1 = i /\ \A j \in 1..i : 1 + j - 1 = j
        BY <1>0
    <2> QED
        BY <2>3, <2>4
<1>4. c \in Seq(Y) /\ Len(c) = Len(s) - i /\ \A j \in 1..(Len(s) - i) : c[j] = s[i + j]
    <2>1. \A j \in (i + 1)..Len(s) : s[j] \in Y
        BY <1>0
    <2>2. i + 1 \in Int /\ Len(s) \in Int
        BY <1>0
    <2>3. c \in Seq(Y) /\ Len(c) = (IF i + 1 <= Len(s) THEN Len(s) - (i + 1) + 1 ELSE 0)
          /\ \A j \in 1..(Len(s) - (i + 1) + 1) : c[j] = s[(i + 1) + j - 1]
        BY <1>2, <2>1, <2>2, SubSeqProperties
    <2>4. /\ (IF i + 1 <= Len(s) THEN Len(s) - (i + 1) + 1 ELSE 0) = Len(s) - i
          /\ Len(s) - (i + 1) + 1 = Len(s) - i /\ \A j \in 1..(Len(s) - i) : (i + 1) + j - 1 = i + j
        BY <1>0
    <2> QED
        BY <2>3, <2>4
<1>5. s = a \o c
    <2>1. PICK e : e = a \o c
        OBVIOUS
    <2>2. e \in Seq(Y) /\ Len(e) = i + (Len(s) - i)
          /\ \A j \in 1..(i + (Len(s) - i)) : e[j] = IF j <= i THEN a[j] ELSE c[j - i]
        BY <1>3, <1>4, <2>1, ConcatProperties
    <2>3. i + (Len(s) - i) = Len(s)
        BY <1>0
    <2>4. ASSUME NEW j \in 1..Len(s) PROVE e[j] = s[j]
        <3>1. CASE j <= i
            <4>1. j \in 1..i
                BY <1>0, <3>1
            <4> QED
                BY <1>3, <2>2, <2>3, <3>1, <4>1
        <3>2. CASE ~(j <= i)
            <4>1. j - i \in 1..(Len(s) - i) /\ i + (j - i) = j
                BY <1>0, <3>2
            <4> QED
                BY <1>4, <2>2, <2>3, <3>2, <4>1
        <3> QED
            BY <3>1, <3>2
    <2>5. Len(e) = Len(s)
        BY <2>2, <2>3
    <2> QED
        BY <2>1, <2>2, <2>4, <2>5, SeqEqual
<1> QED
    BY <1>1, <1>2, <1>3, <1>4, <1>5

LEMMA KeySetIs ==
    /\ KeySet(<<>>) = {}
    /\ \A s : s \in Seq(Pair) => KeySet(s) \subseteq Keys
    /\ \A Y, s, x : s \in Seq(Y) /\ x \in Y => KeySet(Append(s, x)) = KeySet(s) \cup {x.key}
    /\ \A Y, s, t : s \in Seq(Y) /\ t \in Seq(Y) => KeySet(s \o t) = KeySet(s) \cup KeySet(t)
<1>1. KeySet(<<>>) = {}
    BY DEF KeySet
<1>2. ASSUME NEW s, s \in Seq(Pair) PROVE KeySet(s) \subseteq Keys
    <2>1. \A i \in DOMAIN s : s[i] \in Pair
        BY <1>2, LenProperties
    <2>2. \A i \in DOMAIN s : s[i].key \in Keys
        BY <2>1 DEF Pair
    <2> QED
        BY <2>2 DEF KeySet
<1>4. ASSUME NEW Y, NEW s, NEW t, s \in Seq(Y), t \in Seq(Y)
      PROVE  KeySet(s \o t) = KeySet(s) \cup KeySet(t)
    <2>1. PICK u, m, n : u = s \o t /\ m = Len(s) /\ n = Len(t)
        OBVIOUS
    <2>2. /\ m \in Nat /\ n \in Nat /\ DOMAIN s = 1..m /\ DOMAIN t = 1..n
          /\ u \in Seq(Y) /\ Len(u) = m + n
          /\ \A i \in 1..(m + n) : u[i] = IF i <= m THEN s[i] ELSE t[i - m]
        BY <1>4, <2>1, ConcatProperties, LenProperties
    <2>3. DOMAIN u = 1..(m + n)
        BY <2>2, LenProperties
    <2>4. ASSUME NEW i \in 1..m PROVE i \in 1..(m + n) /\ u[i] = s[i]
        BY <2>2
    <2>5. ASSUME NEW i \in 1..n PROVE m + i \in 1..(m + n) /\ u[m + i] = t[i]
        <3>1. m + i \in 1..(m + n) /\ ~(m + i <= m) /\ (m + i) - m = i
            BY <2>2
        <3> QED
            BY <2>2, <3>1
    <2>6. ASSUME NEW i \in 1..(m + n)
          PROVE  u[i].key \in {s[j].key : j \in 1..m} \cup {t[j].key : j \in 1..n}
        <3>1. CASE i <= m
            <4>1. i \in 1..m
                BY <2>2, <3>1
            <4> QED
                BY <2>4, <4>1
        <3>2. CASE ~(i <= m)
            <4>1. i - m \in 1..n /\ u[i] = t[i - m]
                BY <2>2, <3>2
            <4> QED
                BY <4>1
        <3> QED
            BY <3>1, <3>2
    <2>7. {u[i].key : i \in 1..(m + n)} = {s[j].key : j \in 1..m} \cup {t[j].key : j \in 1..n}
        BY <2>4, <2>5, <2>6
    <2>8. /\ KeySet(u) = {u[i].key : i \in 1..(m + n)}
          /\ KeySet(s) = {s[j].key : j \in 1..m} /\ KeySet(t) = {t[j].key : j \in 1..n}
        BY <2>2, <2>3, Zenon DEF KeySet
    <2> QED
        BY <2>1, <2>7, <2>8
<1>5. \A Y, s, t : s \in Seq(Y) /\ t \in Seq(Y) => KeySet(s \o t) = KeySet(s) \cup KeySet(t)
    BY <1>4
<1>3. ASSUME NEW Y, NEW s, NEW x, s \in Seq(Y), x \in Y
      PROVE  KeySet(Append(s, x)) = KeySet(s) \cup {x.key}
    <2>1. Append(s, x) = s \o <<x>> /\ <<x>> \in Seq(Y)
        BY <1>3, AppendIsConcat
    <2>2. KeySet(<<x>>) = {x.key}
        BY DEF KeySet
    <2>3. PICK t : t = <<x>>
        OBVIOUS
    <2>4. KeySet(Append(s, x)) = KeySet(s) \cup KeySet(t)
        <3>1. t \in Seq(Y) /\ s \in Seq(Y) /\ Append(s, x) = s \o t
            BY <1>3, <2>1, <2>3
        <3> QED
            BY <1>5, <3>1
    <2> QED
        BY <2>2, <2>3, <2>4
<1> QED
    BY <1>1, <1>2, <1>3, <1>4

\* Where push puts a pair.
Pushed(ps, p, q) ==
    \/ p.key \notin KeySet(ps) /\ q = Append(ps, p)
    \/ \E a, c \in Seq(Pair) :
          /\ ps = a \o c /\ q = Append(a, p) \o c
          /\ Len(a) > 0 /\ a[Len(a)].key = p.key /\ p.key \notin KeySet(c)

LEMMA PushPuts ==
    \A ps, p : ps \in Seq(Pair) /\ p \in Pair => Pushed(ps, p, Push(ps, p.key, p.value))
<1> SUFFICES ASSUME NEW ps, ps \in Seq(Pair), NEW p, p \in Pair
             PROVE  Pushed(ps, p, Push(ps, p.key, p.value))
    OBVIOUS
<1>0. P(p.key, p.value) = p
    BY DEF P, Pair
<1>a. Len(ps) \in Nat /\ DOMAIN ps = 1..Len(ps)
    BY LenProperties
<1>1. PICK at : at = {i \in DOMAIN ps : ps[i].key = p.key}
    OBVIOUS
<1>2. CASE at = {}
    <2>1. Push(ps, p.key, p.value) = Append(ps, p)
        BY <1>0, <1>1, <1>2 DEF Push
    <2>2. p.key \notin KeySet(ps)
        BY <1>1, <1>2 DEF KeySet
    <2> QED
        BY <2>1, <2>2 DEF Pushed
<1>3. CASE at # {}
    <2>1. PICK i : i = CHOOSE k \in at : \A j \in at : j <= k
        OBVIOUS
    <2>2. \E j \in at : \A k \in at : k <= j
        BY <1>a, <1>1, <1>3, GreatestOf
    <2>3. i \in at /\ \A j \in at : j <= i
        BY <2>1, <2>2
    <2>4. Push(ps, p.key, p.value) = InsertAt(ps, i + 1, p)
        BY <1>0, <1>1, <1>3, <2>1 DEF Push
    <2>5. i \in 1..Len(ps) /\ i \in 0..Len(ps) /\ i \in Nat /\ i > 0 /\ (i + 1) - 1 = i /\ ps[i].key = p.key
        BY <1>a, <1>1, <2>3
    <2>6. PICK a, c : a = SubSeq(ps, 1, i) /\ c = SubSeq(ps, i + 1, Len(ps))
        OBVIOUS
    <2>7. /\ a \in Seq(Pair) /\ c \in Seq(Pair) /\ Len(a) = i /\ Len(c) = Len(ps) - i
          /\ \A j \in 1..i : a[j] = ps[j]
          /\ \A j \in 1..(Len(ps) - i) : c[j] = ps[i + j]
          /\ ps = a \o c
        BY <2>5, <2>6, Cut
    <2>8. InsertAt(ps, i + 1, p) = (a \o <<p>>) \o c
        BY <2>5, <2>6 DEF InsertAt
    <2>9. a \o <<p>> = Append(a, p)
        BY <2>7, AppendIsConcat
    <2>10. p.key \notin KeySet(c)
        <3>1. DOMAIN c = 1..(Len(ps) - i)
            BY <2>7, LenProperties
        <3>2. ASSUME NEW j \in 1..(Len(ps) - i), c[j].key = p.key PROVE FALSE
            <4>1. i + j \in 1..Len(ps) /\ ~(i + j <= i)
                BY <1>a, <2>5
            <4>2. i + j \in at
                BY <1>a, <1>1, <2>7, <3>2, <4>1
            <4> QED
                BY <2>3, <4>1, <4>2
        <3> QED
            BY <3>1, <3>2 DEF KeySet
    <2>11. Len(a) > 0 /\ a[Len(a)].key = p.key
        <3>1. i \in 1..i
            BY <2>5
        <3> QED
            BY <2>5, <2>7, <3>1
    <2>12. Push(ps, p.key, p.value) = Append(a, p) \o c
        BY <2>4, <2>8, <2>9
    <2> QED
        BY <2>7, <2>10, <2>11, <2>12 DEF Pushed
<1> QED
    BY <1>2, <1>3

\* push keeps pairs, wherever it puts the new one.
LEMMA PushIn == \A ps, p : ps \in Seq(Pair) /\ p \in Pair => Push(ps, p.key, p.value) \in Seq(Pair)
<1> SUFFICES ASSUME NEW ps, ps \in Seq(Pair), NEW p, p \in Pair, NEW q, Pushed(ps, p, q)
             PROVE  q \in Seq(Pair)
    BY PushPuts
<1>1. CASE q = Append(ps, p)
    BY <1>1, AppendProperties
<1>2. CASE \E a, c \in Seq(Pair) : q = Append(a, p) \o c
    <2>1. PICK a, c \in Seq(Pair) : q = Append(a, p) \o c
        BY <1>2
    <2>2. Append(a, p) \in Seq(Pair)
        BY AppendProperties
    <2> QED
        BY <2>1, <2>2, ConcatProperties
<1> QED
    BY <1>1, <1>2 DEF Pushed

\* Pairs pushed one after the other.
LEMMA PushAllLaws ==
    ASSUME NEW ps \in Seq(Pair)
    PROVE  /\ PushAll(ps, <<>>) = ps
           /\ \A b \in Seq(Pair) : PushAll(ps, b) \in Seq(Pair)
           /\ \A b \in Seq(Pair), x \in Pair : PushAll(ps, Append(b, x)) = Push(PushAll(ps, b), x.key, x.value)
<1>0. PICK X : X = Seq(Pair)
    OBVIOUS
<1>a. ps \in X /\ <<>> \in Seq(Pair)
    BY <1>0, EmptySeq
<1>1. PICK f : f = [z \in X \X Pair |-> Push(z[1], z[2].key, z[2].value)]
    OBVIOUS
<1>2. \A s \in X, x \in Pair : Push(s, x.key, x.value) \in X
    BY <1>0, PushIn
<1>3. f \in [X \X Pair -> X]
    BY <1>1, <1>2
<1>c. IsFold(X, Pair, f, ps)
    BY <1>a, <1>3 DEF IsFold
<1>b. \A s \in X, x \in Pair : f[<<s, x>>] = Push(s, x.key, x.value)
    BY <1>1
<1>4. ASSUME NEW b \in Seq(Pair) PROVE PushAll(ps, b) = Out(f, ps, b)
    <2>0. Len(b) \in Nat /\ \A n \in 1..Len(b) : b[n] \in Pair
        BY LenProperties
    <2>1. PICK d \in [0..Len(b) -> X] : IsRun(f, ps, b, d)
        BY <1>a, <1>3, RunExists
    <2>2. d = [n \in 0..Len(b) |-> IF n = 0 THEN ps ELSE Push(d[n - 1], b[n].key, b[n].value)]
        <3>1. d[0] = ps /\ \A n \in 1..Len(b) : d[n] = f[<<d[n - 1], b[n]>>]
            BY <2>1 DEF IsRun
        <3>2. ASSUME NEW n \in 0..Len(b), n # 0 PROVE d[n] = Push(d[n - 1], b[n].key, b[n].value)
            <4>1. n \in 1..Len(b) /\ n - 1 \in 0..Len(b)
                BY <2>0, <3>2
            <4>2. d[n] = f[<<d[n - 1], b[n]>>] /\ d[n - 1] \in X /\ b[n] \in Pair
                BY <2>0, <2>1, <3>1, <4>1
            <4> QED
                BY <1>b, <4>2
        <3> QED
            BY <2>1, <3>1, <3>2
    <2>3. PICK h : h = CHOOSE g : g = [n \in 0..Len(b) |->
                              IF n = 0 THEN ps ELSE Push(g[n - 1], b[n].key, b[n].value)]
        OBVIOUS
    <2>4. h = [n \in 0..Len(b) |-> IF n = 0 THEN ps ELSE Push(h[n - 1], b[n].key, b[n].value)]
        BY <2>2, <2>3
    <2>5. PushAll(ps, b) = h[Len(b)]
        BY <2>3 DEF PushAll
    <2>6. ASSUME NEW n \in 1..Len(b), h[n - 1] \in X PROVE h[n] = f[<<h[n - 1], b[n]>>]
        <3>a. n \in 0..Len(b) /\ n # 0 /\ b[n] \in Pair
            BY <2>0
        <3>1. h[n] = Push(h[n - 1], b[n].key, b[n].value) /\ b[n] \in Pair
            BY <2>4, <3>a
        <3> QED
            BY <1>b, <2>6, <3>1
    <2>7. h[0] = ps
        BY <2>0, <2>4
    <2>8. IsRec(X, f, ps, b, h)
        BY <2>6, <2>7 DEF IsRec
    <2> QED
        BY <1>c, <2>5, <2>8, OutOfRec
<1>5. ASSUME NEW b \in Seq(Pair) PROVE PushAll(ps, b) \in X
    BY <1>c, <1>4, OutIn
<1>6. ASSUME NEW b \in Seq(Pair), NEW x \in Pair
      PROVE  PushAll(ps, Append(b, x)) = Push(PushAll(ps, b), x.key, x.value)
    <2>1. PICK s : s = PushAll(ps, b)
        OBVIOUS
    <2>2. s \in X /\ s = Out(f, ps, b) /\ Append(b, x) \in Seq(Pair)
        BY <1>4, <1>5, <2>1, AppendProperties
    <2>3. Out(f, ps, Append(b, x)) = f[<<s, x>>]
        BY <1>c, <2>2, OutAppend
    <2> QED
        BY <1>4, <1>b, <2>1, <2>2, <2>3
<1>7. PushAll(ps, <<>>) = ps
    BY <1>4, <1>a, OutEmpty
<1> QED
    BY <1>0, <1>5, <1>6, <1>7

\* What a params object is made from, of any length.
Item == [key : Keys, values : Seq(Values)]

LEMMA FanOutIn == \A x : x \in Item => FanOut(x) \in Seq(Pair)
<1> SUFFICES ASSUME NEW x, x \in Item PROVE FanOut(x) \in Seq(Pair)
    OBVIOUS
<1>1. x.key \in Keys /\ x.values \in Seq(Values)
    BY DEF Item
<1>2. PICK n : n = Len(x.values)
    OBVIOUS
<1>3. n \in Nat /\ DOMAIN x.values = 1..n /\ \A i \in 1..n : x.values[i] \in Values
    BY <1>1, <1>2, LenProperties
<1>4. \A i \in 1..n : P(x.key, x.values[i]) \in Pair
    BY <1>1, <1>3 DEF P, Pair
<1>5. FanOut(x) = [i \in 1..n |-> P(x.key, x.values[i])]
    BY <1>3 DEF FanOut
<1> HIDE DEF P
<1> QED
    BY <1>3, <1>4, <1>5

LEMMA PushAllIn == \A ps, b : ps \in Seq(Pair) /\ b \in Seq(Pair) => PushAll(ps, b) \in Seq(Pair)
BY PushAllLaws

\* What an object is made from, one item after the other.
LEMMA ItemsLaws ==
    /\ FromItems(<<>>) = <<>>
    /\ \A b \in Seq(Item) : FromItems(b) \in Seq(Pair)
    /\ \A b \in Seq(Item), x \in Item : FromItems(Append(b, x)) = PushAll(FromItems(b), FanOut(x))
<1>0. PICK X : X = Seq(Pair)
    OBVIOUS
<1>a. <<>> \in X /\ <<>> \in Seq(Item)
    BY <1>0, EmptySeq
<1>1. PICK f : f = [z \in X \X Item |-> PushAll(z[1], FanOut(z[2]))]
    OBVIOUS
<1>2. \A s \in X, x \in Item : PushAll(s, FanOut(x)) \in X
    BY <1>0, PushAllIn, FanOutIn
<1>3. f \in [X \X Item -> X]
    BY <1>1, <1>2
<1>c. IsFold(X, Item, f, <<>>)
    BY <1>a, <1>3 DEF IsFold
<1>b. \A s \in X, x \in Item : f[<<s, x>>] = PushAll(s, FanOut(x))
    BY <1>1
<1>4. ASSUME NEW b \in Seq(Item) PROVE FromItems(b) = Out(f, <<>>, b)
    <2>0. Len(b) \in Nat /\ \A n \in 1..Len(b) : b[n] \in Item
        BY LenProperties
    <2>1. PICK d \in [0..Len(b) -> X] : IsRun(f, <<>>, b, d)
        BY <1>a, <1>3, RunExists
    <2>2. d = [n \in 0..Len(b) |-> IF n = 0 THEN <<>> ELSE PushAll(d[n - 1], FanOut(b[n]))]
        <3>1. d[0] = <<>> /\ \A n \in 1..Len(b) : d[n] = f[<<d[n - 1], b[n]>>]
            BY <2>1 DEF IsRun
        <3>2. ASSUME NEW n \in 0..Len(b), n # 0 PROVE d[n] = PushAll(d[n - 1], FanOut(b[n]))
            <4>1. n \in 1..Len(b) /\ n - 1 \in 0..Len(b)
                BY <2>0, <3>2
            <4>2. d[n] = f[<<d[n - 1], b[n]>>] /\ d[n - 1] \in X /\ b[n] \in Item
                BY <2>0, <2>1, <3>1, <4>1
            <4> QED
                BY <1>b, <4>2
        <3> QED
            BY <2>1, <3>1, <3>2
    <2>3. PICK h : h = CHOOSE g : g = [n \in 0..Len(b) |->
                              IF n = 0 THEN <<>> ELSE PushAll(g[n - 1], FanOut(b[n]))]
        OBVIOUS
    <2>4. h = [n \in 0..Len(b) |-> IF n = 0 THEN <<>> ELSE PushAll(h[n - 1], FanOut(b[n]))]
        BY <2>2, <2>3
    <2>5. FromItems(b) = h[Len(b)]
        BY <2>3 DEF FromItems
    <2>6. ASSUME NEW n \in 1..Len(b), h[n - 1] \in X PROVE h[n] = f[<<h[n - 1], b[n]>>]
        <3>a. n \in 0..Len(b) /\ n # 0 /\ b[n] \in Item
            BY <2>0
        <3>1. h[n] = PushAll(h[n - 1], FanOut(b[n])) /\ b[n] \in Item
            BY <2>4, <3>a
        <3> QED
            BY <1>b, <2>6, <3>1
    <2>7. h[0] = <<>>
        BY <2>0, <2>4
    <2>8. IsRec(X, f, <<>>, b, h)
        BY <2>6, <2>7 DEF IsRec
    <2> QED
        BY <1>c, <2>5, <2>8, OutOfRec
<1>5. ASSUME NEW b \in Seq(Item) PROVE FromItems(b) \in X
    BY <1>c, <1>4, OutIn
<1>6. ASSUME NEW b \in Seq(Item), NEW x \in Item
      PROVE  FromItems(Append(b, x)) = PushAll(FromItems(b), FanOut(x))
    <2>1. PICK s : s = FromItems(b)
        OBVIOUS
    <2>2. s \in X /\ s = Out(f, <<>>, b) /\ Append(b, x) \in Seq(Item)
        BY <1>4, <1>5, <2>1, AppendProperties
    <2>3. Out(f, <<>>, Append(b, x)) = f[<<s, x>>]
        BY <1>c, <2>2, OutAppend
    <2> QED
        BY <1>4, <1>b, <2>1, <2>2, <2>3
<1>7. FromItems(<<>>) = <<>>
    BY <1>4, <1>a, OutEmpty
<1> QED
    BY <1>0, <1>5, <1>6, <1>7

\* What set has written when it has seen b.
SetStep(s, x, k, v) == IF x.key = k THEN Replaced(s, k, v) ELSE Append(s, x)

SetOut(ps, k, v) ==
    LET out[n \in 0..Len(ps)] == IF n = 0 THEN <<>> ELSE SetStep(out[n - 1], ps[n], k, v)
    IN  out[Len(ps)]

LEMMA SetIs == \A ps, k, v : Set(ps, k, v) = Replaced(SetOut(ps, k, v), k, v)
BY DEF Set, SetOut, SetStep

LEMMA SetLaws ==
    ASSUME NEW k \in Keys, NEW v \in Values
    PROVE  /\ SetOut(<<>>, k, v) = <<>>
           /\ \A b \in Seq(Pair) : SetOut(b, k, v) \in Seq(Pair)
           /\ \A b \in Seq(Pair), x \in Pair : SetOut(Append(b, x), k, v) = SetStep(SetOut(b, k, v), x, k, v)
<1>0. PICK X : X = Seq(Pair)
    OBVIOUS
<1>a. <<>> \in X /\ <<>> \in Seq(Pair)
    BY <1>0, EmptySeq
<1>1. PICK f : f = [z \in X \X Pair |-> SetStep(z[1], z[2], k, v)]
    OBVIOUS
<1>2. \A s \in X, x \in Pair : SetStep(s, x, k, v) \in X
    BY <1>0, AppendProperties DEF SetStep, Replaced, P, Pair
<1>3. f \in [X \X Pair -> X]
    BY <1>1, <1>2
<1>c. IsFold(X, Pair, f, <<>>)
    BY <1>a, <1>3 DEF IsFold
<1>b. \A s \in X, x \in Pair : f[<<s, x>>] = SetStep(s, x, k, v)
    BY <1>1
<1>4. ASSUME NEW b \in Seq(Pair) PROVE SetOut(b, k, v) = Out(f, <<>>, b)
    <2>0. Len(b) \in Nat /\ \A n \in 1..Len(b) : b[n] \in Pair
        BY LenProperties
    <2>1. PICK d \in [0..Len(b) -> X] : IsRun(f, <<>>, b, d)
        BY <1>a, <1>3, RunExists
    <2>2. d = [n \in 0..Len(b) |-> IF n = 0 THEN <<>> ELSE SetStep(d[n - 1], b[n], k, v)]
        <3>1. d[0] = <<>> /\ \A n \in 1..Len(b) : d[n] = f[<<d[n - 1], b[n]>>]
            BY <2>1 DEF IsRun
        <3>2. ASSUME NEW n \in 0..Len(b), n # 0 PROVE d[n] = SetStep(d[n - 1], b[n], k, v)
            <4>1. n \in 1..Len(b) /\ n - 1 \in 0..Len(b)
                BY <2>0, <3>2
            <4>2. d[n] = f[<<d[n - 1], b[n]>>] /\ d[n - 1] \in X /\ b[n] \in Pair
                BY <2>0, <2>1, <3>1, <4>1
            <4> QED
                BY <1>b, <4>2
        <3> QED
            BY <2>1, <3>1, <3>2
    <2>3. PICK h : h = CHOOSE g : g = [n \in 0..Len(b) |->
                              IF n = 0 THEN <<>> ELSE SetStep(g[n - 1], b[n], k, v)]
        OBVIOUS
    <2>4. h = [n \in 0..Len(b) |-> IF n = 0 THEN <<>> ELSE SetStep(h[n - 1], b[n], k, v)]
        BY <2>2, <2>3
    <2>5. SetOut(b, k, v) = h[Len(b)]
        BY <2>3 DEF SetOut
    <2>6. ASSUME NEW n \in 1..Len(b), h[n - 1] \in X PROVE h[n] = f[<<h[n - 1], b[n]>>]
        <3>a. n \in 0..Len(b) /\ n # 0 /\ b[n] \in Pair
            BY <2>0
        <3>1. h[n] = SetStep(h[n - 1], b[n], k, v) /\ b[n] \in Pair
            BY <2>4, <3>a
        <3> QED
            BY <1>b, <2>6, <3>1
    <2>7. h[0] = <<>>
        BY <2>0, <2>4
    <2>8. IsRec(X, f, <<>>, b, h)
        BY <2>6, <2>7 DEF IsRec
    <2> QED
        BY <1>c, <2>5, <2>8, OutOfRec
<1>5. ASSUME NEW b \in Seq(Pair) PROVE SetOut(b, k, v) \in X
    BY <1>c, <1>4, OutIn
<1>6. ASSUME NEW b \in Seq(Pair), NEW x \in Pair
      PROVE  SetOut(Append(b, x), k, v) = SetStep(SetOut(b, k, v), x, k, v)
    <2>1. PICK s : s = SetOut(b, k, v)
        OBVIOUS
    <2>2. s \in X /\ s = Out(f, <<>>, b) /\ Append(b, x) \in Seq(Pair)
        BY <1>4, <1>5, <2>1, AppendProperties
    <2>3. Out(f, <<>>, Append(b, x)) = f[<<s, x>>]
        BY <1>c, <2>2, OutAppend
    <2> QED
        BY <1>4, <1>b, <2>1, <2>2, <2>3
<1>7. SetOut(<<>>, k, v) = <<>>
    BY <1>4, <1>a, OutEmpty
<1> QED
    BY <1>0, <1>5, <1>6, <1>7

LEMMA WithKeyIn == \A s, k : s \in Seq(Pair) => WithKey(s, k) \in Seq(Pair)
BY OnlyLaws DEF WithKey

\* What merge has written when it has seen b.
KeptStep(s, x, other) == IF HasKey(other, x.key) THEN Taken(s, x, other) ELSE Append(s, x)

LEMMA KeptLaws ==
    ASSUME NEW other \in Seq(Pair)
    PROVE  /\ Kept(<<>>, other) = <<>>
           /\ \A b \in Seq(Pair) : Kept(b, other) \in Seq(Pair)
           /\ \A b \in Seq(Pair), x \in Pair : Kept(Append(b, x), other) = KeptStep(Kept(b, other), x, other)
<1>0. PICK X : X = Seq(Pair)
    OBVIOUS
<1>a. <<>> \in X /\ <<>> \in Seq(Pair)
    BY <1>0, EmptySeq
<1>1. PICK f : f = [z \in X \X Pair |-> KeptStep(z[1], z[2], other)]
    OBVIOUS
<1>2. \A s \in X, x \in Pair : KeptStep(s, x, other) \in X
    BY <1>0, AppendProperties, ConcatProperties, WithKeyIn DEF KeptStep, Taken
<1>3. f \in [X \X Pair -> X]
    BY <1>1, <1>2
<1>c. IsFold(X, Pair, f, <<>>)
    BY <1>a, <1>3 DEF IsFold
<1>b. \A s \in X, x \in Pair : f[<<s, x>>] = KeptStep(s, x, other)
    BY <1>1
<1>4. ASSUME NEW b \in Seq(Pair) PROVE Kept(b, other) = Out(f, <<>>, b)
    <2>0. Len(b) \in Nat /\ \A n \in 1..Len(b) : b[n] \in Pair
        BY LenProperties
    <2>1. PICK d \in [0..Len(b) -> X] : IsRun(f, <<>>, b, d)
        BY <1>a, <1>3, RunExists
    <2>2. d = [n \in 0..Len(b) |-> IF n = 0 THEN <<>> ELSE KeptStep(d[n - 1], b[n], other)]
        <3>1. d[0] = <<>> /\ \A n \in 1..Len(b) : d[n] = f[<<d[n - 1], b[n]>>]
            BY <2>1 DEF IsRun
        <3>2. ASSUME NEW n \in 0..Len(b), n # 0 PROVE d[n] = KeptStep(d[n - 1], b[n], other)
            <4>1. n \in 1..Len(b) /\ n - 1 \in 0..Len(b)
                BY <2>0, <3>2
            <4>2. d[n] = f[<<d[n - 1], b[n]>>] /\ d[n - 1] \in X /\ b[n] \in Pair
                BY <2>0, <2>1, <3>1, <4>1
            <4> QED
                BY <1>b, <4>2
        <3> QED
            BY <2>1, <3>1, <3>2
    <2>3. PICK h : h = CHOOSE g : g = [n \in 0..Len(b) |->
                              IF n = 0 THEN <<>> ELSE KeptStep(g[n - 1], b[n], other)]
        OBVIOUS
    <2>4. h = [n \in 0..Len(b) |-> IF n = 0 THEN <<>> ELSE KeptStep(h[n - 1], b[n], other)]
        BY <2>2, <2>3
    <2>5. Kept(b, other) = h[Len(b)]
        BY <2>3 DEF Kept, KeptStep
    <2>6. ASSUME NEW n \in 1..Len(b), h[n - 1] \in X PROVE h[n] = f[<<h[n - 1], b[n]>>]
        <3>a. n \in 0..Len(b) /\ n # 0 /\ b[n] \in Pair
            BY <2>0
        <3>1. h[n] = KeptStep(h[n - 1], b[n], other) /\ b[n] \in Pair
            BY <2>4, <3>a
        <3> QED
            BY <1>b, <2>6, <3>1
    <2>7. h[0] = <<>>
        BY <2>0, <2>4
    <2>8. IsRec(X, f, <<>>, b, h)
        BY <2>6, <2>7 DEF IsRec
    <2> QED
        BY <1>c, <2>5, <2>8, OutOfRec
<1>5. ASSUME NEW b \in Seq(Pair) PROVE Kept(b, other) \in X
    BY <1>c, <1>4, OutIn
<1>6. ASSUME NEW b \in Seq(Pair), NEW x \in Pair
      PROVE  Kept(Append(b, x), other) = KeptStep(Kept(b, other), x, other)
    <2>1. PICK s : s = Kept(b, other)
        OBVIOUS
    <2>2. s \in X /\ s = Out(f, <<>>, b) /\ Append(b, x) \in Seq(Pair)
        BY <1>4, <1>5, <2>1, AppendProperties
    <2>3. Out(f, <<>>, Append(b, x)) = f[<<s, x>>]
        BY <1>c, <2>2, OutAppend
    <2> QED
        BY <1>4, <1>b, <2>1, <2>2, <2>3
<1>7. Kept(<<>>, other) = <<>>
    BY <1>4, <1>a, OutEmpty
<1> QED
    BY <1>0, <1>5, <1>6, <1>7

-----------------------------------------------------------------------------
(* Only: what it keeps                                                     *)

LEMMA ConcatApp ==
    \A Y, a, b, x : a \in Seq(Y) /\ b \in Seq(Y) /\ x \in Y =>
        /\ a \o b \in Seq(Y) /\ Append(b, x) \in Seq(Y) /\ a \o Append(b, x) = Append(a \o b, x)
        /\ Append(a, x) \o b = a \o (<<x>> \o b) /\ Append(a, x) = a \o <<x>>
<1> TAKE Y, a, b, x
<1> HAVE a \in Seq(Y) /\ b \in Seq(Y) /\ x \in Y
<1>1. a \o b \in Seq(Y) /\ Append(b, x) \in Seq(Y) /\ <<x>> \in Seq(Y)
    BY ConcatProperties, AppendProperties
<1>2. Append(b, x) = b \o <<x>> /\ Append(a \o b, x) = (a \o b) \o <<x>> /\ Append(a, x) = a \o <<x>>
    BY <1>1, AppendIsConcat
<1>3. (a \o b) \o <<x>> = a \o (b \o <<x>>) /\ (a \o <<x>>) \o b = a \o (<<x>> \o b)
    BY <1>1, ConcatAssociative
<1> QED
    BY <1>1, <1>2, <1>3

LEMMA OnlyEmpty == \A ks : Only(<<>>, ks) = <<>>
BY OnlyLaws

LEMMA OnlyIn == \A Y, b, ks : b \in Seq(Y) => Only(b, ks) \in Seq(Y)
BY OnlyLaws

LEMMA OnlyAppend ==
    \A Y, b, x, ks : b \in Seq(Y) /\ x \in Y =>
        Only(Append(b, x), ks) = OnlyStep(Only(b, ks), x, ks)
BY OnlyLaws

\* Only works on each part by itself ...
LEMMA OnlyConcat ==
    \A Y, a, b, ks : a \in Seq(Y) /\ b \in Seq(Y) => Only(a \o b, ks) = Only(a, ks) \o Only(b, ks)
<1> SUFFICES ASSUME NEW Y, NEW a, a \in Seq(Y), NEW ks
             PROVE  \A b \in Seq(Y) : Only(a \o b, ks) = Only(a, ks) \o Only(b, ks)
    OBVIOUS
<1> DEFINE T == {b \in Seq(Y) : Only(a \o b, ks) = Only(a, ks) \o Only(b, ks)}
<1>0. Only(a, ks) \in Seq(Y)
    BY OnlyIn
<1>1. <<>> \in T
    BY <1>0, OnlyEmpty, ConcatEmptySeq, EmptySeq
<1>2. ASSUME NEW b \in Seq(Y), NEW x \in Y, b \in T PROVE Append(b, x) \in T
    <2>1. PICK s, t, u : s = Only(a, ks) /\ t = Only(b, ks) /\ u = Only(a \o b, ks)
        OBVIOUS
    <2>2. s \in Seq(Y) /\ t \in Seq(Y) /\ u = s \o t /\ u \in Seq(Y)
        BY <1>2, <2>1, OnlyIn, ConcatApp
    <2>3. a \o Append(b, x) = Append(a \o b, x) /\ a \o b \in Seq(Y) /\ Append(b, x) \in Seq(Y)
        BY ConcatApp
    <2>4. /\ Only(Append(a \o b, x), ks) = IF x.key \in ks THEN Append(u, x) ELSE u
          /\ Only(Append(b, x), ks) = IF x.key \in ks THEN Append(t, x) ELSE t
        <3>1. Only(Append(a \o b, x), ks) = OnlyStep(u, x, ks)
            <4>1. PICK c : c = a \o b
                OBVIOUS
            <4>2. Only(Append(c, x), ks) = OnlyStep(Only(c, ks), x, ks)
                <5>1. c \in Seq(Y)
                    BY <2>3, <4>1
                <5> QED
                    BY <5>1, OnlyAppend
            <4> QED
                BY <2>1, <4>1, <4>2
        <3>2. Only(Append(b, x), ks) = OnlyStep(t, x, ks)
            BY <2>1, OnlyAppend
        <3> QED
            BY <3>1, <3>2 DEF OnlyStep
    <2>5. s \o Append(t, x) = Append(u, x)
        BY <2>2, ConcatApp
    <2> QED
        BY <2>1, <2>2, <2>3, <2>4, <2>5
<1> HIDE DEF T
<1>3. Seq(Y) \subseteq T
    BY <1>1, <1>2, SeqClimb
<1> QED
    BY <1>3 DEF T

LEMMA OnlyKeys ==
    \A Y, b, ks : b \in Seq(Y) => KeySet(Only(b, ks)) = KeySet(b) \cap ks
<1> SUFFICES ASSUME NEW Y, NEW ks PROVE \A b \in Seq(Y) : KeySet(Only(b, ks)) = KeySet(b) \cap ks
    OBVIOUS
<1> DEFINE T == {b \in Seq(Y) : KeySet(Only(b, ks)) = KeySet(b) \cap ks}
<1>1. <<>> \in T
    BY OnlyEmpty, KeySetIs, EmptySeq
<1>2. ASSUME NEW b \in Seq(Y), NEW x \in Y, b \in T PROVE Append(b, x) \in T
    <2>1. PICK t : t = Only(b, ks)
        OBVIOUS
    <2>2. t \in Seq(Y) /\ KeySet(t) = KeySet(b) \cap ks /\ Append(b, x) \in Seq(Y)
        BY <1>2, <2>1, OnlyIn, AppendProperties
    <2>3. Only(Append(b, x), ks) = IF x.key \in ks THEN Append(t, x) ELSE t
        BY <2>1, OnlyAppend DEF OnlyStep
    <2>4. KeySet(Append(b, x)) = KeySet(b) \cup {x.key} /\ KeySet(Append(t, x)) = KeySet(t) \cup {x.key}
        BY <2>2, KeySetIs
    <2> QED
        BY <2>2, <2>3, <2>4
<1> HIDE DEF T
<1>3. Seq(Y) \subseteq T
    BY <1>1, <1>2, SeqClimb
<1> QED
    BY <1>3 DEF T

\* ... and twice as once with the keys of both.
LEMMA OnlyOnly ==
    \A Y, ks, js : \A b \in Seq(Y) : Only(Only(b, ks), js) = Only(b, ks \cap js)
<1> TAKE Y, ks, js
<1> DEFINE T == {b \in Seq(Y) : Only(Only(b, ks), js) = Only(b, ks \cap js)}
<1>1. <<>> \in T
    BY OnlyEmpty, EmptySeq
<1>2. ASSUME NEW b \in Seq(Y), NEW x \in Y, b \in T PROVE Append(b, x) \in T
    <2>1. PICK t : t = Only(b, ks)
        OBVIOUS
    <2>2. t \in Seq(Y) /\ Only(t, js) = Only(b, ks \cap js) /\ Append(b, x) \in Seq(Y)
        BY <1>2, <2>1, OnlyIn, AppendProperties
    <2>3. Only(Append(b, x), ks) = IF x.key \in ks THEN Append(t, x) ELSE t
        BY <2>1, OnlyAppend DEF OnlyStep
    <2>4. Only(Append(t, x), js) = OnlyStep(Only(t, js), x, js)
        BY <2>2, OnlyAppend
    <2>5. PICK ms : ms = ks \cap js
        OBVIOUS
    <2>6. Only(Append(b, x), ms) = OnlyStep(Only(b, ms), x, ms)
        BY OnlyAppend
    <2>7. Only(Only(Append(b, x), ks), js) = Only(Append(b, x), ms)
        <3>1. CASE x.key \in ks
            BY <2>2, <2>3, <2>4, <2>5, <2>6, <3>1 DEF OnlyStep
        <3>2. CASE x.key \notin ks
            BY <2>2, <2>3, <2>5, <2>6, <3>2 DEF OnlyStep
        <3> QED
            BY <3>1, <3>2
    <2> QED
        BY <2>2, <2>5, <2>7
<1> HIDE DEF T
<1>3. Seq(Y) \subseteq T
    BY <1>1, <1>2, SeqClimb
<1> QED
    BY <1>3 DEF T

LEMMA OnlyNone ==
    \A Y, b, ks : b \in Seq(Y) /\ KeySet(b) \cap ks = {} => Only(b, ks) = <<>>
<1> SUFFICES ASSUME NEW Y, NEW ks PROVE \A b \in Seq(Y) : KeySet(b) \cap ks = {} => Only(b, ks) = <<>>
    OBVIOUS
<1> DEFINE T == {b \in Seq(Y) : KeySet(b) \cap ks = {} => Only(b, ks) = <<>>}
<1>1. <<>> \in T
    BY OnlyEmpty, EmptySeq
<1>2. ASSUME NEW b \in Seq(Y), NEW x \in Y, b \in T PROVE Append(b, x) \in T
    <2>1. KeySet(Append(b, x)) = KeySet(b) \cup {x.key} /\ Append(b, x) \in Seq(Y)
        BY KeySetIs, AppendProperties
    <2>2. Only(Append(b, x), ks) = IF x.key \in ks THEN Append(Only(b, ks), x) ELSE Only(b, ks)
        BY OnlyAppend DEF OnlyStep
    <2> QED
        BY <1>2, <2>1, <2>2
<1> HIDE DEF T
<1>3. Seq(Y) \subseteq T
    BY <1>1, <1>2, SeqClimb
<1> QED
    BY <1>3 DEF T

LEMMA OnlyAll ==
    \A Y, b, ks : b \in Seq(Y) /\ KeySet(b) \subseteq ks => Only(b, ks) = b
<1> SUFFICES ASSUME NEW Y, NEW ks PROVE \A b \in Seq(Y) : KeySet(b) \subseteq ks => Only(b, ks) = b
    OBVIOUS
<1> DEFINE T == {b \in Seq(Y) : KeySet(b) \subseteq ks => Only(b, ks) = b}
<1>1. <<>> \in T
    BY OnlyEmpty, EmptySeq
<1>2. ASSUME NEW b \in Seq(Y), NEW x \in Y, b \in T PROVE Append(b, x) \in T
    <2>1. KeySet(Append(b, x)) = KeySet(b) \cup {x.key} /\ Append(b, x) \in Seq(Y)
        BY KeySetIs, AppendProperties
    <2>2. Only(Append(b, x), ks) = IF x.key \in ks THEN Append(Only(b, ks), x) ELSE Only(b, ks)
        BY OnlyAppend DEF OnlyStep
    <2> QED
        BY <1>2, <2>1, <2>2
<1> HIDE DEF T
<1>3. Seq(Y) \subseteq T
    BY <1>1, <1>2, SeqClimb
<1> QED
    BY <1>3 DEF T

-----------------------------------------------------------------------------
(* The pairs of a key are neighbours                                       *)

\* Grouped, of any sequence of records with a key.
IsGrouped(s) == \A i, j \in DOMAIN s : s[i].key = s[j].key => \A m \in i..j : s[m].key = s[i].key

\* The key of the last pair is k.
Ends(s, k) == Len(s) > 0 /\ s[Len(s)].key = k

LEMMA EndsIs ==
    /\ \A k : ~Ends(<<>>, k)
    /\ \A Y, s, x, k : s \in Seq(Y) /\ x \in Y => (Ends(Append(s, x), k) <=> x.key = k)
    /\ \A Y, s, k : s \in Seq(Y) /\ Ends(s, k) => k \in KeySet(s)
<1>1. \A k : ~Ends(<<>>, k)
    BY EmptySeq DEF Ends
<1>2. ASSUME NEW Y, NEW s, NEW x, NEW k, s \in Seq(Y), x \in Y
      PROVE  Ends(Append(s, x), k) <=> x.key = k
    <2>1. PICK t, n : t = Append(s, x) /\ n = Len(s)
        OBVIOUS
    <2>2. n \in Nat /\ Len(t) = n + 1 /\ t[n + 1] = x
        BY <1>2, <2>1, AppendProperties, LenProperties
    <2>3. n + 1 > 0
        BY <2>2
    <2>4. Ends(t, k) <=> x.key = k
        BY <2>2, <2>3 DEF Ends
    <2> QED
        BY <2>1, <2>4
<1>3. ASSUME NEW Y, NEW s, NEW k, s \in Seq(Y), Ends(s, k) PROVE k \in KeySet(s)
    <2>1. Len(s) \in Nat /\ DOMAIN s = 1..Len(s) /\ Len(s) > 0 /\ s[Len(s)].key = k
        BY <1>3, LenProperties DEF Ends
    <2>2. Len(s) \in DOMAIN s
        BY <2>1
    <2> QED
        BY <2>1, <2>2 DEF KeySet
<1> QED
    BY <1>1, <1>2, <1>3

LEMMA GroupedEmpty == IsGrouped(<<>>)
BY DEF IsGrouped

\* The prefix of a grouped sequence, and what may follow it.
LEMMA GroupedAppend ==
    \A Y, s, x : s \in Seq(Y) /\ x \in Y =>
        (IsGrouped(Append(s, x)) <=> IsGrouped(s) /\ (x.key \in KeySet(s) => Ends(s, x.key)))
<1> TAKE Y, s, x
<1> HAVE s \in Seq(Y) /\ x \in Y
<1>1. PICK t, n : t = Append(s, x) /\ n = Len(s)
    OBVIOUS
<1>2. n \in Nat /\ DOMAIN s = 1..n /\ t \in Seq(Y) /\ Len(t) = n + 1 /\ t[n + 1] = x
      /\ \A i \in 1..n : t[i] = s[i]
    BY <1>1, AppendProperties, LenProperties
<1>3. DOMAIN t = 1..(n + 1) /\ n + 1 \in 1..(n + 1) /\ \A i \in 1..n : i \in 1..(n + 1)
    BY <1>2, LenProperties
<1>4. ASSUME IsGrouped(t) PROVE IsGrouped(s)
    <2>1. ASSUME NEW i \in 1..n, NEW j \in 1..n, s[i].key = s[j].key, NEW m \in i..j
          PROVE  s[m].key = s[i].key
        <3>1. m \in 1..n
            BY <1>2
        <3>2. t[i] = s[i] /\ t[j] = s[j] /\ t[m] = s[m]
            BY <1>2, <3>1
        <3> QED
            BY <1>3, <1>4, <2>1, <3>2 DEF IsGrouped
    <2> QED
        BY <1>2, <2>1 DEF IsGrouped
<1>5. ASSUME IsGrouped(t), x.key \in KeySet(s) PROVE Ends(s, x.key)
    <2>1. PICK i \in 1..n : s[i].key = x.key
        BY <1>2, <1>5 DEF KeySet
    <2>2. n \in 1..n /\ n > 0 /\ n \in i..(n + 1)
        BY <1>2
    <2>3. t[i] = s[i] /\ t[n] = s[n] /\ t[i].key = t[n + 1].key
        BY <1>2, <2>1, <2>2
    <2>4. t[n].key = t[i].key
        BY <1>3, <1>5, <2>2, <2>3 DEF IsGrouped
    <2> QED
        BY <1>1, <2>1, <2>2, <2>3, <2>4 DEF Ends
<1>6. ASSUME IsGrouped(s), x.key \in KeySet(s) => Ends(s, x.key) PROVE IsGrouped(t)
    <2>1. ASSUME NEW i \in 1..(n + 1), NEW j \in 1..(n + 1), t[i].key = t[j].key, NEW m \in i..j
          PROVE  t[m].key = t[i].key
        <3>1. CASE j \in 1..n
            <4>1. i \in 1..n \/ i = n + 1
                BY <1>2
            <4>2. CASE i \in 1..n
                <5>1. m \in 1..n
                    BY <1>2, <3>1, <4>2
                <5>2. t[i] = s[i] /\ t[j] = s[j] /\ t[m] = s[m]
                    BY <1>2, <3>1, <4>2, <5>1
                <5> QED
                    BY <1>2, <1>6, <2>1, <3>1, <4>2, <5>2 DEF IsGrouped
            <4>3. CASE i = n + 1
                BY <1>2, <3>1, <4>3
            <4> QED
                BY <4>1, <4>2, <4>3
        <3>2. CASE j = n + 1 /\ i \in 1..n
            <4>1. s[i].key = x.key /\ t[i] = s[i]
                BY <1>2, <2>1, <3>2
            <4>2. x.key \in KeySet(s)
                BY <1>2, <3>2, <4>1 DEF KeySet
            <4>3. n > 0 /\ s[n].key = x.key
                BY <1>1, <1>6, <4>2 DEF Ends
            <4>4. CASE m = n + 1
                BY <1>2, <4>1, <4>4
            <4>5. CASE m # n + 1
                <5>1. m \in 1..n /\ n \in 1..n /\ m \in i..n
                    BY <1>2, <3>2, <4>5
                <5>2. s[m].key = s[i].key
                    BY <1>2, <1>6, <3>2, <4>1, <4>3, <5>1 DEF IsGrouped
                <5> QED
                    BY <1>2, <4>1, <5>1, <5>2
            <4> QED
                BY <4>4, <4>5
        <3>3. CASE j = n + 1 /\ i = n + 1
            <4>1. m = n + 1
                BY <1>2, <3>3
            <4> QED
                BY <3>3, <4>1
        <3> QED
            BY <1>2, <3>1, <3>2, <3>3
    <2> QED
        BY <1>3, <2>1 DEF IsGrouped
<1> QED
    BY <1>1, <1>4, <1>5, <1>6

\* Two grouped sequences with no key in common.
LEMMA GroupedConcat ==
    \A Y, a, b : a \in Seq(Y) /\ b \in Seq(Y) /\ IsGrouped(a) /\ IsGrouped(b) /\ KeySet(a) \cap KeySet(b) = {}
        => IsGrouped(a \o b)
<1> SUFFICES ASSUME NEW Y, NEW a, a \in Seq(Y), IsGrouped(a)
             PROVE  \A b \in Seq(Y) : IsGrouped(b) /\ KeySet(a) \cap KeySet(b) = {} => IsGrouped(a \o b)
    OBVIOUS
<1> DEFINE T == {b \in Seq(Y) : IsGrouped(b) /\ KeySet(a) \cap KeySet(b) = {}
                                => IsGrouped(a \o b) /\ (Len(b) > 0 => \A k : Ends(a \o b, k) <=> Ends(b, k))}
<1>1. <<>> \in T
    BY ConcatEmptySeq, EmptySeq
<1>2. ASSUME NEW b \in Seq(Y), NEW x \in Y, b \in T PROVE Append(b, x) \in T
    <2>1. PICK c, d : c = a \o b /\ d = Append(b, x)
        OBVIOUS
    <2>2. c \in Seq(Y) /\ d \in Seq(Y) /\ a \o d = Append(c, x)
        BY <2>1, ConcatApp
    <2>3. KeySet(d) = KeySet(b) \cup {x.key} /\ KeySet(c) = KeySet(a) \cup KeySet(b)
        BY <2>1, KeySetIs
    <2>4. ASSUME IsGrouped(d), KeySet(a) \cap KeySet(d) = {}
          PROVE  IsGrouped(a \o d) /\ \A k : Ends(a \o d, k) <=> Ends(d, k)
        <3>1. IsGrouped(b) /\ (x.key \in KeySet(b) => Ends(b, x.key))
            BY <2>1, <2>4, GroupedAppend
        <3>2. IsGrouped(c) /\ (Len(b) > 0 => \A k : Ends(c, k) <=> Ends(b, k))
            BY <1>2, <2>1, <2>3, <2>4, <3>1
        <3>3. x.key \in KeySet(c) => Ends(c, x.key)
            <4>1. ASSUME x.key \in KeySet(c) PROVE Ends(c, x.key)
                <5>1. x.key \in KeySet(b)
                    BY <2>3, <2>4, <4>1
                <5>2. Ends(b, x.key) /\ Len(b) > 0
                    BY <3>1, <5>1 DEF Ends
                <5> QED
                    BY <3>2, <5>2
            <4> QED
                BY <4>1
        <3>4. IsGrouped(Append(c, x))
            BY <2>2, <3>2, <3>3, GroupedAppend
        <3>5. \A k : Ends(Append(c, x), k) <=> x.key = k
            BY <2>2, EndsIs
        <3>6. \A k : Ends(d, k) <=> x.key = k
            BY <2>1, EndsIs
        <3> QED
            BY <2>2, <3>4, <3>5, <3>6
    <2> QED
        BY <2>1, <2>2, <2>4
<1> HIDE DEF T
<1>3. Seq(Y) \subseteq T
    BY <1>1, <1>2, SeqClimb
<1> QED
    BY <1>3 DEF T

\* Taking keys away, as remove does, brings no key between two others.
LEMMA GroupedOnly ==
    \A Y, b, ks : b \in Seq(Y) /\ IsGrouped(b) => IsGrouped(Only(b, ks))
<1> SUFFICES ASSUME NEW Y, NEW ks PROVE \A b \in Seq(Y) : IsGrouped(b) => IsGrouped(Only(b, ks))
    OBVIOUS
<1> DEFINE T == {b \in Seq(Y) : IsGrouped(b) => /\ IsGrouped(Only(b, ks))
                                               /\ \A k \in ks : Ends(b, k) => Ends(Only(b, ks), k)}
<1>1. <<>> \in T
    BY OnlyEmpty, EmptySeq, GroupedEmpty, EndsIs
<1>2. ASSUME NEW b \in Seq(Y), NEW x \in Y, b \in T PROVE Append(b, x) \in T
    <2>1. PICK d, t : d = Append(b, x) /\ t = Only(b, ks)
        OBVIOUS
    <2>2. d \in Seq(Y) /\ t \in Seq(Y) /\ KeySet(t) = KeySet(b) \cap ks
        BY <2>1, AppendProperties, OnlyIn, OnlyKeys
    <2>3. Only(d, ks) = OnlyStep(t, x, ks)
        BY <2>1, OnlyAppend
    <2>4. ASSUME IsGrouped(d)
          PROVE  IsGrouped(Only(d, ks)) /\ \A k \in ks : Ends(d, k) => Ends(Only(d, ks), k)
        <3>1. IsGrouped(b) /\ (x.key \in KeySet(b) => Ends(b, x.key))
            BY <2>1, <2>4, GroupedAppend
        <3>2. IsGrouped(t) /\ \A k \in ks : Ends(b, k) => Ends(t, k)
            BY <1>2, <2>1, <3>1
        <3>3. \A k : (Ends(d, k) <=> x.key = k) /\ (Ends(Append(t, x), k) <=> x.key = k)
            BY <2>1, <2>2, EndsIs
        <3>4. CASE x.key \in ks
            <4>1. Only(d, ks) = Append(t, x)
                BY <2>3, <3>4 DEF OnlyStep
            <4>2. x.key \in KeySet(t) => Ends(t, x.key)
                BY <2>2, <3>1, <3>2, <3>4
            <4>3. IsGrouped(Append(t, x))
                BY <2>2, <3>2, <4>2, GroupedAppend
            <4> QED
                BY <3>3, <4>1, <4>3
        <3>5. CASE x.key \notin ks
            <4>1. Only(d, ks) = t
                BY <2>3, <3>5 DEF OnlyStep
            <4> QED
                BY <3>2, <3>3, <3>5, <4>1
        <3> QED
            BY <3>4, <3>5
    <2> QED
        BY <2>1, <2>2, <2>4
<1> HIDE DEF T
<1>3. Seq(Y) \subseteq T
    BY <1>1, <1>2, SeqClimb
<1> QED
    BY <1>3 DEF T

LEMMA WithKeyKeys ==
    \A s, k : s \in Seq(Pair) =>
        /\ WithKey(s, k) \in Seq(Pair) /\ KeySet(WithKey(s, k)) = KeySet(s) \cap {k}
        /\ IsGrouped(WithKey(s, k))
<1> TAKE s, k
<1> HAVE s \in Seq(Pair)
<1>1. PICK w : w = WithKey(s, k)
    OBVIOUS
<1>2. w \in Seq(Pair) /\ KeySet(w) = KeySet(s) \cap {k}
    BY <1>1, OnlyIn, OnlyKeys DEF WithKey
<1>3. \A i \in DOMAIN w : w[i].key = k
    BY <1>2 DEF KeySet
<1>4. ASSUME NEW i \in DOMAIN w, NEW j \in DOMAIN w, NEW m \in i..j PROVE w[m].key = w[i].key
    <2>1. DOMAIN w = 1..Len(w) /\ Len(w) \in Nat
        BY <1>2, LenProperties
    <2>2. m \in DOMAIN w
        BY <2>1
    <2> QED
        BY <1>3, <2>2
<1>5. IsGrouped(w)
    BY <1>4 DEF IsGrouped
<1> QED
    BY <1>1, <1>2, <1>5

LEMMA KeptEmpty == \A other : other \in Seq(Pair) => Kept(<<>>, other) = <<>>
BY KeptLaws

LEMMA KeptIn == \A b, other : b \in Seq(Pair) /\ other \in Seq(Pair) => Kept(b, other) \in Seq(Pair)
BY KeptLaws

LEMMA KeptAppend ==
    \A b, x, other : b \in Seq(Pair) /\ x \in Pair /\ other \in Seq(Pair)
        => Kept(Append(b, x), other) = KeptStep(Kept(b, other), x, other)
BY KeptLaws

\* What merge keeps has the keys it had, with the other's pairs for some.
LEMMA KeptKeys ==
    \A other \in Seq(Pair) : \A b \in Seq(Pair) : KeySet(Kept(b, other)) = KeySet(b)
<1> TAKE other \in Seq(Pair)
<1> DEFINE T == {b \in Seq(Pair) : KeySet(Kept(b, other)) = KeySet(b)}
<1>1. <<>> \in T
    BY KeptEmpty, EmptySeq
<1>2. ASSUME NEW b \in Seq(Pair), NEW x \in Pair, b \in T PROVE Append(b, x) \in T
    <2>1. PICK d, t, w : d = Append(b, x) /\ t = Kept(b, other) /\ w = WithKey(other, x.key)
        OBVIOUS
    <2>2. d \in Seq(Pair) /\ t \in Seq(Pair) /\ KeySet(t) = KeySet(b) /\ KeySet(d) = KeySet(b) \cup {x.key}
        BY <1>2, <2>1, AppendProperties, KeptIn, KeySetIs
    <2>3. w \in Seq(Pair) /\ KeySet(w) = KeySet(other) \cap {x.key}
        BY <2>1, WithKeyKeys
    <2>4. Kept(d, other) = KeptStep(t, x, other)
        BY <2>1, KeptAppend
    <2>5. KeySet(Append(t, x)) = KeySet(t) \cup {x.key} /\ KeySet(t \o w) = KeySet(t) \cup KeySet(w)
        BY <2>2, <2>3, KeySetIs
    <2>6. KeySet(Kept(d, other)) = KeySet(d)
        BY <2>1, <2>2, <2>3, <2>4, <2>5 DEF KeptStep, Taken, HasKey
    <2> QED
        BY <2>1, <2>2, <2>6
<1> HIDE DEF T
<1>3. Seq(Pair) \subseteq T
    BY <1>1, <1>2, SeqClimb
<1> QED
    BY <1>3 DEF T

\* The pairs of the other come as one block, where the key was first met.
LEMMA GroupedKept ==
    \A other \in Seq(Pair) : \A b \in Seq(Pair) : IsGrouped(b) => IsGrouped(Kept(b, other))
<1> TAKE other \in Seq(Pair)
<1> DEFINE T == {b \in Seq(Pair) : IsGrouped(b) => /\ IsGrouped(Kept(b, other))
                                            /\ \A k : k \notin KeySet(other) /\ Ends(b, k) => Ends(Kept(b, other), k)}
<1>1. <<>> \in T
    BY KeptEmpty, EmptySeq, GroupedEmpty, EndsIs
<1>2. ASSUME NEW b \in Seq(Pair), NEW x \in Pair, b \in T PROVE Append(b, x) \in T
    <2>1. PICK d, t, w : d = Append(b, x) /\ t = Kept(b, other) /\ w = WithKey(other, x.key)
        OBVIOUS
    <2>2. d \in Seq(Pair) /\ t \in Seq(Pair) /\ KeySet(t) = KeySet(b)
        BY <2>1, AppendProperties, KeptIn, KeptKeys
    <2>3. w \in Seq(Pair) /\ KeySet(w) = KeySet(other) \cap {x.key} /\ IsGrouped(w)
        BY <2>1, WithKeyKeys
    <2>4. Kept(d, other) = KeptStep(t, x, other)
        BY <2>1, KeptAppend
    <2>5. ASSUME IsGrouped(d)
          PROVE  /\ IsGrouped(Kept(d, other))
                 /\ \A k : k \notin KeySet(other) /\ Ends(d, k) => Ends(Kept(d, other), k)
        <3>1. IsGrouped(b) /\ (x.key \in KeySet(b) => Ends(b, x.key))
            BY <2>1, <2>5, GroupedAppend
        <3>2. IsGrouped(t) /\ \A k : k \notin KeySet(other) /\ Ends(b, k) => Ends(t, k)
            BY <1>2, <2>1, <3>1
        <3>3. \A k : (Ends(d, k) <=> x.key = k) /\ (Ends(Append(t, x), k) <=> x.key = k)
            BY <2>1, <2>2, EndsIs
        <3>4. CASE x.key \notin KeySet(other)
            <4>1. Kept(d, other) = Append(t, x)
                BY <2>4, <3>4 DEF KeptStep, HasKey
            <4>2. x.key \in KeySet(t) => Ends(t, x.key)
                BY <2>2, <3>1, <3>2, <3>4
            <4>3. IsGrouped(Append(t, x))
                BY <2>2, <3>2, <4>2, GroupedAppend
            <4> QED
                BY <3>3, <4>1, <4>3
        <3>5. CASE x.key \in KeySet(other)
            <4>1. Kept(d, other) = IF x.key \in KeySet(t) THEN t ELSE t \o w
                BY <2>1, <2>4, <3>5 DEF KeptStep, Taken, HasKey
            <4>2. x.key \notin KeySet(t) => IsGrouped(t \o w)
                BY <2>2, <2>3, <3>2, GroupedConcat
            <4> QED
                BY <3>2, <3>3, <3>5, <4>1, <4>2
        <3> QED
            BY <3>4, <3>5
    <2> QED
        BY <2>1, <2>2, <2>5
<1> HIDE DEF T
<1>3. Seq(Pair) \subseteq T
    BY <1>1, <1>2, SeqClimb
<1> QED
    BY <1>3 DEF T

LEMMA GroupedMerge ==
    \A a, b : a \in Seq(Pair) /\ b \in Seq(Pair) =>
        /\ Merge(a, b) \in Seq(Pair)
        /\ IsGrouped(a) /\ IsGrouped(b) => IsGrouped(Merge(a, b))
<1> TAKE a, b
<1> HAVE a \in Seq(Pair) /\ b \in Seq(Pair)
<1>1. PICK t, c : t = Kept(a, b) /\ c = Only(b, KeySet(b) \ KeySet(t))
    OBVIOUS
<1>2. t \in Seq(Pair) /\ c \in Seq(Pair) /\ Merge(a, b) = t \o c
    BY <1>1, KeptIn, OnlyIn DEF Merge
<1>3. KeySet(t) \cap KeySet(c) = {}
    BY <1>1, OnlyKeys
<1>4. IsGrouped(a) /\ IsGrouped(b) => IsGrouped(t) /\ IsGrouped(c)
    BY <1>1, GroupedKept, GroupedOnly
<1> QED
    BY <1>2, <1>3, <1>4, GroupedConcat, ConcatProperties

\* push puts a pair behind the last one with its key, or in a block of its own.
LEMMA GroupedPush ==
    \A ps, p : ps \in Seq(Pair) /\ p \in Pair /\ IsGrouped(ps) => IsGrouped(Push(ps, p.key, p.value))
<1> SUFFICES ASSUME NEW ps, ps \in Seq(Pair), NEW p, p \in Pair, IsGrouped(ps), NEW q, Pushed(ps, p, q)
             PROVE  IsGrouped(q)
    BY PushPuts
<1>1. CASE p.key \notin KeySet(ps) /\ q = Append(ps, p)
    BY <1>1, GroupedAppend
<1>2. CASE \E a, c \in Seq(Pair) :
              /\ ps = a \o c /\ q = Append(a, p) \o c
              /\ Len(a) > 0 /\ a[Len(a)].key = p.key /\ p.key \notin KeySet(c)
    <2>1. PICK a, c \in Seq(Pair) :
              /\ ps = a \o c /\ q = Append(a, p) \o c
              /\ Len(a) > 0 /\ a[Len(a)].key = p.key /\ p.key \notin KeySet(c)
        BY <1>2
    <2>2. PICK m, n : m = Len(a) /\ n = Len(c)
        OBVIOUS
    <2>3. m \in Nat /\ n \in Nat /\ m > 0 /\ DOMAIN a = 1..m /\ DOMAIN c = 1..n /\ a[m].key = p.key
        BY <2>1, <2>2, LenProperties
    <2>4. DOMAIN ps = 1..(m + n) /\ \A i \in 1..(m + n) : ps[i] = IF i <= m THEN a[i] ELSE c[i - m]
        BY <2>1, <2>2, ConcatProperties, LenProperties
    <2>5. /\ \A i \in 1..m : i \in 1..(m + n) /\ ps[i] = a[i]
          /\ \A i \in 1..n : m + i \in 1..(m + n) /\ ps[m + i] = c[i]
        <3>1. ASSUME NEW i \in 1..m PROVE i \in 1..(m + n) /\ ps[i] = a[i]
            BY <2>3, <2>4
        <3>2. ASSUME NEW i \in 1..n PROVE m + i \in 1..(m + n) /\ ps[m + i] = c[i]
            <4>1. m + i \in 1..(m + n) /\ ~(m + i <= m) /\ (m + i) - m = i
                BY <2>3
            <4> QED
                BY <2>4, <4>1
        <3> QED
            BY <3>1, <3>2
    <2>g. \A i, j \in 1..(m + n) : ps[i].key = ps[j].key => \A l \in i..j : ps[l].key = ps[i].key
        BY <2>4, Zenon DEF IsGrouped
    <2>6. IsGrouped(a)
        <3>1. ASSUME NEW i \in 1..m, NEW j \in 1..m, a[i].key = a[j].key, NEW l \in i..j
              PROVE  a[l].key = a[i].key
            <4>1. l \in 1..m
                BY <2>3
            <4> QED
                BY <2>5, <2>g, <3>1, <4>1
        <3> QED
            BY <2>3, <3>1 DEF IsGrouped
    <2>7. IsGrouped(c)
        <3>1. ASSUME NEW i \in 1..n, NEW j \in 1..n, c[i].key = c[j].key, NEW l \in i..j
              PROVE  c[l].key = c[i].key
            <4>1. l \in 1..n /\ m + l \in (m + i)..(m + j)
                BY <2>3
            <4>2. PICK u, v, w : u = m + i /\ v = m + j /\ w = m + l
                OBVIOUS
            <4>3. /\ u \in 1..(m + n) /\ v \in 1..(m + n) /\ w \in u..v
                  /\ ps[u] = c[i] /\ ps[v] = c[j] /\ ps[w] = c[l]
                BY <2>5, <4>1, <4>2
            <4> QED
                BY <2>g, <3>1, <4>3
        <3> QED
            BY <2>3, <3>1 DEF IsGrouped
    <2>8. KeySet(a) \cap KeySet(c) = {}
        <3>1. ASSUME NEW i \in 1..m, NEW j \in 1..n, a[i].key = c[j].key PROVE FALSE
            <4>1. m \in i..(m + j) /\ m \in 1..m
                BY <2>3
            <4>2. ps[i].key = ps[m + j].key /\ ps[m].key = p.key
                BY <2>3, <2>5, <3>1, <4>1
            <4>3. ps[m].key = ps[i].key
                BY <2>4, <2>5, <4>1, <4>2 DEF IsGrouped
            <4>4. c[j].key = p.key
                BY <2>5, <3>1, <4>2, <4>3
            <4> QED
                BY <2>1, <2>3, <4>4 DEF KeySet
        <3> QED
            BY <2>3, <3>1 DEF KeySet
    <2>9. Append(a, p) \in Seq(Pair) /\ IsGrouped(Append(a, p)) /\ KeySet(Append(a, p)) = KeySet(a) \cup {p.key}
        <3>1. Ends(a, p.key)
            BY <2>1 DEF Ends
        <3> QED
            BY <2>6, <3>1, GroupedAppend, AppendProperties, KeySetIs
    <2>10. PICK e : e = Append(a, p)
        OBVIOUS
    <2>11. IsGrouped(e \o c)
        BY <2>1, <2>7, <2>8, <2>9, <2>10, GroupedConcat
    <2> QED
        BY <2>1, <2>10, <2>11
<1> QED
    BY <1>1, <1>2 DEF Pushed

LEMMA PushAllEmpty == \A ps : ps \in Seq(Pair) => PushAll(ps, <<>>) = ps
BY PushAllLaws

LEMMA PushAllAppend ==
    \A ps, b, x : ps \in Seq(Pair) /\ b \in Seq(Pair) /\ x \in Pair
        => PushAll(ps, Append(b, x)) = Push(PushAll(ps, b), x.key, x.value)
BY PushAllLaws

LEMMA GroupedPushAll ==
    \A ps \in Seq(Pair) : IsGrouped(ps) => \A b \in Seq(Pair) : IsGrouped(PushAll(ps, b))
<1> TAKE ps \in Seq(Pair)
<1> HAVE IsGrouped(ps)
<1> DEFINE T == {b \in Seq(Pair) : IsGrouped(PushAll(ps, b))}
<1>1. <<>> \in T
    BY PushAllEmpty, EmptySeq
<1>2. ASSUME NEW b \in Seq(Pair), NEW x \in Pair, b \in T PROVE Append(b, x) \in T
    <2>1. PICK t : t = PushAll(ps, b)
        OBVIOUS
    <2>2. t \in Seq(Pair) /\ IsGrouped(t) /\ Append(b, x) \in Seq(Pair)
        BY <1>2, <2>1, PushAllIn, AppendProperties
    <2>3. PushAll(ps, Append(b, x)) = Push(t, x.key, x.value)
        BY <2>1, PushAllAppend
    <2>4. IsGrouped(Push(t, x.key, x.value))
        BY <2>2, GroupedPush
    <2> QED
        BY <2>2, <2>3, <2>4
<1> HIDE DEF T
<1>3. Seq(Pair) \subseteq T
    BY <1>1, <1>2, SeqClimb
<1> QED
    BY <1>3 DEF T

LEMMA GroupedParse ==
    \A text : text \in Seq(Pair) => Parse(text) \in Seq(Pair) /\ IsGrouped(Parse(text))
<1> TAKE text
<1> HAVE text \in Seq(Pair)
<1>1. PICK e : e = <<>>
    OBVIOUS
<1>2. e \in Seq(Pair) /\ IsGrouped(e) /\ Parse(text) = PushAll(e, text)
    BY <1>1, EmptySeq, GroupedEmpty DEF Parse
<1> QED
    BY <1>2, GroupedPushAll, PushAllIn

LEMMA GroupedItems == \A b \in Seq(Item) : FromItems(b) \in Seq(Pair) /\ IsGrouped(FromItems(b))
<1> DEFINE T == {b \in Seq(Item) : FromItems(b) \in Seq(Pair) /\ IsGrouped(FromItems(b))}
<1>1. <<>> \in T
    BY ItemsLaws, EmptySeq, GroupedEmpty
<1>2. ASSUME NEW b \in Seq(Item), NEW x \in Item, b \in T PROVE Append(b, x) \in T
    <2>1. PICK t, y : t = FromItems(b) /\ y = FanOut(x)
        OBVIOUS
    <2>2. t \in Seq(Pair) /\ IsGrouped(t) /\ y \in Seq(Pair) /\ Append(b, x) \in Seq(Item)
        BY <1>2, <2>1, FanOutIn, AppendProperties
    <2>3. FromItems(Append(b, x)) = PushAll(t, y)
        BY <2>1, ItemsLaws
    <2>4. PushAll(t, y) \in Seq(Pair) /\ IsGrouped(PushAll(t, y))
        BY <2>2, PushAllIn, GroupedPushAll
    <2> QED
        BY <2>2, <2>3, <2>4
<1> HIDE DEF T
<1>3. Seq(Item) \subseteq T
    BY <1>1, <1>2, SeqClimb
<1> QED
    BY <1>3 DEF T

\* set is merge with one pair.
LEMMA SetIsMerge ==
    \A k \in Keys, v \in Values : \A b \in Seq(Pair) : Set(b, k, v) = Merge(b, <<P(k, v)>>)
<1> TAKE k \in Keys, v \in Values
<1>1. PICK p, o : p = P(k, v) /\ o = <<p>>
    OBVIOUS
<1>2. p \in Pair /\ p.key = k /\ o \in Seq(Pair) /\ KeySet(o) = {k}
    BY <1>1 DEF P, Pair, KeySet
<1>3. Only(o, {k}) = o
    BY <1>2, OnlyAll
<1>4. WithKey(o, k) = o
    BY <1>3 DEF WithKey
<1> DEFINE T == {b \in Seq(Pair) : SetOut(b, k, v) = Kept(b, o)}
<1>5. <<>> \in T
    BY <1>2, SetLaws, KeptEmpty, EmptySeq
<1>6. ASSUME NEW b \in Seq(Pair), NEW x \in Pair, b \in T PROVE Append(b, x) \in T
    <2>1. PICK t : t = Kept(b, o)
        OBVIOUS
    <2>2. t \in Seq(Pair) /\ Append(b, x) \in Seq(Pair)
        BY <1>2, <2>1, KeptIn, AppendProperties
    <2>3. SetOut(Append(b, x), k, v) = SetStep(t, x, k, v)
        BY <1>6, <2>1, SetLaws
    <2>4. Kept(Append(b, x), o) = KeptStep(t, x, o)
        BY <1>2, <2>1, KeptAppend
    <2>5. Append(t, p) = t \o o
        BY <1>1, <1>2, <2>2, AppendIsConcat
    <2>6. SetStep(t, x, k, v) = KeptStep(t, x, o)
        BY <1>1, <1>2, <1>4, <2>5 DEF SetStep, KeptStep, Replaced, Taken, HasKey
    <2> QED
        BY <2>2, <2>3, <2>4, <2>6
<1> HIDE DEF T
<1>7. Seq(Pair) \subseteq T
    BY <1>5, <1>6, SeqClimb
<1>8. ASSUME NEW b \in Seq(Pair) PROVE Set(b, k, v) = Merge(b, o)
    <2>1. PICK t : t = Kept(b, o)
        OBVIOUS
    <2>2. t \in Seq(Pair) /\ SetOut(b, k, v) = t
        BY <1>2, <1>7, <2>1, KeptIn DEF T
    <2>3. Set(b, k, v) = IF k \in KeySet(t) THEN t ELSE Append(t, p)
        BY <1>1, <2>2, SetIs DEF Replaced, HasKey
    <2>4. Merge(b, o) = t \o Only(o, {k} \ KeySet(t))
        BY <1>2, <2>1 DEF Merge
    <2>5. CASE k \in KeySet(t)
        <3>1. Only(o, {k} \ KeySet(t)) = <<>>
            <4>1. {k} \ KeySet(t) = {}
                BY <2>5
            <4>2. Only(o, {}) = <<>>
                BY <1>2, OnlyNone
            <4> QED
                BY <4>1, <4>2
        <3> QED
            BY <2>2, <2>3, <2>4, <2>5, <3>1, ConcatEmptySeq
    <2>6. CASE k \notin KeySet(t)
        <3>1. {k} \ KeySet(t) = {k}
            BY <2>6
        <3>2. Append(t, p) = t \o o
            BY <1>1, <1>2, <2>2, AppendIsConcat
        <3> QED
            BY <1>3, <2>3, <2>4, <2>6, <3>1, <3>2
    <2> QED
        BY <2>5, <2>6
<1> QED
    BY <1>1, <1>8

LEMMA GroupedSet ==
    \A k \in Keys, v \in Values : \A b \in Seq(Pair) :
        Set(b, k, v) \in Seq(Pair) /\ (IsGrouped(b) => IsGrouped(Set(b, k, v)))
<1> TAKE k \in Keys, v \in Values
<1> TAKE b \in Seq(Pair)
<1>1. PICK p, o : p = P(k, v) /\ o = <<p>>
    OBVIOUS
<1>2. p \in Pair /\ o \in Seq(Pair)
    BY <1>1 DEF P, Pair
<1>3. IsGrouped(o)
    <2>1. DOMAIN o = 1..1 /\ o[1] = p
        BY <1>1
    <2>2. ASSUME NEW i \in DOMAIN o, NEW j \in DOMAIN o, NEW m \in i..j PROVE o[m].key = o[i].key
        <3>1. i = 1 /\ j = 1 /\ m = 1
            BY <2>1
        <3> QED
            BY <3>1
    <2> QED
        BY <2>2 DEF IsGrouped
<1>4. Set(b, k, v) = Merge(b, o)
    BY <1>1, SetIsMerge
<1> QED
    BY <1>2, <1>3, <1>4, GroupedMerge

-----------------------------------------------------------------------------
(* The query of a URL                                                      *)

LEMMA ReadQuery == \A u : IsUrl(u) => Read(u) = Invalid \/ Read(u).query = u.query
BY EmptyParts DEF IsUrl, Read, Parts

LEMMA NormalQuery == \A u : IsUrl(u) => Normal(u).query = u.query
BY EmptyParts DEF IsUrl, Normal, Parts

LEMMA ParseQuery == \A u : IsUrl(u) => ParseUrl(u) = Invalid \/ ParseUrl(u).query = u.query
BY ReadQuery, NormalQuery, ReadIsUrl, InvalidNormal DEF ParseUrl

LEMMA WrittenQuery == \A u : IsUrl(u) => Written(u).query = u.query
BY EmptyParts DEF IsUrl, Written, Parts

LEMMA OverQuery ==
    \A b, named : IsUrl(b) =>
        Over(b, named).query = IF "query" \in DOMAIN named THEN named.query ELSE b.query
BY EmptyParts DEF IsUrl, Over, Parts

LEMMA ComposeQuery ==
    \A b, named : IsUrl(b) =>
        \/ Compose(b, named) = Invalid
        \/ Compose(b, named).query = IF "query" \in DOMAIN named THEN named.query ELSE b.query
<1> TAKE b, named
<1> HAVE IsUrl(b)
<1>1. PICK o, w : o = Over(b, named) /\ w = Written(o)
    OBVIOUS
<1>2. IsUrl(o) /\ IsUrl(w) /\ Compose(b, named) = ParseUrl(w) /\ w.query = o.query
    BY <1>1, OverIsUrl, WrittenIsUrl, WrittenQuery DEF Compose
<1>3. o.query = IF "query" \in DOMAIN named THEN named.query ELSE b.query
    BY <1>1, OverQuery
<1> QED
    BY <1>2, <1>3, ParseQuery

LEMMA ParamsQuery ==
    \A b, ps : IsUrl(b) => WithParams(b, ps) = Invalid \/ WithParams(b, ps).query = ps
<1> TAKE b, ps
<1> HAVE IsUrl(b)
<1>1. PICK named : named = [query |-> ps]
    OBVIOUS
<1>2. "query" \in DOMAIN named /\ named.query = ps
    BY <1>1
<1> QED
    BY <1>1, <1>2, ComposeQuery DEF WithParams

\* The query of a join: the one of the reference, or, when it has none, the one
\* of the base.
JoinsQuery(q, b, u) == q = u.query \/ (u.query = <<>> /\ q = b.query)

LEMMA TransformQuery ==
    \A b, u : IsUrl(b) /\ IsUrl(u) => JoinsQuery(Transform(b, u).query, b, u)
<1> SUFFICES ASSUME NEW b, NEW u, IsUrl(b), IsUrl(u)
             PROVE  Transform(b, u).query = u.query
                       \/ (u.query = <<>> /\ Transform(b, u).query = b.query)
    BY Zenon DEF JoinsQuery
<1> DEFINE there == [u EXCEPT !.scheme = b.scheme]
           here == [b EXCEPT !.query = u.query, !.fragment = u.fragment]
<1>1. there.query = u.query
    BY EmptyParts DEF IsUrl, Parts
<1>2. here.query = u.query /\ \A p : [here EXCEPT !.path = p].query = u.query
    BY EmptyParts DEF IsUrl, Parts
<1>3. [here EXCEPT !.query = IF @ = <<>> THEN b.query ELSE @].query
          = IF u.query = <<>> THEN b.query ELSE u.query
    BY EmptyParts DEF IsUrl, Parts
<1>4. \/ Transform(b, u) = there
      \/ Transform(b, u) = [here EXCEPT !.query = IF @ = <<>> THEN b.query ELSE @]
      \/ \E p : Transform(b, u) = [here EXCEPT !.path = p]
    BY DEF Transform
<1> HIDE DEF there, here
<1> QED
    BY <1>1, <1>2, <1>3, <1>4

LEMMA UrlJoinQuery ==
    \A b, u : IsUrl(b) /\ IsUrl(u) =>
        /\ UrlJoin(b, u) = Invalid \/ JoinsQuery(UrlJoin(b, u).query, b, u)
        /\ b.net => JoinsQuery(UrlJoin(b, u).query, b, u)
<1> TAKE b, u
<1> HAVE IsUrl(b) /\ IsUrl(u)
<1>1. PICK t : t = Transform(b, u)
    OBVIOUS
<1>2. IsUrl(t) /\ JoinsQuery(t.query, b, u)
    BY <1>1, TransformIsUrl, TransformQuery
<1>3. Normal(u).query = u.query /\ Normal(t).query = t.query
    BY <1>2, NormalQuery
<1>4. JoinsQuery(u.query, b, u)
    BY DEF JoinsQuery
<1>5. \/ UrlJoin(b, u) = Normal(u) \/ UrlJoin(b, u) = Normal(t)
      \/ UrlJoin(b, u) = Invalid /\ ~b.net
    BY <1>1 DEF UrlJoin
<1> QED
    BY <1>2, <1>3, <1>4, <1>5

LEMMA JoinRelativeQuery ==
    \A b, u : IsUrl(b) /\ IsUrl(u) =>
        JoinRelative(b, u) = Invalid \/ JoinsQuery(JoinRelative(b, u).query, b, u)
<1> TAKE b, u
<1> HAVE IsUrl(b) /\ IsUrl(u)
<1> DEFINE start == [Anchor EXCEPT !.path = <<"">> \o Trim(b.path), !.query = b.query]
           tail == UrlJoin(Normal(start), u)
           text == [tail EXCEPT !.scheme = "", !.net = b.net, !.user = b.user,
                                !.host = b.host, !.port = b.port,
                                !.path = IF b.net \/ Rooted(b.path) \/ Rooted(u.path)
                                         THEN @ ELSE Trim(@)]
<1>1. IsUrl(start) /\ start.net /\ start.query = b.query
    <2>0. PICK p : p = <<"">> \o Trim(b.path)
        OBVIOUS
    <2>1. IsUrl(Anchor) /\ Anchor.net
        BY ConstantsAreUrls, EmptyParts DEF Anchor, Parts
    <2>2. IsUrl([Anchor EXCEPT !.path = p, !.query = b.query])
        BY <2>1, EmptyParts DEF IsUrl, Parts
    <2>3. /\ [Anchor EXCEPT !.path = p, !.query = b.query].query = b.query
          /\ [Anchor EXCEPT !.path = p, !.query = b.query].net
        BY <2>1, EmptyParts DEF IsUrl, Parts
    <2> QED
        BY <2>0, <2>2, <2>3
<1> HIDE DEF start
<1>2. IsUrl(Normal(start)) /\ Normal(start).net /\ Normal(start).query = b.query
    BY <1>1, NormalIsUrl, NormalQuery, EmptyParts DEF Normal, IsUrl, Parts
<1>3. IsUrl(tail) /\ JoinsQuery(tail.query, b, u)
    BY <1>2, UrlJoinIsUrl, UrlJoinQuery DEF JoinsQuery
<1>6. JoinRelative(b, u) = ParseUrl(u) \/ JoinRelative(b, u) = ParseUrl(text)
    BY DEF JoinRelative, start
<1> HIDE DEF tail
<1>5. IsUrl(text) /\ text.query = tail.query
    BY <1>3, EmptyParts DEF IsUrl, Parts
<1> HIDE DEF text
<1> QED
    BY <1>3, <1>5, <1>6, ParseQuery DEF JoinsQuery

LEMMA JoinQuery ==
    \A b, u : IsUrl(b) /\ IsUrl(u) =>
        JoinUrl(b, u) = Invalid \/ JoinsQuery(JoinUrl(b, u).query, b, u)
<1> TAKE b, u
<1> HAVE IsUrl(b) /\ IsUrl(u)
<1>1. CASE u = Empty
    <2>1. u.query = <<>>
        BY <1>1 DEF Empty
    <2> QED
        BY <1>1, <2>1 DEF JoinUrl, JoinsQuery
<1>2. CASE u # Empty
    BY <1>2, UrlJoinQuery, JoinRelativeQuery DEF JoinUrl
<1> QED
    BY <1>1, <1>2

\* The queries a call of copy_with may name.
Given(kwargs) == {kwargs[k] : k \in DOMAIN kwargs \cap {"query", "params"}}

LEMMA NamedQuery ==
    ASSUME NEW kwargs, NEW named \in Components(kwargs), "query" \in DOMAIN named
    PROVE  named.query \in Given(kwargs)
<1> DEFINE Named(q) == [f \in (DOMAIN kwargs \cap Fields) \cup (IF q = {} THEN {} ELSE {"query"}) |->
                           IF f = "query" THEN kwargs[CHOOSE k \in q : TRUE] ELSE kwargs[f]]
           queries == DOMAIN kwargs \cap {"query", "params"}
<1>1. \/ queries = {} /\ named = Named({})
      \/ \E k \in queries : named = Named({k})
    BY Zenon DEF Components
<1>2. CASE queries = {} /\ named = Named({})
    <2>1. DOMAIN named = DOMAIN kwargs \cap Fields
        BY <1>2
    <2>2. "query" \in queries
        BY <2>1
    <2> QED
        BY <1>2, <2>2
<1>3. CASE \E k \in queries : named = Named({k})
    <2>1. PICK k \in queries : named = Named({k})
        BY <1>3
    <2>2. "query" \in (DOMAIN kwargs \cap Fields) \cup (IF {k} = {} THEN {} ELSE {"query"})
        OBVIOUS
    <2>3. named["query"] = kwargs[CHOOSE j \in {k} : TRUE]
        BY <2>1, <2>2, Zenon
    <2>4. (CHOOSE j \in {k} : TRUE) = k
        OBVIOUS
    <2> QED
        BY <2>3, <2>4 DEF Given
<1> QED
    BY <1>1, <1>2, <1>3

\* Only a call that names no query leaves the query out.
LEMMA NamesQuery ==
    ASSUME NEW kwargs, NEW named \in Components(kwargs), "query" \notin DOMAIN named
    PROVE  Given(kwargs) = {}
<1> DEFINE Named(q) == [f \in (DOMAIN kwargs \cap Fields) \cup (IF q = {} THEN {} ELSE {"query"}) |->
                           IF f = "query" THEN kwargs[CHOOSE k \in q : TRUE] ELSE kwargs[f]]
           queries == DOMAIN kwargs \cap {"query", "params"}
<1>1. \/ queries = {} /\ named = Named({})
      \/ \E k \in queries : named = Named({k})
    BY Zenon DEF Components
<1>2. \A k : "query" \in DOMAIN Named({k})
    OBVIOUS
<1>3. queries = {}
    BY <1>1, <1>2
<1> QED
    BY <1>3 DEF Given

LEMMA CopyQuery ==
    ASSUME NEW b, IsUrl(b), NEW kwargs, NEW u \in CopyWith(b, kwargs)
    PROVE  u.query \in IF Given(kwargs) = {} THEN {b.query} ELSE Given(kwargs)
<1>1. CASE DOMAIN kwargs = {}
    BY <1>1 DEF CopyWith, Given
<1>2. CASE DOMAIN kwargs # {}
    <2>1. PICK named \in Components(kwargs) : u = Compose(b, named) /\ u # Invalid
        BY <1>2 DEF CopyWith
    <2>2. u.query = IF "query" \in DOMAIN named THEN named.query ELSE b.query
        BY <2>1, ComposeQuery
    <2> QED
        BY <2>1, <2>2, NamedQuery, NamesQuery
<1> QED
    BY <1>1, <1>2

LEMMA GivenIn == \A kwargs \in Kwargs : Given(kwargs) \subseteq Seq(Pair)
BY UrlAssumption DEF Given

-----------------------------------------------------------------------------
(* Grouped                                                                 *)

\* The inductive invariant: the params object and the query are pairs, those of
\* the object grouped; a query that came with a URL need not be.
HasPairs == pairs \in Seq(Pair) /\ IsGrouped(pairs) /\ IsUrl(url) /\ url.query \in Seq(Pair)

LEMMA ItemsIn == Items \subseteq Seq(Item)
<1>1. ASSUME NEW n \in Nat, NEW items \in [1..n -> [key : Keys, values : UNION {[1..m -> Values] : m \in 0..2}]]
      PROVE  items \in Seq(Item)
    <2>1. UNION {[1..m -> Values] : m \in 0..2} \subseteq Seq(Values)
        <3>1. ASSUME NEW m \in 0..2, NEW f \in [1..m -> Values] PROVE f \in Seq(Values)
            <4>1. m \in Nat
                OBVIOUS
            <4> QED
                BY <4>1
        <3> QED
            BY <3>1
    <2>2. [key : Keys, values : UNION {[1..m -> Values] : m \in 0..2}] \subseteq Item
        BY <2>1 DEF Item
    <2>3. items \in [1..n -> Item]
        BY <2>2
    <2> QED
        BY <2>3
<1>2. \A n \in 0..2 : n \in Nat
    OBVIOUS
<1> QED
    BY <1>1, <1>2 DEF Items

LEMMA RemoveIn ==
    \A ps, k : ps \in Seq(Pair) => RemoveKey(ps, k) \in Seq(Pair) /\ (IsGrouped(ps) => IsGrouped(RemoveKey(ps, k)))
BY OnlyIn, GroupedOnly DEF RemoveKey, Without

LEMMA AddIn ==
    \A ps : ps \in Seq(Pair) => \A k \in Keys, v \in Values :
        Add(ps, k, v) \in Seq(Pair) /\ (IsGrouped(ps) => IsGrouped(Add(ps, k, v)))
<1> TAKE ps
<1> HAVE ps \in Seq(Pair)
<1> TAKE k \in Keys, v \in Values
<1>1. PICK p : p = [key |-> k, value |-> v]
    OBVIOUS
<1>2. p \in Pair /\ p.key = k /\ p.value = v
    BY <1>1 DEF Pair
<1>3. Push(ps, p.key, p.value) \in Seq(Pair) /\ (IsGrouped(ps) => IsGrouped(Push(ps, p.key, p.value)))
    BY <1>2, PushIn, GroupedPush
<1> QED
    BY <1>2, <1>3 DEF Add

LEMMA PairsInit == Init => HasPairs
<1> SUFFICES ASSUME Init PROVE HasPairs
    OBVIOUS
<1>0. IsUrl(url)
    BY UrlInit DEF HasParts
<1>1. CASE /\ pairs \in {ps \in {FromItems(items) : items \in Items} : Len(ps) <= MaxPairs}
           /\ \E q \in UNION {[1..n -> Pair] : n \in 0..MaxPairs} : url = [Plain EXCEPT !.query = q]
    <2>1. PICK items \in Items : pairs = FromItems(items)
        BY <1>1
    <2>2. pairs \in Seq(Pair) /\ IsGrouped(pairs)
        BY <2>1, ItemsIn, GroupedItems
    <2>3. PICK q \in UNION {[1..n -> Pair] : n \in 0..MaxPairs} : url = [Plain EXCEPT !.query = q]
        BY <1>1
    <2>a. PICK n \in 0..MaxPairs : q \in [1..n -> Pair]
        BY <2>3
    <2>4. n \in Nat /\ url.query = q
        <3>1. n \in Nat
            <4>1. MaxPairs \in Nat
                BY UrlAssumption, Zenon
            <4> QED
                BY <4>1
        <3>2. [Plain EXCEPT !.query = q].query = q
            BY ConstantsAreUrls, EmptyParts DEF IsUrl, Parts
        <3> QED
            BY <2>3, <3>1, <3>2
    <2>5. q \in Seq(Pair)
        BY <2>4, <2>a
    <2> QED
        BY <1>0, <2>2, <2>4, <2>5 DEF HasPairs
<1>2. CASE pairs = <<>> /\ \E text \in Places : url = ParseUrl(text)
    <2>1. PICK text \in Places : url = ParseUrl(text)
        BY <1>2
    <2>2. IsUrl(text) /\ text.query \in Seq(Pair) /\ url = Normal(text)
        BY <2>1, UrlAssumption, PlacesAreGood
    <2>3. url.query = text.query
        BY <2>2, NormalQuery
    <2> QED
        BY <1>0, <1>2, <2>2, <2>3, EmptySeq, GroupedEmpty DEF HasPairs
<1> QED
    BY <1>1, <1>2 DEF Init

\* Every operation keeps the invariant; join and copy_with only choose a query.
LEMMA PairsStep == HasPairs /\ [Next]_vars => HasPairs'
<1> SUFFICES ASSUME HasPairs, [Next]_vars PROVE HasPairs'
    OBVIOUS
<1>0. pairs \in Seq(Pair) /\ IsGrouped(pairs) /\ IsUrl(url) /\ url.query \in Seq(Pair) /\ IsUrl(url')
    BY UrlStep DEF HasPairs, HasParts
<1>a. PICK r : r = Parse(url.query)
    OBVIOUS
<1>b. r \in Seq(Pair) /\ IsGrouped(r)
    BY <1>0, <1>a, GroupedParse
<1> SUFFICES pairs' \in Seq(Pair) /\ IsGrouped(pairs') /\ url'.query \in Seq(Pair)
    BY <1>0 DEF HasPairs
<1>1. ASSUME NEW ps \in Seq(Pair), IsGrouped(ps), NewParams(ps)
      PROVE  pairs' \in Seq(Pair) /\ IsGrouped(pairs') /\ url'.query \in Seq(Pair)
    BY <1>0, <1>1 DEF NewParams
<1>2. ASSUME NEW ps \in Seq(Pair), NewUrl(WithParams(url, ps))
      PROVE  pairs' \in Seq(Pair) /\ IsGrouped(pairs') /\ url'.query \in Seq(Pair)
    <2>1. WithParams(url, ps) # Invalid /\ url' = WithParams(url, ps) /\ pairs' = pairs
        BY <1>2 DEF NewUrl
    <2>2. url'.query = ps
        BY <1>0, <2>1, ParamsQuery
    <2> QED
        BY <1>0, <2>1, <2>2
<1>3. CASE SetParam
    BY <1>0, <1>1, <1>3, GroupedSet DEF SetParam
<1>4. CASE AddParam
    BY <1>0, <1>1, <1>4, AddIn DEF AddParam
<1>5. CASE RemoveParam
    BY <1>0, <1>1, <1>5, RemoveIn DEF RemoveParam
<1>6. CASE UrlParams
    BY <1>a, <1>b, <1>1, <1>6 DEF UrlParams
<1>7. CASE MergeParams
    BY <1>0, <1>a, <1>b, <1>1, <1>7, GroupedMerge DEF MergeParams
<1>8. CASE CopySetParam
    BY <1>a, <1>b, <1>2, <1>8, GroupedSet DEF CopySetParam
<1>9. CASE CopyAddParam
    BY <1>a, <1>b, <1>2, <1>9, AddIn DEF CopyAddParam
<1>10. CASE CopyRemoveParam
    BY <1>a, <1>b, <1>2, <1>10, RemoveIn DEF CopyRemoveParam
<1>11. CASE CopyMergeParams
    BY <1>0, <1>a, <1>b, <1>2, <1>11, GroupedMerge DEF CopyMergeParams
<1>12. CASE RequestParams
    <2>1. url' = [url EXCEPT !.query = pairs] /\ pairs' = pairs
        BY <1>12 DEF RequestParams, NewUrl
    <2>2. url'.query = pairs
        BY <1>0, <2>1, EmptyParts DEF IsUrl, Parts
    <2> QED
        BY <1>0, <2>1, <2>2
<1>13. CASE Join
    <2>1. PICK other \in References : NewUrl(JoinUrl(url, other))
        BY <1>13 DEF Join
    <2>2. IsUrl(other) /\ other.query \in Seq(Pair)
        BY UrlAssumption
    <2>3. JoinUrl(url, other) # Invalid /\ url' = JoinUrl(url, other) /\ pairs' = pairs
        BY <2>1 DEF NewUrl
    <2>4. url'.query \in {url.query, other.query}
        BY <1>0, <2>2, <2>3, JoinQuery DEF JoinsQuery
    <2> QED
        BY <1>0, <2>2, <2>3, <2>4
<1>14. CASE Copy
    <2>0. PICK kwargs \in Kwargs : \E u \in CopyWith(url, kwargs) : NewUrl(u)
        BY <1>14 DEF Copy
    <2>1. PICK u \in CopyWith(url, kwargs) : NewUrl(u)
        BY <2>0
    <2>2. url' = u /\ pairs' = pairs
        BY <2>1 DEF NewUrl
    <2>3. u.query = url.query \/ u.query \in Given(kwargs)
        BY <1>0, CopyQuery
    <2> QED
        BY <1>0, <2>2, <2>3, GivenIn
<1>15. CASE UNCHANGED vars
    BY <1>0, <1>15 DEF vars
<1> QED
    BY <1>3, <1>4, <1>5, <1>6, <1>7, <1>8, <1>9, <1>10, <1>11, <1>12, <1>13, <1>14, <1>15 DEF Next

LEMMA AlwaysPairs == Spec => []HasPairs
BY PairsInit, PairsStep, PTL DEF Spec

\* query_params.rs:44: the pairs of a key stay neighbours, whatever is set,
\* added, removed, merged or parsed, and in whatever order, for any keys,
\* values and number of pairs.
THEOREM PairsGrouped == Spec => []Grouped
<1>1. HasPairs => Grouped
    BY DEF HasPairs, Grouped, IsGrouped
<1> QED
    BY <1>1, AlwaysPairs, PTL

-----------------------------------------------------------------------------
(* The keys of a vector of pairs                                           *)

LEMMA KeysEmpty == KeysOf(<<>>) = <<>>
<1>1. \A x \in Pair : x.key \in Keys
    BY DEF Pair
<1> QED
    BY <1>1, KeysLaws

LEMMA KeysIn == \A b : b \in Seq(Pair) => KeysOf(b) \in Seq(Keys)
<1>1. \A x \in Pair : x.key \in Keys
    BY DEF Pair
<1> QED
    BY <1>1, KeysLaws

LEMMA KeysAppend ==
    \A b, x : b \in Seq(Pair) /\ x \in Pair => KeysOf(Append(b, x)) = AddKey(KeysOf(b), x)
<1>1. \A x \in Pair : x.key \in Keys
    BY DEF Pair
<1> QED
    BY <1>1, KeysLaws

LEMMA ContainsIs ==
    /\ \A k : ~Contains(<<>>, k)
    /\ \A Y, s, x, k : s \in Seq(Y) /\ x \in Y => (Contains(Append(s, x), k) <=> Contains(s, k) \/ x = k)
<1>1. \A k : ~Contains(<<>>, k)
    BY EmptySeq DEF Contains
<1>2. ASSUME NEW Y, NEW s, NEW x, NEW k, s \in Seq(Y), x \in Y
      PROVE  Contains(Append(s, x), k) <=> Contains(s, k) \/ x = k
    <2>1. PICK t, n : t = Append(s, x) /\ n = Len(s)
        OBVIOUS
    <2>2. n \in Nat /\ Len(t) = n + 1 /\ t[n + 1] = x /\ \A i \in 1..n : t[i] = s[i]
        BY <1>2, <2>1, AppendProperties, LenProperties
    <2>3. \A i \in 1..(n + 1) : i \in 1..n \/ i = n + 1
        BY <2>2
    <2>4. n + 1 \in 1..(n + 1) /\ \A i \in 1..n : i \in 1..(n + 1)
        BY <2>2
    <2>5. (\E i \in 1..(n + 1) : t[i] = k) <=> (\E i \in 1..n : s[i] = k) \/ x = k
        BY <2>2, <2>3, <2>4
    <2> QED
        BY <2>1, <2>2, <2>5 DEF Contains
<1> QED
    BY <1>1, <1>2

\* keys() has the keys of the pairs.
LEMMA KeysContain ==
    \A b \in Seq(Pair) : \A k : Contains(KeysOf(b), k) <=> k \in KeySet(b)
<1> DEFINE T == {b \in Seq(Pair) : \A k : Contains(KeysOf(b), k) <=> k \in KeySet(b)}
<1>1. <<>> \in T
    BY KeysEmpty, KeySetIs, ContainsIs, EmptySeq
<1>2. ASSUME NEW b \in Seq(Pair), NEW x \in Pair, b \in T PROVE Append(b, x) \in T
    <2>1. PICK K : K = KeysOf(b)
        OBVIOUS
    <2>2. K \in Seq(Keys) /\ x.key \in Keys /\ Append(b, x) \in Seq(Pair)
        BY <2>1, KeysIn, AppendProperties DEF Pair
    <2>3. KeysOf(Append(b, x)) = IF Contains(K, x.key) THEN K ELSE Append(K, x.key)
        BY <2>1, KeysAppend DEF AddKey
    <2>4. KeySet(Append(b, x)) = KeySet(b) \cup {x.key}
        BY KeySetIs
    <2>5. \A k : Contains(Append(K, x.key), k) <=> Contains(K, k) \/ x.key = k
        BY <2>2, ContainsIs
    <2>6. \A k : Contains(K, k) <=> k \in KeySet(b)
        BY <1>2, <2>1
    <2> QED
        BY <2>2, <2>3, <2>4, <2>5, <2>6
<1> HIDE DEF T
<1>3. Seq(Pair) \subseteq T
    BY <1>1, <1>2, SeqClimb
<1> QED
    BY <1>3 DEF T

LEMMA KeysNext ==
    \A b, x : b \in Seq(Pair) /\ x \in Pair =>
        KeysOf(Append(b, x)) = IF x.key \in KeySet(b) THEN KeysOf(b) ELSE Append(KeysOf(b), x.key)
BY KeysAppend, KeysContain DEF AddKey

LEMMA KeysCong ==
    \A a \in Seq(Pair), e \in Seq(Pair) : KeysOf(a) = KeysOf(e) =>
        \A c \in Seq(Pair) : KeysOf(a \o c) = KeysOf(e \o c)
<1> TAKE a \in Seq(Pair), e \in Seq(Pair)
<1> HAVE KeysOf(a) = KeysOf(e)
<1> DEFINE T == {c \in Seq(Pair) : KeysOf(a \o c) = KeysOf(e \o c)}
<1>1. <<>> \in T
    BY ConcatEmptySeq, EmptySeq
<1>2. ASSUME NEW c \in Seq(Pair), NEW x \in Pair, c \in T PROVE Append(c, x) \in T
    <2>1. PICK s, t : s = a \o c /\ t = e \o c
        OBVIOUS
    <2>2. /\ s \in Seq(Pair) /\ t \in Seq(Pair) /\ Append(c, x) \in Seq(Pair)
          /\ a \o Append(c, x) = Append(s, x) /\ e \o Append(c, x) = Append(t, x)
        <3>1. \A f : f \in Seq(Pair) =>
                  f \o c \in Seq(Pair) /\ Append(c, x) \in Seq(Pair) /\ f \o Append(c, x) = Append(f \o c, x)
            BY ConcatApp
        <3> QED
            BY <2>1, <3>1
    <2>3. KeysOf(s) = KeysOf(t)
        BY <1>2, <2>1
    <2>4. KeysOf(Append(s, x)) = KeysOf(Append(t, x))
        BY <2>2, <2>3, KeysAppend
    <2> QED
        BY <2>2, <2>4
<1> HIDE DEF T
<1>3. Seq(Pair) \subseteq T
    BY <1>1, <1>2, SeqClimb
<1> QED
    BY <1>3 DEF T

LEMMA KeysConcat ==
    \A a \in Seq(Pair) : \A c \in Seq(Pair) :
        KeySet(a) \cap KeySet(c) = {} => KeysOf(a \o c) = KeysOf(a) \o KeysOf(c)
<1> TAKE a \in Seq(Pair)
<1> DEFINE T == {c \in Seq(Pair) : KeySet(a) \cap KeySet(c) = {} => KeysOf(a \o c) = KeysOf(a) \o KeysOf(c)}
<1>0. PICK K : K = KeysOf(a)
    OBVIOUS
<1>a. K \in Seq(Keys)
    BY <1>0, KeysIn
<1>1. <<>> \in T
    BY <1>0, <1>a, KeysEmpty, ConcatEmptySeq, EmptySeq
<1>2. ASSUME NEW c \in Seq(Pair), NEW x \in Pair, c \in T PROVE Append(c, x) \in T
    <2>1. PICK s, L : s = a \o c /\ L = KeysOf(c)
        OBVIOUS
    <2>2. /\ s \in Seq(Pair) /\ Append(c, x) \in Seq(Pair) /\ L \in Seq(Keys) /\ x.key \in Keys
          /\ a \o Append(c, x) = Append(s, x)
        <3>1. x.key \in Keys
            BY DEF Pair
        <3>2. L \in Seq(Keys)
            BY <2>1, KeysIn
        <3> QED
            BY <2>1, <3>1, <3>2, ConcatApp
    <2>3. KeySet(Append(c, x)) = KeySet(c) \cup {x.key} /\ KeySet(s) = KeySet(a) \cup KeySet(c)
        BY <2>1, KeySetIs
    <2>4. ASSUME KeySet(a) \cap KeySet(Append(c, x)) = {}
          PROVE  KeysOf(Append(s, x)) = K \o KeysOf(Append(c, x))
        <3>1. KeysOf(s) = K \o L
            BY <1>0, <1>2, <2>1, <2>3, <2>4
        <3>2. x.key \in KeySet(s) <=> x.key \in KeySet(c)
            BY <2>3, <2>4
        <3>3. KeysOf(Append(s, x)) = IF x.key \in KeySet(s) THEN KeysOf(s) ELSE Append(KeysOf(s), x.key)
            BY <2>2, KeysNext
        <3>4. KeysOf(Append(c, x)) = IF x.key \in KeySet(c) THEN L ELSE Append(L, x.key)
            BY <2>1, KeysNext
        <3>5. K \o Append(L, x.key) = Append(K \o L, x.key)
            BY <1>a, <2>2, ConcatApp
        <3> QED
            BY <3>1, <3>2, <3>3, <3>4, <3>5
    <2> QED
        BY <1>0, <2>2, <2>4
<1> HIDE DEF T
<1>3. Seq(Pair) \subseteq T
    BY <1>1, <1>2, SeqClimb
<1> QED
    BY <1>3 DEF T

LEMMA KeysOne ==
    \A k : \A w \in Seq(Pair) : KeySet(w) = {k} => KeysOf(w) = <<k>>
<1> TAKE k
<1> DEFINE T == {w \in Seq(Pair) : KeySet(w) \subseteq {k} => KeysOf(w) = IF KeySet(w) = {} THEN <<>> ELSE <<k>>}
<1>1. <<>> \in T
    BY KeysEmpty, KeySetIs, EmptySeq
<1>2. ASSUME NEW w \in Seq(Pair), NEW x \in Pair, w \in T PROVE Append(w, x) \in T
    <2>1. KeySet(Append(w, x)) = KeySet(w) \cup {x.key} /\ Append(w, x) \in Seq(Pair)
        BY KeySetIs, AppendProperties
    <2>2. KeysOf(Append(w, x)) = IF x.key \in KeySet(w) THEN KeysOf(w) ELSE Append(KeysOf(w), x.key)
        BY KeysNext
    <2>3. Append(<<>>, x.key) = <<x.key>>
        OBVIOUS
    <2>4. ASSUME KeySet(Append(w, x)) \subseteq {k} PROVE KeysOf(Append(w, x)) = <<k>>
        <3>1. x.key = k /\ KeysOf(w) = IF KeySet(w) = {} THEN <<>> ELSE <<k>>
            BY <1>2, <2>1, <2>4
        <3>2. CASE KeySet(w) = {}
            BY <2>2, <2>3, <3>1, <3>2
        <3>3. CASE KeySet(w) # {}
            <4>1. x.key \in KeySet(w)
                BY <2>1, <2>4, <3>1, <3>3
            <4> QED
                BY <2>2, <3>1, <3>3, <4>1
        <3> QED
            BY <3>2, <3>3
    <2> QED
        BY <2>1, <2>4
<1> HIDE DEF T
<1>3. Seq(Pair) \subseteq T
    BY <1>1, <1>2, SeqClimb
<1> QED
    BY <1>3 DEF T

\* The keys that are in ks, in their order.
Filter(K, ks) == Out([z \in Seq(Keys) \X Keys |-> IF z[2] \in ks THEN Append(z[1], z[2]) ELSE z[1]], <<>>, K)

LEMMA FilterLaws ==
    /\ \A ks : Filter(<<>>, ks) = <<>>
    /\ \A K, ks : K \in Seq(Keys) => Filter(K, ks) \in Seq(Keys)
    /\ \A K, k, ks : K \in Seq(Keys) /\ k \in Keys =>
          Filter(Append(K, k), ks) = IF k \in ks THEN Append(Filter(K, ks), k) ELSE Filter(K, ks)
<1>1. ASSUME NEW ks
      PROVE  /\ Filter(<<>>, ks) = <<>>
             /\ \A K : K \in Seq(Keys) => Filter(K, ks) \in Seq(Keys)
             /\ \A K, k : K \in Seq(Keys) /\ k \in Keys =>
                   Filter(Append(K, k), ks) = IF k \in ks THEN Append(Filter(K, ks), k) ELSE Filter(K, ks)
    <2>0. PICK X : X = Seq(Keys)
        OBVIOUS
    <2>1. PICK f, e : f = [z \in X \X Keys |-> IF z[2] \in ks THEN Append(z[1], z[2]) ELSE z[1]] /\ e = <<>>
        OBVIOUS
    <2>2. \A s \in X, k \in Keys : Append(s, k) \in X
        BY <2>0, AppendProperties
    <2>3. f \in [X \X Keys -> X] /\ e \in X
        BY <2>0, <2>1, <2>2, EmptySeq
    <2>4. \A s \in X, k \in Keys : f[<<s, k>>] = IF k \in ks THEN Append(s, k) ELSE s
        BY <2>1
    <2>5. IsFold(X, Keys, f, e)
        BY <2>3 DEF IsFold
    <2>6. \A K : Filter(K, ks) = Out(f, e, K)
        BY <2>0, <2>1 DEF Filter
    <2>7. Filter(<<>>, ks) = <<>>
        BY <2>1, <2>6, OutEmpty
    <2>8. \A K : K \in Seq(Keys) => Filter(K, ks) \in X
        BY <2>5, <2>6, OutIn
    <2>9. ASSUME NEW K, NEW k, K \in Seq(Keys), k \in Keys
          PROVE  Filter(Append(K, k), ks) = IF k \in ks THEN Append(Filter(K, ks), k) ELSE Filter(K, ks)
        <3>1. PICK s : s = Out(f, e, K)
            OBVIOUS
        <3>2. Out(f, e, Append(K, k)) = f[<<s, k>>] /\ s \in X
            BY <2>5, <2>9, <3>1, OutAppend, OutIn
        <3> QED
            BY <2>4, <2>6, <2>9, <3>1, <3>2
    <2> QED
        BY <2>0, <2>7, <2>8, <2>9
<1> QED
    BY <1>1

LEMMA FilterContains ==
    \A ks : \A K \in Seq(Keys) : \A k : Contains(Filter(K, ks), k) <=> Contains(K, k) /\ k \in ks
<1> TAKE ks
<1> DEFINE T == {K \in Seq(Keys) : \A k : Contains(Filter(K, ks), k) <=> Contains(K, k) /\ k \in ks}
<1>1. <<>> \in T
    BY FilterLaws, ContainsIs, EmptySeq
<1>2. ASSUME NEW K \in Seq(Keys), NEW x \in Keys, K \in T PROVE Append(K, x) \in T
    <2>1. PICK L : L = Filter(K, ks)
        OBVIOUS
    <2>2. L \in Seq(Keys) /\ Append(K, x) \in Seq(Keys)
        BY <2>1, FilterLaws, AppendProperties
    <2>3. Filter(Append(K, x), ks) = IF x \in ks THEN Append(L, x) ELSE L
        BY <2>1, FilterLaws
    <2>4. \A k : /\ Contains(Append(K, x), k) <=> Contains(K, k) \/ x = k
                 /\ Contains(Append(L, x), k) <=> Contains(L, k) \/ x = k
        BY <2>2, ContainsIs
    <2>5. \A k : Contains(L, k) <=> Contains(K, k) /\ k \in ks
        BY <1>2, <2>1
    <2> QED
        BY <2>2, <2>3, <2>4, <2>5
<1> HIDE DEF T
<1>3. Seq(Keys) \subseteq T
    BY <1>1, <1>2, SeqClimb
<1> QED
    BY <1>3 DEF T

\* Without some keys the others keep their order.
LEMMA KeysOnly ==
    \A ks : \A b \in Seq(Pair) : KeysOf(Only(b, ks)) = Filter(KeysOf(b), ks)
<1> TAKE ks
<1> DEFINE T == {b \in Seq(Pair) : KeysOf(Only(b, ks)) = Filter(KeysOf(b), ks)}
<1>1. <<>> \in T
    BY OnlyEmpty, KeysEmpty, FilterLaws, EmptySeq
<1>2. ASSUME NEW b \in Seq(Pair), NEW x \in Pair, b \in T PROVE Append(b, x) \in T
    <2>1. PICK t, K : t = Only(b, ks) /\ K = KeysOf(b)
        OBVIOUS
    <2>2. t \in Seq(Pair) /\ KeySet(t) = KeySet(b) \cap ks /\ K \in Seq(Keys) /\ x.key \in Keys
          /\ Append(b, x) \in Seq(Pair)
        BY <2>1, OnlyIn, OnlyKeys, KeysIn, AppendProperties DEF Pair
    <2>3. Only(Append(b, x), ks) = IF x.key \in ks THEN Append(t, x) ELSE t
        BY <2>1, OnlyAppend DEF OnlyStep
    <2>4. KeysOf(t) = Filter(K, ks)
        BY <1>2, <2>1
    <2>5. KeysOf(Append(t, x)) = IF x.key \in KeySet(t) THEN KeysOf(t) ELSE Append(KeysOf(t), x.key)
        BY <2>2, KeysNext
    <2>6. KeysOf(Append(b, x)) = IF x.key \in KeySet(b) THEN K ELSE Append(K, x.key)
        BY <2>1, KeysNext
    <2>7. Filter(Append(K, x.key), ks) = IF x.key \in ks THEN Append(Filter(K, ks), x.key) ELSE Filter(K, ks)
        BY <2>2, FilterLaws
    <2>8. KeysOf(Only(Append(b, x), ks)) = Filter(KeysOf(Append(b, x)), ks)
        <3>1. CASE x.key \in ks
            BY <2>2, <2>3, <2>4, <2>5, <2>6, <2>7, <3>1
        <3>2. CASE x.key \notin ks
            BY <2>2, <2>3, <2>4, <2>6, <2>7, <3>2
        <3> QED
            BY <3>1, <3>2
    <2> QED
        BY <2>2, <2>8
<1> HIDE DEF T
<1>3. Seq(Pair) \subseteq T
    BY <1>1, <1>2, SeqClimb
<1> QED
    BY <1>3 DEF T

-----------------------------------------------------------------------------
(* What an operation does to the keys and to the pairs of each key         *)

LEMMA WithKeyConcat ==
    \A a, b, k : a \in Seq(Pair) /\ b \in Seq(Pair) => WithKey(a \o b, k) = WithKey(a, k) \o WithKey(b, k)
BY OnlyConcat DEF WithKey

LEMMA WithKeyAppend ==
    \A b, x, k : b \in Seq(Pair) /\ x \in Pair =>
        WithKey(Append(b, x), k) = IF x.key = k THEN Append(WithKey(b, k), x) ELSE WithKey(b, k)
<1> TAKE b, x, k
<1> HAVE b \in Seq(Pair) /\ x \in Pair
<1>1. PICK ks : ks = {k}
    OBVIOUS
<1>2. Only(Append(b, x), ks) = OnlyStep(Only(b, ks), x, ks)
    BY OnlyAppend
<1> QED
    BY <1>1, <1>2 DEF WithKey, OnlyStep

LEMMA WithKeyNone ==
    \A b, k : b \in Seq(Pair) /\ k \notin KeySet(b) => WithKey(b, k) = <<>>
<1> TAKE b, k
<1> HAVE b \in Seq(Pair) /\ k \notin KeySet(b)
<1>1. PICK ks : ks = {k}
    OBVIOUS
<1>2. KeySet(b) \cap ks = {}
    BY <1>1
<1>3. Only(b, ks) = <<>>
    BY <1>2, OnlyNone
<1> QED
    BY <1>1, <1>3 DEF WithKey

LEMMA WithKeyOnly ==
    \A b, ks, k : b \in Seq(Pair) =>
        WithKey(Only(b, ks), k) = IF k \in ks THEN WithKey(b, k) ELSE <<>>
<1> TAKE b, ks, k
<1> HAVE b \in Seq(Pair)
<1>1. PICK js, ms : js = {k} /\ ms = ks \cap js
    OBVIOUS
<1>2. Only(Only(b, ks), js) = Only(b, ms)
    BY <1>1, OnlyOnly
<1>3. CASE k \in ks
    <2>1. ms = js
        BY <1>1, <1>3
    <2> QED
        BY <1>1, <1>2, <1>3, <2>1 DEF WithKey
<1>4. CASE k \notin ks
    <2>1. KeySet(b) \cap ms = {}
        BY <1>1, <1>4
    <2>2. Only(b, ms) = <<>>
        BY <2>1, OnlyNone
    <2> QED
        BY <1>1, <1>2, <1>4, <2>2 DEF WithKey
<1> QED
    BY <1>3, <1>4

\* Two vectors that stand for the same dictionary.
Same(a, b) == KeysOf(a) = KeysOf(b) /\ \A k \in Keys : WithKey(a, k) = WithKey(b, k)

LEMMA SameDict ==
    \A a, b : a \in Seq(Pair) /\ b \in Seq(Pair) /\ Same(a, b) => DictOf(a) = DictOf(b)
<1> TAKE a, b
<1> HAVE a \in Seq(Pair) /\ b \in Seq(Pair) /\ Same(a, b)
<1>1. PICK K : K = KeysOf(a)
    OBVIOUS
<1>2. K \in Seq(Keys) /\ K = KeysOf(b)
    BY <1>1, KeysIn DEF Same
<1>3. \A n \in DOMAIN K : K[n] \in Keys
    BY <1>2, LenProperties
<1>4. \A n \in DOMAIN K : GetList(a, K[n]) = GetList(b, K[n])
    BY <1>3 DEF Same, GetList
<1> QED
    BY <1>1, <1>2, <1>4 DEF DictOf

\* push does what appending would, as far as the dictionary goes.
LEMMA PushSame ==
    \A ps, p : ps \in Seq(Pair) /\ p \in Pair => Same(Push(ps, p.key, p.value), Append(ps, p))
<1> SUFFICES ASSUME NEW ps, ps \in Seq(Pair), NEW p, p \in Pair, NEW q, Pushed(ps, p, q)
             PROVE  Same(q, Append(ps, p))
    BY PushPuts
<1>1. CASE q = Append(ps, p)
    BY <1>1 DEF Same
<1>2. CASE \E a, c \in Seq(Pair) :
              /\ ps = a \o c /\ q = Append(a, p) \o c
              /\ Len(a) > 0 /\ a[Len(a)].key = p.key /\ p.key \notin KeySet(c)
    <2>1. PICK a, c \in Seq(Pair) :
              /\ ps = a \o c /\ q = Append(a, p) \o c
              /\ Len(a) > 0 /\ a[Len(a)].key = p.key /\ p.key \notin KeySet(c)
        BY <1>2
    <2>2. PICK e : e = Append(a, p)
        OBVIOUS
    <2>3. e \in Seq(Pair) /\ q = e \o c
        BY <2>1, <2>2, AppendProperties
    <2>4. p.key \in KeySet(a)
        BY <2>1, EndsIs DEF Ends
    <2>5. KeysOf(e) = KeysOf(a)
        BY <2>2, <2>4, KeysNext
    <2>6. KeysOf(q) = KeysOf(ps)
        BY <2>1, <2>3, <2>5, KeysCong
    <2>7. p.key \in KeySet(ps)
        BY <2>1, <2>4, KeySetIs
    <2>8. KeysOf(Append(ps, p)) = KeysOf(ps)
        BY <2>7, KeysNext
    <2>9. ASSUME NEW k \in Keys PROVE WithKey(q, k) = WithKey(Append(ps, p), k)
        <3>1. PICK s, t, u : s = WithKey(a, k) /\ t = WithKey(c, k) /\ u = WithKey(e, k)
            OBVIOUS
        <3>2. s \in Seq(Pair) /\ t \in Seq(Pair) /\ u = IF p.key = k THEN Append(s, p) ELSE s
            BY <2>2, <3>1, WithKeyIn, WithKeyAppend
        <3>3. WithKey(q, k) = u \o t /\ WithKey(ps, k) = s \o t
            <4>1. WithKey(e \o c, k) = WithKey(e, k) \o WithKey(c, k)
                BY <2>3, WithKeyConcat
            <4>2. WithKey(a \o c, k) = WithKey(a, k) \o WithKey(c, k)
                BY WithKeyConcat
            <4> QED
                BY <2>1, <2>3, <3>1, <4>1, <4>2
        <3>4. WithKey(Append(ps, p), k) = IF p.key = k THEN Append(s \o t, p) ELSE s \o t
            <4>1. WithKey(Append(ps, p), k) = IF p.key = k THEN Append(WithKey(ps, k), p) ELSE WithKey(ps, k)
                BY WithKeyAppend
            <4> QED
                BY <3>3, <4>1
        <3>5. CASE p.key = k
            <4>1. t = <<>>
                BY <2>1, <3>1, <3>5, WithKeyNone
            <4>2. Append(s, p) \in Seq(Pair)
                BY <3>2, AppendProperties
            <4>3. s \o t = s /\ Append(s, p) \o t = Append(s, p)
                BY <3>2, <4>1, <4>2, ConcatEmptySeq
            <4> QED
                BY <3>2, <3>3, <3>4, <3>5, <4>3
        <3>6. CASE p.key # k
            BY <3>2, <3>3, <3>4, <3>6
        <3> QED
            BY <3>5, <3>6
    <2> QED
        BY <2>6, <2>8, <2>9 DEF Same
<1> QED
    BY <1>1, <1>2 DEF Pushed

\* Reading a query keeps its dictionary.
LEMMA ParseSame == \A b \in Seq(Pair) : Same(Parse(b), b)
<1> DEFINE T == {b \in Seq(Pair) : Same(Parse(b), b)}
<1>0. PICK e : e = <<>>
    OBVIOUS
<1>a. e \in Seq(Pair) /\ \A b : Parse(b) = PushAll(e, b)
    BY <1>0, EmptySeq DEF Parse
<1>1. <<>> \in T
    <2>1. Parse(<<>>) = <<>>
        BY <1>0, <1>a, PushAllEmpty
    <2> QED
        BY <2>1, EmptySeq DEF Same
<1>2. ASSUME NEW b \in Seq(Pair), NEW x \in Pair, b \in T PROVE Append(b, x) \in T
    <2>1. PICK r : r = Parse(b)
        OBVIOUS
    <2>2. r \in Seq(Pair) /\ Append(b, x) \in Seq(Pair) /\ Same(r, b)
        BY <1>2, <2>1, GroupedParse, AppendProperties
    <2>3. Parse(Append(b, x)) = Push(r, x.key, x.value)
        BY <1>a, <2>1, PushAllAppend
    <2>4. Same(Push(r, x.key, x.value), Append(r, x))
        BY <2>2, PushSame
    <2>5. KeysOf(Append(r, x)) = KeysOf(Append(b, x))
        BY <2>2, KeysAppend DEF Same
    <2>6. \A k \in Keys : WithKey(Append(r, x), k) = WithKey(Append(b, x), k)
        BY <2>2, WithKeyAppend DEF Same
    <2> QED
        BY <2>2, <2>3, <2>4, <2>5, <2>6 DEF Same
<1> HIDE DEF T
<1>3. Seq(Pair) \subseteq T
    BY <1>1, <1>2, SeqClimb
<1> QED
    BY <1>3 DEF T

LEMMA KeptSays ==
    \A other \in Seq(Pair) : \A b \in Seq(Pair) :
        /\ KeysOf(Kept(b, other)) = KeysOf(b)
        /\ \A k \in Keys : WithKey(Kept(b, other), k) =
              IF k \notin KeySet(other) THEN WithKey(b, k)
              ELSE IF k \in KeySet(b) THEN WithKey(other, k) ELSE <<>>
<1> TAKE other \in Seq(Pair)
<1> DEFINE Want(b, k) == IF k \notin KeySet(other) THEN WithKey(b, k)
                         ELSE IF k \in KeySet(b) THEN WithKey(other, k) ELSE <<>>
           T == {b \in Seq(Pair) : /\ KeysOf(Kept(b, other)) = KeysOf(b)
                                   /\ \A k \in Keys : WithKey(Kept(b, other), k) = Want(b, k)}
<1>0. \A k : WithKey(<<>>, k) = <<>>
    BY OnlyEmpty DEF WithKey
<1>1. <<>> \in T
    BY <1>0, KeptEmpty, KeySetIs, EmptySeq
<1>2. ASSUME NEW b \in Seq(Pair), NEW x \in Pair, b \in T PROVE Append(b, x) \in T
    <2>1. PICK d, t, w : d = Append(b, x) /\ t = Kept(b, other) /\ w = WithKey(other, x.key)
        OBVIOUS
    <2>2. /\ d \in Seq(Pair) /\ t \in Seq(Pair) /\ KeySet(t) = KeySet(b)
          /\ KeySet(d) = KeySet(b) \cup {x.key}
        BY <2>1, AppendProperties, KeptIn, KeptKeys, KeySetIs
    <2>3. w \in Seq(Pair) /\ KeySet(w) = KeySet(other) \cap {x.key}
        BY <2>1, WithKeyKeys
    <2>4. Kept(d, other) = KeptStep(t, x, other)
        BY <2>1, KeptAppend
    <2>5. KeysOf(t) = KeysOf(b) /\ \A k \in Keys : WithKey(t, k) = Want(b, k)
        BY <1>2, <2>1
    <2>6. KeysOf(d) = IF x.key \in KeySet(b) THEN KeysOf(b) ELSE Append(KeysOf(b), x.key)
        BY <2>1, KeysNext
    <2>7. \A k : WithKey(d, k) = IF x.key = k THEN Append(WithKey(b, k), x) ELSE WithKey(b, k)
        BY <2>1, WithKeyAppend
    <2>8. CASE x.key \notin KeySet(other)
        <3>1. Kept(d, other) = Append(t, x)
            BY <2>4, <2>8 DEF KeptStep, HasKey
        <3>2. KeysOf(Append(t, x)) = KeysOf(d)
            BY <2>2, <2>5, <2>6, KeysNext
        <3>3. ASSUME NEW k \in Keys PROVE WithKey(Append(t, x), k) = Want(d, k)
            <4>1. WithKey(Append(t, x), k) = IF x.key = k THEN Append(WithKey(t, k), x) ELSE WithKey(t, k)
                BY <2>2, WithKeyAppend
            <4>2. WithKey(t, k) = Want(b, k)
                BY <2>5
            <4> QED
                BY <2>2, <2>7, <2>8, <4>1, <4>2
        <3> QED
            BY <2>1, <2>2, <3>1, <3>2, <3>3
    <2>9. CASE x.key \in KeySet(other) /\ x.key \in KeySet(b)
        <3>1. Kept(d, other) = t /\ KeysOf(d) = KeysOf(t)
            BY <2>2, <2>4, <2>5, <2>6, <2>9 DEF KeptStep, Taken, HasKey
        <3>2. ASSUME NEW k \in Keys PROVE WithKey(t, k) = Want(d, k)
            <4>1. WithKey(t, k) = Want(b, k) /\ KeySet(d) = KeySet(b)
                BY <2>2, <2>5, <2>9
            <4> QED
                BY <2>7, <2>9, <4>1
        <3> QED
            BY <2>1, <2>2, <3>1, <3>2
    <2>10. CASE x.key \in KeySet(other) /\ x.key \notin KeySet(b)
        <3>1. Kept(d, other) = t \o w
            BY <2>1, <2>2, <2>4, <2>10 DEF KeptStep, Taken, HasKey
        <3>2. KeysOf(t \o w) = KeysOf(d)
            <4>0. PICK K : K = KeysOf(t)
                OBVIOUS
            <4>1. K \in Seq(Keys) /\ x.key \in Keys
                BY <2>2, <4>0, KeysIn DEF Pair
            <4>2. KeySet(w) = {x.key} /\ KeySet(t) \cap KeySet(w) = {}
                BY <2>2, <2>3, <2>10
            <4>3. KeysOf(w) = <<x.key>>
                BY <2>3, <4>2, KeysOne
            <4>4. KeysOf(t \o w) = K \o <<x.key>>
                BY <2>2, <2>3, <4>0, <4>2, <4>3, KeysConcat
            <4>5. K \o <<x.key>> = Append(K, x.key)
                BY <4>1, AppendIsConcat
            <4> QED
                BY <2>5, <2>6, <2>10, <4>0, <4>4, <4>5
        <3>3. ASSUME NEW k \in Keys PROVE WithKey(t \o w, k) = Want(d, k)
            <4>1. WithKey(t \o w, k) = WithKey(t, k) \o WithKey(w, k)
                BY <2>2, <2>3, WithKeyConcat
            <4>2. WithKey(t, k) = Want(b, k) /\ WithKey(t, k) \in Seq(Pair)
                BY <2>2, <2>5, WithKeyIn
            <4>3. CASE k = x.key
                <5>1. WithKey(t, k) = <<>>
                    BY <2>2, <2>10, <4>3, WithKeyNone
                <5>2. WithKey(w, k) = w
                    <6>1. PICK ks : ks = {x.key}
                        OBVIOUS
                    <6>2. KeySet(w) \subseteq ks
                        BY <2>3, <6>1
                    <6>3. Only(w, ks) = w
                        BY <2>3, <6>2, OnlyAll
                    <6> QED
                        BY <4>3, <6>1, <6>3 DEF WithKey
                <5>3. <<>> \o w = w
                    BY <2>3, ConcatEmptySeq
                <5> QED
                    BY <2>1, <2>2, <2>10, <4>1, <4>3, <5>1, <5>2, <5>3
            <4>4. CASE k # x.key
                <5>1. WithKey(w, k) = <<>>
                    BY <2>3, <4>4, WithKeyNone
                <5>2. WithKey(t, k) \o <<>> = WithKey(t, k)
                    BY <4>2, ConcatEmptySeq
                <5>3. Want(d, k) = Want(b, k)
                    BY <2>2, <2>7, <4>4
                <5> QED
                    BY <4>1, <4>2, <5>1, <5>2, <5>3
            <4> QED
                BY <4>3, <4>4
        <3> QED
            BY <2>1, <2>2, <3>1, <3>2, <3>3
    <2> QED
        BY <2>8, <2>9, <2>10
<1> HIDE DEF T
<1>3. Seq(Pair) \subseteq T
    BY <1>1, <1>2, SeqClimb
<1> QED
    BY <1>3 DEF T

LEMMA MergeSays ==
    \A a, b : a \in Seq(Pair) /\ b \in Seq(Pair) =>
        /\ KeysOf(Merge(a, b)) = KeysOf(a) \o Filter(KeysOf(b), KeySet(b) \ KeySet(a))
        /\ \A k \in Keys : WithKey(Merge(a, b), k) = IF k \in KeySet(b) THEN WithKey(b, k) ELSE WithKey(a, k)
<1> TAKE a, b
<1> HAVE a \in Seq(Pair) /\ b \in Seq(Pair)
<1>1. PICK t, ks, c : t = Kept(a, b) /\ ks = KeySet(b) \ KeySet(a) /\ c = Only(b, ks)
    OBVIOUS
<1>2. t \in Seq(Pair) /\ c \in Seq(Pair) /\ KeySet(t) = KeySet(a)
    BY <1>1, KeptIn, KeptKeys, OnlyIn
<1>3. Merge(a, b) = t \o c
    BY <1>1, <1>2 DEF Merge
<1>4. KeySet(c) = KeySet(b) \cap ks
    BY <1>1, OnlyKeys
<1>5. KeysOf(t \o c) = KeysOf(a) \o Filter(KeysOf(b), ks)
    <2>1. KeySet(t) \cap KeySet(c) = {}
        BY <1>1, <1>2, <1>4
    <2>2. KeysOf(t \o c) = KeysOf(t) \o KeysOf(c)
        BY <1>2, <2>1, KeysConcat
    <2> QED
        BY <1>1, <2>2, KeptSays, KeysOnly
<1>6. ASSUME NEW k \in Keys
      PROVE  WithKey(t \o c, k) = IF k \in KeySet(b) THEN WithKey(b, k) ELSE WithKey(a, k)
    <2>1. PICK r, s, u, v : r = WithKey(t, k) /\ s = WithKey(c, k) /\ u = WithKey(a, k) /\ v = WithKey(b, k)
        OBVIOUS
    <2>2. r \in Seq(Pair) /\ s \in Seq(Pair) /\ u \in Seq(Pair) /\ v \in Seq(Pair)
        BY <1>2, <2>1, WithKeyIn
    <2>3. WithKey(t \o c, k) = r \o s
        <3>1. WithKey(t \o c, k) = WithKey(t, k) \o WithKey(c, k)
            BY <1>2, WithKeyConcat
        <3> QED
            BY <2>1, <3>1
    <2>4. r = IF k \notin KeySet(b) THEN u ELSE IF k \in KeySet(a) THEN v ELSE <<>>
        BY <1>1, <2>1, KeptSays
    <2>5. s = IF k \in ks THEN v ELSE <<>>
        BY <1>1, <2>1, WithKeyOnly
    <2>6. u \o <<>> = u /\ v \o <<>> = v /\ <<>> \o v = v
        BY <2>2, ConcatEmptySeq
    <2> QED
        BY <1>1, <2>1, <2>3, <2>4, <2>5, <2>6
<1> QED
    BY <1>1, <1>3, <1>5, <1>6

-----------------------------------------------------------------------------
(* The operations of the abstract dictionary                               *)

\* The dictionary with these keys, in this order, and the values lists gives.
AsDict(K, lists) == [n \in DOMAIN K |-> [key |-> K[n], values |-> lists[K[n]]]]

\* What stands in such a dictionary.
Entry(lists) == {[key |-> k, values |-> lists[k]] : k \in Keys}

\* get_list, for every key.
ListsOf(ps) == [k \in Keys |-> GetList(ps, k)]

\* A vector is told apart by its keys, in order, and by the list of each.
LEMMA DictIs == \A ps \in Seq(Pair) : DictOf(ps) = AsDict(KeysOf(ps), ListsOf(ps))
<1> TAKE ps \in Seq(Pair)
<1>1. PICK K : K = KeysOf(ps)
    OBVIOUS
<1>2. K \in Seq(Keys)
    BY <1>1, KeysIn
<1>3. \A n \in DOMAIN K : K[n] \in Keys
    BY <1>2, LenProperties
<1>4. \A n \in DOMAIN K : ListsOf(ps)[K[n]] = GetList(ps, K[n])
    BY <1>3 DEF ListsOf
<1> QED
    BY <1>1, <1>4 DEF DictOf, AsDict

LEMMA AsDictIn ==
    \A K, g : K \in Seq(Keys) => /\ AsDict(K, g) \in Seq(Entry(g)) /\ Len(AsDict(K, g)) = Len(K)
                                 /\ DOMAIN AsDict(K, g) = 1..Len(K) /\ DOMAIN K = 1..Len(K)
                                 /\ \A n \in 1..Len(K) : /\ K[n] \in Keys
                                                         /\ AsDict(K, g)[n] = [key |-> K[n], values |-> g[K[n]]]
<1> TAKE K, g
<1> HAVE K \in Seq(Keys)
<1>1. Len(K) \in Nat /\ DOMAIN K = 1..Len(K) /\ \A n \in 1..Len(K) : K[n] \in Keys
    BY LenProperties
<1>2. PICK d, m : d = AsDict(K, g) /\ m = Len(K)
    OBVIOUS
<1>3. d = [n \in 1..m |-> [key |-> K[n], values |-> g[K[n]]]] /\ m \in Nat
    BY <1>1, <1>2 DEF AsDict
<1>4. \A n \in 1..m : d[n] \in Entry(g)
    BY <1>1, <1>2, <1>3 DEF Entry
<1>5. d \in [1..m -> Entry(g)]
    BY <1>3, <1>4
<1>6. d \in Seq(Entry(g)) /\ Len(d) = m
    <2>1. PICK Y : Y = Entry(g)
        OBVIOUS
    <2>2. d \in [1..m -> Y] /\ m \in Nat
        BY <1>3, <1>5, <2>1
    <2>3. d \in Seq(Y)
        BY <2>2
    <2>4. Len(d) = m
        BY <2>2, <2>3, LenProperties
    <2> QED
        BY <2>1, <2>3, <2>4
<1> QED
    BY <1>1, <1>2, <1>3, <1>6

LEMMA AsDictKeys ==
    \A K, g : K \in Seq(Keys) => \A k : k \in KeySet(AsDict(K, g)) <=> Contains(K, k)
<1> TAKE K, g
<1> HAVE K \in Seq(Keys)
<1>1. PICK d, m : d = AsDict(K, g) /\ m = Len(K)
    OBVIOUS
<1>a. DOMAIN d = 1..m /\ \A n \in 1..m : d[n] = [key |-> K[n], values |-> g[K[n]]]
    BY <1>1, AsDictIn
<1>2. DOMAIN d = 1..m /\ \A n \in 1..m : d[n].key = K[n]
    BY <1>a
<1> QED
    BY <1>1, <1>2 DEF KeySet, Contains

LEMMA AsDictCong ==
    \A K, g, h : K \in Seq(Keys) /\ (\A k \in Keys : Contains(K, k) => g[k] = h[k]) => AsDict(K, g) = AsDict(K, h)
<1> TAKE K, g, h
<1> HAVE K \in Seq(Keys) /\ (\A k \in Keys : Contains(K, k) => g[k] = h[k])
<1>1. Len(K) \in Nat /\ DOMAIN K = 1..Len(K) /\ \A n \in 1..Len(K) : K[n] \in Keys
    BY LenProperties
<1>2. \A n \in DOMAIN K : g[K[n]] = h[K[n]]
    BY <1>1 DEF Contains
<1> QED
    BY <1>2 DEF AsDict

LEMMA AsDictConcat ==
    \A K, L, g : K \in Seq(Keys) /\ L \in Seq(Keys) => AsDict(K \o L, g) = AsDict(K, g) \o AsDict(L, g)
<1> TAKE K, L, g
<1> HAVE K \in Seq(Keys) /\ L \in Seq(Keys)
<1>1. PICK M, d, e, f, m, n : /\ M = K \o L /\ d = AsDict(K, g) /\ e = AsDict(L, g) /\ f = AsDict(M, g)
                              /\ m = Len(K) /\ n = Len(L)
    OBVIOUS
<1>2. /\ M \in Seq(Keys) /\ Len(M) = m + n /\ m \in Nat /\ n \in Nat
      /\ \A i \in 1..(m + n) : M[i] = IF i <= m THEN K[i] ELSE L[i - m]
    BY <1>1, ConcatProperties, LenProperties
<1>3. d \in Seq(Entry(g)) /\ Len(d) = m /\ \A i \in 1..m : d[i] = [key |-> K[i], values |-> g[K[i]]]
    BY <1>1, AsDictIn
<1>4. e \in Seq(Entry(g)) /\ Len(e) = n /\ \A i \in 1..n : e[i] = [key |-> L[i], values |-> g[L[i]]]
    BY <1>1, AsDictIn
<1>5. f \in Seq(Entry(g)) /\ Len(f) = m + n /\ \A i \in 1..(m + n) : f[i] = [key |-> M[i], values |-> g[M[i]]]
    <2>1. M \in Seq(Keys) /\ f = AsDict(M, g)
        BY <1>1, <1>2
    <2>2. f \in Seq(Entry(g)) /\ Len(f) = Len(M) /\ \A i \in 1..Len(M) : f[i] = [key |-> M[i], values |-> g[M[i]]]
        BY <2>1, AsDictIn
    <2> QED
        BY <1>2, <2>2
<1>6. PICK u, Y : u = d \o e /\ Y = Entry(g)
    OBVIOUS
<1>7. /\ u \in Seq(Entry(g)) /\ Len(u) = m + n
      /\ \A i \in 1..(m + n) : u[i] = IF i <= m THEN d[i] ELSE e[i - m]
    <2>1. d \in Seq(Y) /\ e \in Seq(Y)
        BY <1>3, <1>4, <1>6
    <2>2. /\ u \in Seq(Y) /\ Len(u) = Len(d) + Len(e)
          /\ \A i \in 1..(Len(d) + Len(e)) : u[i] = IF i <= Len(d) THEN d[i] ELSE e[i - Len(d)]
        BY <1>6, <2>1, ConcatProperties
    <2> QED
        BY <1>3, <1>4, <1>6, <2>2
<1>8. ASSUME NEW i \in 1..(m + n) PROVE f[i] = u[i]
    <2>1. CASE i <= m
        <3>1. i \in 1..m
            BY <1>2, <2>1
        <3>2. M[i] = K[i] /\ u[i] = d[i]
            BY <1>2, <1>7, <2>1
        <3> QED
            BY <1>3, <1>5, <3>1, <3>2
    <2>2. CASE ~(i <= m)
        <3>1. i - m \in 1..n
            BY <1>2, <2>2
        <3>2. M[i] = L[i - m] /\ u[i] = e[i - m]
            BY <1>2, <1>7, <2>2
        <3> QED
            BY <1>4, <1>5, <3>1, <3>2
    <2> QED
        BY <2>1, <2>2
<1>9. f = u
    BY <1>5, <1>7, <1>8, SeqEqual
<1> QED
    BY <1>1, <1>6, <1>9

LEMMA AsDictAppend ==
    \A K, k, g : K \in Seq(Keys) /\ k \in Keys =>
        /\ [key |-> k, values |-> g[k]] \in Entry(g)
        /\ AsDict(Append(K, k), g) = Append(AsDict(K, g), [key |-> k, values |-> g[k]])
<1> TAKE K, k, g
<1> HAVE K \in Seq(Keys) /\ k \in Keys
<1>0. PICK e, L : e = [key |-> k, values |-> g[k]] /\ L = <<k>>
    OBVIOUS
<1>1. e \in Entry(g)
    BY <1>0 DEF Entry
<1>2. L \in Seq(Keys) /\ Append(K, k) = K \o L
    BY <1>0, AppendIsConcat
<1>3. AsDict(L, g) = <<e>>
    BY <1>0 DEF AsDict
<1>4. AsDict(K, g) \in Seq(Entry(g))
    BY AsDictIn
<1>5. Append(AsDict(K, g), e) = AsDict(K, g) \o <<e>>
    BY <1>1, <1>4, AppendIsConcat
<1>6. AsDict(K \o L, g) = AsDict(K, g) \o AsDict(L, g)
    BY <1>2, AsDictConcat
<1> QED
    BY <1>0, <1>1, <1>2, <1>3, <1>5, <1>6

LEMMA AsDictOnly ==
    \A g, ks : \A K \in Seq(Keys) : Only(AsDict(K, g), ks) = AsDict(Filter(K, ks), g)
<1> TAKE g, ks
<1> DEFINE T == {K \in Seq(Keys) : Only(AsDict(K, g), ks) = AsDict(Filter(K, ks), g)}
<1>0. AsDict(<<>>, g) = <<>>
    BY DEF AsDict
<1>1. <<>> \in T
    BY <1>0, OnlyEmpty, FilterLaws, EmptySeq
<1>2. ASSUME NEW K \in Seq(Keys), NEW k \in Keys, K \in T PROVE Append(K, k) \in T
    <2>1. PICK d, e, L, Y : d = AsDict(K, g) /\ e = [key |-> k, values |-> g[k]] /\ L = Filter(K, ks) /\ Y = Entry(g)
        OBVIOUS
    <2>2. L \in Seq(Keys) /\ Append(K, k) \in Seq(Keys)
        BY <2>1, FilterLaws, AppendProperties
    <2>3. d \in Seq(Y) /\ e \in Y /\ e.key = k
        BY <2>1, AsDictIn, AsDictAppend
    <2>4. AsDict(Append(K, k), g) = Append(d, e) /\ AsDict(Append(L, k), g) = Append(AsDict(L, g), e)
        BY <2>1, <2>2, AsDictAppend
    <2>5. Filter(Append(K, k), ks) = IF k \in ks THEN Append(L, k) ELSE L
        BY <2>1, FilterLaws
    <2>6. Only(Append(d, e), ks) = OnlyStep(Only(d, ks), e, ks)
        BY <2>3, OnlyAppend
    <2>7. Only(d, ks) = AsDict(L, g)
        BY <1>2, <2>1
    <2> QED
        BY <2>2, <2>3, <2>4, <2>5, <2>6, <2>7 DEF OnlyStep
<1> HIDE DEF T
<1>3. Seq(Keys) \subseteq T
    BY <1>1, <1>2, SeqClimb
<1> QED
    BY <1>3 DEF T

\* The dictionary of the abstract specification is built from the same helpers.
\* MultiDict has its own copy of the operators of Keyed.
LEMMA SameHelpers ==
    /\ \A s : Dict!KeySet(s) = KeySet(s)
    /\ \A s, k : Dict!HasKey(s, k) <=> k \in KeySet(s)
    /\ \A s, ks : Dict!Only(s, ks) = Only(s, ks)
    /\ \A s, k : Dict!Without(s, k) = Only(s, KeySet(s) \ {k})
<1>1. \A s : Dict!KeySet(s) = KeySet(s)
    BY DEF Dict!KeySet, KeySet
<1>2. \A s, ks : Dict!Only(s, ks) = Only(s, ks)
    BY DEF Dict!Only, Only
<1> QED
    BY <1>1, <1>2 DEF Dict!HasKey, Dict!Without

LEMMA LookupIs ==
    \A K, g, k : K \in Seq(Keys) => Dict!Lookup(AsDict(K, g), k) = IF Contains(K, k) THEN g[k] ELSE <<>>
<1> TAKE K, g, k
<1> HAVE K \in Seq(Keys)
<1>1. PICK d, m : d = AsDict(K, g) /\ m = Len(K)
    OBVIOUS
<1>a. DOMAIN d = 1..m /\ \A n \in 1..m : d[n] = [key |-> K[n], values |-> g[K[n]]]
    BY <1>1, AsDictIn
<1>2. DOMAIN d = 1..m /\ \A n \in 1..m : d[n].key = K[n] /\ d[n].values = g[K[n]]
    BY <1>a
<1>3. k \in KeySet(d) <=> Contains(K, k)
    BY <1>1, AsDictKeys
<1>4. CASE Contains(K, k)
    <2>1. \E i \in DOMAIN d : d[i].key = k
        BY <1>3, <1>4 DEF KeySet
    <2>2. PICK i : i = CHOOSE j \in DOMAIN d : d[j].key = k
        OBVIOUS
    <2>3. i \in DOMAIN d /\ d[i].key = k
        BY <2>1, <2>2
    <2>4. Dict!Lookup(d, k) = d[i].values
        BY <1>3, <1>4, <2>2, SameHelpers DEF Dict!Lookup
    <2>5. d[i].values = g[k]
        BY <1>2, <2>3
    <2> QED
        BY <1>1, <1>4, <2>4, <2>5
<1>5. CASE ~Contains(K, k)
    BY <1>1, <1>3, <1>5, SameHelpers DEF Dict!Lookup
<1> QED
    BY <1>4, <1>5

\* g with vs for k.
With(g, k, vs) == [j \in Keys |-> IF j = k THEN vs ELSE g[j]]

LEMMA PutIs ==
    \A K, g, k, vs : K \in Seq(Keys) /\ k \in Keys =>
        Dict!Put(AsDict(K, g), k, vs) = AsDict(IF Contains(K, k) THEN K ELSE Append(K, k), With(g, k, vs))
<1> TAKE K, g, k, vs
<1> HAVE K \in Seq(Keys) /\ k \in Keys
<1>1. PICK d, e, m, h : d = AsDict(K, g) /\ e = [key |-> k, values |-> vs] /\ m = Len(K) /\ h = With(g, k, vs)
    OBVIOUS
<1>2. /\ DOMAIN d = 1..m /\ DOMAIN K = 1..m
      /\ \A n \in 1..m : K[n] \in Keys /\ d[n] = [key |-> K[n], values |-> g[K[n]]]
    BY <1>1, AsDictIn
<1>3. k \in KeySet(d) <=> Contains(K, k)
    BY <1>1, AsDictKeys
<1>4. h[k] = vs /\ \A j \in Keys : j # k => h[j] = g[j]
    BY <1>1 DEF With
<1>5. CASE Contains(K, k)
    <2>1. Dict!Put(d, k, vs) = [i \in DOMAIN d |-> IF d[i].key = k THEN e ELSE d[i]]
        BY <1>1, <1>3, <1>5, SameHelpers DEF Dict!Put
    <2>2. ASSUME NEW i \in 1..m
          PROVE  (IF d[i].key = k THEN e ELSE d[i]) = [key |-> K[i], values |-> h[K[i]]]
        <3>1. d[i].key = K[i] /\ K[i] \in Keys
            BY <1>2
        <3>2. CASE K[i] = k
            BY <1>1, <1>4, <3>1, <3>2
        <3>3. CASE K[i] # k
            BY <1>2, <1>4, <3>1, <3>3
        <3> QED
            BY <3>2, <3>3
    <2>3. [i \in 1..m |-> IF d[i].key = k THEN e ELSE d[i]] = [i \in 1..m |-> [key |-> K[i], values |-> h[K[i]]]]
        BY <2>2
    <2>4. AsDict(K, h) = [i \in 1..m |-> [key |-> K[i], values |-> h[K[i]]]]
        BY <1>2 DEF AsDict
    <2>5. Dict!Put(d, k, vs) = AsDict(K, h)
        BY <1>2, <2>1, <2>3, <2>4
    <2> QED
        BY <1>1, <1>5, <2>5
<1>6. CASE ~Contains(K, k)
    <2>1. Dict!Put(d, k, vs) = Append(d, e)
        BY <1>1, <1>3, <1>6, SameHelpers DEF Dict!Put
    <2>2. \A j \in Keys : Contains(K, j) => g[j] = h[j]
        BY <1>4, <1>6
    <2>3. d = AsDict(K, h)
        BY <1>1, <2>2, AsDictCong
    <2>4. e = [key |-> k, values |-> h[k]]
        BY <1>1, <1>4
    <2>5. AsDict(Append(K, k), h) = Append(d, e)
        BY <2>3, <2>4, AsDictAppend
    <2> QED
        BY <1>1, <1>6, <2>1, <2>5
<1> QED
    BY <1>5, <1>6

\* h for the keys of L, g for the others.
Either(L, h, g) == [k \in Keys |-> IF Contains(L, k) THEN h[k] ELSE g[k]]

LEMMA MergedIs ==
    \A K, g, L, h, ks :
        K \in Seq(Keys) /\ L \in Seq(Keys) /\ ks = KeySet(AsDict(L, h)) \ KeySet(AsDict(K, g)) =>
            Dict!Merged(AsDict(K, g), AsDict(L, h)) = AsDict(K \o Filter(L, ks), Either(L, h, g))
<1> TAKE K, g, L, h, ks
<1> HAVE K \in Seq(Keys) /\ L \in Seq(Keys) /\ ks = KeySet(AsDict(L, h)) \ KeySet(AsDict(K, g))
<1>1. PICK d, e, m, f, M : /\ d = AsDict(K, g) /\ e = AsDict(L, h) /\ m = Len(K) /\ f = Either(L, h, g)
                           /\ M = Filter(L, ks)
    OBVIOUS
<1>2. /\ DOMAIN d = 1..m /\ DOMAIN K = 1..m
      /\ \A n \in 1..m : K[n] \in Keys /\ d[n] = [key |-> K[n], values |-> g[K[n]]]
    BY <1>1, AsDictIn
<1>3. \A k : k \in KeySet(e) <=> Contains(L, k)
    BY <1>1, AsDictKeys
<1>4. \A k \in Keys : f[k] = IF Contains(L, k) THEN h[k] ELSE g[k]
    BY <1>1 DEF Either
<1>5. PICK r : r = [i \in 1..m |-> IF d[i].key \in KeySet(e)
                                   THEN [key |-> d[i].key, values |-> Dict!Lookup(e, d[i].key)] ELSE d[i]]
    OBVIOUS
<1>6. r = AsDict(K, f)
    <2>1. ASSUME NEW i \in 1..m PROVE r[i] = [key |-> K[i], values |-> f[K[i]]]
        <3>1. d[i].key = K[i] /\ K[i] \in Keys
            BY <1>2
        <3>2. r[i] = IF K[i] \in KeySet(e) THEN [key |-> K[i], values |-> Dict!Lookup(e, K[i])] ELSE d[i]
            BY <1>5, <3>1
        <3>3. CASE Contains(L, K[i])
            <4>1. Dict!Lookup(e, K[i]) = h[K[i]]
                BY <1>1, <3>3, LookupIs
            <4> QED
                BY <1>3, <1>4, <3>1, <3>2, <3>3, <4>1
        <3>4. CASE ~Contains(L, K[i])
            BY <1>2, <1>3, <1>4, <3>1, <3>2, <3>4
        <3> QED
            BY <3>3, <3>4
    <2>2. AsDict(K, f) = [i \in 1..m |-> [key |-> K[i], values |-> f[K[i]]]]
        BY <1>2 DEF AsDict
    <2> QED
        BY <1>5, <2>1, <2>2
<1>7. Dict!Merged(d, e) = r \o Only(e, ks)
    <2>1. Dict!Merged(d, e) = [i \in DOMAIN d |-> IF d[i].key \in KeySet(e)
                                   THEN [key |-> d[i].key, values |-> Dict!Lookup(e, d[i].key)] ELSE d[i]]
                              \o Only(e, KeySet(e) \ KeySet(d))
        BY SameHelpers DEF Dict!Merged
    <2> QED
        BY <1>1, <1>2, <1>5, <2>1
<1>8. Only(e, ks) = AsDict(M, f)
    <2>1. Only(e, ks) = AsDict(M, h) /\ M \in Seq(Keys)
        BY <1>1, AsDictOnly, FilterLaws
    <2>2. \A k \in Keys : Contains(M, k) => h[k] = f[k]
        BY <1>1, <1>4, FilterContains
    <2> QED
        BY <2>1, <2>2, AsDictCong
<1>9. AsDict(K \o M, f) = AsDict(K, f) \o AsDict(M, f) /\ M \in Seq(Keys)
    <2>1. M \in Seq(Keys)
        BY <1>1, FilterLaws
    <2> QED
        BY <2>1, AsDictConcat
<1> QED
    BY <1>1, <1>6, <1>7, <1>8, <1>9

-----------------------------------------------------------------------------
(* Every operation does to the dictionary what it does to the vector       *)

LEMMA DictKeys == \A ps \in Seq(Pair) : KeySet(DictOf(ps)) = KeySet(ps)
<1> TAKE ps \in Seq(Pair)
<1>1. PICK K, g : K = KeysOf(ps) /\ g = ListsOf(ps)
    OBVIOUS
<1>2. K \in Seq(Keys) /\ DictOf(ps) = AsDict(K, g)
    BY <1>1, KeysIn, DictIs
<1>3. \A k : k \in KeySet(AsDict(K, g)) <=> Contains(K, k)
    BY <1>2, AsDictKeys
<1>4. \A k : Contains(K, k) <=> k \in KeySet(ps)
    BY <1>1, KeysContain
<1> QED
    BY <1>2, <1>3, <1>4

LEMMA DictParse == \A b \in Seq(Pair) : DictOf(Parse(b)) = DictOf(b)
BY ParseSame, SameDict, GroupedParse

LEMMA DictRemove ==
    \A ps \in Seq(Pair) : \A k : DictOf(RemoveKey(ps, k)) = Dict!Without(DictOf(ps), k)
<1> TAKE ps \in Seq(Pair)
<1> TAKE k
<1>1. PICK ks, q, K, g, h : /\ ks = KeySet(ps) \ {k} /\ q = Only(ps, ks) /\ K = KeysOf(ps)
                            /\ g = ListsOf(ps) /\ h = ListsOf(q)
    OBVIOUS
<1>2. q \in Seq(Pair) /\ K \in Seq(Keys) /\ RemoveKey(ps, k) = q
    BY <1>1, OnlyIn, KeysIn DEF RemoveKey, Without
<1>3. Dict!Without(DictOf(ps), k) = Only(DictOf(ps), ks)
    BY <1>1, SameHelpers, DictKeys
<1>4. DictOf(ps) = AsDict(K, g) /\ DictOf(q) = AsDict(KeysOf(q), h)
    BY <1>1, <1>2, DictIs
<1>5. KeysOf(q) = Filter(K, ks) /\ Filter(K, ks) \in Seq(Keys)
    BY <1>1, <1>2, KeysOnly, FilterLaws
<1>6. Only(AsDict(K, g), ks) = AsDict(Filter(K, ks), g)
    BY <1>2, AsDictOnly
<1>7. ASSUME NEW j \in Keys, Contains(Filter(K, ks), j) PROVE h[j] = g[j]
    <2>1. j \in ks
        BY <1>2, <1>7, FilterContains
    <2>2. WithKey(q, j) = WithKey(ps, j)
        BY <1>1, <2>1, WithKeyOnly
    <2> QED
        BY <1>1, <2>2 DEF ListsOf, GetList
<1>8. AsDict(Filter(K, ks), h) = AsDict(Filter(K, ks), g)
    BY <1>5, <1>7, AsDictCong
<1> QED
    BY <1>2, <1>3, <1>4, <1>5, <1>6, <1>8

LEMMA DictMerge ==
    \A a \in Seq(Pair), b \in Seq(Pair) : DictOf(Merge(a, b)) = Dict!Merged(DictOf(a), DictOf(b))
<1> TAKE a \in Seq(Pair), b \in Seq(Pair)
<1>1. PICK K, L, g, h, q, ks : /\ K = KeysOf(a) /\ L = KeysOf(b) /\ g = ListsOf(a) /\ h = ListsOf(b)
                               /\ q = Merge(a, b) /\ ks = KeySet(b) \ KeySet(a)
    OBVIOUS
<1>2. K \in Seq(Keys) /\ L \in Seq(Keys) /\ q \in Seq(Pair)
    BY <1>1, KeysIn, GroupedMerge
<1>3. DictOf(a) = AsDict(K, g) /\ DictOf(b) = AsDict(L, h) /\ DictOf(q) = AsDict(KeysOf(q), ListsOf(q))
    BY <1>1, <1>2, DictIs
<1>4. PICK M : M = K \o Filter(L, ks)
    OBVIOUS
<1>5. KeysOf(q) = M /\ M \in Seq(Keys)
    <2>1. KeysOf(q) = M
        BY <1>1, <1>4, MergeSays
    <2> QED
        BY <1>2, <2>1, KeysIn
<1>6. ks = KeySet(AsDict(L, h)) \ KeySet(AsDict(K, g))
    BY <1>1, <1>3, DictKeys
<1>7. Dict!Merged(AsDict(K, g), AsDict(L, h)) = AsDict(M, Either(L, h, g))
    BY <1>2, <1>4, <1>6, MergedIs
<1>8. ASSUME NEW k \in Keys PROVE ListsOf(q)[k] = Either(L, h, g)[k]
    <2>1. Contains(L, k) <=> k \in KeySet(b)
        BY <1>1, KeysContain
    <2>2. WithKey(q, k) = IF k \in KeySet(b) THEN WithKey(b, k) ELSE WithKey(a, k)
        BY <1>1, MergeSays
    <2>3. GetList(q, k) = IF k \in KeySet(b) THEN GetList(b, k) ELSE GetList(a, k)
        BY <2>2 DEF GetList
    <2>4. /\ ListsOf(q)[k] = GetList(q, k) /\ h[k] = GetList(b, k) /\ g[k] = GetList(a, k)
        BY <1>1 DEF ListsOf
    <2> QED
        BY <2>1, <2>3, <2>4 DEF Either
<1>9. AsDict(M, ListsOf(q)) = AsDict(M, Either(L, h, g))
    BY <1>5, <1>8, AsDictCong
<1> QED
    BY <1>1, <1>3, <1>5, <1>7, <1>9

LEMMA DictSet ==
    \A ps \in Seq(Pair) : \A k \in Keys, v \in Values :
        DictOf(Set(ps, k, v)) = Dict!Put(DictOf(ps), k, <<v>>)
<1> TAKE ps \in Seq(Pair)
<1> TAKE k \in Keys, v \in Values
<1>1. PICK p, o, q, K, g : /\ p = P(k, v) /\ o = <<p>> /\ q = Merge(ps, o)
                           /\ K = KeysOf(ps) /\ g = ListsOf(ps)
    OBVIOUS
<1>2. p \in Pair /\ p.key = k /\ p.value = v /\ o \in Seq(Pair) /\ KeySet(o) = {k}
    BY <1>1 DEF P, Pair, KeySet
<1>3. K \in Seq(Keys) /\ q \in Seq(Pair) /\ Set(ps, k, v) = q
    BY <1>1, <1>2, KeysIn, GroupedMerge, SetIsMerge
<1>4. KeysOf(o) = <<k>>
    BY <1>2, KeysOne
<1>5. PICK M : M = IF Contains(K, k) THEN K ELSE Append(K, k)
    OBVIOUS
<1>6. KeysOf(q) = M
    <2>1. KeysOf(q) = K \o Filter(<<k>>, {k} \ KeySet(ps))
        BY <1>1, <1>2, <1>4, MergeSays
    <2>2. Contains(K, k) <=> k \in KeySet(ps)
        BY <1>1, KeysContain
    <2>3. PICK ks, e : ks = {k} \ KeySet(ps) /\ e = <<>>
        OBVIOUS
    <2>4. e \in Seq(Keys) /\ Append(e, k) = <<k>> /\ Filter(e, ks) = e
        BY <2>3, EmptySeq, FilterLaws
    <2>5. Filter(Append(e, k), ks) = IF k \in ks THEN Append(Filter(e, ks), k) ELSE Filter(e, ks)
        BY <2>4, FilterLaws
    <2>6. Filter(<<k>>, ks) = IF k \in ks THEN <<k>> ELSE <<>>
        BY <2>3, <2>4, <2>5
    <2>7. K \o <<>> = K /\ K \o <<k>> = Append(K, k)
        BY <1>3, ConcatEmptySeq, AppendIsConcat
    <2> QED
        BY <1>5, <2>1, <2>2, <2>3, <2>6, <2>7
<1>7. M \in Seq(Keys)
    BY <1>3, <1>6, KeysIn
<1>8. ASSUME NEW j \in Keys PROVE ListsOf(q)[j] = With(g, k, <<v>>)[j]
    <2>1. WithKey(q, j) = IF j = k THEN WithKey(o, j) ELSE WithKey(ps, j)
        BY <1>1, <1>2, MergeSays
    <2>2. WithKey(o, k) = o
        <3>1. Only(o, {k}) = o
            BY <1>2, OnlyAll
        <3> QED
            BY <3>1 DEF WithKey
    <2>3. ListsOf(q)[j] = GetList(q, j) /\ g[j] = GetList(ps, j)
        BY <1>1 DEF ListsOf
    <2>4. CASE j = k
        <3>1. GetList(q, j) = [i \in DOMAIN o |-> o[i].value]
            BY <2>1, <2>2, <2>4 DEF GetList
        <3>2. [i \in DOMAIN o |-> o[i].value] = <<v>>
            BY <1>1, <1>2
        <3> QED
            BY <2>3, <2>4, <3>1, <3>2 DEF With
    <2>5. CASE j # k
        BY <2>1, <2>3, <2>5 DEF GetList, With
    <2> QED
        BY <2>4, <2>5
<1>9. AsDict(M, ListsOf(q)) = AsDict(M, With(g, k, <<v>>))
    BY <1>7, <1>8, AsDictCong
<1>10. DictOf(q) = AsDict(M, ListsOf(q)) /\ DictOf(ps) = AsDict(K, g)
    BY <1>1, <1>3, <1>6, DictIs
<1>11. Dict!Put(AsDict(K, g), k, <<v>>) = AsDict(M, With(g, k, <<v>>))
    BY <1>3, <1>5, PutIs
<1> QED
    BY <1>3, <1>9, <1>10, <1>11

LEMMA DictAdd ==
    \A ps \in Seq(Pair) : \A k \in Keys, v \in Values :
        DictOf(Add(ps, k, v)) = Dict!Put(DictOf(ps), k, Append(Dict!Lookup(DictOf(ps), k), v))
<1> TAKE ps \in Seq(Pair)
<1> TAKE k \in Keys, v \in Values
<1>1. PICK p, q, r, K, g : /\ p = P(k, v) /\ q = Append(ps, p) /\ r = Add(ps, k, v)
                           /\ K = KeysOf(ps) /\ g = ListsOf(ps)
    OBVIOUS
<1>2. p \in Pair /\ p.key = k /\ p.value = v
    BY <1>1 DEF P, Pair
<1>3. K \in Seq(Keys) /\ q \in Seq(Pair) /\ r \in Seq(Pair)
    BY <1>1, <1>2, KeysIn, AppendProperties, AddIn
<1>4. DictOf(r) = DictOf(q)
    <2>1. Same(Push(ps, p.key, p.value), Append(ps, p))
        BY <1>2, PushSame
    <2>2. Same(r, q)
        BY <1>1, <1>2, <2>1 DEF Add
    <2> QED
        BY <1>3, <2>2, SameDict
<1>5. Dict!Lookup(AsDict(K, g), k) = g[k] /\ g[k] = GetList(ps, k)
    <2>1. Dict!Lookup(AsDict(K, g), k) = IF Contains(K, k) THEN g[k] ELSE <<>>
        BY <1>3, LookupIs
    <2>2. g[k] = GetList(ps, k)
        BY <1>1 DEF ListsOf
    <2>3. ~Contains(K, k) => g[k] = <<>>
        <3>1. ASSUME ~Contains(K, k) PROVE g[k] = <<>>
            <4>1. WithKey(ps, k) = <<>>
                BY <1>1, <3>1, KeysContain, WithKeyNone
            <4>2. [i \in DOMAIN <<>> |-> <<>>[i].value] = <<>>
                OBVIOUS
            <4> QED
                BY <2>2, <4>1, <4>2 DEF GetList
        <3> QED
            BY <3>1
    <2> QED
        BY <2>1, <2>2, <2>3
<1>6. PICK M, vs : M = (IF Contains(K, k) THEN K ELSE Append(K, k)) /\ vs = Append(GetList(ps, k), v)
    OBVIOUS
<1>7. KeysOf(q) = M /\ M \in Seq(Keys)
    <2>1. KeysOf(q) = IF k \in KeySet(ps) THEN K ELSE Append(K, k)
        BY <1>1, <1>2, KeysNext
    <2>2. Contains(K, k) <=> k \in KeySet(ps)
        BY <1>1, KeysContain
    <2>3. KeysOf(q) = M
        BY <1>6, <2>1, <2>2
    <2> QED
        BY <1>3, <2>3, KeysIn
<1>8. ASSUME NEW j \in Keys PROVE ListsOf(q)[j] = With(g, k, vs)[j]
    <2>1. WithKey(q, j) = IF k = j THEN Append(WithKey(ps, j), p) ELSE WithKey(ps, j)
        BY <1>1, <1>2, WithKeyAppend
    <2>2. ListsOf(q)[j] = GetList(q, j) /\ g[j] = GetList(ps, j)
        BY <1>1 DEF ListsOf
    <2>3. CASE j = k
        <3>1. GetList(q, k) = vs
            <4>1. PICK w, n, u : w = WithKey(ps, k) /\ n = Len(w) /\ u = Append(w, p)
                OBVIOUS
            <4>2. w \in Seq(Pair) /\ n \in Nat /\ DOMAIN w = 1..n
                BY <4>1, WithKeyIn, LenProperties
            <4>3. u \in Seq(Pair) /\ Len(u) = n + 1 /\ u[n + 1] = p /\ \A i \in 1..n : u[i] = w[i]
                BY <1>2, <4>1, <4>2, AppendProperties
            <4>4. DOMAIN u = 1..(n + 1)
                BY <4>3, LenProperties
            <4>5. GetList(q, k) = [i \in 1..(n + 1) |-> u[i].value]
                BY <2>1, <2>3, <4>1, <4>4 DEF GetList
            <4>6. PICK l : l = [i \in 1..n |-> w[i].value]
                OBVIOUS
            <4>7. GetList(ps, k) = l
                BY <4>1, <4>2, <4>6 DEF GetList
            <4>8. \A i \in 1..n : w[i].value \in Values
                <5>1. \A i \in 1..n : w[i] \in Pair
                    BY <4>2, LenProperties
                <5> QED
                    BY <5>1 DEF Pair
            <4>9. l \in Seq(Values) /\ Len(l) = n
                <5>1. l \in [1..n -> Values]
                    BY <4>6, <4>8
                <5>2. l \in Seq(Values)
                    BY <4>2, <5>1
                <5> QED
                    BY <4>2, <5>1, <5>2, LenProperties
            <4>10. PICK x : x = Append(l, v)
                OBVIOUS
            <4>11. x \in Seq(Values) /\ Len(x) = n + 1 /\ x[n + 1] = v /\ \A i \in 1..n : x[i] = l[i]
                BY <4>9, <4>10, AppendProperties
            <4>12. x = [i \in 1..(n + 1) |-> x[i]]
                BY <4>11, LenProperties
            <4>13. ASSUME NEW i \in 1..(n + 1) PROVE x[i] = u[i].value
                <5>1. i \in 1..n \/ i = n + 1
                    BY <4>2
                <5> QED
                    BY <1>2, <4>3, <4>6, <4>11, <5>1
            <4>14. x = [i \in 1..(n + 1) |-> u[i].value]
                BY <4>12, <4>13
            <4> QED
                BY <1>6, <4>5, <4>7, <4>10, <4>14
        <3> QED
            BY <2>2, <2>3, <3>1 DEF With
    <2>4. CASE j # k
        BY <2>1, <2>2, <2>4 DEF GetList, With
    <2> QED
        BY <2>3, <2>4
<1>9. AsDict(M, ListsOf(q)) = AsDict(M, With(g, k, vs))
    BY <1>7, <1>8, AsDictCong
<1>10. DictOf(q) = AsDict(M, ListsOf(q)) /\ DictOf(ps) = AsDict(K, g)
    BY <1>1, <1>3, <1>7, DictIs
<1>11. Dict!Put(AsDict(K, g), k, vs) = AsDict(M, With(g, k, vs))
    BY <1>3, <1>6, PutIs
<1> QED
    BY <1>1, <1>4, <1>5, <1>6, <1>9, <1>10, <1>11

-----------------------------------------------------------------------------
(* The refinement                                                          *)

\* No key is listed twice.
Once(K) == \A i, j \in 1..Len(K) : K[i] = K[j] => i = j

LEMMA KeysOnce == \A b \in Seq(Pair) : Once(KeysOf(b))
<1> DEFINE T == {b \in Seq(Pair) : Once(KeysOf(b))}
<1>1. <<>> \in T
    BY KeysEmpty, EmptySeq DEF Once
<1>2. ASSUME NEW b \in Seq(Pair), NEW x \in Pair, b \in T PROVE Append(b, x) \in T
    <2>1. PICK K, n, L : K = KeysOf(b) /\ n = Len(K) /\ L = Append(K, x.key)
        OBVIOUS
    <2>2. K \in Seq(Keys) /\ x.key \in Keys /\ Append(b, x) \in Seq(Pair)
        BY <2>1, KeysIn, AppendProperties DEF Pair
    <2>3. KeysOf(Append(b, x)) = IF Contains(K, x.key) THEN K ELSE L
        BY <2>1, KeysAppend DEF AddKey
    <2>4. n \in Nat /\ Len(L) = n + 1 /\ L[n + 1] = x.key /\ \A i \in 1..n : L[i] = K[i]
        BY <2>1, <2>2, AppendProperties, LenProperties
    <2>5. Once(K)
        BY <1>2, <2>1
    <2>6. ASSUME ~Contains(K, x.key) PROVE Once(L)
        <3>1. \A i \in 1..n : K[i] # x.key
            BY <2>1, <2>6 DEF Contains
        <3>2. \A i \in 1..(n + 1) : i \in 1..n \/ i = n + 1
            BY <2>4
        <3>3. \A i, j \in 1..n : K[i] = K[j] => i = j
            BY <2>1, <2>5 DEF Once
        <3>4. \A i, j \in 1..(n + 1) : L[i] = L[j] => i = j
            BY <2>4, <3>1, <3>2, <3>3
        <3> QED
            BY <2>4, <3>4 DEF Once
    <2> QED
        BY <2>2, <2>3, <2>5, <2>6
<1> HIDE DEF T
<1>3. Seq(Pair) \subseteq T
    BY <1>1, <1>2, SeqClimb
<1> QED
    BY <1>3 DEF T

\* What MultiDict asks of a dictionary to start with.
IsDict(d) ==
    \A i \in DOMAIN d :
        /\ d[i].key \in Keys /\ d[i].values # <<>>
        /\ \A j \in DOMAIN d : d[j].key = d[i].key => j = i

\* A key that is there has a value.
LEMMA ListsNotEmpty == \A ps \in Seq(Pair) : \A k \in KeySet(ps) : GetList(ps, k) # <<>>
<1> TAKE ps \in Seq(Pair)
<1> TAKE k \in KeySet(ps)
<1>1. PICK w : w = WithKey(ps, k)
    OBVIOUS
<1>2. k \in KeySet(w)
    BY <1>1, WithKeyKeys
<1>3. PICK i \in DOMAIN w : w[i].key = k
    BY <1>2 DEF KeySet
<1>4. GetList(ps, k) = [j \in DOMAIN w |-> w[j].value]
    BY <1>1 DEF GetList
<1>5. DOMAIN GetList(ps, k) = DOMAIN w
    BY <1>4
<1>6. DOMAIN <<>> = {}
    OBVIOUS
<1> QED
    BY <1>3, <1>5, <1>6

LEMMA PairsAreDict == \A ps \in Seq(Pair) : IsDict(DictOf(ps))
<1> TAKE ps \in Seq(Pair)
<1>1. PICK K, g, d, m : K = KeysOf(ps) /\ g = ListsOf(ps) /\ d = DictOf(ps) /\ m = Len(K)
    OBVIOUS
<1>2. K \in Seq(Keys) /\ d = AsDict(K, g) /\ Once(K)
    BY <1>1, KeysIn, DictIs, KeysOnce
<1>3. /\ DOMAIN d = 1..m
      /\ \A n \in 1..m : K[n] \in Keys /\ d[n] = [key |-> K[n], values |-> g[K[n]]]
    BY <1>1, <1>2, AsDictIn
<1>4. \A n \in 1..m : K[n] \in KeySet(ps)
    <2>1. \A n \in 1..m : Contains(K, K[n])
        BY <1>1 DEF Contains
    <2> QED
        BY <1>1, <2>1, KeysContain
<1>5. \A n \in 1..m : g[K[n]] # <<>>
    <2>1. \A n \in 1..m : g[K[n]] = GetList(ps, K[n])
        BY <1>1, <1>3 DEF ListsOf
    <2> QED
        BY <1>4, <2>1, ListsNotEmpty
<1>6. \A n \in 1..m : d[n].key = K[n] /\ d[n].values = g[K[n]]
    BY <1>3
<1>7. \A i, j \in 1..m : K[i] = K[j] => i = j
    BY <1>1, <1>2 DEF Once
<1>8. IsDict(d)
    BY <1>3, <1>5, <1>6, <1>7 DEF IsDict
<1> QED
    BY <1>1, <1>8

\* The queries of the keyword arguments, as pairs and as dictionaries.
LEMMA QueriesAre == \A kwargs : Queries(kwargs) = {DictOf(q) : q \in Given(kwargs)}
BY DEF Queries, Given

LEMMA BroughtHas ==
    /\ \A other \in References : DictOf(other.query) \in Brought
    /\ \A kwargs \in Kwargs : Queries(kwargs) \subseteq Brought
BY DEF Brought

LEMMA DictEmpty == DictOf(<<>>) = <<>>
<1>1. \A f : DOMAIN f = {} => [n \in DOMAIN f |-> [key |-> f[n], values |-> GetList(<<>>, f[n])]] = <<>>
    OBVIOUS
<1>2. DOMAIN <<>> = {}
    OBVIOUS
<1> QED
    BY <1>1, <1>2, KeysEmpty DEF DictOf

LEMMA DictInit == Init => Dict!Init
<1> SUFFICES ASSUME Init PROVE Dict!Init
    OBVIOUS
<1>1. pairs \in Seq(Pair) /\ url.query \in Seq(Pair)
    BY PairsInit DEF HasPairs
<1>2. \A d \in {DictOf(pairs), DictOf(url.query)} : IsDict(d)
    BY <1>1, PairsAreDict
<1>3. called = <<>>
    BY DEF Init
<1> QED
    BY <1>2, <1>3 DEF Dict!Init, IsDict

\* A call that leaves the URL and makes the dictionary of the params object d.
LEMMA ParamsBecome ==
    ASSUME NEW ps, NewParams(ps)
    PROVE  DictOf(pairs)' = DictOf(ps) /\ UNCHANGED DictOf(url.query)
<1>1. pairs' = ps /\ url' = url
    BY DEF NewParams
<1> QED
    BY <1>1

\* A call that leaves the params object and makes the dictionary of the query d.
LEMMA QueryBecomes ==
    ASSUME NEW u, NewUrl(u)
    PROVE  DictOf(url.query)' = DictOf(u.query) /\ UNCHANGED DictOf(pairs) /\ u # Invalid
<1>1. pairs' = pairs /\ url' = u
    BY DEF NewUrl
<1> QED
    BY <1>1 DEF NewUrl

LEMMA ParamsOfUrl ==
    ASSUME HasPairs, NEW ps, NewUrl(WithParams(url, ps))
    PROVE  DictOf(url.query)' = DictOf(ps) /\ UNCHANGED DictOf(pairs)
<1>1. PICK u : u = WithParams(url, ps)
    OBVIOUS
<1>2. DictOf(url.query)' = DictOf(u.query) /\ UNCHANGED DictOf(pairs) /\ u # Invalid
    BY <1>1, QueryBecomes
<1>3. u.query = ps
    BY <1>1, <1>2, ParamsQuery DEF HasPairs
<1> QED
    BY <1>2, <1>3

\* Every call does to the two dictionaries what the call of its name does.
LEMMA DictStep == HasPairs /\ [Next]_vars => [Dict!Next]_(Dict!vars)
<1> SUFFICES ASSUME HasPairs, [Next]_vars PROVE Dict!Next \/ UNCHANGED Dict!vars
    OBVIOUS
<1>0. pairs \in Seq(Pair) /\ IsUrl(url) /\ url.query \in Seq(Pair)
    BY DEF HasPairs
<1>a. PICK r : r = Parse(url.query)
    OBVIOUS
<1>b. r \in Seq(Pair) /\ DictOf(r) = DictOf(url.query)
    BY <1>0, <1>a, GroupedParse, DictParse
<1>3. CASE SetParam
    <2>1. PICK k \in Keys, v \in Values : called' = <<"set", k, v>> /\ NewParams(Set(pairs, k, v))
        BY <1>3 DEF SetParam
    <2>2. DictOf(pairs)' = Dict!Put(DictOf(pairs), k, <<v>>) /\ UNCHANGED DictOf(url.query)
        BY <1>0, <2>1, ParamsBecome, DictSet
    <2>3. Dict!SetParam(k, v)
        BY <2>1, <2>2 DEF Dict!SetParam
    <2> QED
        BY <2>3 DEF Dict!Next
<1>4. CASE AddParam
    <2>1. PICK k \in Keys, v \in Values : called' = <<"add", k, v>> /\ NewParams(Add(pairs, k, v))
        BY <1>4 DEF AddParam
    <2>2. /\ DictOf(pairs)' = Dict!Put(DictOf(pairs), k, Append(Dict!Lookup(DictOf(pairs), k), v))
          /\ UNCHANGED DictOf(url.query)
        BY <1>0, <2>1, ParamsBecome, DictAdd
    <2>3. Dict!AddParam(k, v)
        BY <2>1, <2>2 DEF Dict!AddParam
    <2> QED
        BY <2>3 DEF Dict!Next
<1>5. CASE RemoveParam
    <2>1. PICK k \in Keys : called' = <<"remove", k>> /\ NewParams(RemoveKey(pairs, k))
        BY <1>5 DEF RemoveParam
    <2>2. DictOf(pairs)' = Dict!Without(DictOf(pairs), k) /\ UNCHANGED DictOf(url.query)
        BY <1>0, <2>1, ParamsBecome, DictRemove
    <2>3. Dict!RemoveParam(k)
        BY <2>1, <2>2 DEF Dict!RemoveParam
    <2> QED
        BY <2>3 DEF Dict!Next
<1>6. CASE UrlParams
    <2>1. called' = <<"params">> /\ NewParams(r)
        BY <1>a, <1>6 DEF UrlParams
    <2>2. DictOf(pairs)' = DictOf(url.query) /\ UNCHANGED DictOf(url.query)
        BY <1>b, <2>1, ParamsBecome
    <2>3. Dict!UrlParams
        BY <2>1, <2>2 DEF Dict!UrlParams
    <2> QED
        BY <2>3 DEF Dict!Next
<1>7. CASE MergeParams
    <2>1. called' = <<"merge">> /\ NewParams(Merge(pairs, r))
        BY <1>a, <1>7 DEF MergeParams
    <2>2. /\ DictOf(pairs)' = Dict!Merged(DictOf(pairs), DictOf(url.query))
          /\ UNCHANGED DictOf(url.query)
        BY <1>0, <1>b, <2>1, ParamsBecome, DictMerge
    <2>3. Dict!MergeParams
        BY <2>1, <2>2 DEF Dict!MergeParams
    <2> QED
        BY <2>3 DEF Dict!Next
<1>8. CASE CopySetParam
    <2>1. PICK k \in Keys, v \in Values :
              called' = <<"copy_set_param", k, v>> /\ NewUrl(WithParams(url, Set(r, k, v)))
        BY <1>a, <1>8 DEF CopySetParam
    <2>2. DictOf(url.query)' = Dict!Put(DictOf(url.query), k, <<v>>) /\ UNCHANGED DictOf(pairs)
        BY <1>b, <2>1, ParamsOfUrl, DictSet
    <2>3. Dict!CopySetParam(k, v)
        BY <2>1, <2>2 DEF Dict!CopySetParam
    <2> QED
        BY <2>3 DEF Dict!Next
<1>9. CASE CopyAddParam
    <2>1. PICK k \in Keys, v \in Values :
              called' = <<"copy_add_param", k, v>> /\ NewUrl(WithParams(url, Add(r, k, v)))
        BY <1>a, <1>9 DEF CopyAddParam
    <2>2. /\ DictOf(url.query)' = Dict!Put(DictOf(url.query), k,
                                           Append(Dict!Lookup(DictOf(url.query), k), v))
          /\ UNCHANGED DictOf(pairs)
        BY <1>b, <2>1, ParamsOfUrl, DictAdd
    <2>3. Dict!CopyAddParam(k, v)
        BY <2>1, <2>2 DEF Dict!CopyAddParam
    <2> QED
        BY <2>3 DEF Dict!Next
<1>10. CASE CopyRemoveParam
    <2>1. PICK k \in Keys :
              called' = <<"copy_remove_param", k>> /\ NewUrl(WithParams(url, RemoveKey(r, k)))
        BY <1>a, <1>10 DEF CopyRemoveParam
    <2>2. DictOf(url.query)' = Dict!Without(DictOf(url.query), k) /\ UNCHANGED DictOf(pairs)
        BY <1>b, <2>1, ParamsOfUrl, DictRemove
    <2>3. Dict!CopyRemoveParam(k)
        BY <2>1, <2>2 DEF Dict!CopyRemoveParam
    <2> QED
        BY <2>3 DEF Dict!Next
<1>11. CASE CopyMergeParams
    <2>1. called' = <<"copy_merge_params">> /\ NewUrl(WithParams(url, Merge(r, pairs)))
        BY <1>a, <1>11 DEF CopyMergeParams
    <2>2. /\ DictOf(url.query)' = Dict!Merged(DictOf(url.query), DictOf(pairs))
          /\ UNCHANGED DictOf(pairs)
        BY <1>0, <1>b, <2>1, ParamsOfUrl, DictMerge
    <2>3. Dict!CopyMergeParams
        BY <2>1, <2>2 DEF Dict!CopyMergeParams
    <2> QED
        BY <2>3 DEF Dict!Next
<1>12. CASE RequestParams
    <2>1. PICK u : u = [url EXCEPT !.query = pairs]
        OBVIOUS
    <2>2. called' = <<"request">> /\ NewUrl(u)
        BY <1>12, <2>1 DEF RequestParams
    <2>3. u.query = pairs
        BY <1>0, <2>1, EmptyParts DEF IsUrl, Parts
    <2>4. DictOf(url.query)' = DictOf(pairs) /\ UNCHANGED DictOf(pairs)
        BY <2>2, <2>3, QueryBecomes
    <2>5. Dict!RequestParams
        BY <2>2, <2>4 DEF Dict!RequestParams
    <2> QED
        BY <2>5 DEF Dict!Next
<1>13. CASE Join
    <2>1. PICK other \in References :
              called' = <<"join", DictOf(other.query)>> /\ NewUrl(JoinUrl(url, other))
        BY <1>13 DEF Join
    <2>2. IsUrl(other)
        BY UrlAssumption
    <2>3. PICK u, d : u = JoinUrl(url, other) /\ d = DictOf(other.query)
        OBVIOUS
    <2>4. DictOf(url.query)' = DictOf(u.query) /\ UNCHANGED DictOf(pairs) /\ u # Invalid
        BY <2>1, <2>3, QueryBecomes
    <2>5. u.query = other.query \/ (other.query = <<>> /\ u.query = url.query)
        BY <1>0, <2>2, <2>3, <2>4, JoinQuery DEF JoinsQuery
    <2>6. DictOf(u.query) \in IF d = <<>> THEN {DictOf(url.query), <<>>} ELSE {d}
        BY <2>3, <2>5, DictEmpty
    <2>7. Dict!Join(d)
        BY <2>1, <2>3, <2>4, <2>6 DEF Dict!Join
    <2>8. d \in Brought
        BY <2>3, BroughtHas
    <2> QED
        BY <2>7, <2>8 DEF Dict!Next
<1>14. CASE Copy
    <2>0. PICK kwargs \in Kwargs :
              \E u \in CopyWith(url, kwargs) : called' = <<"copy_with", Queries(kwargs)>> /\ NewUrl(u)
        BY <1>14 DEF Copy
    <2>1. PICK u \in CopyWith(url, kwargs) : called' = <<"copy_with", Queries(kwargs)>> /\ NewUrl(u)
        BY <2>0
    <2>2. PICK ds : ds = Queries(kwargs)
        OBVIOUS
    <2>3. DictOf(url.query)' = DictOf(u.query) /\ UNCHANGED DictOf(pairs)
        BY <2>1, QueryBecomes
    <2>4. u.query \in IF Given(kwargs) = {} THEN {url.query} ELSE Given(kwargs)
        BY <1>0, CopyQuery
    <2>5. ds = {DictOf(q) : q \in Given(kwargs)}
        BY <2>2, QueriesAre
    <2>6. DictOf(u.query) \in IF ds = {} THEN {DictOf(url.query)} ELSE ds
        BY <2>4, <2>5
    <2>7. Dict!Copy(ds)
        BY <2>1, <2>2, <2>3, <2>6 DEF Dict!Copy
    <2>8. ds \in SUBSET Brought
        BY <2>2, BroughtHas
    <2> QED
        BY <2>7, <2>8 DEF Dict!Next
<1>15. CASE UNCHANGED vars
    <2>1. pairs' = pairs /\ url' = url /\ called' = called
        BY <1>15 DEF vars
    <2> QED
        BY <2>1 DEF Dict!vars
<1> QED
    BY <1>3, <1>4, <1>5, <1>6, <1>7, <1>8, <1>9, <1>10, <1>11, <1>12, <1>13, <1>14, <1>15 DEF Next

\* query_params.rs:44-45 and 116: for any keys, values and number of pairs,
\* each call a program makes on its params object or on its URL does to two
\* dictionaries from a key to its list of values what a call of that name with
\* these arguments does, in order, and leaves the other one.
THEOREM QueryIsDict == Spec => ImplementsMultiDict
BY DictInit, DictStep, AlwaysPairs, PTL DEF Spec, ImplementsMultiDict, Dict!Spec

-----------------------------------------------------------------------------
(* Paths that begin with a slash                                           *)

\* The empty segment, by a name: numbers and texts do not go well together in
\* one step.
Gap == ""

LEMMA GapIs == Gap \in Names /\ Gap \in Segments
BY EmptyName DEF Gap

LEMMA RootedIs == \A p : Path(p) => (Rooted(p) <=> Len(p) > 1 /\ p[1] = Gap)
<1> TAKE p
<1> HAVE Path(p)
<1>1. p \in Seq(Segments) /\ p # <<>>
    BY DEF Path
<1>2. Head(p) = p[1]
    BY <1>1
<1> QED
    BY <1>2 DEF Rooted, Gap

LEMMA TwoSlashesIs == \A p : TwoSlashes(p) <=> Len(p) > 2 /\ p[1] = Gap /\ p[2] = Gap
BY DEF TwoSlashes, Gap

LEMMA SlashBefore ==
    \A q : Path(q) => /\ Path(<<Gap>> \o q) /\ Rooted(<<Gap>> \o q) /\ Len(<<Gap>> \o q) = Len(q) + 1
                      /\ \A i \in 1..Len(q) : (<<Gap>> \o q)[i + 1] = q[i]
<1> TAKE q
<1> HAVE Path(q)
<1>1. PICK s, p, n : s = <<Gap>> /\ p = s \o q /\ n = Len(q)
    OBVIOUS
<1>2. q \in Seq(Segments) /\ n \in Nat /\ n > 0
    BY <1>1, PathLength
<1>3. s \in Seq(Segments) /\ Len(s) = 1 /\ s[1] = Gap
    BY <1>1, OneSegment, GapIs
<1>4. /\ p \in Seq(Segments) /\ Len(p) = 1 + n
      /\ \A i \in 1..(1 + n) : p[i] = IF i <= 1 THEN s[i] ELSE q[i - 1]
    <2>1. /\ p \in Seq(Segments) /\ Len(p) = Len(s) + Len(q)
          /\ \A i \in 1..(Len(s) + Len(q)) : p[i] = IF i <= Len(s) THEN s[i] ELSE q[i - Len(s)]
        BY <1>1, <1>2, <1>3, ConcatProperties
    <2> QED
        BY <1>1, <1>3, <2>1
<1>5. Len(p) > 1 /\ Len(p) = n + 1 /\ p[1] = Gap /\ \A i \in 1..n : p[i + 1] = q[i]
    <2>1. 1 \in 1..(1 + n) /\ \A i \in 1..n : i + 1 \in 1..(1 + n) /\ ~(i + 1 <= 1) /\ i + 1 - 1 = i
        BY <1>2
    <2>2. Len(p) > 1 /\ Len(p) = n + 1
        BY <1>2, <1>4
    <2> QED
        BY <1>3, <1>4, <2>1, <2>2
<1>6. Path(p)
    <2>1. Len(<<>>) = 0
        BY EmptySeq
    <2> QED
        BY <1>2, <1>4, <2>1 DEF Path
<1> QED
    BY <1>1, <1>5, <1>6, RootedIs

LEMMA FrontRooted ==
    \A p, q : Path(p) /\ Rooted(p) /\ Path(q) => Path(Front(p) \o q) /\ Rooted(Front(p) \o q)
<1> TAKE p, q
<1> HAVE Path(p) /\ Rooted(p) /\ Path(q)
<1>1. PICK f, t, m, n : f = Front(p) /\ t = f \o q /\ m = Len(p) /\ n = Len(q)
    OBVIOUS
<1>2. p \in Seq(Segments) /\ q \in Seq(Segments) /\ m \in Nat /\ n \in Nat /\ m > 1 /\ n > 0 /\ p[1] = Gap
    BY <1>1, PathLength, RootedIs
<1>3. f \in Seq(Segments) /\ Len(f) = m - 1 /\ p = f \o <<p[m]>> /\ p[m] \in Segments
    <2>1. m > 0
        BY <1>2
    <2> QED
        BY <1>1, <1>2, <2>1, FrontIs
<1>4. PICK k, x : k = Len(f) /\ x = <<p[m]>>
    OBVIOUS
<1>5. k \in Nat /\ k > 0 /\ k = m - 1
    BY <1>2, <1>3, <1>4
<1>6. f[1] = Gap
    <2>1. x \in Seq(Segments) /\ Len(x) = 1
        BY <1>3, <1>4, OneSegment
    <2>2. \A i \in 1..(k + 1) : p[i] = IF i <= k THEN f[i] ELSE x[i - k]
        BY <1>3, <1>4, <2>1, ConcatProperties
    <2>3. 1 \in 1..(k + 1) /\ 1 <= k
        BY <1>5
    <2> QED
        BY <1>2, <2>2, <2>3
<1>7. /\ t \in Seq(Segments) /\ Len(t) = k + n
      /\ \A i \in 1..(k + n) : t[i] = IF i <= k THEN f[i] ELSE q[i - k]
    BY <1>1, <1>2, <1>3, <1>4, ConcatProperties
<1>8. Len(t) > 1 /\ t[1] = Gap
    <2>1. 1 \in 1..(k + n) /\ 1 <= k /\ k + n > 1
        BY <1>2, <1>5
    <2> QED
        BY <1>6, <1>7, <2>1
<1>9. Path(t)
    BY <1>1, <1>2, <1>3, PathConcat
<1> QED
    BY <1>1, <1>8, <1>9, RootedIs

\* What trim_start_matches takes off a path with one slash before it or none.
LEMMA TrimAt ==
    ASSUME NEW p, Path(p), NEW k \in 1..Len(p),
           \A i \in 1..Len(p) : i < k => p[i] = Gap /\ i # Len(p),
           p[k] # Gap \/ k = Len(p)
    PROVE  Trim(p) = SubSeq(p, k, Len(p))
<1>0. PICK n : n = Len(p)
    OBVIOUS
<1>1. n \in Nat /\ DOMAIN p = 1..n /\ k \in 1..n
    BY <1>0, PathLength, LenProperties
<1>2. PICK kept : kept = {i \in DOMAIN p : p[i] # Gap} \cup {n}
    OBVIOUS
<1>a. n \in 1..n
    BY <1>1, SMT
<1>b. \A j \in kept : j \in 1..n /\ (j = n \/ p[j] # Gap)
    BY <1>1, <1>2, <1>a
<1>3. k \in kept
    BY <1>0, <1>1, <1>2
<1>c. \A j \in kept : ~(j < k)
    BY <1>0, <1>b
<1>4. \A j \in kept : k <= j
    <2>1. ASSUME NEW j \in 1..n, ~(j < k) PROVE k <= j
        BY <1>1, <2>1
    <2> QED
        BY <1>b, <1>c, <2>1
<1>5. PICK first : first = CHOOSE i \in kept : \A j \in kept : i <= j
    OBVIOUS
<1>6. first \in kept /\ \A j \in kept : first <= j
    BY <1>3, <1>4, <1>5
<1>7. first = k
    <2>1. first <= k /\ k <= first /\ first \in 1..n
        BY <1>3, <1>4, <1>6, <1>b
    <2> QED
        BY <1>1, <2>1
<1> QED
    BY <1>0, <1>2, <1>5, <1>7 DEF Trim, Gap

LEMMA TrimUnrooted == \A p : Path(p) /\ ~Rooted(p) => Trim(p) = p
<1> TAKE p
<1> HAVE Path(p) /\ ~Rooted(p)
<1>1. p \in Seq(Segments) /\ Len(p) \in Nat /\ Len(p) > 0 /\ (Len(p) > 1 => p[1] # Gap)
    BY PathLength, RootedIs
<1>2. 1 \in 1..Len(p) /\ (p[1] # Gap \/ 1 = Len(p)) /\ \A i \in 1..Len(p) : ~(i < 1)
    BY <1>1
<1>3. Trim(p) = SubSeq(p, 1, Len(p))
    BY <1>2, TrimAt
<1> QED
    BY <1>1, <1>3, SubSeqFull

LEMMA TrimRooted ==
    \A p : Path(p) /\ Rooted(p) /\ ~TwoSlashes(p) => <<Gap>> \o Trim(p) = p
<1> TAKE p
<1> HAVE Path(p) /\ Rooted(p) /\ ~TwoSlashes(p)
<1>1. p \in Seq(Segments) /\ Len(p) \in Nat /\ Len(p) > 1 /\ p[1] = Gap
    BY PathLength, RootedIs
<1>2. p[2] # Gap \/ 2 = Len(p)
    <2>1. p[2] # Gap \/ ~(Len(p) > 2)
        BY <1>1, TwoSlashesIs
    <2>2. ~(Len(p) > 2) => 2 = Len(p)
        <3>1. \A n \in Nat : n > 1 /\ ~(n > 2) => 2 = n
            OBVIOUS
        <3> QED
            BY <1>1, <3>1, Zenon
    <2> QED
        BY <2>1, <2>2
<1>3. 2 \in 1..Len(p) /\ \A i \in 1..Len(p) : i < 2 => i = 1 /\ i # Len(p)
    BY <1>1
<1>4. Trim(p) = SubSeq(p, 2, Len(p))
    BY <1>1, <1>2, <1>3, TrimAt
<1>5. SubSeq(p, 1, Len(p)) = <<p[1]>> \o SubSeq(p, 2, Len(p))
    <2>1. 1 \in 1..Len(p) /\ Len(p) \in 1..Len(p) /\ 1 + 1 = 2
        BY <1>1
    <2>2. SubSeq(p, 1, Len(p)) = <<p[1]>> \o SubSeq(p, 1 + 1, Len(p))
        BY <1>1, <2>1, SubSeqRecursiveFirst
    <2> QED
        BY <2>1, <2>2
<1> QED
    BY <1>1, <1>4, <1>5, SubSeqFull

LEMMA SlashRooted == \A q : Path(q) => Path(<<"">> \o q) /\ Rooted(<<"">> \o q)
BY SlashBefore DEF Gap

\* The path as it is resolved from the root of a site.
Root(p) == IF Rooted(p) THEN p ELSE <<"">> \o p

LEMMA RootIs ==
    \A p : Path(p) => /\ Path(Root(p)) /\ Rooted(Root(p)) /\ Path(Trim(p))
                      /\ ~TwoSlashes(p) => <<"">> \o Trim(p) = Root(p)
BY SlashRooted, TrimUnrooted, TrimRooted, TrimPath DEF Root, Gap

-----------------------------------------------------------------------------
(* RemoveDots on a path without dots and on a path with a slash before it  *)

LEMMA DotsOfNames == \A p : p \in Seq(Names) /\ p # <<>> => RemoveDots(p) = p
<1> TAKE p
<1> HAVE p \in Seq(Names) /\ p # <<>>
<1>0. PICK n : n = Len(p)
    OBVIOUS
<1>1. n \in Nat /\ n > 0 /\ \A i \in 1..n : p[i] \in Names
    <2>1. n \in Nat /\ n # 0 /\ \A i \in 1..n : p[i] \in Names
        BY <1>0, EmptySeq, LenProperties
    <2> QED
        BY <2>1
<1>2. PICK d : Run(p, d, n) /\ Fold(p) = d[n]
    BY <1>0, FoldIsRun
<1> DEFINE T == {k \in Nat : k \in 0..n => d[k] = SubSeq(p, 1, k)}
<1>3. 0 \in T
    <2>1. d[0] = <<>>
        BY <1>2 DEF Run
    <2>2. SubSeq(p, 1, 0) = <<>>
        BY SubSeqEmpty
    <2> QED
        BY <2>1, <2>2
<1>4. ASSUME NEW k \in 1..n, k - 1 \in T PROVE k \in T
    <2>1. k \in Nat /\ k - 1 \in 0..n /\ 1 \in 1..k /\ k \in 1..n
        BY <1>1
    <2>2. d[k - 1] = SubSeq(p, 1, k - 1) /\ p[k] \in Names
        BY <1>1, <1>4, <2>1
    <2>3. d[k] = Append(d[k - 1], p[k])
        <3>1. d[k] = DotStep(d[k - 1], p[k])
            BY <1>2 DEF Run
        <3> QED
            BY <2>2, <3>1, StepOnName
    <2>4. SubSeq(p, 1, k - 1) \in Seq(Names)
        <3>1. 1 \in Int /\ k - 1 \in Int /\ \A i \in 1..(k - 1) : p[i] \in Names
            BY <1>1, <2>1
        <3> QED
            BY <3>1, SubSeqProperties
    <2>5. SubSeq(p, 1, k) = SubSeq(p, 1, k - 1) \o <<p[k]>>
        <3>1. 1 \in 1..Len(p) /\ k \in 1..Len(p)
            BY <1>0, <1>1
        <3>2. k \in 1..Len(p) /\ 1 \in 1..k
            BY <2>1, <3>1
        <3> QED
            BY <3>1, <3>2, SubSeqRecursiveSecond
    <2>6. Append(SubSeq(p, 1, k - 1), p[k]) = SubSeq(p, 1, k - 1) \o <<p[k]>>
        BY <2>2, <2>4, AppendIsConcat
    <2> QED
        BY <2>1, <2>2, <2>3, <2>5, <2>6
<1> HIDE DEF T
<1>5. 0..n \subseteq T
    BY <1>1, <1>3, <1>4, Climb
<1>6. d[n] = p
    <2>1. n \in 0..n
        BY <1>1
    <2>2. d[n] = SubSeq(p, 1, n)
        BY <1>5, <2>1 DEF T
    <2> QED
        BY <1>0, <2>2, SubSeqFull
<1>7. Last(p) = p[n] /\ p[n] \in Names
    <2>1. n \in 1..n
        BY <1>1
    <2> QED
        BY <1>0, <1>1, <2>1 DEF Last
<1> QED
    BY <1>2, <1>6, <1>7, RemoveDotsIs DEF Names

\* A path that begins with an empty segment.
Led(s) == s \in Seq(Names) /\ Len(s) > 0 /\ s[1] = Gap

LEMMA AppendLed == \A s, x : Led(s) /\ x \in Names => Led(Append(s, x)) /\ Len(Append(s, x)) > 1
<1> TAKE s, x
<1> HAVE Led(s) /\ x \in Names
<1>1. PICK n, t : n = Len(s) /\ t = Append(s, x)
    OBVIOUS
<1>2. n \in Nat /\ n > 0 /\ s[1] = Gap /\ s \in Seq(Names)
    BY <1>1, LenProperties DEF Led
<1>3. t \in Seq(Names) /\ Len(t) = n + 1 /\ \A i \in 1..n : t[i] = s[i]
    BY <1>1, <1>2, AppendProperties
<1>4. 1 \in 1..n /\ n + 1 > 1 /\ n + 1 > 0
    BY <1>2
<1> QED
    BY <1>1, <1>2, <1>3, <1>4 DEF Led

LEMMA StepLed == \A s, x : Led(s) /\ x \in Segments => Led(DotStep(s, x))
<1> TAKE s, x
<1> HAVE Led(s) /\ x \in Segments
<1>1. CASE x = "."
    BY <1>1 DEF DotStep
<1>2. CASE x = ".."
    <2>1. ASSUME Len(s) > 1 PROVE Led(Front(s))
        <3>1. PICK n, f : n = Len(s) /\ f = Front(s)
            OBVIOUS
        <3>2. n \in Nat /\ n > 1 /\ n > 0 /\ s \in Seq(Names) /\ s[1] = Gap
            BY <2>1, <3>1, LenProperties DEF Led
        <3>3. f \in Seq(Names) /\ Len(f) = n - 1 /\ s = Append(f, s[n]) /\ s[n] \in Names
            BY <3>1, <3>2, FrontIs
        <3>4. \A i \in 1..Len(f) : Append(f, s[n])[i] = f[i]
            BY <3>3, AppendProperties
        <3>5. 1 \in 1..(n - 1) /\ n - 1 > 0
            BY <3>2
        <3>6. f[1] = Gap
            BY <3>2, <3>3, <3>4, <3>5
        <3> QED
            BY <3>1, <3>3, <3>5, <3>6 DEF Led
    <2> QED
        BY <1>2, <2>1 DEF DotStep
<1>3. CASE x \notin {".", ".."}
    BY <1>3, AppendLed DEF DotStep, Names
<1> QED
    BY <1>1, <1>2, <1>3

LEMMA DotsRooted ==
    \A p : Path(p) /\ Rooted(p) => /\ RemoveDots(p) \in Seq(Names) /\ Path(RemoveDots(p))
                                   /\ Rooted(RemoveDots(p)) /\ RemoveDots(RemoveDots(p)) = RemoveDots(p)
<1> TAKE p
<1> HAVE Path(p) /\ Rooted(p)
<1>0. PICK n, x : n = Len(p) /\ x = p[n]
    OBVIOUS
<1>1. p \in Seq(Segments) /\ n \in Nat /\ n > 1 /\ p[1] = Gap /\ \A i \in 1..n : p[i] \in Segments
    BY <1>0, PathLength, RootedIs, LenProperties
<1>2. PICK d : Run(p, d, n) /\ Fold(p) = d[n]
    BY <1>0, <1>1, FoldIsRun
<1> DEFINE T == {k \in Nat : k \in 1..n => Led(d[k])}
<1>3. 0 \in T
    OBVIOUS
<1>4. ASSUME NEW k \in 1..n, k - 1 \in T PROVE k \in T
    <2>0. d[k] = DotStep(d[k - 1], p[k]) /\ k \in Nat
        BY <1>1, <1>2 DEF Run
    <2>1. CASE k = 1
        <3>1. d[1] = Append(<<>>, Gap)
            <4>1. d[0] = <<>> /\ 1 - 1 = 0
                BY <1>2 DEF Run
            <4>2. d[1] = DotStep(<<>>, Gap)
                BY <1>1, <2>0, <2>1, <4>1
            <4> QED
                BY <4>2, StepOnName, GapIs
        <3>2. Append(<<>>, Gap) = <<Gap>> /\ <<Gap>> \in Seq(Names) /\ Len(<<Gap>>) = 1 /\ <<Gap>>[1] = Gap
            BY GapIs, OneSegment
        <3>3. Led(d[1])
            BY <3>1, <3>2 DEF Led
        <3> QED
            BY <2>0, <2>1, <3>3
    <2>2. CASE k # 1
        <3>1. k - 1 \in 1..n
            BY <1>1, <2>0, <2>2
        <3>2. Led(d[k - 1]) /\ p[k] \in Segments
            BY <1>1, <1>4, <3>1
        <3>3. Led(d[k])
            BY <2>0, <3>2, StepLed
        <3> QED
            BY <2>0, <3>3
    <2> QED
        BY <2>1, <2>2
<1> HIDE DEF T
<1>5. 0..n \subseteq T
    BY <1>1, <1>3, <1>4, Climb
<1>6. Led(d[n]) /\ Led(d[n - 1]) /\ d[n] = DotStep(d[n - 1], x)
    <2>1. n \in 0..n /\ n - 1 \in 0..n /\ n \in 1..n /\ n - 1 \in 1..n
        BY <1>1
    <2> QED
        BY <1>0, <1>2, <1>5, <2>1 DEF T, Run
<1>7. Last(p) = x /\ x \in Segments
    <2>1. n \in 1..n
        BY <1>1
    <2> QED
        BY <1>0, <1>1, <2>1 DEF Last
<1>8. PICK r : r = RemoveDots(p)
    OBVIOUS
<1>9. Led(r) /\ Len(r) > 1
    <2>1. CASE x \in {".", ".."}
        <3>1. r = Append(d[n], Gap)
            BY <1>2, <1>7, <1>8, <2>1, RemoveDotsIs DEF Gap
        <3> QED
            BY <1>6, <3>1, AppendLed, GapIs
    <2>2. CASE x \notin {".", ".."}
        <3>1. r = d[n]
            BY <1>2, <1>7, <1>8, <2>2, RemoveDotsIs
        <3>2. x \in Names /\ d[n] = Append(d[n - 1], x)
            BY <1>6, <1>7, <2>2, StepOnName DEF Names
        <3> QED
            BY <1>6, <3>1, <3>2, AppendLed
    <2> QED
        BY <2>1, <2>2
<1>10. r \in Seq(Names) /\ Path(r) /\ r # <<>>
    BY <1>8, RemoveDotsNames, NamesPath
<1> QED
    BY <1>8, <1>9, <1>10, RootedIs, DotsOfNames DEF Led

-----------------------------------------------------------------------------
(* Every operation yields a URL that normalisation does not change         *)

\* Behind an authority a path is empty or begins with a slash.
Fine(u) == Good(u) /\ (u.net => u.path = <<"">> \/ Rooted(u.path))

Settled(u) == Fine(u) /\ Normal(u) = u

LEMMA EmptyPath == Path(<<"">>) /\ Path(<<"", "">>) /\ Rooted(<<"", "">>) /\ RemoveDots(<<"">>) = <<"">>
<1>1. Path(<<"">>) /\ <<"">> \in Seq(Names) /\ <<"">> # <<>>
    BY OnePath, OneSegment, EmptyName
<1>2. Path(<<"", "">>)
    BY ConstantsAreGood DEF Good, Plain, Anchor, Empty
<1>3. Rooted(<<"", "">>)
    <2>1. Len(<<"", "">>) = 2 /\ <<"", "">>[1] = ""
        OBVIOUS
    <2>2. 2 > 1
        OBVIOUS
    <2> QED
        BY <1>2, <2>1, <2>2, RootedIs DEF Gap
<1> QED
    BY <1>1, <1>2, <1>3, DotsOfNames

LEMMA NormalSettles == \A u : Fine(u) => Settled(Normal(u))
<1> TAKE u
<1> HAVE Fine(u)
<1>0. Good(u) /\ IsUrl(u) /\ Good(Normal(u))
    BY NormalGood DEF Fine, Good
<1>1. CASE u.scheme = "" \/ ~(u.net \/ Rooted(u.path))
    BY <1>1 DEF Normal, Settled
<1>2. CASE u.scheme # "" /\ (u.net \/ Rooted(u.path))
    <2>1. PICK p, q, r : /\ p = u.path /\ q = (IF p = <<"">> /\ u.scheme = "http" THEN <<"", "">> ELSE p)
                         /\ r = RemoveDots(q)
        OBVIOUS
    <2>2. Path(p) /\ (p = <<"">> \/ Rooted(p))
        BY <1>0, <1>2, <2>1 DEF Good, Fine
    <2>3. q = <<"">> \/ (Path(q) /\ Rooted(q))
        BY <2>1, <2>2, EmptyPath
    <2>4. u.scheme = "http" => q # <<"">>
        BY <2>1, <2>2, EmptyPath, EmptyNotRooted
    <2>5. RemoveDots(r) = r /\ (r = <<"">> \/ Rooted(r))
        BY <2>1, <2>3, DotsRooted, EmptyPath
    <2>6. u.scheme = "http" => r # <<"">>
        BY <2>1, <2>3, <2>4, DotsRooted, EmptyNotRooted
    <2>a. u.net \/ Rooted(r)
        BY <1>2, <2>1, <2>3, DotsRooted, EmptyNotRooted
    <2>7. PICK t : t = IF u.scheme = "http" /\ u.port = "80" THEN "" ELSE u.port
        OBVIOUS
    <2>8. Normal(u) = [u EXCEPT !.path = r, !.port = t]
        BY <1>0, <1>2, <2>1, <2>7, EmptyParts DEF Normal, IsUrl, Parts
    <2>9. PICK n : n = Normal(u)
        OBVIOUS
    <2>10. n.path = r /\ n.port = t /\ n.scheme = u.scheme /\ n.net = u.net /\ IsUrl(n)
        BY <1>0, <2>8, <2>9, EmptyParts DEF Good, IsUrl, Parts
    <2>11. u.scheme = "http" => t # "80"
        BY <2>7
    <2>12. Normal(n) = n
        BY <1>2, <2>5, <2>6, <2>a, <2>10, <2>11, EmptyParts DEF Normal, IsUrl, Parts
    <2> QED
        BY <1>0, <2>5, <2>9, <2>10, <2>12 DEF Settled, Fine
<1> QED
    BY <1>1, <1>2

LEMMA ReadFine == \A u : Fine(u) => Read(u) = Invalid \/ Fine(Read(u))
<1> TAKE u
<1> HAVE Fine(u)
<1>0. Good(u) /\ IsUrl(u) /\ Answer(Read(u))
    BY ReadGood DEF Fine, Good
<1>1. PICK p, r : p = u.path /\ r = SubSeq(p, 4, Len(p))
    OBVIOUS
<1>2. <<"">> \o r = <<"">> \/ Rooted(<<"">> \o r)
    <2>1. r \in Seq(Segments)
        <3>1. Path(p) /\ 4 \in Nat /\ 4 > 0
            BY <1>0, <1>1 DEF Good
        <3> QED
            BY <1>1, <3>1, PathPieces, Zenon
    <2>2. CASE r = <<>>
        BY <2>2
    <2>3. CASE r # <<>>
        BY <2>1, <2>3, SlashRooted DEF Path
    <2> QED
        BY <2>2, <2>3
<1>3. CASE u.scheme # "" \/ u.net
    BY <1>3 DEF Read
<1>4. CASE u.scheme = "" /\ ~u.net /\ TwoSlashes(p) /\ p[3] # Colon
    <2>1. Read(u) = [u EXCEPT !.net = TRUE, !.host = p[3], !.path = <<"">> \o r]
        BY <1>0, <1>1, <1>4, EmptyParts DEF Read, IsUrl, Parts
    <2>2. Read(u).path = <<"">> \o r
        BY <1>0, <2>1, EmptyParts DEF IsUrl, Parts
    <2> QED
        BY <1>0, <1>2, <2>2 DEF Fine, Answer
<1>5. CASE u.scheme = "" /\ ~u.net /\ TwoSlashes(p) /\ p[3] = Colon
    BY <1>1, <1>5 DEF Read
<1>6. CASE u.scheme = "" /\ ~u.net /\ ~TwoSlashes(p)
    <2>1. Read(u) = u \/ Read(u).net = u.net
        BY <1>0, <1>1, <1>6, EmptyParts DEF Read, IsUrl, Parts
    <2> QED
        BY <1>0, <1>6, <2>1 DEF Fine, Answer
<1> QED
    BY <1>3, <1>4, <1>5, <1>6

LEMMA ParseSettles == \A u : Fine(u) => ParseUrl(u) = Invalid \/ Settled(ParseUrl(u))
BY ReadFine, NormalSettles, InvalidNormal DEF ParseUrl

LEMMA TransformFine == \A b, u : Fine(b) /\ Fine(u) => Fine(Transform(b, u))
<1> TAKE b, u
<1> HAVE Fine(b) /\ Fine(u)
<1>1. PICK p, q, t : p = b.path /\ q = u.path /\ t = Transform(b, u)
    OBVIOUS
<1>2. Good(b) /\ Good(u) /\ Good(t) /\ Path(p) /\ Path(q) /\ IsUrl(b) /\ IsUrl(u)
    BY <1>1, TransformGood DEF Fine, Good
<1>3. Rooted(<<"">> \o q) /\ (Rooted(p) => Rooted(Front(p) \o q))
    BY <1>2, SlashRooted, FrontRooted
<1>4. u.net \/ (t.net = b.net /\ t.path \in {p, q, <<"">> \o q, Front(p) \o q})
    BY <1>1, <1>2, EmptyParts DEF Transform, IsUrl, Parts
<1>5. CASE u.net
    <2>1. t.net = u.net /\ t.path = q
        BY <1>1, <1>2, <1>5, EmptyParts DEF Transform, IsUrl, Parts
    <2> QED
        BY <1>1, <1>2, <1>5, <2>1 DEF Fine
<1>6. CASE ~u.net /\ ~b.net
    BY <1>1, <1>2, <1>4, <1>6 DEF Fine
<1>7. CASE ~u.net /\ b.net
    <2>1. p = <<"">> \/ Rooted(p)
        BY <1>1, <1>7 DEF Fine
    <2>2. t.path = IF q = <<"">> THEN p ELSE IF Rooted(q) THEN q
                   ELSE IF p = <<"">> THEN <<"">> \o q ELSE Front(p) \o q
        BY <1>1, <1>2, <1>7, EmptyParts DEF Transform, IsUrl, Parts
    <2>3. t.path = <<"">> \/ Rooted(t.path)
        BY <1>3, <2>1, <2>2
    <2> QED
        BY <1>1, <1>2, <2>3 DEF Fine
<1> QED
    BY <1>5, <1>6, <1>7

LEMMA UrlJoinSettles ==
    \A b, u : Fine(b) /\ Fine(u) => /\ UrlJoin(b, u) = Invalid \/ Settled(UrlJoin(b, u))
                                    /\ b.net => Settled(UrlJoin(b, u))
BY NormalSettles, TransformFine DEF UrlJoin

LEMMA WrittenFine == \A u : Good(u) => Fine(Written(u))
<1> TAKE u
<1> HAVE Good(u)
<1>1. PICK p, w : p = u.path /\ w = Written(u)
    OBVIOUS
<1>2. Path(p) /\ IsUrl(u) /\ Good(w) /\ Rooted(<<"">> \o p)
    BY <1>1, WrittenGood, SlashRooted DEF Good
<1>3. CASE u.host = ""
    <2>1. w.net = FALSE
        BY <1>1, <1>2, <1>3, EmptyParts DEF Written, IsUrl, Parts
    <2> QED
        BY <1>1, <1>2, <2>1 DEF Fine
<1>4. CASE u.host # ""
    <2>1. w.path = IF p = <<"">> \/ Rooted(p) THEN p ELSE <<"">> \o p
        BY <1>1, <1>2, <1>4, EmptyParts DEF Written, IsUrl, Parts
    <2> QED
        BY <1>1, <1>2, <2>1 DEF Fine
<1> QED
    BY <1>3, <1>4

LEMMA ComposeSettles ==
    \A b, named : Good(b) /\ ("path" \in DOMAIN named => Path(named.path)) =>
        Compose(b, named) = Invalid \/ Settled(Compose(b, named))
BY OverGood, WrittenFine, ParseSettles DEF Compose

LEMMA CopySettles ==
    ASSUME NEW b, Settled(b), NEW kwargs \in Kwargs, NEW u \in CopyWith(b, kwargs)
    PROVE  Settled(u)
<1>0. Good(b)
    BY DEF Settled, Fine
<1>1. CASE DOMAIN kwargs = {}
    BY <1>1 DEF CopyWith
<1>2. CASE DOMAIN kwargs # {}
    <2>1. PICK named \in Components(kwargs) : u = Compose(b, named) /\ u # Invalid
        BY <1>2 DEF CopyWith
    <2> QED
        BY <1>0, <2>1, NamedPath, ComposeSettles
<1> QED
    BY <1>1, <1>2

LEMMA ParamsSettles ==
    \A b, ps : Good(b) => WithParams(b, ps) = Invalid \/ Settled(WithParams(b, ps))
<1> SUFFICES ASSUME NEW b, NEW ps, Good(b) PROVE WithParams(b, ps) = Invalid \/ Settled(WithParams(b, ps))
    OBVIOUS
<1>1. "path" \notin DOMAIN [query |-> ps]
    OBVIOUS
<1> QED
    BY <1>1, ComposeSettles DEF WithParams

LEMMA QuerySettles == \A u, q : Settled(u) => Settled([u EXCEPT !.query = q])
<1> TAKE u, q
<1> HAVE Settled(u)
<1>1. Good(u) /\ IsUrl(u) /\ Normal(u) = u /\ Path(u.path)
    BY DEF Settled, Fine, Good
<1>2. PICK w : w = [u EXCEPT !.query = q]
    OBVIOUS
<1>3. /\ IsUrl(w) /\ w.path = u.path /\ w.net = u.net
    BY <1>1, <1>2, EmptyParts DEF IsUrl, Parts
<1>4. Normal(w) = [Normal(u) EXCEPT !.query = q]
    BY <1>1, <1>2, EmptyParts DEF Normal, IsUrl, Parts
<1> QED
    BY <1>1, <1>2, <1>3, <1>4 DEF Settled, Fine, Good

-----------------------------------------------------------------------------
(* join_relative                                                           *)

LEMMA SameParts ==
    \A u, w : /\ IsUrl(u) /\ IsUrl(w) /\ u.scheme = w.scheme /\ u.net = w.net /\ u.user = w.user
              /\ u.host = w.host /\ u.port = w.port /\ u.path = w.path /\ u.query = w.query
              /\ u.fragment = w.fragment
              => u = w
<1> TAKE u, w
<1> HAVE /\ IsUrl(u) /\ IsUrl(w) /\ u.scheme = w.scheme /\ u.net = w.net /\ u.user = w.user
         /\ u.host = w.host /\ u.port = w.port /\ u.path = w.path /\ u.query = w.query
         /\ u.fragment = w.fragment
<1>1. u = [f \in Parts |-> u[f]] /\ w = [f \in Parts |-> w[f]]
    BY EmptyParts DEF IsUrl
<1>2. \A f \in Parts : u[f] = w[f]
    BY DEF Parts
<1> QED
    BY <1>1, <1>2

\* The path a path q leads to from p.
Resolve(p, q) ==
    IF q = <<"">> THEN p ELSE IF Rooted(q) THEN RemoveDots(q) ELSE RemoveDots(Front(p) \o q)

\* The path of a site: one slash before it, no dots.
Clean(p) == Path(p) /\ Rooted(p) /\ RemoveDots(p) = p

LEMMA ResolveClean == \A p, q : Clean(p) /\ Path(q) => Clean(Resolve(p, q))
BY DotsRooted, FrontRooted DEF Clean, Resolve

LEMMA CleanDots == \A p : Path(p) /\ Rooted(p) => Clean(RemoveDots(p))
BY DotsRooted DEF Clean

LEMMA CleanNotEmpty == \A p : Clean(p) => p # <<"">>
BY EmptyNotRooted DEF Clean

\* A URL that references are resolved from.
IsSite(r) == IsUrl(r) /\ r.scheme = "http" /\ r.net /\ r.port # "80" /\ Clean(r.path)

QueryOf(b, u) == IF u.path = <<"">> /\ u.query = <<>> THEN b.query ELSE u.query

LEMMA JoinAt ==
    ASSUME NEW r, IsSite(r), NEW u, Good(u), u.scheme = "", ~u.net
    PROVE  UrlJoin(r, u) = [r EXCEPT !.path = Resolve(r.path, u.path), !.query = QueryOf(r, u),
                                     !.fragment = u.fragment]
<1>1. PICK p, q, t : p = r.path /\ q = u.path /\ t = Transform(r, u)
    OBVIOUS
<1>2. /\ IsUrl(r) /\ IsUrl(u) /\ IsUrl(t) /\ Path(q) /\ Clean(p) /\ p # <<"">>
      /\ r.scheme = "http" /\ r.net /\ r.port # "80"
    BY <1>1, TransformIsUrl, CleanNotEmpty DEF IsSite, Good
<1>3. PICK s : s = IF q = <<"">> THEN p ELSE IF Rooted(q) THEN q ELSE Front(p) \o q
    OBVIOUS
<1>4. t = [r EXCEPT !.path = s, !.query = QueryOf(r, u), !.fragment = u.fragment]
    BY <1>1, <1>2, <1>3, EmptyParts DEF Transform, QueryOf, IsUrl, Parts
<1>5. UrlJoin(r, u) = Normal(t)
    BY <1>1, <1>2 DEF UrlJoin
<1>6. s # <<"">> /\ RemoveDots(s) = Resolve(p, q)
    BY <1>2, <1>3, FrontRooted, EmptyNotRooted DEF Resolve, Clean
<1>7. t.scheme = "http" /\ t.net /\ t.port # "80" /\ t.path = s
    BY <1>2, <1>4, EmptyParts DEF IsUrl, Parts
<1>8. Normal(t) = [t EXCEPT !.path = RemoveDots(s)]
    BY <1>2, <1>6, <1>7, EmptyParts DEF Normal, IsUrl, Parts
<1> QED
    BY <1>1, <1>2, <1>4, <1>5, <1>6, <1>8, EmptyParts DEF IsUrl, Parts

\* What join_relative borrows, and what it makes of the outcome.
Start(b) == Normal([Anchor EXCEPT !.path = <<"">> \o Trim(b.path), !.query = b.query])

Text(b, u) ==
    [UrlJoin(Start(b), u) EXCEPT !.scheme = "", !.net = b.net, !.user = b.user,
                                 !.host = b.host, !.port = b.port,
                                 !.path = IF b.net \/ Rooted(b.path) \/ Rooted(u.path)
                                          THEN @ ELSE Trim(@)]

LEMMA JoinRelativeIs ==
    \A b, u : JoinRelative(b, u) = IF u.scheme # "" \/ u.net THEN ParseUrl(u) ELSE ParseUrl(Text(b, u))
BY DEF JoinRelative, Start, Text

LEMMA StartIs ==
    ASSUME NEW b, Good(b)
    PROVE  /\ IsSite(Start(b)) /\ Start(b).path = RemoveDots(<<"">> \o Trim(b.path))
           /\ Start(b).query = b.query
<1>1. PICK p, a : p = <<"">> \o Trim(b.path) /\ a = [Anchor EXCEPT !.path = p, !.query = b.query]
    OBVIOUS
<1>2. Path(p) /\ Rooted(p) /\ p # <<"">>
    BY <1>1, SlashRooted, TrimPath, EmptyNotRooted DEF Good
<1>3. IsUrl(Anchor) /\ Anchor.scheme = "http" /\ Anchor.net /\ Anchor.port = ""
    BY ConstantsAreUrls, EmptyParts DEF Anchor, Empty, Parts
<1>4. /\ IsUrl(a) /\ a.scheme = "http" /\ a.net /\ a.port = "" /\ a.path = p /\ a.query = b.query
    BY <1>1, <1>3, EmptyParts DEF IsUrl, Parts
<1>5. PICK n : n = Normal(a)
    OBVIOUS
<1>6. /\ n.scheme = "http" /\ n.net /\ n.port = "" /\ n.path = RemoveDots(p) /\ n.query = b.query
      /\ IsUrl(n)
    BY <1>2, <1>4, <1>5, EmptyParts DEF Normal, IsUrl, Parts
<1>7. Start(b) = n
    BY <1>1, <1>5 DEF Start
<1>8. Clean(RemoveDots(p))
    BY <1>2, CleanDots
<1> QED
    BY <1>1, <1>6, <1>7, <1>8 DEF IsSite

\* The path that is left when the borrowed base is taken off.
PathLeft(b, u) ==
    LET path == Resolve(RemoveDots(<<"">> \o Trim(b.path)), u.path)
    IN  IF b.net \/ Rooted(b.path) \/ Rooted(u.path) THEN path ELSE Trim(path)

LEMMA TextIs ==
    ASSUME NEW b, Good(b), b.scheme = "", NEW u, Good(u), u.scheme = "", ~u.net
    PROVE  /\ Text(b, u) = [b EXCEPT !.path = PathLeft(b, u), !.query = QueryOf(b, u),
                                     !.fragment = u.fragment]
           /\ Clean(Resolve(RemoveDots(<<"">> \o Trim(b.path)), u.path))
           /\ Fine(Text(b, u))
<1>1. PICK s, a, j, q, t : /\ s = Start(b) /\ a = RemoveDots(<<"">> \o Trim(b.path)) /\ j = UrlJoin(s, u)
                           /\ q = QueryOf(b, u) /\ t = Resolve(a, u.path)
    OBVIOUS
<1>2. IsSite(s) /\ s.path = a /\ s.query = b.query /\ Clean(a) /\ IsUrl(s) /\ IsUrl(b) /\ Path(u.path)
    BY <1>1, StartIs DEF IsSite, Good
<1>3. QueryOf(s, u) = q
    BY <1>1, <1>2 DEF QueryOf
<1>4. j = [s EXCEPT !.path = t, !.query = q, !.fragment = u.fragment]
    <2>1. UrlJoin(s, u) = [s EXCEPT !.path = Resolve(s.path, u.path), !.query = QueryOf(s, u),
                                    !.fragment = u.fragment]
        BY <1>2, JoinAt
    <2> QED
        BY <1>1, <1>2, <1>3, <2>1
<1>5. Clean(t)
    BY <1>1, <1>2, ResolveClean
<1>6. PICK x : x = PathLeft(b, u)
    OBVIOUS
<1>7. x = IF b.net \/ Rooted(b.path) \/ Rooted(u.path) THEN t ELSE Trim(t)
    BY <1>1, <1>6 DEF PathLeft
<1>8. Text(b, u) = [j EXCEPT !.scheme = "", !.net = b.net, !.user = b.user,
                             !.host = b.host, !.port = b.port, !.path = x]
    BY <1>1, <1>2, <1>4, <1>7, EmptyParts DEF Text, IsUrl, Parts
<1>9. Text(b, u) = [b EXCEPT !.path = x, !.query = q, !.fragment = u.fragment]
    <2>1. PICK v, w : /\ v = [b EXCEPT !.path = x, !.query = q, !.fragment = u.fragment]
                      /\ w = Text(b, u)
        OBVIOUS
    <2>2. /\ IsUrl(v) /\ v.scheme = "" /\ v.net = b.net /\ v.user = b.user /\ v.host = b.host
          /\ v.port = b.port /\ v.path = x /\ v.query = q /\ v.fragment = u.fragment
        BY <1>2, <2>1, EmptyParts DEF IsUrl, Parts
    <2>3. IsUrl(j) /\ j.query = q /\ j.fragment = u.fragment
        BY <1>2, <1>4, EmptyParts DEF IsUrl, Parts
    <2>4. /\ IsUrl(w) /\ w.scheme = "" /\ w.net = b.net /\ w.user = b.user /\ w.host = b.host
          /\ w.port = b.port /\ w.path = x /\ w.query = q /\ w.fragment = u.fragment
        BY <1>8, <2>1, <2>3, EmptyParts DEF IsUrl, Parts
    <2>5. v = w
        BY <2>2, <2>4, SameParts
    <2> QED
        BY <2>1, <2>5
<1>10. PICK w : w = Text(b, u)
    OBVIOUS
<1>11. IsUrl(w) /\ w.net = b.net /\ w.path = x
    BY <1>2, <1>9, <1>10, EmptyParts DEF IsUrl, Parts
<1>12. Path(x) /\ (b.net => Rooted(x))
    BY <1>5, <1>7, TrimPath DEF Clean
<1> QED
    BY <1>1, <1>5, <1>6, <1>9, <1>10, <1>11, <1>12 DEF Fine, Good

LEMMA JoinSettles ==
    \A b, u : Settled(b) /\ Fine(u) => JoinUrl(b, u) = Invalid \/ Settled(JoinUrl(b, u))
<1> TAKE b, u
<1> HAVE Settled(b) /\ Fine(u)
<1>1. Fine(b) /\ Good(b) /\ Good(u)
    BY DEF Settled, Fine
<1>2. CASE u = Empty
    BY <1>2 DEF JoinUrl
<1>3. CASE u # Empty /\ b.scheme # ""
    BY <1>1, <1>3, UrlJoinSettles DEF JoinUrl
<1>4. CASE u # Empty /\ b.scheme = ""
    <2>1. JoinUrl(b, u) = JoinRelative(b, u)
        BY <1>4 DEF JoinUrl
    <2>2. CASE u.scheme # "" \/ u.net
        BY <2>1, <2>2, JoinRelativeIs, ParseSettles
    <2>3. CASE u.scheme = "" /\ ~u.net
        <3>1. Fine(Text(b, u))
            BY <1>1, <1>4, <2>3, TextIs
        <3>2. JoinUrl(b, u) = ParseUrl(Text(b, u))
            BY <2>1, <2>3, JoinRelativeIs
        <3> QED
            BY <3>1, <3>2, ParseSettles
    <2> QED
        BY <2>2, <2>3
<1> QED
    BY <1>2, <1>3, <1>4

\* The inductive invariant: normalising the URL once more changes nothing.
IsSettled == Settled(url)

LEMMA TextsAreFine == \A text \in Places \cup References : Fine(text) /\ Read(text) = text
BY UrlAssumption, PlacesAreGood DEF Fine

LEMMA PlainSettled == Settled(Plain)
<1>1. Good(Plain) /\ Plain.path = <<"", "">> /\ Plain.scheme = "http" /\ Plain.net = TRUE /\ Plain.port = ""
    BY ConstantsAreGood DEF Plain, Anchor, Empty
<1>2. Path(<<"", "">>) /\ Rooted(<<"", "">>)
    BY EmptyPath
<1>3. Fine(Plain)
    BY <1>1, <1>2 DEF Fine
<1>4. RemoveDots(<<"", "">>) = <<"", "">>
    <2>1. <<"", "">> \in Seq(Names) /\ <<"", "">> # <<>>
        <3>1. <<"", "">> \in Seq({""}) /\ <<"", "">> # <<>>
            BY OneOrTwo
        <3>2. {""} \subseteq Names
            BY EmptyName
        <3> QED
            BY <3>1, <3>2, SeqMonotonic
    <2> QED
        BY <2>1, DotsOfNames
<1>5. IsUrl(Plain) /\ <<"", "">> # <<"">>
    BY <1>2, ConstantsAreUrls, EmptyNotRooted
<1>6. Normal(Plain) = Plain
    BY <1>1, <1>4, <1>5, EmptyParts DEF Normal, IsUrl, Parts
<1> QED
    BY <1>3, <1>6 DEF Settled

LEMMA SettledInit == Init => IsSettled
<1>1. ASSUME NEW q PROVE Settled([Plain EXCEPT !.query = q])
    BY PlainSettled, QuerySettles
<1>2. ASSUME NEW text \in Places PROVE Settled(ParseUrl(text))
    BY TextsAreFine, PlacesAreGood, NormalSettles
<1> QED
    BY <1>1, <1>2 DEF Init, IsSettled

LEMMA SettledStep == IsSettled /\ [Next]_vars => IsSettled'
<1> SUFFICES ASSUME Settled(url), [Next]_vars PROVE Settled(url')
    BY DEF IsSettled
<1>0. Good(url)
    BY DEF Settled, Fine
<1>1. CASE SetParam \/ AddParam \/ RemoveParam \/ UrlParams \/ MergeParams \/ UNCHANGED vars
    BY <1>1 DEF SetParam, AddParam, RemoveParam, UrlParams, MergeParams, NewParams, vars
<1>2. CASE CopySetParam \/ CopyAddParam \/ CopyRemoveParam \/ CopyMergeParams
    BY <1>0, <1>2, ParamsSettles
    DEF CopySetParam, CopyAddParam, CopyRemoveParam, CopyMergeParams, NewUrl
<1>3. CASE RequestParams
    BY <1>3, QuerySettles DEF RequestParams, NewUrl
<1>4. CASE Join
    BY <1>4, TextsAreFine, JoinSettles DEF Join, NewUrl
<1>5. CASE Copy
    BY <1>5, CopySettles DEF Copy, NewUrl
<1> QED
    BY <1>1, <1>2, <1>3, <1>4, <1>5 DEF Next

LEMMA AlwaysSettled == Spec => []IsSettled
BY SettledInit, SettledStep, PTL DEF Spec

-----------------------------------------------------------------------------
(* JoinResolves                                                            *)

\* The site a reference without a scheme is on, seen from Plain.
Site(b) == IF b.net THEN b ELSE Plain

\* A path of two empty segments, for any x in place of the empty segment.
LEMMA Twice == \A x : Front(<<x, x>>) = <<x>> /\ <<x>> \o <<x>> = <<x, x>>
<1> TAKE x
<1>1. PICK s, t : s = <<x>> /\ t = <<x, x>>
    OBVIOUS
<1>2. /\ s \in Seq({x}) /\ Len(s) = 1 /\ s[1] = x
      /\ t \in Seq({x}) /\ Len(t) = 2 /\ t[1] = x /\ t[2] = x
    BY <1>1
<1>3. s \o s = t
    <2>1. PICK p : p = s \o s
        OBVIOUS
    <2>2. /\ p \in Seq({x}) /\ Len(p) = Len(s) + Len(s)
          /\ \A i \in 1..(Len(s) + Len(s)) : p[i] = IF i <= Len(s) THEN s[i] ELSE s[i - Len(s)]
        BY <1>2, <2>1, ConcatProperties
    <2>3. 1 \in 1..(1 + 1) /\ 2 \in 1..(1 + 1) /\ 1 <= 1 /\ ~(2 <= 1) /\ 2 - 1 = 1 /\ 1 + 1 = 2
        OBVIOUS
    <2>4. Len(p) = 2 /\ p[1] = x /\ p[2] = x
        BY <1>2, <2>2, <2>3
    <2> QED
        BY <1>2, <2>1, <2>2, <2>4, SeqEqual
<1>4. SubSeq(t, 1, 1) = s
    <2>1. PICK v : v = SubSeq(t, 1, 1)
        OBVIOUS
    <2>2. v \in Seq({x}) /\ Len(v) = 1 /\ v[1] = x
        BY <1>2, <2>1
    <2> QED
        BY <1>2, <2>1, <2>2, SeqEqual
<1>5. Front(t) = s
    BY <1>2, <1>4 DEF Front
<1> QED
    BY <1>1, <1>3, <1>5

LEMMA RootOf ==
    ASSUME NEW b, Fine(b), b.scheme = ""
    PROVE  /\ FromRoot(b) = [Site(b) EXCEPT !.scheme = "http", !.path = RemoveDots(Root(b.path)),
                                            !.query = b.query, !.fragment = b.fragment,
                                            !.port = IF @ = "80" THEN "" ELSE @]
           /\ IsSite(FromRoot(b))
<1>1. PICK p, s, t, r : p = b.path /\ s = Site(b) /\ t = Transform(Plain, b) /\ r = Root(p)
    OBVIOUS
<1>2. Good(b) /\ IsUrl(b) /\ Path(p) /\ (b.net => p = <<"">> \/ Rooted(p)) /\ Path(r) /\ Rooted(r)
    BY <1>1, RootIs DEF Fine, Good
<1>3. IsUrl(Plain) /\ IsUrl(t) /\ IsUrl(s)
    BY <1>1, <1>2, ConstantsAreUrls, TransformIsUrl DEF Site
<1>4. /\ Plain.scheme = "http" /\ Plain.net = TRUE /\ Plain.path = <<"", "">> /\ Plain.query = <<>>
      /\ Plain.port = ""
    BY DEF Plain, Anchor, Empty
<1>5. FromRoot(b) = Normal(t)
    <2>1. b # Invalid
        <3>1. Invalid.path = <<>>
            BY DEF Invalid, Empty
        <3> QED
            BY <1>1, <1>2, <3>1 DEF Path
    <2> QED
        BY <1>1, <1>4, <2>1 DEF FromRoot, UrlJoin
<1>6. Front(<<"", "">>) = <<"">> /\ r # <<"">>
    <2>1. Front(<<"", "">>) = <<"">>
        BY Twice
    <2> QED
        BY <1>2, <2>1, EmptyNotRooted
<1>7. PICK q : q = IF b.net THEN p ELSE IF p = <<"">> THEN <<"", "">> ELSE r
    OBVIOUS
<1>8. t = [s EXCEPT !.scheme = "http", !.path = q, !.query = b.query, !.fragment = b.fragment]
    <2>1. CASE b.net
        BY <1>1, <1>2, <1>3, <1>4, <1>7, <2>1, EmptyParts DEF Site, Transform, IsUrl, Parts
    <2>2. CASE ~b.net
        <3>1. PICK v : v = [s EXCEPT !.scheme = "http", !.path = q, !.query = b.query, !.fragment = b.fragment]
            OBVIOUS
        <3>2. s = Plain
            BY <1>1, <2>2 DEF Site
        <3>3. /\ IsUrl(v) /\ v.scheme = "http" /\ v.net = Plain.net /\ v.user = Plain.user
              /\ v.host = Plain.host /\ v.port = Plain.port /\ v.path = q /\ v.query = b.query
              /\ v.fragment = b.fragment
            BY <1>3, <3>1, <3>2, EmptyParts DEF IsUrl, Parts
        <3>4. /\ t.scheme = "http" /\ t.net = Plain.net /\ t.user = Plain.user /\ t.host = Plain.host
              /\ t.port = Plain.port /\ t.query = b.query /\ t.fragment = b.fragment
            BY <1>1, <1>2, <1>3, <1>4, <2>2, EmptyParts DEF Transform, IsUrl, Parts
        <3>5. t.path = q
            <4>1. t.path = IF p = <<"">> THEN <<"", "">> ELSE IF Rooted(p) THEN p ELSE Front(<<"", "">>) \o p
                BY <1>1, <1>2, <1>3, <1>4, <2>2, EmptyNotRooted, EmptyPath, EmptyParts
                DEF Transform, IsUrl, Parts
            <4> QED
                BY <1>1, <1>6, <1>7, <2>2, <4>1 DEF Root
        <3>6. t = v
            BY <1>3, <3>3, <3>4, <3>5, SameParts
        <3> QED
            BY <3>1, <3>6
    <2> QED
        BY <2>1, <2>2
<1>9. (IF q = <<"">> THEN <<"", "">> ELSE q) = r
    <2>1. p = <<"">> => r = <<"", "">>
        <3>1. <<"">> \o <<"">> = <<"", "">>
            BY Twice
        <3> QED
            BY <1>1, <3>1, EmptyNotRooted DEF Root
    <2>2. <<"", "">> # <<"">>
        BY EmptyPath, EmptyNotRooted
    <2> QED
        BY <1>1, <1>2, <1>6, <1>7, <2>1, <2>2 DEF Root
<1>10. t.scheme = "http" /\ t.net /\ t.path = q /\ t.port = s.port
    BY <1>1, <1>3, <1>4, <1>8, EmptyParts DEF Site, IsUrl, Parts
<1>11. Normal(t) = [t EXCEPT !.path = RemoveDots(r), !.port = IF @ = "80" THEN "" ELSE @]
    BY <1>3, <1>9, <1>10, EmptyParts DEF Normal, IsUrl, Parts
<1>12. PICK z : z = IF s.port = "80" THEN "" ELSE s.port
    OBVIOUS
<1>13. FromRoot(b) = [s EXCEPT !.scheme = "http", !.path = RemoveDots(r), !.query = b.query,
                               !.fragment = b.fragment, !.port = z]
    <2>1. PICK v, n, a : /\ v = [s EXCEPT !.scheme = "http", !.path = a, !.query = b.query,
                                          !.fragment = b.fragment, !.port = z]
                         /\ n = Normal(t) /\ a = RemoveDots(r)
        OBVIOUS
    <2>2. /\ IsUrl(v) /\ v.scheme = "http" /\ v.net = s.net /\ v.user = s.user /\ v.host = s.host
          /\ v.port = z /\ v.path = a /\ v.query = b.query /\ v.fragment = b.fragment
        BY <1>3, <2>1, EmptyParts DEF IsUrl, Parts
    <2>3. /\ t.net = s.net /\ t.user = s.user /\ t.host = s.host
          /\ t.query = b.query /\ t.fragment = b.fragment
        BY <1>3, <1>8, EmptyParts DEF IsUrl, Parts
    <2>4. /\ IsUrl(n) /\ n.scheme = t.scheme /\ n.net = t.net /\ n.user = t.user /\ n.host = t.host
          /\ n.port = (IF t.port = "80" THEN "" ELSE t.port) /\ n.path = a /\ n.query = t.query
          /\ n.fragment = t.fragment
        BY <1>3, <1>11, <2>1, EmptyParts DEF IsUrl, Parts
    <2>5. n = v
        BY <1>10, <1>12, <2>2, <2>3, <2>4, SameParts
    <2> QED
        BY <1>5, <2>1, <2>5
<1>14. PICK f : f = FromRoot(b)
    OBVIOUS
<1>15. IsUrl(f) /\ f.scheme = "http" /\ f.net = s.net /\ f.port = z /\ f.path = RemoveDots(r)
    BY <1>3, <1>13, <1>14, EmptyParts DEF IsUrl, Parts
<1>16. z # "80" /\ Clean(RemoveDots(r)) /\ s.net
    BY <1>1, <1>2, <1>4, <1>12, CleanDots DEF Site
<1>17. IsSite(f)
    BY <1>15, <1>16 DEF IsSite
<1> QED
    BY <1>1, <1>12, <1>13, <1>14, <1>17

\* The text that is left is read as it was meant, and leads where it should.
LEMMA LeftIs ==
    ASSUME NEW p, Clean(p), ~TwoSlashes(p)
    PROVE  /\ Root(p) = p /\ Root(Trim(p)) = p /\ ~TwoSlashes(Trim(p))
           /\ Head(p) # Colon /\ (p[2] # Colon => Head(Trim(p)) # Colon)
<1>1. Path(p) /\ Rooted(p) /\ Path(Trim(p)) /\ <<"">> \o Trim(p) = p
    BY RootIs, TrimPath DEF Clean, Root
<1>2. PICK x : x = Trim(p)
    OBVIOUS
<1>3. p \in Seq(Segments) /\ p # <<>> /\ x \in Seq(Segments) /\ x # <<>> /\ Path(x)
    BY <1>1, <1>2 DEF Path
<1>4. x = <<"">> \/ (Head(x) # "" /\ x[1] # "")
    BY <1>2, <1>3, TrimHead
<1>5. ~Rooted(x) /\ ~TwoSlashes(x)
    BY <1>4, NoSlashBefore
<1>6. Head(p) = ""
    BY <1>1 DEF Rooted
<1>7. Colon # ""
    BY UrlAssumption
<1>8. Head(x) = p[2]
    <2>1. (<<Gap>> \o x)[1 + 1] = x[1]
        <3>1. 1 \in 1..Len(x)
            <4>1. Len(x) \in Nat /\ Len(x) > 0
                BY <1>3, PathLength
            <4> QED
                BY <4>1
        <3> QED
            BY <1>3, <3>1, SlashBefore
    <2>2. Head(x) = x[1] /\ 1 + 1 = 2
        BY <1>3
    <2> QED
        BY <1>1, <1>2, <2>1, <2>2 DEF Gap
<1> QED
    BY <1>1, <1>2, <1>5, <1>6, <1>7, <1>8 DEF Root

LEMMA ResolvesRelative ==
    ASSUME NEW b, Fine(b), b.scheme = "", NEW u, Good(u), u.scheme = "", ~u.net, ~Misread(b, u)
    PROVE  FromRoot(JoinRelative(b, u)) = UrlJoin(FromRoot(b), u)
<1>1. PICK r, j, a, t, w, x, q :
          /\ r = FromRoot(b) /\ j = UrlJoin(r, u) /\ a = RemoveDots(Root(b.path)) /\ t = Resolve(a, u.path)
          /\ w = Text(b, u) /\ x = PathLeft(b, u) /\ q = QueryOf(b, u)
    OBVIOUS
<1>2. Good(b) /\ IsUrl(b) /\ Path(b.path) /\ IsUrl(u)
    BY DEF Fine, Good
<1>3. PICK s, z : s = Site(b) /\ z = IF s.port = "80" THEN "" ELSE s.port
    OBVIOUS
<1>4. IsUrl(s)
    BY <1>2, <1>3, ConstantsAreUrls DEF Site
<1>5. /\ r = [s EXCEPT !.scheme = "http", !.path = a, !.query = b.query, !.fragment = b.fragment, !.port = z]
      /\ IsSite(r)
    <2>1. r = [s EXCEPT !.scheme = "http", !.path = a, !.query = b.query, !.fragment = b.fragment,
                        !.port = IF @ = "80" THEN "" ELSE @] /\ IsSite(r)
        BY <1>1, <1>3, RootOf
    <2> QED
        BY <1>3, <1>4, <2>1, EmptyParts DEF IsUrl, Parts
<1>6. IsUrl(r) /\ r.path = a /\ r.query = b.query
    BY <1>4, <1>5, EmptyParts DEF IsUrl, Parts
<1>7. j = [r EXCEPT !.path = t, !.query = q, !.fragment = u.fragment]
    <2>1. UrlJoin(r, u) = [r EXCEPT !.path = Resolve(r.path, u.path), !.query = QueryOf(r, u),
                                    !.fragment = u.fragment]
        <3>1. IsSite(r)
            BY <1>5
        <3> QED
            BY <3>1, JoinAt
    <2>2. QueryOf(r, u) = q
        BY <1>1, <1>6 DEF QueryOf
    <2> QED
        BY <1>1, <1>6, <2>1, <2>2
<1>8. j.path = t
    BY <1>6, <1>7, EmptyParts DEF IsUrl, Parts
<1>9. /\ ~TwoSlashes(b.path) /\ (~b.net => ~TwoSlashes(t))
      /\ ~b.net /\ ~Rooted(b.path) /\ ~Rooted(u.path) => t[2] # Colon
    BY <1>1, <1>8 DEF Misread
<1>10. <<"">> \o Trim(b.path) = Root(b.path)
    BY <1>2, <1>9, RootIs
<1>11. /\ w = [b EXCEPT !.path = x, !.query = q, !.fragment = u.fragment]
       /\ Clean(t) /\ Fine(w)
    BY <1>1, <1>2, <1>10, TextIs
<1>12. x = IF b.net \/ Rooted(b.path) \/ Rooted(u.path) THEN t ELSE Trim(t)
    BY <1>1, <1>10 DEF PathLeft
<1>13. Root(x) = t /\ (~b.net => ~TwoSlashes(x) /\ Head(x) # Colon)
    <2>1. CASE b.net
        BY <1>11, <1>12, <2>1 DEF Clean, Root
    <2>2. CASE ~b.net
        BY <1>9, <1>11, <1>12, <2>2, LeftIs
    <2> QED
        BY <2>1, <2>2
<1>14. /\ IsUrl(w) /\ w.scheme = "" /\ w.net = b.net /\ w.path = x /\ w.query = q /\ w.fragment = u.fragment
       /\ w.user = b.user /\ w.host = b.host /\ w.port = b.port
    BY <1>2, <1>11, EmptyParts DEF IsUrl, Parts
<1>15. JoinRelative(b, u) = w
    <2>1. JoinRelative(b, u) = ParseUrl(w)
        BY <1>1, JoinRelativeIs
    <2>2. Read(w) = w
        BY <1>13, <1>14 DEF Read
    <2>3. Normal(w) = w
        BY <1>14 DEF Normal
    <2> QED
        BY <2>1, <2>2, <2>3 DEF ParseUrl
<1>16. PICK f, y : f = FromRoot(w) /\ y = Site(w)
    OBVIOUS
<1>17. /\ IsUrl(y) /\ y.net = s.net /\ y.user = s.user /\ y.host = s.host /\ y.port = s.port
    BY <1>3, <1>4, <1>14, <1>16 DEF Site
<1>18. f = [y EXCEPT !.scheme = "http", !.path = RemoveDots(Root(w.path)), !.query = w.query,
                     !.fragment = w.fragment, !.port = IF @ = "80" THEN "" ELSE @]
    BY <1>11, <1>14, <1>16, RootOf
<1>19. RemoveDots(Root(w.path)) = t
    BY <1>11, <1>13, <1>14 DEF Clean
<1>20. f = [y EXCEPT !.scheme = "http", !.path = t, !.query = q, !.fragment = u.fragment, !.port = z]
    BY <1>3, <1>14, <1>17, <1>18, <1>19, EmptyParts DEF IsUrl, Parts
<1>21. /\ IsUrl(f) /\ f.scheme = "http" /\ f.net = s.net /\ f.user = s.user /\ f.host = s.host
       /\ f.port = z /\ f.path = t /\ f.query = q /\ f.fragment = u.fragment
    BY <1>17, <1>20, EmptyParts DEF IsUrl, Parts
<1>22. /\ IsUrl(r) /\ r.scheme = "http" /\ r.net = s.net /\ r.user = s.user /\ r.host = s.host /\ r.port = z
    BY <1>4, <1>5, EmptyParts DEF IsUrl, Parts
<1>23. /\ IsUrl(j) /\ j.scheme = "http" /\ j.net = s.net /\ j.user = s.user /\ j.host = s.host
       /\ j.port = z /\ j.path = t /\ j.query = q /\ j.fragment = u.fragment
    BY <1>7, <1>22, EmptyParts DEF IsUrl, Parts
<1>24. f = j
    BY <1>21, <1>23, SameParts
<1> QED
    BY <1>1, <1>15, <1>16, <1>24

\* A reference that names its site leads there from anywhere.
LEMMA ResolvesElsewhere ==
    ASSUME NEW b, Fine(b), b.scheme = "", NEW u, Fine(u), Read(u) = u, u.scheme # "" \/ u.net
    PROVE  FromRoot(JoinRelative(b, u)) = UrlJoin(FromRoot(b), u)
<1>1. PICK r, n : r = FromRoot(b) /\ n = Normal(u)
    OBVIOUS
<1>2. IsUrl(r) /\ r.scheme = "http" /\ r.net
    BY <1>1, RootOf DEF IsSite
<1>3. JoinRelative(b, u) = n /\ Settled(n) /\ Good(u)
    <2>1. JoinRelative(b, u) = ParseUrl(u)
        BY JoinRelativeIs
    <2> QED
        BY <1>1, <2>1, NormalSettles DEF ParseUrl, Fine
<1>4. n # Invalid /\ IsUrl(u)
    <2>1. Invalid.path = <<>>
        BY DEF Invalid, Empty
    <2> QED
        BY <1>3, <2>1 DEF Settled, Fine, Good, Path
<1>5. FromRoot(n) = UrlJoin(Plain, n)
    BY <1>4 DEF FromRoot
<1>6. CASE u.scheme # ""
    <2>1. n.scheme # ""
        BY <1>1, <1>4, <1>6, EmptyParts DEF Normal, IsUrl, Parts
    <2>2. UrlJoin(Plain, n) = n
        BY <1>3, <2>1 DEF UrlJoin, Settled
    <2>3. UrlJoin(r, u) = n
        BY <1>1, <1>6 DEF UrlJoin
    <2> QED
        BY <1>1, <1>3, <1>5, <2>2, <2>3
<1>7. CASE u.scheme = "" /\ u.net
    <2>1. n = u
        BY <1>1, <1>7 DEF Normal
    <2>2. Plain.scheme = "http" /\ Plain.net = TRUE /\ IsUrl(Plain)
        BY ConstantsAreUrls DEF Plain, Anchor, Empty
    <2>3. UrlJoin(Plain, u) = Normal([u EXCEPT !.scheme = "http"])
        BY <1>7, <2>2 DEF UrlJoin, Transform
    <2>4. UrlJoin(r, u) = Normal([u EXCEPT !.scheme = "http"])
        BY <1>2, <1>7 DEF UrlJoin, Transform
    <2> QED
        BY <1>1, <1>3, <1>5, <2>1, <2>3, <2>4
<1> QED
    BY <1>6, <1>7

\* reference.rs:316-318: joining two references and going where the result
\* leads is going where the first leads and from there where the second does,
\* for any texts a program starts with and joins, after any joins and copies;
\* only the joins that Misread names are excepted.
THEOREM JoinsResolve == Spec => []JoinResolves
<1>1. ASSUME IsSettled, NEW u \in References \ {Empty}, ~Misread(url, u)
      PROVE  FromRoot(JoinUrl(url, u)) = UrlJoin(FromRoot(url), u)
    <2>1. Settled(url) /\ Fine(url) /\ Normal(url) = url /\ Fine(u) /\ Good(u) /\ Read(u) = u /\ u # Empty
        BY <1>1, TextsAreFine DEF IsSettled, Settled, Fine
    <2>2. CASE url.scheme # ""
        <3>1. PICK j : j = UrlJoin(url, u)
            OBVIOUS
        <3>2. JoinUrl(url, u) = j /\ (j = Invalid \/ Settled(j))
            BY <2>1, <2>2, <3>1, UrlJoinSettles DEF JoinUrl
        <3>3. FromRoot(url) = url
            <4>1. url # Invalid
                BY <2>2 DEF Invalid, Empty
            <4> QED
                BY <2>1, <2>2, <4>1 DEF FromRoot, UrlJoin
        <3>4. FromRoot(j) = j
            <4>1. CASE j = Invalid
                BY <4>1 DEF FromRoot
            <4>2. CASE j # Invalid
                <5>1. j.scheme # ""
                    <6>1. IsUrl(url) /\ IsUrl(u) /\ IsUrl(Transform(url, u))
                        BY <2>1, TransformIsUrl DEF Fine, Good
                    <6>2. Transform(url, u).scheme = url.scheme
                        BY <6>1, EmptyParts DEF Transform, IsUrl, Parts
                    <6>3. \A v : IsUrl(v) => Normal(v).scheme = v.scheme
                        BY EmptyParts DEF Normal, IsUrl, Parts
                    <6> QED
                        BY <2>2, <3>1, <4>2, <6>1, <6>2, <6>3 DEF UrlJoin
                <5> QED
                    BY <3>2, <4>2, <5>1 DEF FromRoot, UrlJoin, Settled
            <4> QED
                BY <4>1, <4>2
        <3> QED
            BY <3>1, <3>2, <3>3, <3>4
    <2>3. CASE url.scheme = ""
        <3>1. JoinUrl(url, u) = JoinRelative(url, u)
            BY <2>1, <2>3 DEF JoinUrl
        <3>2. CASE u.scheme # "" \/ u.net
            BY <2>1, <2>3, <3>1, <3>2, ResolvesElsewhere
        <3>3. CASE u.scheme = "" /\ ~u.net
            BY <1>1, <2>1, <2>3, <3>1, <3>3, ResolvesRelative
        <3> QED
            BY <3>2, <3>3
    <2> QED
        BY <2>2, <2>3
<1>2. IsSettled => JoinResolves
    BY <1>1 DEF JoinResolves
<1> QED
    BY <1>2, AlwaysSettled, PTL

=============================================================================
