------------------------------- MODULE Client -------------------------------
(***************************************************************************)
(* A client and its requests, crates/rqx-core/src/{client,redirect}.rs and *)
(* the Python classes over them: what a call asks for and what the client  *)
(* adds, the request that is built of both, the redirects it follows, what *)
(* of it travels on to the next hop, and the cookie jar the requests share.*)
(*                                                                         *)
(* A hop is one Transport::send, which Transport models; here it yields a  *)
(* response or an error, and the number of retries it took.                *)
(***************************************************************************)
EXTENDS Naturals

CONSTANTS Requests,    \* the requests made on one client
          Urls,        \* http and https URLs, as records [scheme, host, port]
          Inputs,      \* what a caller may ask for
          ClientArgs,  \* what the client may be made with
          Statuses,    \* status codes of responses
          HopRetries   \* retries a hop may have used

\* An Option: no member or one.
Opt(S) == {o \in SUBSET S : \A x, y \in o : x = y}
UnwrapOr(option, default) == IF option = {} THEN default ELSE CHOOSE x \in option : TRUE

\* The verb methods; request() takes any method and turns down what is none.
Methods == {"GET", "OPTIONS", "HEAD", "DELETE", "POST", "PUT", "PATCH"}
NoMethod == "not a method"

\* No URL, one that does not parse, and one of another scheme than http(s).
Missing == [scheme |-> "none", host |-> "", port |-> 0]
Malformed == [scheme |-> "bad", host |-> "", port |-> 0]
Foreign == [scheme |-> "other", host |-> "", port |-> 0]

(***************************************************************************)
(* A parsed URL or reference, by what merging it with a base can tell:     *)
(* "absolute" has an authority; "rooted" and "opaque" have a scheme and no *)
(* authority, with a slash before the path and without one; a "reference"  *)
(* has no scheme; "embedded" is one whose path, once its leading slashes   *)
(* are gone, is itself the absolute URL url.                               *)
(***************************************************************************)
Target == [kind : {"absolute", "rooted", "opaque", "reference", "embedded"}, url : Urls \cup {Foreign}]

Policy == [follow : BOOLEAN, max : Nat, raise : BOOLEAN]

\* The arguments of Client(): follow_redirects=, max_redirects=, redirects=,
\* base_url=, auth_bearer=, transport=, and whether one of verify=, cert= and
\* timeout= is there.
ClientArg == [follow : Opt(BOOLEAN), max : Opt(Nat), redirects : Opt(Policy),
              base : Opt(Target), bearer : BOOLEAN, transport : BOOLEAN, tuned : BOOLEAN]

\* The arguments of a call: which method of which client it is, its auth= and
\* auth_bearer=, whether its headers or its URL carry credentials, its
\* content=, data= and json=, and follow_redirects=.
Input == [via : {"request", "arequest", "stream", "astream"},
          method : Methods \cup {NoMethod}, target : Target,
          auth : SUBSET {"basic", "bearer"}, header : BOOLEAN,
          body : SUBSET {"content", "data", "json"}, follow : Opt(BOOLEAN)]

\* A response to a hop: its status, where it redirects to, whether it sets a
\* cookie, and its retries.
Hop == [status : Statuses, location : Urls \cup {Missing, Malformed},
        cookie : BOOLEAN, retries : HopRetries]

\* A response as the client keeps it.
Received == [status : Statuses \cup {0}, location : Urls \cup {Missing, Malformed},
             cookie : BOOLEAN, retries : Nat]

ASSUME ClientAssumption ==
    /\ Urls \subseteq [scheme : {"http", "https"}, host : STRING, port : Nat]
    /\ Inputs \subseteq Input
    /\ ClientArgs \subseteq ClientArg
    /\ Statuses \subseteq Nat
    /\ HopRetries \subseteq Nat

VARIABLES client,    \* the ClientConfig: policy, base URL, bearer token
          pc,        \* pc[q]: the step request q takes next
          input,     \* what the caller asked for
          request,   \* the request of the current hop
          hop,       \* the response to it
          used,      \* redirects_used
          retries,   \* num_retries of follow_redirects
          hops,      \* hops sent
          spent,     \* retries the hops have really used
          baked,     \* the hops of q that set a cookie
          jar,       \* the cookie jar: who set a cookie at which hop
          result     \* what q returned

vars == <<client, pc, input, request, hop, used, retries, hops, spent, baked, jar, result>>

NoRequest == [method |-> "GET", url |-> Missing, auth |-> FALSE, body |-> FALSE]
NoHop == [status |-> 0, location |-> Missing, cookie |-> FALSE, retries |-> 0]

Goto(q, step) == pc' = [pc EXCEPT ![q] = step]

\* The call returns.
Return(q, what) ==
    /\ Goto(q, "done")
    /\ result' = [result EXCEPT ![q] = what]

-----------------------------------------------------------------------------
(* Client()                                                                *)

\* RedirectPolicy::with_defaults, of the two options Client() has.
WithDefaults(follow, max) ==
    [follow |-> UnwrapOr(follow, FALSE), max |-> UnwrapOr(max, 20), raise |-> TRUE]

\* valid_policy_from_options: an option that contradicts redirects= is an error.
PolicyConflict(a) ==
    \E r \in a.redirects : (\E n \in a.max : n # r.max) \/ (\E f \in a.follow : f # r.follow)

PolicyOf(a) == UnwrapOr(a.redirects, WithDefaults(a.follow, a.max))

\* Client() raises nothing.  A base_url= has a scheme.
Accepted(a) ==
    /\ \A base \in a.base : base.kind \in {"absolute", "rooted", "opaque"}
    /\ ~PolicyConflict(a)
    /\ ~(a.transport /\ a.tuned)

Init ==
    /\ \E a \in {b \in ClientArgs : Accepted(b)} :
          client = [policy |-> PolicyOf(a), base |-> a.base, bearer |-> a.bearer]
    /\ pc = [q \in Requests |-> "idle"]
    /\ input \in [Requests -> Inputs]
    /\ request = [q \in Requests |-> NoRequest]
    /\ hop = [q \in Requests |-> NoHop]
    /\ used = [q \in Requests |-> 0]
    /\ retries = [q \in Requests |-> 0]
    /\ hops = [q \in Requests |-> 0]
    /\ spent = [q \in Requests |-> 0]
    /\ baked = [q \in Requests |-> {}]
    /\ jar = {}
    /\ result = [q \in Requests |-> "none"]

-----------------------------------------------------------------------------
(* A call and the request it builds                                        *)

\* BaseUrl::join: the base resolves the path of the reference, which is parsed
\* like any reference.  An opaque base resolves nothing else.
BaseJoin(base, target) ==
    IF target.kind = "embedded" THEN target.url
    ELSE IF base.kind = "opaque" THEN Malformed ELSE base.url

\* merge_url: an authority wins; without a base anything else has no protocol.
MergeUrl(target) ==
    IF target.kind = "absolute" THEN target.url
    ELSE IF client.base = {} THEN Foreign
    ELSE BaseJoin(CHOOSE base \in client.base : TRUE, target)

\* The call's own credentials, or else the client's, next to what its headers
\* carry: does the request have an Authorization header.
Authorized(q) == input[q].header \/ input[q].auth # {} \/ client.bearer

\* unwrap_or(config.redirects.follow)
Follows(q) == UnwrapOr(input[q].follow, client.policy.follow)

\* Auth::new and RequestBody::new take one kind of credentials and of body.
TwoAuths(q) == input[q].auth = {"basic", "bearer"}
TwoBodies(q) == \E a, b \in input[q].body : a # b

\* A call that Auth::new, RequestBody::new or Request::new turns down.
Refused(q) == TwoAuths(q) \/ TwoBodies(q) \/ input[q].method = NoMethod

Refuse(q) ==
    /\ pc[q] = "idle"
    /\ Refused(q)
    /\ Return(q, "InvalidArgument")
    /\ UNCHANGED <<client, input, request, hop, used, retries, hops, spent, baked, jar>>

\* Client::build.  reqwest's builder may still refuse what it is given.
Build(q) ==
    LET url == MergeUrl(input[q].target) IN
    /\ \/ /\ url = Malformed
          /\ Return(q, "InvalidURL")
          /\ UNCHANGED request
       \/ /\ url = Foreign
          /\ Return(q, "UnsupportedProtocol")
          /\ UNCHANGED request
       \/ /\ url \notin {Malformed, Foreign}
          /\ request' = [request EXCEPT ![q] =
                           [method |-> input[q].method, url |-> url,
                            auth |-> Authorized(q), body |-> input[q].body # {}]]
          /\ Goto(q, "send")
          /\ UNCHANGED result
       \/ /\ url \notin {Malformed, Foreign}
          /\ Return(q, "error")
          /\ UNCHANGED request
    /\ UNCHANGED <<client, input, hop, used, retries, hops, spent, baked, jar>>

\* request() and the verbs make a future, which builds the request when it is
\* first polled: the sync client runs it to its end, the async one hands it to
\* Python, which may cancel it ...
Submit(q) ==
    /\ pc[q] = "idle"
    /\ ~Refused(q)
    /\ Goto(q, "build")
    /\ UNCHANGED <<client, input, request, hop, used, retries, hops, spent, baked, jar, result>>

Call(q) == input[q].via = "request" /\ Submit(q)
CallAsync(q) == input[q].via = "arequest" /\ Submit(q)

BuildInFuture(q) ==
    /\ pc[q] = "build"
    /\ Build(q)

\* ... and stream() builds it at once, to be sent when the context is entered.
CallStream(q) ==
    /\ pc[q] = "idle"
    /\ ~Refused(q)
    /\ input[q].via \in {"stream", "astream"}
    /\ Build(q)

-----------------------------------------------------------------------------
(* Redirect                                                                *)

IsRedirect(status) == status \in 300..399

\* Redirect::redirect_method
RedirectMethod(method, status) ==
    IF \/ status \in {302, 303} /\ method # "HEAD"
       \/ status = 301 /\ method = "POST"
    THEN "GET" ELSE method

\* Mutant of KeepsAuthorization: any move within a host keeps it.
KeepsOnHost(from, next) == from.host = next.host

\* Redirect::keeps_authorization: the same origin, or the upgrade from http to
\* https on the default ports of one host.
KeepsAuthorization(from, next) ==
    \/ from = next
    \/ /\ from.scheme = "http" /\ from.port = 80
       /\ next.scheme = "https" /\ next.port = 443
       /\ from.host = next.host

\* Mutant of RedirectedRequest: the body stays on the GET.
RedirectedKeepsBody(r, status, url) ==
    [method |-> RedirectMethod(r.method, status), url |-> url, body |-> r.body,
     auth |-> r.auth /\ KeepsAuthorization(r.url, url)]

\* Redirect::redirected_request.  The body stands for the body and the headers
\* that describe it.
RedirectedRequest(r, status, url) ==
    LET method == RedirectMethod(r.method, status)
    IN  [method |-> method, url |-> url,
         body |-> r.body /\ method = r.method,
         auth |-> r.auth /\ KeepsAuthorization(r.url, url)]

-----------------------------------------------------------------------------
(* Client::send and follow_redirects                                       *)

\* accumulate_cookies: the cookies of the current hop go into the jar.
AccumulateCookies(q) ==
    jar' = IF hop[q].cookie THEN jar \cup {<<q, hops[q]>>} ELSE jar

\* The transport returns an error, which ends the chain.
HopFails(q) ==
    /\ pc[q] = "send"
    /\ hops' = [hops EXCEPT ![q] = @ + 1]
    /\ Return(q, "error")
    /\ UNCHANGED <<client, input, request, hop, used, retries, spent, baked, jar>>

\* parts.num_retries once the response leaves the redirect loop: with_retries
\* replaces the count of the last hop by that of the chain.
WithRetries(h, n) == [h EXCEPT !.retries = n]

\* The transport returns a response: a redirect to follow, or the final one.
HopArrives(q) ==
    /\ pc[q] = "send"
    /\ \E h \in Hop :
          /\ h.location = Missing \/ IsRedirect(h.status)
          /\ hops' = [hops EXCEPT ![q] = @ + 1]
          /\ retries' = [retries EXCEPT ![q] = IF Follows(q) THEN @ + h.retries ELSE @]
          /\ hop' = [hop EXCEPT ![q] = IF Follows(q) /\ ~IsRedirect(h.status)
                                      THEN WithRetries(h, retries'[q]) ELSE h]
          /\ spent' = [spent EXCEPT ![q] = @ + h.retries]
          /\ baked' = [baked EXCEPT ![q] = IF h.cookie THEN @ \cup {hops'[q]} ELSE @]
          /\ Goto(q, IF Follows(q) /\ IsRedirect(h.status) THEN "merge" ELSE "final")
    /\ UNCHANGED <<client, input, request, used, jar, result>>

\* Mutant of MergeHop: only the final response's cookies reach the jar.
MergeForgets(q) ==
    /\ pc[q] = "merge"
    /\ Goto(q, "decide")
    /\ UNCHANGED <<client, input, request, hop, used, retries, hops, spent, baked, jar, result>>

\* The cookies of a redirecting hop.
MergeHop(q) ==
    /\ pc[q] = "merge"
    /\ AccumulateCookies(q)
    /\ Goto(q, "decide")
    /\ UNCHANGED <<client, input, request, hop, used, retries, hops, spent, baked, result>>

\* Mutant of LimitReached: > for >=.
LimitPassed(q) == used[q] > client.policy.max

LimitReached(q) == used[q] + 1 >= client.policy.max

\* Mutant of Decide: the hop over the limit is returned as it came.
DecideBareHop(q) ==
    /\ pc[q] = "decide"
    /\ \/ /\ LimitReached(q) /\ client.policy.raise
          /\ Return(q, "TooManyRedirects")
          /\ UNCHANGED hop
       \/ /\ LimitReached(q) /\ ~client.policy.raise
          /\ Goto(q, "final")
          /\ UNCHANGED <<hop, result>>
       \/ /\ ~LimitReached(q) /\ hop[q].location = Missing
          /\ Return(q, "RemoteProtocolError")
          /\ UNCHANGED hop
       \/ /\ ~LimitReached(q) /\ hop[q].location # Missing
          /\ Goto(q, "drain")
          /\ UNCHANGED <<hop, result>>
    /\ UNCHANGED <<client, input, request, used, retries, hops, spent, baked, jar>>

\* The limit, then the Location.
Decide(q) ==
    /\ pc[q] = "decide"
    /\ \/ /\ LimitReached(q) /\ client.policy.raise
          /\ Return(q, "TooManyRedirects")
          /\ UNCHANGED hop
       \/ /\ LimitReached(q) /\ ~client.policy.raise
          /\ hop' = [hop EXCEPT ![q] = WithRetries(@, retries[q])]
          /\ Goto(q, "final")
          /\ UNCHANGED result
       \/ /\ ~LimitReached(q) /\ hop[q].location = Missing
          /\ Return(q, "RemoteProtocolError")
          /\ UNCHANGED hop
       \/ /\ ~LimitReached(q) /\ hop[q].location # Missing
          /\ Goto(q, "drain")
          /\ UNCHANGED <<hop, result>>
    /\ UNCHANGED <<client, input, request, used, retries, hops, spent, baked, jar>>

\* Mutant of Redirect: any Location is followed, also one that does not parse.
RedirectBlindly(q) ==
    /\ pc[q] = "drain"
    /\ request' = [request EXCEPT ![q] = RedirectedRequest(@, hop[q].status, hop[q].location)]
    /\ used' = [used EXCEPT ![q] = @ + 1]
    /\ Goto(q, "send")
    /\ UNCHANGED <<client, input, hop, retries, hops, spent, baked, jar, result>>

\* The body of the hop is drained; the target is resolved, and the request is
\* rewritten for the next round.
Redirect(q) ==
    /\ pc[q] = "drain"
    /\ \/ /\ hop[q].location = Malformed
          /\ Return(q, "RequestError")
          /\ UNCHANGED <<request, used>>
       \/ /\ hop[q].location # Malformed
          /\ request' = [request EXCEPT ![q] = RedirectedRequest(@, hop[q].status, hop[q].location)]
          /\ used' = [used EXCEPT ![q] = @ + 1]
          /\ Goto(q, "send")
          /\ UNCHANGED result
    /\ UNCHANGED <<client, input, hop, retries, hops, spent, baked, jar>>

\* The cookies of the final response.  stream() hands it over as it is;
\* request() buffers its body ...
Final(q) ==
    /\ pc[q] = "final"
    /\ AccumulateCookies(q)
    /\ \/ /\ input[q].via \in {"stream", "astream"}
          /\ Return(q, "response")
       \/ /\ input[q].via \in {"request", "arequest"}
          /\ Goto(q, "read")
          /\ UNCHANGED result
    /\ UNCHANGED <<client, input, request, hop, used, retries, hops, spent, baked>>

\* ... which may break off.
ReadBody(q) ==
    /\ pc[q] = "read"
    /\ \E what \in {"response", "error"} : Return(q, what)
    /\ UNCHANGED <<client, input, request, hop, used, retries, hops, spent, baked, jar>>

\* Python cancels the future of an async client before it is polled or in one
\* of its awaits: the hop, the jar's lock, or a body that is drained or read.
Cancel(q) ==
    /\ input[q].via \in {"arequest", "astream"}
    /\ pc[q] \in {"build", "send", "merge", "drain", "final", "read"}
    /\ Return(q, "cancelled")
    /\ UNCHANGED <<client, input, request, hop, used, retries, hops, spent, baked, jar>>

Next ==
    \E q \in Requests :
        \/ Refuse(q) \/ Call(q) \/ CallAsync(q) \/ BuildInFuture(q) \/ CallStream(q)
        \/ HopFails(q) \/ HopArrives(q) \/ MergeHop(q)
        \/ Decide(q) \/ Redirect(q) \/ Final(q) \/ ReadBody(q) \/ Cancel(q)

Spec == Init /\ [][Next]_vars

-----------------------------------------------------------------------------
(* Properties                                                              *)

Results == {"none", "response", "InvalidArgument", "InvalidURL", "UnsupportedProtocol",
            "error", "TooManyRedirects", "RemoteProtocolError", "RequestError", "cancelled"}

\* Type correctness of a client's configuration, its requests and its jar.
TypeOK ==
    /\ client \in [policy : Policy, base : Opt(Target), bearer : BOOLEAN]
    /\ pc \in [Requests -> {"idle", "build", "send", "merge", "decide", "drain", "final", "read", "done"}]
    /\ input \in [Requests -> Inputs]
    /\ request \in [Requests -> [method : Methods, url : Urls \cup {Missing},
                                 auth : BOOLEAN, body : BOOLEAN]]
    /\ hop \in [Requests -> Received]
    /\ used \in [Requests -> Nat] /\ retries \in [Requests -> Nat]
    /\ hops \in [Requests -> Nat] /\ spent \in [Requests -> Nat]
    /\ baked \in [Requests -> SUBSET Nat]
    /\ jar \subseteq Requests \X Nat
    /\ result \in [Requests -> Results]

\* The origin the request was built for, or, if that is plain http on the
\* default port, https on the default port of the same host.
AtHome(home, url) ==
    \/ url = home
    \/ /\ home.scheme = "http" /\ home.port = 80
       /\ url = [scheme |-> "https", host |-> home.host, port |-> 443]

\* Credentials stay at home: however long the chain, the Authorization header,
\* the client's own token included, goes only to the origin that the call's URL
\* and the base name together, or to its https upgrade.
AuthorizationConfined ==
    \A q \in Requests : request[q].auth =>
        Authorized(q) /\ AtHome(MergeUrl(input[q].target), request[q].url)

\* A body is replayed only with the method it was given for; once a redirect
\* has turned the request into a GET it does not come back.
BodyKeepsMethod ==
    \A q \in Requests : request[q].body =>
        input[q].body # {} /\ request[q].method = input[q].method

\* A chain is finite: it sends at most max_redirects requests, or the first one
\* if that is none, whether the limit came from Client() or from a policy.
ChainBounded ==
    \A q \in Requests : hops[q] <= IF client.policy.max = 0 THEN 1 ELSE client.policy.max

\* client.rs:235-236, "the telemetry on the final response adds up across the
\* chain": whichever way the chain ends in a response, its num_retries counts
\* the retries of every hop.
RetriesAddUp ==
    \A q \in Requests : result[q] = "response" => hop[q].retries = spent[q]

\* Each hop's cookies are in the jar by the time the next hop is sent or the
\* call ends, also when the chain ends in an error.
CookiesKept ==
    \A q \in Requests : pc[q] \in {"send", "done"} /\ result[q] # "cancelled" =>
        \A i \in baked[q] : <<q, i>> \in jar

=============================================================================
