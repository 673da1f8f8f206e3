---------------------------- MODULE ClientProofs ----------------------------
(***************************************************************************)
(* Proofs about Client for any set of URLs, inputs and status codes, any   *)
(* redirect limit and any number of requests.                              *)
(***************************************************************************)
EXTENDS Client, TLAPS

-----------------------------------------------------------------------------
(* Type correctness                                                        *)

\* An Option unwraps to its member or to the default.
LEMMA UnwrapType ==
    ASSUME NEW S, NEW o \in Opt(S), NEW d \in S
    PROVE  UnwrapOr(o, d) \in S
<1>1. CASE o = {}
    BY <1>1 DEF UnwrapOr
<1>2. CASE o # {}
    <2>1. (CHOOSE x \in o : TRUE) \in o
        BY <1>2
    <2> QED
        BY <1>2, <2>1 DEF UnwrapOr, Opt
<1> QED
    BY <1>1, <1>2

\* Whatever a client is made with, its policy is one.
LEMMA PolicyType == ASSUME NEW a \in ClientArg PROVE PolicyOf(a) \in Policy
<1>1. /\ a.follow \in Opt(BOOLEAN) /\ a.max \in Opt(Nat)
      /\ a.redirects \in Opt(Policy)
    BY DEF ClientArg
<1>2. UnwrapOr(a.max, 20) \in Nat
    BY <1>1, UnwrapType
<1>3. UnwrapOr(a.follow, FALSE) \in BOOLEAN
    <2>1. FALSE \in BOOLEAN
        OBVIOUS
    <2> QED
        BY <1>1, <2>1, UnwrapType, Zenon
<1>4. WithDefaults(a.follow, a.max) \in Policy
    BY <1>2, <1>3 DEF WithDefaults, Policy
<1> QED
    BY <1>1, <1>4, UnwrapType DEF PolicyOf

LEMMA TypeInit == Init => TypeOK
<1> SUFFICES ASSUME Init PROVE TypeOK
    OBVIOUS
<1>1. PICK a \in ClientArgs :
         client = [policy |-> PolicyOf(a), base |-> a.base, bearer |-> a.bearer]
    BY DEF Init
<1>2. a \in ClientArg
    BY ClientAssumption
<1>3. PolicyOf(a) \in Policy /\ a.base \in Opt(Target) /\ a.bearer \in BOOLEAN
    BY <1>2, PolicyType DEF ClientArg
<1>4. client \in [policy : Policy, base : Opt(Target), bearer : BOOLEAN]
    BY <1>1, <1>3
<1> QED
    BY <1>4 DEF Init, TypeOK, NoRequest, NoHop, Received, Methods, Results

\* What merge_url yields is a URL the client may send to or an error.
LEMMA MergeType ==
    ASSUME client.base \in Opt(Target), NEW target \in Target
    PROVE  MergeUrl(target) \in Urls \cup {Foreign, Malformed}
<1>1. target.url \in Urls \cup {Foreign}
    BY DEF Target
<1>2. CASE target.kind = "absolute" \/ client.base = {}
    BY <1>1, <1>2 DEF MergeUrl
<1>3. CASE target.kind # "absolute" /\ client.base # {}
    <2> DEFINE base == CHOOSE b \in client.base : TRUE
    <2>1. base \in client.base
        BY <1>3
    <2>2. base \in Target
        BY <2>1 DEF Opt
    <2>3. base.url \in Urls \cup {Foreign}
        BY <2>2 DEF Target
    <2>4. MergeUrl(target) = BaseJoin(base, target)
        BY <1>3 DEF MergeUrl
    <2> QED
        BY <1>1, <2>3, <2>4 DEF BaseJoin
<1> QED
    BY <1>2, <1>3

\* A redirected request is a request again.
LEMMA RedirectedType ==
    ASSUME NEW r \in [method : Methods, url : Urls \cup {Missing}, auth : BOOLEAN, body : BOOLEAN],
           NEW status, NEW url \in Urls \cup {Missing}
    PROVE  RedirectedRequest(r, status, url) \in
              [method : Methods, url : Urls \cup {Missing}, auth : BOOLEAN, body : BOOLEAN]
BY DEF RedirectedRequest, RedirectMethod, KeepsAuthorization, Methods

\* A call that is not refused builds a request or fails.
LEMMA BuildType ==
    ASSUME TypeOK, NEW q \in Requests, input[q].method # NoMethod, Build(q)
    PROVE  TypeOK'
<1> DEFINE url == MergeUrl(input[q].target)
<1>1. input[q] \in Input
    BY ClientAssumption DEF TypeOK
<1>2. /\ input[q].target \in Target
      /\ input[q].method \in Methods
      /\ Authorized(q) \in BOOLEAN
    BY <1>1 DEF Input, Authorized, TypeOK
<1>3. url \in Urls \cup {Foreign, Malformed}
    BY <1>2, MergeType DEF TypeOK
<1>4. UNCHANGED <<client, input, hop, used, retries, hops, spent, baked, jar>>
    BY DEF Build
<1>5. \/ /\ \E what \in {"InvalidURL", "UnsupportedProtocol", "error"} : Return(q, what)
         /\ UNCHANGED request
      \/ /\ url \in Urls
         /\ request' = [request EXCEPT ![q] =
                          [method |-> input[q].method, url |-> url,
                           auth |-> Authorized(q), body |-> input[q].body # {}]]
         /\ pc' = [pc EXCEPT ![q] = "send"]
         /\ UNCHANGED result
    BY <1>3 DEF Build, Goto
<1>6. CASE /\ \E what \in {"InvalidURL", "UnsupportedProtocol", "error"} : Return(q, what)
           /\ UNCHANGED request
    BY <1>4, <1>6 DEF TypeOK, Return, Goto, Results
<1>7. CASE /\ url \in Urls
           /\ request' = [request EXCEPT ![q] =
                            [method |-> input[q].method, url |-> url,
                             auth |-> Authorized(q), body |-> input[q].body # {}]]
           /\ pc' = [pc EXCEPT ![q] = "send"]
           /\ UNCHANGED result
    <2>1. request' \in [Requests -> [method : Methods, url : Urls \cup {Missing},
                                     auth : BOOLEAN, body : BOOLEAN]]
        BY <1>2, <1>7 DEF TypeOK
    <2> QED
        BY <1>4, <1>7, <2>1 DEF TypeOK
<1> QED
    BY <1>5, <1>6, <1>7

\* Neither the configuration nor the arguments of a call change.
LEMMA AskStays == [Next]_vars => UNCHANGED <<client, input>>
BY DEF Next, vars, Refuse, Call, CallAsync, Submit, BuildInFuture, CallStream, Build,
       HopFails, HopArrives, MergeHop, Decide, Redirect, Final, ReadBody, Cancel

\* A future is not made of a call whose method is none, so that what it builds
\* is a request.
BuildsMethod == \A q \in Requests : pc[q] = "build" => input[q].method # NoMethod

LEMMA TypeStep == TypeOK /\ BuildsMethod /\ [Next]_vars => TypeOK'
<1> SUFFICES ASSUME TypeOK, BuildsMethod, [Next]_vars PROVE TypeOK'
    OBVIOUS
<1>1. CASE UNCHANGED vars
    BY <1>1 DEF vars, TypeOK
<1>2. ASSUME NEW q \in Requests, Submit(q) \/ Refuse(q) PROVE TypeOK'
    BY <1>2 DEF TypeOK, Results, Submit, Refuse, Return, Goto
<1>10. ASSUME NEW q \in Requests, BuildInFuture(q) \/ CallStream(q) PROVE TypeOK'
    BY <1>10, BuildType DEF BuildInFuture, CallStream, BuildsMethod, Refused
<1>3. ASSUME NEW q \in Requests, HopFails(q) PROVE TypeOK'
    BY <1>3 DEF TypeOK, Results, HopFails, Return, Goto
<1>4. ASSUME NEW q \in Requests, HopArrives(q) PROVE TypeOK'
    <2>1. PICK h \in Hop :
             /\ hops' = [hops EXCEPT ![q] = @ + 1]
             /\ retries' = [retries EXCEPT ![q] = IF Follows(q) THEN @ + h.retries ELSE @]
             /\ hop' = [hop EXCEPT ![q] = IF Follows(q) /\ ~IsRedirect(h.status)
                                         THEN WithRetries(h, retries'[q]) ELSE h]
             /\ spent' = [spent EXCEPT ![q] = @ + h.retries]
             /\ baked' = [baked EXCEPT ![q] = IF h.cookie THEN @ \cup {hops'[q]} ELSE @]
             /\ Goto(q, IF Follows(q) /\ IsRedirect(h.status) THEN "merge" ELSE "final")
        BY <1>4 DEF HopArrives
    <2>2. h.retries \in Nat /\ h \in Received
        BY ClientAssumption DEF Hop, Received
    <2>3. hops'[q] \in Nat
        BY <2>1 DEF TypeOK
    <2>4. retries' \in [Requests -> Nat]
        BY <2>1, <2>2 DEF TypeOK
    <2>5. WithRetries(h, retries'[q]) \in Received
        BY <2>2, <2>4 DEF WithRetries, Received
    <2>6. hop' \in [Requests -> Received]
        BY <2>1, <2>2, <2>5 DEF TypeOK
    <2> QED
        BY <1>4, <2>1, <2>2, <2>3, <2>4, <2>6 DEF HopArrives, Goto, TypeOK
<1>5. ASSUME NEW q \in Requests, MergeHop(q) PROVE TypeOK'
    BY <1>5 DEF TypeOK, Results, MergeHop, AccumulateCookies, Goto
<1>6. ASSUME NEW q \in Requests, Decide(q) PROVE TypeOK'
    <2>1. WithRetries(hop[q], retries[q]) \in Received
        <3>1. hop[q] \in Received /\ retries[q] \in Nat
            BY DEF TypeOK
        <3> QED
            BY <3>1 DEF WithRetries, Received
    <2>2. hop' \in [Requests -> Received]
        BY <1>6, <2>1 DEF TypeOK, Decide
    <2> QED
        BY <1>6, <2>2 DEF TypeOK, Results, Decide, Return, Goto
<1>7. ASSUME NEW q \in Requests, Redirect(q) PROVE TypeOK'
    <2>1. hop[q].location \in Urls \cup {Missing, Malformed}
        BY DEF TypeOK, Received
    <2>2. CASE hop[q].location = Malformed
        BY <1>7, <2>2 DEF Redirect, Return, Goto, TypeOK, Results
    <2>3. CASE hop[q].location # Malformed
        <3>1. RedirectedRequest(request[q], hop[q].status, hop[q].location) \in
                 [method : Methods, url : Urls \cup {Missing}, auth : BOOLEAN, body : BOOLEAN]
            BY <2>1, <2>3, RedirectedType DEF TypeOK
        <3>2. request' = [request EXCEPT ![q] = RedirectedRequest(request[q], hop[q].status, hop[q].location)]
            BY <1>7, <2>3 DEF Redirect
        <3>3. request' \in [Requests -> [method : Methods, url : Urls \cup {Missing},
                                         auth : BOOLEAN, body : BOOLEAN]]
            BY <3>1, <3>2 DEF TypeOK
        <3>4. /\ used' = [used EXCEPT ![q] = @ + 1]
              /\ pc' = [pc EXCEPT ![q] = "send"]
              /\ UNCHANGED <<client, input, hop, retries, hops, spent, baked, jar, result>>
            BY <1>7, <2>3 DEF Redirect, Goto
        <3> QED
            BY <3>3, <3>4 DEF TypeOK
    <2> QED
        BY <2>2, <2>3
<1>8. ASSUME NEW q \in Requests, Final(q) PROVE TypeOK'
    BY <1>8 DEF TypeOK, Results, Final, AccumulateCookies, Return, Goto
<1>11. ASSUME NEW q \in Requests, ReadBody(q) PROVE TypeOK'
    BY <1>11 DEF TypeOK, Results, ReadBody, Return, Goto
<1>9. ASSUME NEW q \in Requests, Cancel(q) PROVE TypeOK'
    BY <1>9 DEF TypeOK, Results, Cancel, Return, Goto
<1> QED
    BY <1>1, <1>2, <1>3, <1>4, <1>5, <1>6, <1>7, <1>8, <1>9, <1>10, <1>11 DEF Next, Call, CallAsync

LEMMA MethodStep == TypeOK /\ BuildsMethod /\ [Next]_vars => BuildsMethod'
<1> SUFFICES ASSUME TypeOK, BuildsMethod, [Next]_vars,
                    NEW r \in Requests, pc'[r] = "build"
             PROVE  input'[r].method # NoMethod
    BY DEF BuildsMethod
<1>1. UNCHANGED input
    BY AskStays
<1>3. CASE \E q \in Requests : Submit(q)
    BY <1>1, <1>3 DEF Submit, Refused, Goto, TypeOK, BuildsMethod
<1>4. CASE ~ \E q \in Requests : Submit(q)
    <2>1. \/ UNCHANGED pc
          \/ \E q \in Requests :
                \E step \in {"send", "merge", "decide", "drain", "final", "read", "done"} :
                   pc' = [pc EXCEPT ![q] = step]
        <3>1. CASE UNCHANGED vars
            BY <3>1 DEF vars
        <3>2. ASSUME NEW q \in Requests,
                     \/ Refuse(q) \/ Build(q) \/ HopFails(q) \/ MergeHop(q)
                     \/ Final(q) \/ ReadBody(q) \/ Cancel(q)
              PROVE  \E step \in {"send", "decide", "read", "done"} : pc' = [pc EXCEPT ![q] = step]
            BY <3>2 DEF Refuse, Build, HopFails, MergeHop, Final, ReadBody, Cancel, Return, Goto
        <3>3. ASSUME NEW q \in Requests, HopArrives(q) \/ Decide(q) \/ Redirect(q)
              PROVE  \E step \in {"send", "merge", "drain", "final", "done"} :
                        pc' = [pc EXCEPT ![q] = step]
            BY <3>3 DEF HopArrives, Decide, Redirect, Return, Goto
        <3> QED
            BY <1>4, <3>1, <3>2, <3>3 DEF Next, Call, CallAsync, BuildInFuture, CallStream
    <2> QED
        BY <1>1, <2>1 DEF TypeOK, BuildsMethod
<1> QED
    BY <1>3, <1>4

\* Whatever a client is made with and asked for, its configuration, its
\* requests, their hops and its jar keep their types.
THEOREM ClientTypes == Spec => []TypeOK
<1>1. Init => TypeOK /\ BuildsMethod
    BY TypeInit DEF Init, BuildsMethod
<1> QED
    BY <1>1, TypeStep, MethodStep, PTL DEF Spec

-----------------------------------------------------------------------------
(* Credentials                                                             *)

\* A hop that keeps the header never leaves home, whatever hops came before.
LEMMA KeepsAtHome ==
    ASSUME NEW home, NEW a, NEW b \in Urls \cup {Missing}, AtHome(home, a), KeepsAuthorization(a, b)
    PROVE  AtHome(home, b)
<1>1. b = [scheme |-> b.scheme, host |-> b.host, port |-> b.port]
    BY ClientAssumption DEF Missing
<1> QED
    BY <1>1 DEF AtHome, KeepsAuthorization

\* What a request was built for and with does not change after the call.
LEMMA AskIsFixed ==
    ASSUME UNCHANGED <<client, input>>, NEW q \in Requests
    PROVE  /\ MergeUrl(input[q].target)' = MergeUrl(input[q].target)
           /\ Authorized(q)' = Authorized(q)
BY DEF MergeUrl, BaseJoin, Authorized

LEMMA AuthorizationStep ==
    TypeOK /\ AuthorizationConfined /\ [Next]_vars => AuthorizationConfined'
<1> SUFFICES ASSUME TypeOK, AuthorizationConfined, [Next]_vars PROVE AuthorizationConfined'
    OBVIOUS
<1>1. CASE UNCHANGED vars
    BY <1>1, AskIsFixed DEF vars, AuthorizationConfined
<1>2. ASSUME NEW q \in Requests, Build(q) PROVE AuthorizationConfined'
    <2> DEFINE url == MergeUrl(input[q].target)
    <2>1. UNCHANGED <<client, input>>
        BY <1>2 DEF Build
    <2>2. \/ UNCHANGED request
          \/ request' = [request EXCEPT ![q] =
                           [method |-> input[q].method, url |-> url,
                            auth |-> Authorized(q), body |-> input[q].body # {}]]
        BY <1>2 DEF Build
    <2>3. CASE UNCHANGED request
        BY <2>1, <2>3, AskIsFixed DEF AuthorizationConfined
    <2>4. CASE request' = [request EXCEPT ![q] =
                             [method |-> input[q].method, url |-> url,
                              auth |-> Authorized(q), body |-> input[q].body # {}]]
        <3>1. /\ request'[q].auth => Authorized(q)
              /\ AtHome(url, request'[q].url)
              /\ \A r \in Requests \ {q} : request'[r] = request[r]
            BY <2>4 DEF TypeOK, AtHome
        <3> QED
            BY <2>1, <3>1, AskIsFixed DEF AuthorizationConfined
    <2> QED
        BY <2>2, <2>3, <2>4
<1>3. ASSUME NEW q \in Requests, Redirect(q) PROVE AuthorizationConfined'
    <2> DEFINE home == MergeUrl(input[q].target)
    <2>1. UNCHANGED <<client, input>>
        BY <1>3 DEF Redirect
    <2>2. hop[q].location \in Urls \cup {Missing, Malformed}
        BY DEF TypeOK, Received
    <2>3. CASE hop[q].location = Malformed
        BY <1>3, <2>1, <2>3, AskIsFixed DEF Redirect, AuthorizationConfined
    <2>4. CASE hop[q].location # Malformed
        <3>1. request' = [request EXCEPT ![q] = RedirectedRequest(request[q], hop[q].status, hop[q].location)]
            BY <1>3, <2>4 DEF Redirect
        <3>2. request'[q].auth = (request[q].auth /\ KeepsAuthorization(request[q].url, hop[q].location))
              /\ request'[q].url = hop[q].location
            BY <3>1 DEF TypeOK, RedirectedRequest
        <3>3. request'[q].auth => Authorized(q) /\ AtHome(home, request'[q].url)
            BY <3>2, <2>4, <2>2, KeepsAtHome DEF AuthorizationConfined
        <3>4. \A r \in Requests \ {q} : request'[r] = request[r]
            BY <3>1 DEF TypeOK
        <3> QED
            BY <2>1, <3>3, <3>4, AskIsFixed DEF AuthorizationConfined
    <2> QED
        BY <2>3, <2>4
<1>4. ASSUME NEW q \in Requests,
             \/ Refuse(q) \/ Submit(q) \/ HopFails(q) \/ HopArrives(q) \/ MergeHop(q)
             \/ Decide(q) \/ Final(q) \/ ReadBody(q) \/ Cancel(q)
      PROVE  AuthorizationConfined'
    <2>1. UNCHANGED <<client, input, request>>
        BY <1>4 DEF Refuse, Submit, HopFails, HopArrives, MergeHop, Decide, Final, ReadBody, Cancel
    <2> QED
        BY <2>1, AskIsFixed DEF AuthorizationConfined
<1> QED
    BY <1>1, <1>2, <1>3, <1>4 DEF Next, Call, CallAsync, BuildInFuture, CallStream

\* redirect.rs, for every chain of redirects between any URLs: Authorization is
\* only sent to the origin the caller named or to its https upgrade.
THEOREM CredentialsStayHome == Spec => []AuthorizationConfined
<1>1. Init => AuthorizationConfined
    BY DEF Init, AuthorizationConfined, NoRequest
<1> QED
    BY <1>1, ClientTypes, AuthorizationStep, PTL DEF Spec

-----------------------------------------------------------------------------
(* The body                                                                *)

LEMMA BodyStep == TypeOK /\ BodyKeepsMethod /\ [Next]_vars => BodyKeepsMethod'
<1> SUFFICES ASSUME TypeOK, BodyKeepsMethod, [Next]_vars PROVE BodyKeepsMethod'
    OBVIOUS
<1>1. CASE UNCHANGED vars
    BY <1>1 DEF vars, BodyKeepsMethod
<1>2. ASSUME NEW q \in Requests, Build(q) PROVE BodyKeepsMethod'
    <2> DEFINE built == [method |-> input[q].method, url |-> MergeUrl(input[q].target),
                         auth |-> Authorized(q), body |-> input[q].body # {}]
    <2>1. UNCHANGED input
        BY <1>2 DEF Build
    <2>2. UNCHANGED request \/ request' = [request EXCEPT ![q] = built]
        BY <1>2 DEF Build
    <2>3. CASE UNCHANGED request
        BY <2>1, <2>3 DEF BodyKeepsMethod
    <2>4. CASE request' = [request EXCEPT ![q] = built]
        <3>1. request'[q] = built
            BY <2>4 DEF TypeOK
        <3>2. built.body = (input[q].body # {}) /\ built.method = input[q].method
            OBVIOUS
        <3>3. \A r \in Requests \ {q} : request'[r] = request[r]
            BY <2>4 DEF TypeOK
        <3> HIDE DEF built
        <3> QED
            BY <2>1, <3>1, <3>2, <3>3 DEF BodyKeepsMethod
    <2> QED
        BY <2>2, <2>3, <2>4
<1>3. ASSUME NEW q \in Requests, Redirect(q) PROVE BodyKeepsMethod'
    <2>1. CASE hop[q].location = Malformed
        BY <1>3, <2>1 DEF Redirect, BodyKeepsMethod
    <2>2. CASE hop[q].location # Malformed
        <3>1. /\ request' = [request EXCEPT ![q] = RedirectedRequest(request[q], hop[q].status, hop[q].location)]
              /\ UNCHANGED input
            BY <1>3, <2>2 DEF Redirect
        <3>2. request'[q].body => request[q].body /\ request'[q].method = request[q].method
            BY <3>1 DEF TypeOK, RedirectedRequest
        <3>3. \A r \in Requests \ {q} : request'[r] = request[r]
            BY <3>1 DEF TypeOK
        <3> QED
            BY <3>1, <3>2, <3>3 DEF BodyKeepsMethod
    <2> QED
        BY <2>1, <2>2
<1>4. ASSUME NEW q \in Requests,
             \/ Refuse(q) \/ Submit(q) \/ HopFails(q) \/ HopArrives(q) \/ MergeHop(q)
             \/ Decide(q) \/ Final(q) \/ ReadBody(q) \/ Cancel(q)
      PROVE  BodyKeepsMethod'
    <2>1. UNCHANGED <<input, request>>
        BY <1>4 DEF Refuse, Submit, HopFails, HopArrives, MergeHop, Decide, Final, ReadBody, Cancel
    <2> QED
        BY <2>1 DEF BodyKeepsMethod
<1> QED
    BY <1>1, <1>2, <1>3, <1>4 DEF Next, Call, CallAsync, BuildInFuture, CallStream

\* redirect.rs: once a redirect has changed the method, no later hop carries
\* the body.
THEOREM BodyConfined == Spec => []BodyKeepsMethod
<1>1. Init => BodyKeepsMethod
    BY DEF Init, BodyKeepsMethod, NoRequest
<1> QED
    BY <1>1, ClientTypes, BodyStep, PTL DEF Spec

-----------------------------------------------------------------------------
(* The length of a chain                                                   *)

LEMMA LimitType == TypeOK => client.policy.max \in Nat
BY DEF TypeOK, Policy

\* Hops against redirects_used, and the limit as the loop maintains it.
ChainInv ==
    \A q \in Requests :
        /\ pc[q] \in {"idle", "build", "send"} => hops[q] = used[q]
        /\ pc[q] \in {"merge", "decide", "drain", "final", "read"} => hops[q] = used[q] + 1
        /\ hops[q] <= used[q] + 1
        /\ used[q] > 0 => used[q] < client.policy.max
        /\ pc[q] = "drain" => used[q] + 1 < client.policy.max

LEMMA ChainStep == TypeOK /\ ChainInv /\ [Next]_vars => ChainInv'
<1> SUFFICES ASSUME TypeOK, ChainInv, [Next]_vars PROVE ChainInv'
    OBVIOUS
<1>1. CASE UNCHANGED vars
    BY <1>1 DEF vars, ChainInv
<1>2. ASSUME NEW q \in Requests, Submit(q) \/ Refuse(q) PROVE ChainInv'
    BY <1>2, LimitType DEF TypeOK, ChainInv, Submit, Refuse, Return, Goto
<1>10. ASSUME NEW q \in Requests, BuildInFuture(q) \/ CallStream(q) PROVE ChainInv'
    <2>1. /\ pc[q] \in {"idle", "build"}
          /\ \E step \in {"send", "done"} : pc' = [pc EXCEPT ![q] = step]
          /\ UNCHANGED <<client, hops, used>>
        BY <1>10 DEF BuildInFuture, CallStream, Build, Return, Goto
    <2> QED
        BY <2>1, LimitType DEF TypeOK, ChainInv
<1>3. ASSUME NEW q \in Requests, HopFails(q) PROVE ChainInv'
    BY <1>3, LimitType DEF TypeOK, ChainInv, HopFails, Return, Goto
<1>4. ASSUME NEW q \in Requests, HopArrives(q) PROVE ChainInv'
    BY <1>4, LimitType DEF TypeOK, ChainInv, HopArrives, Goto
<1>5. ASSUME NEW q \in Requests, MergeHop(q) PROVE ChainInv'
    BY <1>5, LimitType DEF TypeOK, ChainInv, MergeHop, AccumulateCookies, Goto
<1>6. ASSUME NEW q \in Requests, Decide(q) PROVE ChainInv'
    BY <1>6, LimitType DEF TypeOK, ChainInv, Decide, Return, Goto, LimitReached
<1>7. ASSUME NEW q \in Requests, Redirect(q) PROVE ChainInv'
    BY <1>7, LimitType DEF TypeOK, ChainInv, Redirect, Return, Goto
<1>8. ASSUME NEW q \in Requests, Final(q) PROVE ChainInv'
    BY <1>8, LimitType DEF TypeOK, ChainInv, Final, AccumulateCookies, Return, Goto
<1>11. ASSUME NEW q \in Requests, ReadBody(q) PROVE ChainInv'
    BY <1>11, LimitType DEF TypeOK, ChainInv, ReadBody, Return, Goto
<1>9. ASSUME NEW q \in Requests, Cancel(q) PROVE ChainInv'
    BY <1>9, LimitType DEF TypeOK, ChainInv, Cancel, Return, Goto
<1> QED
    BY <1>1, <1>2, <1>3, <1>4, <1>5, <1>6, <1>7, <1>8, <1>9, <1>10, <1>11 DEF Next, Call, CallAsync

\* client.rs: a chain of redirects sends at most max_redirects requests, also
\* for a server that redirects for ever.
THEOREM ChainsEnd == Spec => []ChainBounded
<1>1. ASSUME Init PROVE ChainInv
    <2>1. \A q \in Requests : pc[q] = "idle" /\ hops[q] = 0 /\ used[q] = 0
        BY <1>1 DEF Init
    <2> SUFFICES ASSUME NEW q \in Requests
                 PROVE  /\ hops[q] = used[q] /\ hops[q] <= used[q] + 1 /\ ~(used[q] > 0)
                        /\ pc[q] \notin {"merge", "decide", "drain", "final", "read"}
        BY DEF ChainInv
    <2> QED
        BY <2>1
<1>2. ASSUME TypeOK, ChainInv PROVE ChainBounded
    <2> SUFFICES ASSUME NEW q \in Requests
                 PROVE  hops[q] <= IF client.policy.max = 0 THEN 1 ELSE client.policy.max
        BY DEF ChainBounded
    <2>1. hops[q] \in Nat /\ used[q] \in Nat
        BY <1>2 DEF TypeOK
    <2>2. hops[q] <= used[q] + 1 /\ (used[q] > 0 => used[q] < client.policy.max)
        BY <1>2 DEF ChainInv
    <2> QED
        BY <1>2, <2>1, <2>2, LimitType
<1> QED
    BY <1>1, <1>2, ClientTypes, ChainStep, PTL DEF Spec

-----------------------------------------------------------------------------
(* The retries of a chain                                                  *)

\* Whether q follows redirects is settled when it is called.
LEMMA FollowsIsFixed ==
    ASSUME UNCHANGED <<client, input>>, NEW q \in Requests
    PROVE  Follows(q)' = Follows(q)
BY DEF Follows

\* The count of follow_redirects against what the hops really used.  A call that
\* does not follow keeps no count: its one hop's own number is reported.
Tallied(q) ==
    /\ Follows(q) => retries[q] = spent[q]
    /\ ~Follows(q) /\ pc[q] \in {"idle", "build", "send"} => spent[q] = 0
    /\ pc[q] \in {"merge", "decide", "drain"} => Follows(q)
    /\ pc[q] \in {"final", "read"} => hop[q].retries = spent[q]
    /\ pc[q] # "done" => result[q] = "none"
    /\ result[q] = "response" => hop[q].retries = spent[q]

TallyInv == \A q \in Requests : Tallied(q)

\* WithRetries sets the count and leaves the rest.
LEMMA WithRetriesFacts ==
    ASSUME NEW h \in Received, NEW n
    PROVE  WithRetries(h, n).retries = n /\ WithRetries(h, n).cookie = h.cookie
BY DEF WithRetries, Received

\* A request keeps its tally while another one moves.
LEMMA TallySame ==
    ASSUME NEW q \in Requests, Tallied(q), UNCHANGED <<client, input>>,
           retries'[q] = retries[q], spent'[q] = spent[q], pc'[q] = pc[q],
           hop'[q] = hop[q], result'[q] = result[q]
    PROVE  Tallied(q)'
BY FollowsIsFixed DEF Tallied

LEMMA TallyStep == TypeOK /\ TallyInv /\ [Next]_vars => TallyInv'
<1> SUFFICES ASSUME TypeOK, TallyInv, [Next]_vars, NEW t \in Requests PROVE Tallied(t)'
    BY DEF TallyInv
<1>0. Tallied(t) /\ UNCHANGED <<client, input>>
    BY AskStays DEF TallyInv
<1>a. Follows(t)' = Follows(t)
    BY <1>0, FollowsIsFixed
<1>b. hop[t] \in Received
    BY DEF TypeOK
<1>1. CASE UNCHANGED vars
    BY <1>0, <1>1, TallySame DEF vars
<1>2. ASSUME NEW q \in Requests, UNCHANGED <<hop, retries, spent>>,
             \E what \in Results \ {"response"} : Return(q, what)
      PROVE  Tallied(t)'
    <2>1. PICK what \in Results \ {"response"} :
             pc' = [pc EXCEPT ![q] = "done"] /\ result' = [result EXCEPT ![q] = what]
        BY <1>2 DEF Return, Goto
    <2>2. CASE t # q
        BY <1>0, <1>2, <2>1, <2>2, TallySame DEF TypeOK
    <2>3. CASE t = q
        <3>1. pc'[t] = "done" /\ result'[t] # "response"
            BY <2>1, <2>3 DEF TypeOK
        <3> QED
            BY <1>0, <1>a, <1>2, <3>1 DEF Tallied
    <2> QED
        BY <2>2, <2>3
<1>7. ASSUME NEW q \in Requests, UNCHANGED <<hop, retries, spent, result>>,
             \/ pc[q] = "idle" /\ Goto(q, "build")
             \/ pc[q] \in {"idle", "build", "drain"} /\ Goto(q, "send")
             \/ pc[q] = "merge" /\ Goto(q, "decide")
             \/ pc[q] = "decide" /\ Goto(q, "drain")
      PROVE  Tallied(t)'
    <2>1. CASE t # q
        BY <1>0, <1>7, <2>1, TallySame DEF TypeOK, Goto
    <2>2. CASE t = q
        BY <1>0, <1>a, <1>7, <2>2 DEF TypeOK, Tallied, Goto
    <2> QED
        BY <2>1, <2>2
<1>3. ASSUME NEW q \in Requests,
             Submit(q) \/ Refuse(q) \/ BuildInFuture(q) \/ CallStream(q) \/ HopFails(q)
                       \/ MergeHop(q) \/ Redirect(q) \/ Cancel(q)
      PROVE  Tallied(t)'
    <2>1. CASE Submit(q) \/ MergeHop(q)
        BY <1>7, <2>1 DEF Submit, MergeHop
    <2>2. CASE Refuse(q) \/ HopFails(q) \/ Cancel(q)
        BY <1>2, <2>2 DEF Refuse, HopFails, Cancel, Results
    <2>3. CASE BuildInFuture(q) \/ CallStream(q)
        BY <1>2, <1>7, <2>3 DEF BuildInFuture, CallStream, Build, Results
    <2>4. CASE Redirect(q)
        BY <1>2, <1>7, <2>4 DEF Redirect, Results
    <2> QED
        BY <1>3, <2>1, <2>2, <2>3, <2>4
<1>4. ASSUME NEW q \in Requests, HopArrives(q) PROVE Tallied(t)'
    <2>1. PICK h \in Hop :
             /\ retries' = [retries EXCEPT ![q] = IF Follows(q) THEN @ + h.retries ELSE @]
             /\ hop' = [hop EXCEPT ![q] = IF Follows(q) /\ ~IsRedirect(h.status)
                                         THEN WithRetries(h, retries'[q]) ELSE h]
             /\ spent' = [spent EXCEPT ![q] = @ + h.retries]
             /\ pc' = [pc EXCEPT ![q] = IF Follows(q) /\ IsRedirect(h.status)
                                       THEN "merge" ELSE "final"]
        BY <1>4 DEF HopArrives, Goto
    <2>2. pc[q] = "send" /\ UNCHANGED result
        BY <1>4 DEF HopArrives
    <2>3. CASE t # q
        BY <1>0, <2>1, <2>2, <2>3, TallySame DEF TypeOK
    <2>4. CASE t = q
        <3>1. h \in Received /\ h.retries \in Nat /\ spent[q] \in Nat /\ retries[q] \in Nat
            BY ClientAssumption DEF Hop, Received, TypeOK
        <3>2. /\ spent'[q] = spent[q] + h.retries
              /\ retries'[q] = IF Follows(q) THEN retries[q] + h.retries ELSE retries[q]
              /\ pc'[q] = IF Follows(q) /\ IsRedirect(h.status) THEN "merge" ELSE "final"
              /\ hop'[q] = IF Follows(q) /\ ~IsRedirect(h.status)
                           THEN WithRetries(h, retries'[q]) ELSE h
            BY <2>1 DEF TypeOK
        <3>3. result'[q] = "none"
            BY <1>0, <2>2, <2>4 DEF Tallied
        <3>4. CASE Follows(q)
            <4>1. retries'[q] = spent'[q]
                BY <1>0, <2>4, <3>1, <3>2, <3>4 DEF Tallied
            <4>2. WithRetries(h, retries'[q]).retries = retries'[q]
                BY <3>1, WithRetriesFacts
            <4> QED
                BY <1>a, <2>4, <3>2, <3>3, <3>4, <4>1, <4>2 DEF Tallied
        <3>5. CASE ~Follows(q)
            <4>1. spent[q] = 0
                BY <1>0, <2>2, <2>4, <3>5 DEF Tallied
            <4>2. spent'[q] = h.retries
                BY <3>1, <3>2, <4>1
            <4> QED
                BY <1>a, <2>4, <3>2, <3>3, <3>5, <4>2 DEF Tallied
        <3> QED
            BY <3>4, <3>5
    <2> QED
        BY <2>3, <2>4
<1>5. ASSUME NEW q \in Requests, Decide(q) PROVE Tallied(t)'
    <2>1. CASE LimitReached(q) /\ ~client.policy.raise
        <3>1. /\ hop' = [hop EXCEPT ![q] = WithRetries(hop[q], retries[q])]
              /\ pc' = [pc EXCEPT ![q] = "final"] /\ pc[q] = "decide"
              /\ UNCHANGED <<result, retries, spent>>
            BY <1>5, <2>1 DEF Decide, Goto
        <3>2. CASE t # q
            BY <1>0, <3>1, <3>2, TallySame DEF TypeOK
        <3>3. CASE t = q
            <4>1. hop'[q].retries = retries[q]
                BY <1>b, <3>1, <3>3, WithRetriesFacts DEF TypeOK
            <4> QED
                BY <1>0, <1>a, <3>1, <3>3, <4>1 DEF Tallied, TypeOK
        <3> QED
            BY <3>2, <3>3
    <2>2. CASE ~(LimitReached(q) /\ ~client.policy.raise)
        BY <1>2, <1>7, <1>5, <2>2 DEF Decide, Results
    <2> QED
        BY <2>1, <2>2
<1>6. ASSUME NEW q \in Requests, Final(q) \/ ReadBody(q) PROVE Tallied(t)'
    <2>1. UNCHANGED <<hop, retries, spent>> /\ pc[q] \in {"final", "read"}
        BY <1>6 DEF Final, ReadBody
    <2>2. \/ pc' = [pc EXCEPT ![q] = "read"] /\ UNCHANGED result
          \/ \E what : pc' = [pc EXCEPT ![q] = "done"] /\ result' = [result EXCEPT ![q] = what]
        BY <1>6 DEF Final, ReadBody, Return, Goto
    <2>3. CASE t # q
        BY <1>0, <2>1, <2>2, <2>3, TallySame DEF TypeOK
    <2>4. CASE t = q
        BY <1>0, <1>a, <2>1, <2>2, <2>4 DEF TypeOK, Tallied
    <2> QED
        BY <2>3, <2>4
<1> QED
    BY <1>1, <1>3, <1>4, <1>5, <1>6 DEF Next, Call, CallAsync

\* client.rs: whether the chain ends in a plain response, in one at the limit, or
\* was not to be followed at all, num_retries counts every hop's retries, for
\* any number of hops.
THEOREM TelemetryAddsUp == Spec => []RetriesAddUp
<1>1. Init => TallyInv
    BY DEF Init, TallyInv, Tallied, NoHop
<1>2. TallyInv => RetriesAddUp
    BY DEF TallyInv, Tallied, RetriesAddUp
<1> QED
    BY <1>1, <1>2, ClientTypes, TallyStep, PTL DEF Spec

-----------------------------------------------------------------------------
(* The cookies of a chain                                                  *)

\* Between its arrival and its merge, a hop's cookies are in the hop; at any
\* other time they are in the jar, unless the call was cancelled in between.
Jarred(q) ==
    \A i \in baked[q] :
        \/ <<q, i>> \in jar
        \/ pc[q] \in {"merge", "final"} /\ i = hops[q] /\ hop[q].cookie
        \/ pc[q] = "done" /\ result[q] = "cancelled"

JarInv == \A q \in Requests : Jarred(q)

\* The jar only grows, so that others' requests do not disturb q's cookies.
LEMMA JarredSame ==
    ASSUME NEW q \in Requests, Jarred(q), jar \subseteq jar',
           baked'[q] = baked[q], pc'[q] = pc[q], hops'[q] = hops[q], hop'[q] = hop[q],
           result'[q] = result[q]
    PROVE  Jarred(q)'
BY DEF Jarred

LEMMA JarStep == TypeOK /\ JarInv /\ [Next]_vars => JarInv'
<1> SUFFICES ASSUME TypeOK, JarInv, [Next]_vars, NEW t \in Requests PROVE Jarred(t)'
    BY DEF JarInv
<1>0. Jarred(t)
    BY DEF JarInv
<1>1. CASE UNCHANGED vars
    BY <1>0, <1>1, JarredSame DEF vars
<1>2. ASSUME NEW q \in Requests, NEW step, UNCHANGED <<baked, jar>>,
             pc[q] \notin {"merge", "final", "done"},
             pc' = [pc EXCEPT ![q] = step],
             \A o \in Requests : o # q => /\ hops'[o] = hops[o] /\ hop'[o] = hop[o]
                                          /\ result'[o] = result[o]
      PROVE  Jarred(t)'
    <2>1. CASE t # q
        BY <1>0, <1>2, <2>1, JarredSame DEF TypeOK
    <2>2. CASE t = q
        BY <1>0, <1>2, <2>2 DEF Jarred
    <2> QED
        BY <2>1, <2>2
<1>3. ASSUME NEW q \in Requests,
             Submit(q) \/ Refuse(q) \/ BuildInFuture(q) \/ CallStream(q) \/ HopFails(q)
                       \/ Decide(q) \/ Redirect(q) \/ ReadBody(q)
      PROVE  Jarred(t)'
    <2>1. /\ UNCHANGED <<baked, jar>> /\ pc[q] \notin {"merge", "final", "done"}
          /\ \E step : pc' = [pc EXCEPT ![q] = step]
        BY <1>3 DEF Submit, Refuse, BuildInFuture, CallStream, Build, HopFails, Decide,
                    Redirect, ReadBody, Return, Goto
    <2>2. \A o \in Requests : o # q => hops'[o] = hops[o]
        BY <1>3 DEF TypeOK, Submit, Refuse, BuildInFuture, CallStream, Build, HopFails,
                    Decide, Redirect, ReadBody
    <2>3. \A o \in Requests : o # q => hop'[o] = hop[o]
        BY <1>3 DEF TypeOK, Submit, Refuse, BuildInFuture, CallStream, Build, HopFails,
                    Decide, Redirect, ReadBody
    <2>4. \A o \in Requests : o # q => result'[o] = result[o]
        BY <1>3 DEF TypeOK, Submit, Refuse, BuildInFuture, CallStream, Build, HopFails,
                    Decide, Redirect, ReadBody, Return
    <2> QED
        BY <1>2, <2>1, <2>2, <2>3, <2>4
<1>4. ASSUME NEW q \in Requests, HopArrives(q) PROVE Jarred(t)'
    <2>1. PICK h \in Hop :
             /\ hops' = [hops EXCEPT ![q] = @ + 1]
             /\ hop' = [hop EXCEPT ![q] = IF Follows(q) /\ ~IsRedirect(h.status)
                                         THEN WithRetries(h, retries'[q]) ELSE h]
             /\ baked' = [baked EXCEPT ![q] = IF h.cookie THEN @ \cup {hops'[q]} ELSE @]
             /\ pc' = [pc EXCEPT ![q] = IF Follows(q) /\ IsRedirect(h.status)
                                       THEN "merge" ELSE "final"]
        BY <1>4 DEF HopArrives, Goto
    <2>2. pc[q] = "send" /\ UNCHANGED <<result, jar>>
        BY <1>4 DEF HopArrives
    <2>3. CASE t # q
        BY <1>0, <2>1, <2>2, <2>3, JarredSame DEF TypeOK
    <2>4. CASE t = q
        <3>1. h \in Received
            BY ClientAssumption DEF Hop, Received
        <3>2. hop'[q].cookie = h.cookie
            <4>1. hop'[q] = IF Follows(q) /\ ~IsRedirect(h.status)
                           THEN WithRetries(h, retries'[q]) ELSE h
                BY <2>1 DEF TypeOK
            <4> QED
                BY <3>1, <4>1, WithRetriesFacts
        <3>3. /\ pc'[q] \in {"merge", "final"}
              /\ baked'[q] = IF h.cookie THEN baked[q] \cup {hops'[q]} ELSE baked[q]
            BY <2>1 DEF TypeOK
        <3>4. \A i \in baked[q] : <<q, i>> \in jar'
            BY <1>0, <2>2, <2>4 DEF Jarred
        <3> QED
            BY <2>4, <3>2, <3>3, <3>4 DEF Jarred
    <2> QED
        BY <2>3, <2>4
<1>5. ASSUME NEW q \in Requests, MergeHop(q) \/ Final(q) PROVE Jarred(t)'
    <2>1. /\ UNCHANGED <<hop, hops, baked>> /\ pc[q] \in {"merge", "final"}
          /\ jar' = IF hop[q].cookie THEN jar \cup {<<q, hops[q]>>} ELSE jar
          /\ \E step \in {"decide", "read", "done"} : pc' = [pc EXCEPT ![q] = step]
        BY <1>5 DEF MergeHop, Final, AccumulateCookies, Return, Goto
    <2>2. \A o \in Requests : o # q => result'[o] = result[o]
        BY <1>5 DEF MergeHop, Final, Return, TypeOK
    <2>3. CASE t # q
        BY <1>0, <2>1, <2>2, <2>3, JarredSame DEF TypeOK
    <2>4. CASE t = q
        <3>1. \A i \in baked[q] : <<q, i>> \in jar'
            BY <1>0, <2>1, <2>4 DEF Jarred
        <3> QED
            BY <2>1, <2>4, <3>1 DEF Jarred
    <2> QED
        BY <2>3, <2>4
<1>6. ASSUME NEW q \in Requests, Cancel(q) PROVE Jarred(t)'
    <2>1. /\ UNCHANGED <<hop, hops, baked, jar>>
          /\ pc' = [pc EXCEPT ![q] = "done"]
          /\ result' = [result EXCEPT ![q] = "cancelled"]
        BY <1>6 DEF Cancel, Return, Goto
    <2>2. CASE t # q
        BY <1>0, <2>1, <2>2, JarredSame DEF TypeOK
    <2>3. CASE t = q
        BY <2>1, <2>3 DEF TypeOK, Jarred
    <2> QED
        BY <2>2, <2>3
<1> QED
    BY <1>1, <1>3, <1>4, <1>5, <1>6 DEF Next, Call, CallAsync

\* client.rs: every cookie a hop set is in the shared jar when the next hop is
\* sent and when the call ends in a response or in an error; only a
\* cancellation between a hop and its merge may lose that hop's cookies.
THEOREM CookiesReachTheJar == Spec => []CookiesKept
<1>1. Init => JarInv
    BY DEF Init, JarInv, Jarred
<1>2. JarInv => CookiesKept
    BY DEF JarInv, Jarred, CookiesKept
<1> QED
    BY <1>1, <1>2, ClientTypes, JarStep, PTL DEF Spec

=============================================================================
