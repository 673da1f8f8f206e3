------------------------------ MODULE MCClient ------------------------------
(***************************************************************************)
(* Constants for Client: a plain URL, its https upgrade, another port and  *)
(* another host; clients with and without a base URL, a token and a policy *)
(* of their own, and calls of every kind.                                  *)
(***************************************************************************)
EXTENDS Client

At(scheme, host, port) == [scheme |-> scheme, host |-> host, port |-> port]

TestUrls == {At("http", "a", 80), At("https", "a", 443), At("http", "a", 8080),
             At("http", "b", 80)}

To(kind, url) == [kind |-> kind, url |-> url]
Home == To("absolute", At("http", "a", 80))
Path == To("reference", Foreign)

Ask(via, method, body, target, auth) ==
    [via |-> via, method |-> method, target |-> target, auth |-> auth,
     header |-> FALSE, body |-> body, follow |-> {}]

TestInputs ==
    {Ask("arequest", "POST", {"json"}, Home, {"basic"}),
     Ask("request", "PUT", {"data"}, Path, {}),
     Ask("astream", "HEAD", {}, Path, {"bearer"}),
     Ask("stream", "GET", {}, To("embedded", At("http", "b", 80)), {}),
     [Ask("request", "GET", {}, Home, {}) EXCEPT !.follow = {FALSE}, !.header = TRUE],
     Ask("request", "GET", {}, To("absolute", Foreign), {}),
     Ask("request", "GET", {}, Home, {"basic", "bearer"}),
     Ask("stream", "POST", {"json", "data"}, Home, {}),
     Ask("request", NoMethod, {}, Home, {})}

Args(follow, max, redirects, base, bearer) ==
    [follow |-> follow, max |-> max, redirects |-> redirects, base |-> base,
     bearer |-> bearer, transport |-> FALSE, tuned |-> TRUE]

Patient == [follow |-> TRUE, max |-> 3, raise |-> FALSE]

TestClients ==
    {Args({TRUE}, {3}, {}, {}, FALSE),
     Args({TRUE}, {2}, {}, {Home}, TRUE),
     Args({}, {}, {Patient}, {To("absolute", At("https", "a", 443))}, TRUE),
     Args({}, {}, {}, {To("opaque", Foreign)}, FALSE),
     Args({}, {}, {}, {To("rooted", Foreign)}, FALSE),
     Args({TRUE}, {0}, {}, {}, FALSE),
     Args({FALSE}, {}, {Patient}, {Home}, TRUE),
     Args({TRUE}, {3}, {}, {Path}, TRUE)}

TestStatuses == {200, 301, 303, 307}

TestRetries == {0, 1}

=============================================================================
