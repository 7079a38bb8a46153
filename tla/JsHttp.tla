------------------------------- MODULE JsHttp --------------------------------
(***************************************************************************)
(* The HttpManager of the JavaScript client (plugin/js/pymaid.js): the     *)
(* requests of a page, several at once, the middlewares they share with    *)
(* their jar of cookies, and the redirects, which are new requests made    *)
(* from inside the handler of the old one.                                 *)
(*                                                                         *)
(* An action is a call of the page or an event of a request.  The request  *)
(* class (XMLHttpRequest) is external: of every request that was sent it   *)
(* reports exactly one of load, timeout and error.  A body is known by     *)
(* what JSON.parse makes of it.                                            *)
(***************************************************************************)
EXTENDS Naturals

CONSTANTS Requests,     \* the requests the page may make
          Cookies,      \* values of a cookie
          Hosts,
          MaxHops,      \* bound: redirects of one request
          None

ASSUME HttpAssumption ==
    /\ None \notin Cookies \cup Hosts
    /\ MaxHops \in Nat

\* What JSON.parse makes of a body.
Bodies == {"json", "null", "no_json"}

VARIABLES
    middlewares,    \* those in use
    _cookies,       \* the jar
    _rootUrl,       \* the host that a url without one is for
    request         \* per request: its current XMLHttpRequest and its end

vars == <<middlewares, _cookies, _rootUrl, request>>

\* Histories: given is the cookie that came with the redirect being followed,
\* status and body are those of the response that ended the request.
NewRequest ==
    [pc |-> "new", type |-> "none", host |-> None, cookie |-> None, hops |-> 0,
     given |-> None, answers |-> 0, outcome |-> "none", status |-> "none", body |-> "none"]

Init ==
    /\ middlewares = {}
    /\ _cookies = None
    /\ _rootUrl \in Hosts
    /\ request = [q \in Requests |-> NewRequest]
-------------------------------------------------------------------------------
(* Making a request *)

\* A url has a host of its own or is completed.
_realUrl(url) == IF url = None THEN _rootUrl ELSE url

\* CookieMiddleware puts the jar as it is then into every request that is made;
\* TokenMiddleware adds a header that nothing depends on.
on_req_create(r, jar) ==
    [r EXCEPT !.cookie = IF "cookie" \in middlewares THEN jar ELSE None]

\* The timeout of a request only decides when it fails.
newRequest(r, type, url, jar) ==
    on_req_create([r EXCEPT !.type = type, !.host = _realUrl(url)], jar)

\* Mutant: a redirect is made into a request that nobody sends.
get_unsent(r, url, jar) ==
    [newRequest(r, "GET", url, jar) EXCEPT !.pc = IF r.hops > 0 THEN "made" ELSE "sent"]

\* The data of a request are parameters of its url, or its content.
get(r, url, jar) == [newRequest(r, "GET", url, jar) EXCEPT !.pc = "sent"]
post(r, url, jar) == [newRequest(r, "POST", url, jar) EXCEPT !.pc = "sent"]
put(r, url, jar) == [newRequest(r, "PUT", url, jar) EXCEPT !.pc = "sent"]
del(r, url, jar) == [newRequest(r, "DELETE", url, jar) EXCEPT !.pc = "sent"]

Send(q) ==
    /\ request[q].pc = "new"
    /\ \E url \in Hosts \cup {None} :
          \E r \in {get(request[q], url, _cookies), post(request[q], url, _cookies),
                    put(request[q], url, _cookies), del(request[q], url, _cookies)} :
             request' = [request EXCEPT ![q] = r]
    /\ UNCHANGED <<middlewares, _cookies, _rootUrl>>
-------------------------------------------------------------------------------
(* The end of a request *)

\* The jar after a response with this Set-Cookie header.
on_req_finish(set) ==
    IF "cookie" \in middlewares /\ set # None THEN set ELSE _cookies

\* The callback runs, with an error or without; of the request only that is kept.
called(r, outcome) ==
    [NewRequest EXCEPT !.pc = "returned", !.answers = IF r.answers = 2 THEN 2 ELSE r.answers + 1,
                       !.outcome = outcome]

\* What err is when the callback runs.  The error of a 400 is what its body
\* parses to, which may be null.
errorOf(status, body) ==
    CASE status = "2xx" -> IF body = "no_json" THEN "error" ELSE "ok"
      [] status = "400" -> IF body = "null" THEN "ok" ELSE "error"
      [] OTHER -> "error"

\* Mutant: the return after a redirect is missing.
redirected_and_called(r, location, set) ==
    get([r EXCEPT !.hops = @ + 1, !.answers = @ + 1], location, on_req_finish(set))

\* Mutant: the response is looked at before the middlewares see it.
redirected_before_finish(r, location, set) ==
    get([r EXCEPT !.hops = @ + 1, !.given = IF "cookie" \in middlewares THEN set ELSE None],
        location, _cookies)

\* A redirect is followed by a GET without data and without the caller's
\* timeout; its callback is the old one.
redirected(r, location, set) ==
    get([r EXCEPT !.hops = @ + 1, !.given = IF "cookie" \in middlewares THEN set ELSE None],
        location, on_req_finish(set))

\* onload.  After a 401 only onNotAuthenticated is called, no callback; a
\* redirect without a Location raises an exception.
onload(q) ==
    /\ request[q].pc = "sent"
    /\ \E set \in Cookies \cup {None} :
          /\ _cookies' = on_req_finish(set)
          /\ \/ /\ request[q].hops < MaxHops
                /\ \E location \in Hosts \cup {None} :
                      request' = [request EXCEPT ![q] = redirected(@, location, set)]
             \/ \E end \in {"not_authenticated", "raised"} :
                   request' = [request EXCEPT ![q] = [NewRequest EXCEPT !.pc = end]]
             \/ \E status \in {"2xx", "400", "other"}, body \in Bodies :
                   request' = [request EXCEPT ![q] =
                       [called(@, errorOf(status, body)) EXCEPT !.status = status, !.body = body]]
    /\ UNCHANGED <<middlewares, _rootUrl>>

\* ontimeout and onerror
fails(q) ==
    /\ request[q].pc = "sent"
    /\ request' = [request EXCEPT ![q] = called(@, "error")]
    /\ UNCHANGED <<middlewares, _cookies, _rootUrl>>
-------------------------------------------------------------------------------
(* Settings the page may change while requests are under way *)

use(m) ==
    /\ m \notin middlewares
    /\ middlewares' = middlewares \cup {m}
    /\ UNCHANGED <<_cookies, _rootUrl, request>>

setCookies(cookies) ==
    /\ cookies # None
    /\ _cookies' = cookies
    /\ UNCHANGED <<middlewares, _rootUrl, request>>

setRootUrl(url) ==
    /\ _rootUrl' = url
    /\ UNCHANGED <<middlewares, _cookies, request>>

Next ==
    \/ \E q \in Requests : Send(q) \/ onload(q) \/ fails(q)
    \/ \E m \in {"cookie", "token"} : use(m)
    \/ \E c \in Cookies : setCookies(c)
    \/ \E h \in Hosts : setRootUrl(h)

Spec == Init /\ [][Next]_vars

\* A request that was sent loads, fails or times out.
FairSpec == Spec /\ \A q \in Requests : WF_vars(onload(q) \/ fails(q))
-------------------------------------------------------------------------------
(* Properties *)

\* A callback runs once, also where redirects hand it from request to request
\* (onload: the returns after a redirect and after a 401); and when it is told of
\* no error its response was a 2xx that is JSON, or a 400 whose body is null.
CallbackOnce ==
    \A q \in Requests :
        LET r == request[q]
        IN  /\ r.answers = (IF r.pc = "returned" THEN 1 ELSE 0)
            /\ r.outcome = "ok" => \/ r.status = "2xx" /\ r.body # "no_json"
                                   \/ r.status = "400" /\ r.body = "null"

\* A redirect that sets a cookie is followed with that cookie, whatever the
\* other requests and the page do to the jar (on_req_finish comes first).
RedirectCarriesCookie ==
    \A q \in Requests : request[q].given # None => request[q].cookie = request[q].given

\* Every request ends, in its callback, in onNotAuthenticated after a 401 or in
\* an exception, if the servers redirect it a bounded number of times (onload).
RequestsEnd ==
    \A q \in Requests :
        request[q].pc # "new" ~> request[q].pc \in {"returned", "not_authenticated", "raised"}
===============================================================================
