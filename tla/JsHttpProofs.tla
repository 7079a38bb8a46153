---------------------------- MODULE JsHttpProofs -----------------------------
(***************************************************************************)
(* Proofs about JsHttp, for every set of requests, cookies and hosts, and  *)
(* any bound on the redirects.                                             *)
(***************************************************************************)
EXTENDS JsHttp, TLAPS

\* What holds of one request, whatever the other requests and the page do: only
\* a request that ended has answered and knows a response, one that was never
\* sent follows no redirect, and one that follows a redirect has its cookie.
Sound(r) ==
    /\ r.answers = (IF r.pc = "returned" THEN 1 ELSE 0)
    /\ r.outcome = "ok" => \/ r.status = "2xx" /\ r.body # "no_json"
                           \/ r.status = "400" /\ r.body = "null"
    /\ r.pc = "new" => r.given = None
    /\ r.given # None => r.cookie = r.given

Methods == {"GET", "POST", "PUT", "DELETE"}

\* A request as a record of the fields that the handlers know.
Record ==
    [pc : {"new", "sent", "returned", "not_authenticated", "raised"},
     type : {"none", "GET", "POST", "PUT", "DELETE"}, host : Hosts \cup {None},
     cookie : Cookies \cup {None}, hops : Nat, given : Cookies \cup {None},
     answers : 0..2, outcome : {"none", "ok", "error"},
     status : {"none", "2xx", "400", "other"}, body : {"none"} \cup Bodies]

\* The inductive invariant.
HttpInv ==
    /\ _cookies \in Cookies \cup {None}
    /\ _rootUrl \in Hosts
    /\ request \in [Requests -> Record]
    /\ \A q \in Requests : Sound(request[q])
-------------------------------------------------------------------------------
(* The records that the functions of the code make *)

\* The request nobody has sent is sound (Init).
LEMMA NewSound == NewRequest \in Record /\ Sound(NewRequest)
BY HttpAssumption DEF NewRequest, Record, Sound, Bodies

\* get, post, put and del keep a request that has not answered sound when the
\* cookie of a redirect is in the jar they are given (newRequest).
LEMMA SentSound ==
    ASSUME NEW r \in Record, NEW type \in Methods,
           NEW url \in Hosts \cup {None}, NEW jar \in Cookies \cup {None},
           _rootUrl \in Hosts, r.answers = 0,
           r.outcome = "ok" => \/ r.status = "2xx" /\ r.body # "no_json"
                               \/ r.status = "400" /\ r.body = "null",
           r.given # None => "cookie" \in middlewares /\ jar = r.given
    PROVE  LET s == [newRequest(r, type, url, jar) EXCEPT !.pc = "sent"]
           IN  s \in Record /\ Sound(s)
<1> DEFINE a == [r EXCEPT !.type = type, !.host = _realUrl(url)]
           b == [a EXCEPT !.cookie = IF "cookie" \in middlewares THEN jar ELSE None]
           s == [b EXCEPT !.pc = "sent"]
<1>1. a \in Record /\ a.answers = 0 /\ a.outcome = r.outcome /\ a.status = r.status
      /\ a.body = r.body /\ a.given = r.given
    <2> DEFINE c == [r EXCEPT !.type = type]
    <2>1. _realUrl(url) \in Hosts
        BY HttpAssumption DEF _realUrl
    <2>2. c \in Record /\ c.answers = 0 /\ c.outcome = r.outcome /\ c.status = r.status
          /\ c.body = r.body /\ c.given = r.given
        BY DEF Record, Methods
    <2> HIDE DEF c
    <2>3. [c EXCEPT !.host = _realUrl(url)] \in Record
        BY <2>1, <2>2 DEF Record
    <2> QED BY <2>2, <2>3 DEF c, Record
<1>2. b \in Record /\ b.answers = 0 /\ b.outcome = r.outcome /\ b.status = r.status
      /\ b.body = r.body /\ b.given = r.given
      /\ (r.given # None => b.cookie = r.given)
    <2> HIDE DEF a
    <2> QED BY <1>1 DEF Record
<1>3. s \in Record /\ s.answers = 0 /\ s.outcome = r.outcome /\ s.status = r.status
      /\ s.body = r.body /\ s.given = r.given /\ s.pc = "sent" /\ s.cookie = b.cookie
    <2> HIDE DEF b
    <2> QED BY <1>2 DEF Record
<1>4. s = [newRequest(r, type, url, jar) EXCEPT !.pc = "sent"]
    BY DEF newRequest, on_req_create
<1>5. Sound(s)
    <2> HIDE DEF s
    <2> QED BY <1>2, <1>3 DEF Sound
<1> QED BY <1>3, <1>4, <1>5

\* The record of a request that ended in its callback (called).
LEMMA CalledRecord ==
    ASSUME NEW o \in {"ok", "error"}
    PROVE  LET s == [NewRequest EXCEPT !.pc = "returned", !.answers = 1, !.outcome = o]
           IN  s \in Record /\ s.answers = 1 /\ s.pc = "returned" /\ s.outcome = o
               /\ s.given = None
<1> DEFINE a == [NewRequest EXCEPT !.pc = "returned"]
           b == [a EXCEPT !.answers = 1]
           s == [b EXCEPT !.outcome = o]
<1>1. NewRequest \in Record /\ NewRequest.given = None
    BY NewSound DEF NewRequest
<1>2. a \in Record /\ a.pc = "returned" /\ a.given = None
    BY <1>1 DEF Record
<1>3. b \in Record /\ b.answers = 1 /\ b.pc = "returned" /\ b.given = None
    <2> HIDE DEF a
    <2> QED BY <1>2 DEF Record
<1>4. s \in Record /\ s.answers = 1 /\ s.pc = "returned" /\ s.outcome = o /\ s.given = None
    <2> HIDE DEF b
    <2> QED BY <1>3 DEF Record
<1> QED BY <1>4

\* A callback is called once, and with no error only on a good response
\* (called, errorOf).
LEMMA CalledSound ==
    ASSUME NEW r \in Record, r.answers = 0
    PROVE  /\ called(r, "error") \in Record /\ Sound(called(r, "error"))
           /\ \A status \in {"2xx", "400", "other"}, body \in Bodies :
                 LET s == [called(r, errorOf(status, body)) EXCEPT !.status = status,
                                                                   !.body = body]
                 IN  s \in Record /\ Sound(s)
<1>1. called(r, "error") \in Record /\ Sound(called(r, "error"))
    <2>1. called(r, "error") = [NewRequest EXCEPT !.pc = "returned", !.answers = 1,
                                                  !.outcome = "error"]
        BY DEF called
    <2>2. /\ called(r, "error") \in Record
          /\ called(r, "error").answers = 1 /\ called(r, "error").pc = "returned"
          /\ called(r, "error").outcome = "error" /\ called(r, "error").given = None
        BY <2>1, CalledRecord
    <2> QED BY <2>2 DEF Sound
<1>2. ASSUME NEW status \in {"2xx", "400", "other"}, NEW body \in Bodies
      PROVE  LET s == [called(r, errorOf(status, body)) EXCEPT !.status = status, !.body = body]
             IN  s \in Record /\ Sound(s)
    <2>1. /\ errorOf(status, body) \in {"ok", "error"}
          /\ errorOf(status, body) = "ok" => \/ status = "2xx" /\ body # "no_json"
                                             \/ status = "400" /\ body = "null"
        BY DEF errorOf
    <2>2. ASSUME NEW o \in {"ok", "error"},
                 o = "ok" => \/ status = "2xx" /\ body # "no_json"
                             \/ status = "400" /\ body = "null"
          PROVE  LET s == [called(r, o) EXCEPT !.status = status, !.body = body]
                 IN  s \in Record /\ Sound(s)
        <3> DEFINE a == called(r, o)
                   s == [a EXCEPT !.status = status, !.body = body]
        <3>1. a = [NewRequest EXCEPT !.pc = "returned", !.answers = 1, !.outcome = o]
            BY DEF called
        <3>2. a \in Record /\ a.answers = 1 /\ a.pc = "returned" /\ a.outcome = o
              /\ a.given = None
            BY <3>1, CalledRecord
        <3> HIDE DEF a
        <3>3. s \in Record /\ s.answers = 1 /\ s.pc = "returned" /\ s.outcome = o
              /\ s.given = None /\ s.status = status /\ s.body = body
            BY <3>2 DEF Record
        <3> HIDE DEF s
        <3>4. Sound(s)
            BY <2>2, <3>3 DEF Sound
        <3> QED BY <3>3, <3>4 DEF a, s
    <2> QED BY <2>1, <2>2
<1> QED BY <1>1, <1>2
-------------------------------------------------------------------------------
(* The steps *)

\* A step that replaces one request by a sound one keeps the others as they are.
LEMMA OneRequest ==
    ASSUME HttpInv, NEW q \in Requests, NEW s \in Record, Sound(s),
           request' = [request EXCEPT ![q] = s],
           _cookies' \in Cookies \cup {None}, _rootUrl' = _rootUrl
    PROVE  HttpInv'
BY DEF HttpInv, Sound

\* get, post, put and del of the page (Send).
LEMMA SendStep ==
    ASSUME HttpInv, NEW q \in Requests, Send(q)
    PROVE  HttpInv'
<1>1. PICK url \in Hosts \cup {None}, type \in Methods :
         request' = [request EXCEPT ![q] =
                        [newRequest(request[q], type, url, _cookies) EXCEPT !.pc = "sent"]]
    BY DEF Send, get, post, put, del, Methods
<1>2. /\ request[q] \in Record /\ request[q].answers = 0 /\ request[q].given = None
      /\ Sound(request[q]) /\ _rootUrl \in Hosts /\ _cookies \in Cookies \cup {None}
    BY DEF HttpInv, Sound, Send
<1> DEFINE s == [newRequest(request[q], type, url, _cookies) EXCEPT !.pc = "sent"]
<1>3. s \in Record /\ Sound(s)
    <2>1. /\ request[q].outcome = "ok" => \/ /\ request[q].status = "2xx"
                                               /\ request[q].body # "no_json"
                                            \/ /\ request[q].status = "400"
                                               /\ request[q].body = "null"
          /\ request[q].given # None => "cookie" \in middlewares /\ _cookies = request[q].given
        BY <1>2 DEF Sound
    <2> QED BY <1>2, <2>1, SentSound
<1>4. _cookies' = _cookies /\ _rootUrl' = _rootUrl
    BY DEF Send
<1> HIDE DEF s
<1> QED BY <1>1, <1>2, <1>3, <1>4, OneRequest DEF s

\* A response: a redirect, a 401, an exception or the callback (onload).
LEMMA OnloadStep ==
    ASSUME HttpInv, NEW q \in Requests, onload(q)
    PROVE  HttpInv'
<1> DEFINE r == request[q]
<1>1. /\ r \in Record /\ r.answers = 0 /\ Sound(r) /\ request \in [Requests -> Record]
      /\ _rootUrl \in Hosts /\ _cookies \in Cookies \cup {None} /\ _rootUrl' = _rootUrl
    BY DEF HttpInv, Sound, onload
<1>2. PICK set \in Cookies \cup {None} :
         /\ _cookies' = on_req_finish(set)
         /\ \/ \E location \in Hosts \cup {None} :
                  request' = [request EXCEPT ![q] = redirected(r, location, set)]
            \/ \E end \in {"not_authenticated", "raised"} :
                  request' = [request EXCEPT ![q] = [NewRequest EXCEPT !.pc = end]]
            \/ \E status \in {"2xx", "400", "other"}, body \in Bodies :
                  request' = [request EXCEPT ![q] =
                      [called(r, errorOf(status, body)) EXCEPT !.status = status, !.body = body]]
    BY <1>1 DEF onload
<1>3. on_req_finish(set) \in Cookies \cup {None}
    BY <1>1 DEF on_req_finish
<1>4. CASE \E location \in Hosts \cup {None} :
              request' = [request EXCEPT ![q] = redirected(r, location, set)]
    <2>1. PICK location \in Hosts \cup {None} :
             request' = [request EXCEPT ![q] = redirected(r, location, set)]
        BY <1>4
    <2> DEFINE b == [r EXCEPT !.hops = r.hops + 1,
                              !.given = IF "cookie" \in middlewares THEN set ELSE None]
               s == [newRequest(b, "GET", location, on_req_finish(set)) EXCEPT !.pc = "sent"]
    <2>2. /\ b \in Record /\ b.answers = 0 /\ b.outcome = r.outcome /\ b.status = r.status
          /\ b.body = r.body
          /\ b.given = IF "cookie" \in middlewares THEN set ELSE None
        <3> DEFINE c == [r EXCEPT !.hops = r.hops + 1]
                   given == IF "cookie" \in middlewares THEN set ELSE None
        <3>1. c \in Record /\ c.answers = 0 /\ c.outcome = r.outcome /\ c.status = r.status
              /\ c.body = r.body
            BY <1>1 DEF Record
        <3>2. given \in Cookies \cup {None}
            OBVIOUS
        <3> HIDE DEF c, given
        <3>3. LET e == [c EXCEPT !.given = given]
              IN  e \in Record /\ e.answers = 0 /\ e.outcome = r.outcome
                  /\ e.status = r.status /\ e.body = r.body /\ e.given = given
            BY <3>1, <3>2 DEF Record
        <3> QED BY <3>3 DEF given, c
    <2>3. b.given # None => "cookie" \in middlewares /\ on_req_finish(set) = b.given
        BY <2>2 DEF on_req_finish
    <2>4. redirected(r, location, set) = s
        BY DEF redirected, get
    <2>5. s \in Record /\ Sound(s)
        <3> HIDE DEF b
        <3>1. b.outcome = "ok" => \/ b.status = "2xx" /\ b.body # "no_json"
                                  \/ b.status = "400" /\ b.body = "null"
            BY <1>1, <2>2 DEF Sound
        <3>2. "GET" \in Methods
            BY DEF Methods
        <3> QED BY <1>1, <1>3, <2>2, <2>3, <3>1, <3>2, SentSound
    <2> HIDE DEF s
    <2> QED BY <1>1, <1>2, <1>3, <2>1, <2>4, <2>5, OneRequest
<1>5. CASE \E end \in {"not_authenticated", "raised"} :
              request' = [request EXCEPT ![q] = [NewRequest EXCEPT !.pc = end]]
    <2>1. PICK end \in {"not_authenticated", "raised"} :
             request' = [request EXCEPT ![q] = [NewRequest EXCEPT !.pc = end]]
        BY <1>5
    <2> DEFINE s == [NewRequest EXCEPT !.pc = end]
    <2>2. s = [pc |-> end, type |-> "none", host |-> None, cookie |-> None, hops |-> 0,
               given |-> None, answers |-> 0, outcome |-> "none", status |-> "none",
               body |-> "none"]
        BY DEF NewRequest
    <2> HIDE DEF s
    <2>3. s \in Record
        BY <2>2 DEF Record
    <2>4. Sound(s)
        BY <2>2 DEF Sound
    <2> QED BY <1>1, <1>2, <1>3, <2>1, <2>3, <2>4, OneRequest DEF s
<1>6. CASE \E status \in {"2xx", "400", "other"}, body \in Bodies :
              request' = [request EXCEPT ![q] =
                  [called(r, errorOf(status, body)) EXCEPT !.status = status, !.body = body]]
    <2>1. PICK status \in {"2xx", "400", "other"}, body \in Bodies :
              request' = [request EXCEPT ![q] =
                  [called(r, errorOf(status, body)) EXCEPT !.status = status, !.body = body]]
        BY <1>6
    <2> DEFINE s == [called(r, errorOf(status, body)) EXCEPT !.status = status, !.body = body]
    <2>2. s \in Record /\ Sound(s)
        BY <1>1, CalledSound
    <2> HIDE DEF s
    <2> QED BY <1>1, <1>2, <1>3, <2>1, <2>2, OneRequest DEF s
<1> QED BY <1>2, <1>4, <1>5, <1>6

\* A timeout or an error of the network (fails).
LEMMA FailsStep ==
    ASSUME HttpInv, NEW q \in Requests, fails(q)
    PROVE  HttpInv'
<1>1. request[q] \in Record /\ request[q].answers = 0
    BY DEF HttpInv, Sound, fails
<1> DEFINE s == called(request[q], "error")
<1>2. s \in Record /\ Sound(s)
    BY <1>1, CalledSound
<1>3. /\ request' = [request EXCEPT ![q] = s]
      /\ _cookies' \in Cookies \cup {None} /\ _rootUrl' = _rootUrl
    BY DEF fails, HttpInv
<1> HIDE DEF s
<1> QED BY <1>2, <1>3, OneRequest

\* HttpInv holds at first and in every step of the requests and of the page.
LEMMA HttpInvariant == Spec => []HttpInv
<1>1. Init => HttpInv
    BY NewSound DEF Init, HttpInv
<1>2. HttpInv /\ [Next]_vars => HttpInv'
    <2> SUFFICES ASSUME HttpInv, [Next]_vars PROVE HttpInv'
        OBVIOUS
    <2>1. ASSUME NEW q \in Requests, Send(q) PROVE HttpInv'
        BY <2>1, SendStep
    <2>2. ASSUME NEW q \in Requests, onload(q) PROVE HttpInv'
        BY <2>2, OnloadStep
    <2>3. ASSUME NEW q \in Requests, fails(q) PROVE HttpInv'
        BY <2>3, FailsStep
    <2>4. ASSUME NEW m \in {"cookie", "token"}, use(m) PROVE HttpInv'
        BY <2>4 DEF HttpInv, use, Sound
    <2>5. ASSUME NEW c \in Cookies, setCookies(c) PROVE HttpInv'
        BY <2>5 DEF HttpInv, setCookies, Sound
    <2>6. ASSUME NEW h \in Hosts, setRootUrl(h) PROVE HttpInv'
        BY <2>6 DEF HttpInv, setRootUrl, Sound
    <2>7. CASE UNCHANGED vars
        BY <2>7 DEF HttpInv, vars, Sound
    <2> QED BY <2>1, <2>2, <2>3, <2>4, <2>5, <2>6, <2>7 DEF Next
<1> QED BY <1>1, <1>2, PTL DEF Spec
-------------------------------------------------------------------------------
\* The callback of a request runs once, however often it is redirected and
\* whatever the other requests and the page do meanwhile, and it is told of no
\* error only when the response was good (onload and its returns).
THEOREM AnsweredOnce == Spec => []CallbackOnce
<1>1. HttpInv => CallbackOnce
    BY DEF HttpInv, Sound, CallbackOnce
<1> QED BY <1>1, HttpInvariant, PTL

\* A redirect is followed with the cookie it set, also when another response or
\* the page changes the jar, or a middleware comes into use, before or after
\* (on_req_finish runs before the redirect is followed).
THEOREM CookieFollows == Spec => []RedirectCarriesCookie
<1>1. HttpInv => RedirectCarriesCookie
    BY DEF HttpInv, Sound, RedirectCarriesCookie
<1> QED BY <1>1, HttpInvariant, PTL
===============================================================================
