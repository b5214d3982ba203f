--------------------------- MODULE RequestsProofs ---------------------------
(***************************************************************************)
(* Theorems about Requests, for any tokens, session ids and servers.       *)
(***************************************************************************)
EXTENDS Requests, TLAPS

(* The cookie the proxy remembers is the one of the session-id.            *)
CookieOfSession ==
    cookie = IF session = None THEN None ELSE [id |-> session, domain |-> setUnder]

(* What was asked for a header is what the proxy has for it.               *)
HeadersAsAsked ==
    \A h \in HeaderNames : asked[h] # "unasked" => headers[h] = asked[h]

(* The inductive invariant of the session cookie.                          *)
SessionInv == JarHoldsSession /\ CookieOfSession

-----------------------------------------------------------------------------
LEMMA CallHeadersType ==
    ASSUME TypeOK
    PROVE  /\ CallHeaders \in Headers
           /\ [CallHeaders EXCEPT !["All-Content"] = "true"] \in Headers
  <1>1. headers \in Headers /\ admin \in BOOLEAN
    BY DEF TypeOK
  <1>2. CallHeaders \in Headers
    BY <1>1 DEF CallHeaders, Headers, Values, HeaderNames
  <1> QED BY <1>2 DEF Headers, Values, HeaderNames

LEMMA InitType == Init => TypeOK
  <1> SUFFICES ASSUME Init PROVE TypeOK
    OBVIOUS
  <1>1. NoHeaders \in Headers /\ headers \in Headers
    BY DEF Init, NoHeaders, Headers, Values, HeaderNames
  <1>2. call \in CallStates
    BY <1>1 DEF Init, CallStates
  <1>3. asked \in [HeaderNames -> Values \cup {None, "unasked"}]
    BY DEF Init
  <1> QED BY <1>1, <1>2, <1>3 DEF Init, TypeOK

LEMMA NextType == TypeOK /\ [Next]_vars => TypeOK'
  <1> SUFFICES ASSUME TypeOK, [Next]_vars PROVE TypeOK'
    OBVIOUS
  <1>1. ASSUME NEW h \in Asks, NEW v \in {"client", None}, AddHeader(h, v)
        PROVE  TypeOK'
    <2>1. v \in Values \cup {None}
      BY DEF Values
    <2>2. headers' \in Headers
      BY <1>1, <2>1 DEF AddHeader, TypeOK, Headers
    <2>3. asked' \in [HeaderNames -> Values \cup {None, "unasked"}]
      BY <1>1, <2>1 DEF AddHeader, TypeOK
    <2> QED BY <1>1, <2>2, <2>3 DEF AddHeader, TypeOK
  <1>2. CASE SetAdmin
    BY <1>2 DEF SetAdmin, TypeOK
  <1>3. ASSUME NEW t \in Tokens \cup {None}, SetSsoToken(t) PROVE TypeOK'
    <2>1. (IF t = None THEN "nobody" ELSE t) \in Values
      BY DEF Values
    <2>2. headers' \in Headers
      BY <1>3, <2>1 DEF SetSsoToken, TypeOK, Headers, HeaderNames
    <2>3. (IF t = None THEN "unasked" ELSE t) \in Values \cup {None, "unasked"}
      BY DEF Values
    <2>4. asked' \in [HeaderNames -> Values \cup {None, "unasked"}]
      BY <1>3, <2>3 DEF SetSsoToken, TypeOK, HeaderNames
    <2> QED BY <1>3, <2>2, <2>4 DEF SetSsoToken, TypeOK
  <1>4. ASSUME NEW s \in Sessions \cup {None}, SetSessionId(s) PROVE TypeOK'
    <2>1. cookie' \in Cookies \cup {None}
      BY <1>4 DEF SetSessionId, TypeOK, Cookies
    <2>2. s # None => cookie' \in Cookies
      BY <1>4 DEF SetSessionId, TypeOK, Cookies
    <2>3. jar' \subseteq Cookies
      BY <1>4, <2>2 DEF SetSessionId, TypeOK, Added
    <2> QED BY <1>4, <2>1, <2>3 DEF SetSessionId, TypeOK
  <1>5. ASSUME NEW u \in Urls, SetUrl(u) PROVE TypeOK'
    BY <1>5 DEF SetUrl, TypeOK
  <1>6. ASSUME NEW form \in Forms, Make(form) PROVE TypeOK'
    <2>1. call' \in CallStates
      BY <1>6, CallHeadersType DEF Make, CallStates, TypeOK
    <2> QED BY <1>6, <2>1 DEF Make, TypeOK
  <1>7. CASE StartRequest
    <2>1. {k.id : k \in {o \in jar : Matches(o, call.url)}} \in SUBSET Sessions
      BY DEF TypeOK, Cookies
    <2>2. call' \in CallStates
      BY <1>7, <2>1 DEF StartRequest, TypeOK, CallStates
    <2> QED BY <1>7, <2>2 DEF StartRequest, TypeOK
  <1>8. CASE UNCHANGED vars
    BY <1>8 DEF vars, TypeOK
  <1> QED BY <1>1, <1>2, <1>3, <1>4, <1>5, <1>6, <1>7, <1>8 DEF Next

(* The type invariant of Requests holds for any tokens, ids and servers.   *)
THEOREM Typing == Spec => []TypeOK
  <1>1. Init => TypeOK
    BY InitType
  <1>2. TypeOK /\ [Next]_vars => TypeOK'
    BY NextType
  <1> QED BY <1>1, <1>2, PTL DEF Spec

-----------------------------------------------------------------------------
LEMMA SessionInit == Init => SessionInv
  BY DEF Init, SessionInv, JarHoldsSession, CookieOfSession

LEMMA SessionNext == SessionInv /\ [Next]_vars => SessionInv'
  <1> SUFFICES ASSUME SessionInv, [Next]_vars PROVE SessionInv'
    OBVIOUS
  <1>1. ASSUME NEW s \in Sessions \cup {None}, SetSessionId(s) PROVE SessionInv'
    <2>1. jar \ {cookie} = {}
      BY DEF SessionInv, JarHoldsSession, CookieOfSession
    <2>2. CookieOfSession'
      BY <1>1 DEF SetSessionId, CookieOfSession
    <2>3. JarHoldsSession'
      BY <1>1, <2>1 DEF SetSessionId, JarHoldsSession, Added
    <2> QED BY <2>2, <2>3 DEF SessionInv
  <1>2. CASE UNCHANGED <<session, jar, cookie, setUnder>>
    BY <1>2 DEF SessionInv, JarHoldsSession, CookieOfSession
  <1> QED
    BY <1>1, <1>2
    DEF Next, vars, AddHeader, SetAdmin, SetSsoToken, SetUrl, Make, StartRequest

(* However often session-id and url-format are set, and in whatever order, *)
(* the jar has the one cookie of the current id (ovirt_proxy_set_session_id). *)
THEOREM JarHoldsSessionSafe == Spec => []JarHoldsSession
  <1>1. SessionInv => JarHoldsSession
    BY DEF SessionInv
  <1> QED BY <1>1, SessionInit, SessionNext, PTL DEF Spec

(* A proxy of https servers named without a port (ovirt-proxy.c:724) sends *)
(* the session-id of now with each request                                 *)
(* to the server it was set for, however long the request has been waiting. *)
THEOREM SessionSentSafe ==
    ASSUME \A u \in Urls : u.bare
    PROVE  Spec => SessionSent
  <1>1. ASSUME TypeOK, SessionInv, StartRequest, session # None, call.url = setUnder
        PROVE  call'.sent = {session}
    <2> DEFINE k == [id |-> session, domain |-> setUnder]
    <2>1. jar = {k}
      BY <1>1 DEF SessionInv, JarHoldsSession
    <2>2. Matches(k, call.url)
      BY <1>1 DEF Matches, TypeOK
    <2>3. {o \in jar : Matches(o, call.url)} = {k}
      BY <2>1, <2>2
    <2>4. {o.id : o \in {k}} = {session}
      OBVIOUS
    <2>5. call'.sent = {o.id : o \in {p \in jar : Matches(p, call.url)}}
      BY <1>1 DEF StartRequest, TypeOK, CallStates
    <2> QED BY <2>3, <2>4, <2>5
  <1>2. TypeOK /\ SessionInv /\ [Next]_vars =>
            [StartRequest /\ session # None /\ call.url = setUnder
                => call'.sent = {session}]_vars
    BY <1>1
  <1> QED BY <1>2, Typing, SessionInit, SessionNext, PTL DEF Spec, SessionSent

-----------------------------------------------------------------------------
LEMMA AskedNext == TypeOK /\ HeadersAsAsked /\ [Next]_vars => HeadersAsAsked'
  <1> SUFFICES ASSUME TypeOK, HeadersAsAsked, [Next]_vars PROVE HeadersAsAsked'
    OBVIOUS
  <1>1. /\ DOMAIN headers = HeaderNames /\ DOMAIN asked = HeaderNames
        /\ headers = [h \in HeaderNames |-> headers[h]]
        /\ asked = [h \in HeaderNames |-> asked[h]]
    BY DEF TypeOK, Headers
  <1>2. ASSUME NEW h \in Asks, NEW v \in {"client", None}, AddHeader(h, v)
        PROVE  HeadersAsAsked'
    BY <1>1, <1>2 DEF AddHeader, HeadersAsAsked
  <1>3. ASSUME NEW t \in Tokens \cup {None}, SetSsoToken(t) PROVE HeadersAsAsked'
    BY <1>1, <1>3 DEF SetSsoToken, HeadersAsAsked
  <1>4. CASE UNCHANGED <<headers, asked>>
    BY <1>4 DEF HeadersAsAsked
  <1> QED
    BY <1>2, <1>3, <1>4
    DEF Next, vars, SetAdmin, SetSessionId, SetUrl, Make, StartRequest

(* Each call carries what was last asked for each header, whatever the     *)
(* order of ovirt_proxy_add_header and of setting sso-token and admin.     *)
THEOREM CarriesAskedSafe == Spec => CarriesAsked
  <1>1. Init => HeadersAsAsked
    BY DEF Init, HeadersAsAsked
  <1>2. ASSUME TypeOK, HeadersAsAsked, NEW form \in Forms, Make(form),
               NEW h \in HeaderNames
        PROVE  Carries(form, h, call'.headers[h])
    <2>1. headers = [g \in HeaderNames |-> headers[g]]
      BY <1>2 DEF TypeOK, Headers
    <2>2. call'.headers = IF form = "refresh_async"
                          THEN [CallHeaders EXCEPT !["All-Content"] = "true"]
                          ELSE CallHeaders
      BY <1>2 DEF Make
    <2>3. CallHeaders[h] = IF h = "Filter" /\ headers[h] = None
                           THEN IF admin THEN "false" ELSE "true"
                           ELSE headers[h]
      BY <2>1 DEF CallHeaders, HeaderNames
    <2>4. CASE form = "refresh_async" /\ h = "All-Content"
      <3>1. call'.headers[h] = "true"
        BY <2>2, <2>4, CallHeadersType, <1>2 DEF Headers
      <3> QED BY <2>4, <3>1 DEF Carries
    <2>5. CASE ~(form = "refresh_async" /\ h = "All-Content")
      <3>1. call'.headers[h] = CallHeaders[h]
        BY <2>2, <2>5, CallHeadersType, <1>2 DEF Headers
      <3> QED BY <1>2, <2>3, <3>1 DEF Carries, HeadersAsAsked
    <2> QED BY <2>4, <2>5
  <1>3. TypeOK /\ HeadersAsAsked /\ [Next]_vars =>
            [\A form \in Forms : Make(form) =>
                \A h \in HeaderNames : Carries(form, h, call'.headers[h])]_vars
    BY <1>2
  <1> QED BY <1>1, <1>3, AskedNext, Typing, PTL DEF Spec, CarriesAsked

-----------------------------------------------------------------------------
(* A session id goes to no server but the one named by the url-format it    *)
(* was set under, and never once it was replaced or unset, although a call  *)
(* takes it from the jar when it starts and not when it is made.            *)
StaysHome ==
    [][StartRequest =>
          /\ call'.sent \subseteq {session}
          /\ call'.sent # {} => setUnder.bare /\ call.url.host = setUnder.host]_vars

(* A session id stays with its server (ovirt_proxy_set_session_id), for any *)
(* servers, also those whose name libsoup does not match with the cookie.   *)
THEOREM StaysHomeSafe == Spec => StaysHome
  <1>1. ASSUME TypeOK, SessionInv, StartRequest
        PROVE  /\ call'.sent \subseteq {session}
               /\ call'.sent # {} => setUnder.bare /\ call.url.host = setUnder.host
    <2>1. call'.sent = {k.id : k \in {o \in jar : Matches(o, call.url)}}
      BY <1>1 DEF StartRequest, TypeOK, CallStates
    <2>2. CASE session = None
      <3>1. jar = {}
        BY <1>1, <2>2 DEF SessionInv, JarHoldsSession
      <3> QED BY <2>1, <3>1
    <2>3. CASE session # None
      <3> DEFINE k == [id |-> session, domain |-> setUnder]
      <3>1. jar = {k} /\ k.id = session
        BY <1>1, <2>3 DEF SessionInv, JarHoldsSession
      <3>2. Matches(k, call.url) <=> setUnder.bare /\ call.url.host = setUnder.host
        BY <1>1 DEF Matches
      <3> HIDE DEF k
      <3>3. CASE Matches(k, call.url)
        BY <2>1, <3>1, <3>2, <3>3
      <3>4. CASE ~Matches(k, call.url)
        <4>1. {o \in jar : Matches(o, call.url)} = {}
          BY <3>1, <3>4
        <4> QED BY <2>1, <4>1
      <3> QED BY <3>3, <3>4
    <2> QED BY <2>2, <2>3
  <1>2. TypeOK /\ SessionInv /\ [Next]_vars =>
            [StartRequest =>
                /\ call'.sent \subseteq {session}
                /\ call'.sent # {} => setUnder.bare /\ call.url.host = setUnder.host]_vars
    BY <1>1
  <1> QED BY <1>2, Typing, SessionInit, SessionNext, PTL DEF Spec, StaysHome
=============================================================================
