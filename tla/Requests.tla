------------------------------ MODULE Requests ------------------------------
(***************************************************************************)
(* What a request to the engine carries: the headers of the proxy, which   *)
(* the client, the sso-token and admin properties decide on and a call     *)
(* copies when it is constructed, and the JSESSIONID cookie, which the     *)
(* session-id property puts in the cookie jar of the proxy and which        *)
(* libsoup takes from the jar when the request starts, which may be later. *)
(*                                                                         *)
(* The four header names are those libgovirt sets itself.  A cookie is     *)
(* told from others by its domain; all have the same name and path.        *)
(***************************************************************************)
CONSTANTS
    Tokens,         \* SSO tokens
    Sessions,       \* session ids
    Urls,           \* values of url-format, records [bare, host]: is it
                    \* https:// and a host, without a port?
    Asks,           \* the headers the client adds or removes
    Forms,          \* the forms of calls it makes
    None

ASSUME NoneAssumption == None \notin Tokens /\ None \notin Sessions

VARIABLES
    url,            \* url-format
    admin,          \* admin
    token,          \* sso-token
    session,        \* session-id
    headers,        \* additional_headers, None where there is no such header
    jar,            \* the session cookies of cookie_jar
    cookie,         \* jsessionid_cookie
    call,           \* the call that was made last
    asked,          \* what was last asked for each header
    setUnder        \* the url-format session-id was last set under

vars == <<url, admin, token, session, headers, jar, cookie, call, asked, setUnder>>

HeaderNames == {"Authorization", "Prefer", "All-Content", "Filter"}

(* "nobody" is "Bearer (null)"; "client" what a client gives to add_header. *)
Values == {"client", "true", "false", "persistent-auth", "nobody"} \cup Tokens

Headers == [HeaderNames -> Values \cup {None}]
Cookies == [id : Sessions, domain : Urls]

CallStates ==
    [phase : {"none", "made", "started"}, form : {"none"} \cup Forms,
     url : Urls, headers : Headers, sent : SUBSET Sessions]

TypeOK ==
    /\ url \in Urls /\ setUnder \in Urls
    /\ admin \in BOOLEAN
    /\ token \in Tokens \cup {None}
    /\ session \in Sessions \cup {None}
    /\ headers \in Headers
    /\ jar \subseteq Cookies
    /\ cookie \in Cookies \cup {None}
    /\ call \in CallStates
    /\ asked \in [HeaderNames -> Values \cup {None, "unasked"}]

-----------------------------------------------------------------------------
NoHeaders == [h \in HeaderNames |-> None]

(* ovirt_proxy_constructed.                                                 *)
Init ==
    /\ url \in Urls /\ setUnder = url
    /\ admin = FALSE
    /\ token = None /\ session = None
    /\ headers = [NoHeaders EXCEPT !["All-Content"] = "true",
                                   !["Prefer"] = "persistent-auth"]
    /\ jar = {} /\ cookie = None
    /\ call = [phase |-> "none", form |-> "none", url |-> url,
               headers |-> NoHeaders, sent |-> {}]
    /\ asked = [h \in HeaderNames |-> "unasked"]

(* ovirt_proxy_add_header; None removes the header.                         *)
AddHeader(h, v) ==
    /\ headers' = [headers EXCEPT ![h] = v]
    /\ asked' = [asked EXCEPT ![h] = v]
    /\ UNCHANGED <<url, admin, token, session, jar, cookie, call, setUnder>>

SetAdmin ==
    /\ admin' = ~admin
    /\ UNCHANGED <<url, token, session, headers, jar, cookie, call, asked, setUnder>>

(* ovirt_proxy_set_sso_token: a token replaces persistent-auth, for good.  *)
SetSsoToken(t) ==
    /\ token' = t
    /\ headers' = [headers EXCEPT !["Prefer"] = None,
          !["Authorization"] = IF t = None THEN "nobody" ELSE t]
    /\ asked' = [asked EXCEPT !["Prefer"] = None,
          !["Authorization"] = IF t = None THEN "unasked" ELSE t]
    /\ UNCHANGED <<url, admin, session, jar, cookie, call, setUnder>>

(* soup_cookie_jar_add_cookie: one cookie for a name, path and domain.     *)
Added(cookies, k) == {o \in cookies : o.domain # k.domain} \cup {k}

\* fault: the old cookie is left to be replaced by the new one
SetSessionIdReplaces(s) ==
    /\ session' = s
    /\ cookie' = IF s = None THEN None ELSE [id |-> s, domain |-> url]
    /\ jar' = IF s = None THEN jar \ {cookie} ELSE Added(jar, cookie')
    /\ setUnder' = url
    /\ UNCHANGED <<url, admin, token, headers, call, asked>>

\* fault: a cookie is made for the id that is not there, too
SetSessionIdUnchecked(s) ==
    /\ session' = s
    /\ cookie' = [id |-> s, domain |-> url]
    /\ jar' = Added(jar \ {cookie}, cookie')
    /\ setUnder' = url
    /\ UNCHANGED <<url, admin, token, headers, call, asked>>

\* fault: the old cookie is deleted after the new one was added
SetSessionIdDeletesLast(s) ==
    /\ session' = s
    /\ cookie' = IF s = None THEN None ELSE [id |-> s, domain |-> url]
    /\ jar' = (IF s = None THEN jar ELSE Added(jar, cookie')) \ {cookie}
    /\ setUnder' = url
    /\ UNCHANGED <<url, admin, token, headers, call, asked>>

(* ovirt_proxy_set_session_id: the old cookie is deleted as it is in the   *)
(* jar, and the new one is made for the url-format of now.                  *)
SetSessionId(s) ==
    /\ session' = s
    /\ cookie' = IF s = None THEN None ELSE [id |-> s, domain |-> url]
    /\ jar' = IF s = None THEN jar \ {cookie} ELSE Added(jar \ {cookie}, cookie')
    /\ setUnder' = url
    /\ UNCHANGED <<url, admin, token, headers, call, asked>>

(* The client sets url-format, a property of RestProxy.                     *)
SetUrl(u) ==
    /\ url' = u
    /\ UNCHANGED <<admin, token, session, headers, jar, cookie, call, asked, setUnder>>

\* fault: the proxy's headers first, then those of the call
CallHeadersFirst ==
    [headers EXCEPT !["Filter"] = IF admin THEN "false" ELSE "true"]

(* ovirt_rest_call_constructed: "Filter" first, which a header of the proxy *)
(* replaces, then the headers of the proxy.                                  *)
CallHeaders ==
    [headers EXCEPT !["Filter"] =
        IF @ # None THEN @ ELSE IF admin THEN "false" ELSE "true"]

(* A call is constructed and invoked, which fixes its address;             *)
(* ovirt_resource_refresh_async puts one header more on it.                 *)
Make(form) ==
    /\ call.phase # "made"
    /\ call' = [phase |-> "made", form |-> form, url |-> url, sent |-> {},
                headers |-> IF form = "refresh_async"
                            THEN [CallHeaders EXCEPT !["All-Content"] = "true"]
                            ELSE CallHeaders]
    /\ UNCHANGED <<url, admin, token, session, headers, jar, cookie, asked, setUnder>>

(* The domain of a cookie is the url-format with "https://" cut off, which *)
(* names a host only if it began with that and has no port.  libsoup       *)
(* compares it with the host of the address, whatever the port there.      *)
Matches(k, u) == k.domain.bare /\ k.domain.host = u.host

(* libsoup starts the request and adds the cookies of the jar to it.       *)
StartRequest ==
    /\ call.phase = "made"
    /\ call' = [call EXCEPT !.phase = "started",
                            !.sent = {k.id : k \in {o \in jar : Matches(o, call.url)}}]
    /\ UNCHANGED <<url, admin, token, session, headers, jar, cookie, asked, setUnder>>

Next ==
    \/ \E h \in Asks, v \in {"client", None} : AddHeader(h, v)
    \/ SetAdmin
    \/ \E t \in Tokens \cup {None} : SetSsoToken(t)
    \/ \E s \in Sessions \cup {None} : SetSessionId(s)
    \/ \E u \in Urls : SetUrl(u)
    \/ \E form \in Forms : Make(form)
    \/ StartRequest

Spec == Init /\ [][Next]_vars

-----------------------------------------------------------------------------
(* A call made now carries what was last asked for each header, by         *)
(* ovirt_proxy_add_header or by setting a token, whatever the order they   *)
(* came in; only "Filter" is sent when the client removed it, and an       *)
(* asynchronous refresh has an "All-Content" of its own.                    *)
Carries(form, h, carried) ==
    \/ asked[h] = "unasked"
    \/ carried = asked[h]
    \/ h = "Filter" /\ asked[h] = None /\ carried \in {"true", "false"}
    \/ h = "All-Content" /\ form = "refresh_async" /\ carried = "true"

CarriesAsked ==
    [][\A form \in Forms : Make(form) =>
          \A h \in HeaderNames : Carries(form, h, call'.headers[h])]_vars

(* The jar holds the cookie of the current session-id and no other, also   *)
(* when url-format has changed in between: an id that was replaced or unset *)
(* is not sent again.                                                        *)
JarHoldsSession ==
    jar = IF session = None THEN {} ELSE {[id |-> session, domain |-> setUnder]}

(* "jsessionid cookie value. This allows to use the REST API without       *)
(* authenticating first." (ovirt-proxy.c:886): a request to the server the  *)
(* id was set for carries the id that is set when it starts.                *)
SessionSent ==
    [][StartRequest /\ session # None /\ call.url = setUnder => call'.sent = {session}]_vars
=============================================================================
