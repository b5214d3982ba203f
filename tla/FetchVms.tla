------------------------------ MODULE FetchVms ------------------------------
(***************************************************************************)
(* The deprecated calls that list the VMs of a proxy                       *)
(* (govirt/ovirt-proxy-deprecated.c): ovirt_proxy_fetch_vms_async fetches  *)
(* the api unless the proxy has one, then the collection of VMs of that    *)
(* api, and ovirt_proxy_fetch_vms_finish lists the VMs of the api the      *)
(* proxy has by then.  Several of these calls, and fetches of the api by    *)
(* the client, may be under way: each api that arrives replaces the other, *)
(* and a collection of VMs lives on only as the object of a pending call.  *)
(*                                                                         *)
(* Cancelling is possible at any moment; the requests are those of         *)
(* AsyncCall, each applied in one dispatch of the main loop, in which the  *)
(* callback of the client calls _finish.                                   *)
(*                                                                         *)
(* What other modules define too has a name of its own here (VmsInit, ...),*)
(* so that one module can extend this one and CallResults (ReportProofs).  *)
(***************************************************************************)
CONSTANTS
    VmsCalls,       \* ovirt_proxy_fetch_vms_async calls
    Apis,           \* the apis the engine serves: with a link to its VMs or not
    Lists           \* the VMs the engine may list, when there are some

ASSUME ApiAssumption == Apis \subseteq {"linked", "unlinked"}
ASSUME ListAssumption ==
    {"none", "error", "null", "unfetched", "empty"} \cap Lists = {}

VARIABLES
    api,            \* the api of the proxy
    table,          \* the table of the collection of VMs of that api
    call            \* the calls

vmsVars == <<api, table, call>>

(* What a reply lists; NULL is the list of no VM as well as no list.       *)
Fetched == Lists \cup {"empty"}

CallStates ==
    [phase     : {"idle", "api", "vms", "told", "forgotten"},
     mine      : BOOLEAN,       \* it fetches the VMs of the proxy's api, or
                                \* did when it was told
     cancelled : BOOLEAN,
     got       : Fetched \cup {"none"},     \* history: what its reply lists
     result    : Lists \cup {"none", "error", "null"}]

VmsTypeOK ==
    /\ api \in Apis \cup {"none"}
    /\ table \in Fetched \cup {"unfetched"}
    /\ call \in [VmsCalls -> CallStates]

NotCalled == [phase |-> "idle", mine |-> FALSE, cancelled |-> FALSE,
              got |-> "none", result |-> "none"]

VmsInit ==
    /\ api = "none" /\ table = "unfetched"
    /\ call = [c \in VmsCalls |-> NotCalled]

Pending(c) == call[c].phase \in {"api", "vms", "forgotten"}

-----------------------------------------------------------------------------
\* fault: the XML of the reply is kept instead of an api made of it
InstallApiXml(a) == api' = "xml" /\ table' = "unfetched"

(* ovirt_proxy_set_api_from_xml: a new api, whose VMs are yet to be fetched.*)
InstallApi(a) == api' = a /\ table' = "unfetched"

(* The calls once the api has been replaced: a collection that is being     *)
(* fetched is not the one of the new api.                                   *)
Orphaned ==
    [d \in VmsCalls |-> IF call[d].phase = "vms" THEN [call[d] EXCEPT !.mine = FALSE]
                        ELSE call[d]]

(* c goes on with the VMs of api a, unless that has no link to them:        *)
(* g_return_if_fail(vms != NULL) returns and nobody calls back.             *)
GoOn(c, a, calls) ==
    [calls EXCEPT ![c] =
        [@ EXCEPT !.phase = IF a = "linked" THEN "vms" ELSE "forgotten",
                  !.mine = a = "linked"]]

Told(c, result, calls) ==
    [calls EXCEPT ![c] = [@ EXCEPT !.phase = "told", !.result = result]]

(* ovirt_proxy_fetch_vms_async                                              *)
FetchVmsAsync(c) ==
    /\ call[c].phase = "idle"
    /\ call' = IF api = "none" THEN [call EXCEPT ![c].phase = "api"]
               ELSE GoOn(c, api, call)
    /\ UNCHANGED <<api, table>>

Cancel(c) ==
    /\ Pending(c)
    /\ call' = [call EXCEPT ![c].cancelled = TRUE]
    /\ UNCHANGED <<api, table>>

\* fault: nobody is told of a call cancelled when its api arrives
ApiArrivesForgets(c) ==
    /\ call[c].phase = "api"
    /\ \E a \in Apis :
           /\ InstallApi(a)
           /\ call' = IF call[c].cancelled
                      THEN [Orphaned EXCEPT ![c].phase = "forgotten"]
                      ELSE GoOn(c, a, Orphaned)

(* The api arrives and fetch_api_async_cb goes on with its VMs; when the   *)
(* call was cancelled meanwhile, ovirt_proxy_fetch_api_finish returns NULL *)
(* although the proxy has the new api.                                      *)
ApiArrives(c) ==
    /\ call[c].phase = "api"
    /\ \E a \in Apis :
           /\ InstallApi(a)
           /\ call' = IF call[c].cancelled THEN Told(c, "error", Orphaned)
                      ELSE GoOn(c, a, Orphaned)

(* It does not, or the request is cancelled: g_task_report_new_error.      *)
ApiFails(c) ==
    /\ call[c].phase = "api"
    /\ call' = Told(c, "error", call)
    /\ UNCHANGED <<api, table>>

(* ovirt_proxy_get_vms_internal when the collection of the api has table t: *)
(* g_hash_table_get_values gives NULL for a table without entries.          *)
GetVms(t) == IF api = "linked" /\ t \in Lists THEN t ELSE "null"

\* fault: the list is made before the reply is put into the collection
FinishVmsBefore(c, t) == IF call[c].cancelled THEN "error" ELSE GetVms(table)

(* ovirt_proxy_fetch_vms_finish, once the table of the api the proxy has    *)
(* now is t; g_task_had_error is true of a task that was cancelled.         *)
FinishVms(c, t) == IF call[c].cancelled THEN "error" ELSE GetVms(t)

(* The VMs arrive, for the proxy's api or for one it had before; there may *)
(* be none.                                                                 *)
VmsArrive(c) ==
    /\ call[c].phase = "vms"
    /\ \E t \in Fetched :
           /\ table' = IF call[c].mine THEN t ELSE table
           /\ call' = Told(c, FinishVms(c, table'), [call EXCEPT ![c].got = t])
    /\ UNCHANGED api

(* They do not, or the reply is no list of VMs.                             *)
VmsFail(c) ==
    /\ call[c].phase = "vms"
    /\ call' = Told(c, "error", call)
    /\ UNCHANGED <<api, table>>

(* The client is done with a call.                                          *)
Done(c) ==
    /\ call[c].phase = "told"
    /\ call' = [call EXCEPT ![c] = NotCalled]
    /\ UNCHANGED <<api, table>>

(* ovirt_proxy_fetch_vms: the api is fetched whether there is one or not.   *)
FetchVmsSync ==
    \E a \in Apis, t \in Fetched \cup {"unfetched"} :
        /\ api' = a
        /\ table' = IF a = "linked" THEN t ELSE "unfetched"
        /\ call' = Orphaned

(* ovirt_collection_fetch or its asynchronous form, by the client, of the   *)
(* VMs of the proxy's api.                                                  *)
FetchCollection ==
    /\ api = "linked"
    /\ table' \in Fetched
    /\ UNCHANGED <<api, call>>

(* ovirt_proxy_fetch_api or its asynchronous form, by the client.           *)
FetchApi ==
    \E a \in Apis : InstallApi(a) /\ call' = Orphaned

VmsNext ==
    \/ FetchVmsSync \/ FetchApi \/ FetchCollection
    \/ \E c \in VmsCalls :
           \/ FetchVmsAsync(c) \/ Cancel(c) \/ Done(c)
           \/ ApiArrives(c) \/ ApiFails(c)
           \/ VmsArrive(c) \/ VmsFail(c)

VmsSpec == VmsInit /\ [][VmsNext]_vmsVars

(* Every request is answered, or fails in the end (see AsyncCall).         *)
FairSpec ==
    /\ VmsSpec
    /\ \A c \in VmsCalls :
           /\ WF_vmsVars(ApiArrives(c) \/ ApiFails(c))
           /\ WF_vmsVars(VmsArrive(c) \/ VmsFail(c))

-----------------------------------------------------------------------------
(* As long as nobody replaces the api under a call, the client is told what *)
(* the engine answered to this very call: the VMs of its reply, and NULL    *)
(* only if that listed none, whatever the other calls and the client's own  *)
(* fetches have put into the collection before                              *)
(* (ovirt_proxy_fetch_vms_finish reads it when it is called back, and not   *)
(* from the task).  A call whose api was replaced is told of the VMs of     *)
(* another api, or NULL although its reply lists some.                      *)
ToldItsReply ==
    \A c \in VmsCalls :
        call[c].mine /\ call[c].result \notin {"none", "error"} =>
            IF call[c].got \in Lists THEN call[c].result = call[c].got
            ELSE call[c].got = "empty" /\ call[c].result = "null"

(* The callback of every call runs, cancelled or not, whatever is replaced *)
(* meanwhile.  The one exception is an api without a link to its VMs: it    *)
(* leaves forgotten a call that nobody had cancelled when it arrived.       *)
ToldUnlessUnlinked ==
    \A c \in VmsCalls :
        call[c].phase \in {"api", "vms"} ~>
            \/ call[c].phase = "told"
            \/ "unlinked" \in Apis /\ call[c].phase = "forgotten" /\ ~call[c].cancelled
=============================================================================
