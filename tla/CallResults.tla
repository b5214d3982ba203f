---------------------------- MODULE CallResults ----------------------------
(***************************************************************************)
(* What a REST call reports to the client and what it leaves in the local  *)
(* objects (govirt/ovirt-resource.c, ovirt-collection.c, ovirt-vm.c,       *)
(* ovirt-proxy.c, ovirt-cdrom.c).                                          *)
(*                                                                         *)
(* A call comes in two forms.  The synchronous one returns a boolean (a    *)
(* pointer for the api) and may set a GError; the asynchronous one goes    *)
(* through call_async_cb, which runs a callback of the operation and turns *)
(* what it says into the result of a GTask, read by a _finish function.    *)
(* Calls are made one after the other here (AsyncCall interleaves them),   *)
(* so that what an earlier call left can be told from what this one did:   *)
(* the age of a datum is "none", "earlier" or "now".                       *)
(***************************************************************************)
VARIABLES
    local,      \* what the client's objects hold after the last call
    last        \* the last call: operation, form, reply, result and error

vars == <<local, last>>

-----------------------------------------------------------------------------
(* Replies: whether the transport failed, and the root of the body that    *)
(* librest parsed, with the nodes the code looks up.  rest_xml_node_find   *)
(* looks for the display of a VM below any root: "vm" stands for every     *)
(* document that may have one, and "vms" and "api" for those that do not.   *)
NoXml   == [root |-> "none"]
Faults  == [root : {"fault"}, reason : BOOLEAN]
Actions == [root   : {"action"},
            status : {"absent", "complete", "pending", "in_progress",
                      "failed", "other"},
            fault  : {"absent", "reason", "noReason"},
            ticket : {"absent", "full", "noValue", "noExpiry", "zeroExpiry"}]
VmXml   == [root : {"vm"}, display : BOOLEAN, ids : BOOLEAN]
Bodies  == {NoXml, [root |-> "vms"], [root |-> "api"]}
             \cup Faults \cup Actions \cup VmXml

Replies == [transport : {"ok", "http"}, body : Bodies]
             \cup [transport : {"network", "cancelled"}, body : {NoXml}]

Errors == {"none", "transport", "cancelled", "fault", "parsing", "action"}
Ages   == {"none", "earlier", "now"}

(* The parts of an OvirtVm the calls write: has it a display, the ticket   *)
(* and the expiry of that display, the guid and href of the resource; the  *)
(* resources of a collection; the api of the proxy.                         *)
Locals == [vm    : [display : BOOLEAN, ticket : Ages, expiry : Ages, ids : Ages],
           table : Ages,
           api   : Ages]

Aged(l) ==
    LET Old(a) == IF a = "now" THEN "earlier" ELSE a
    IN  [vm    |-> [l.vm EXCEPT !.ticket = Old(@), !.expiry = Old(@),
                                !.ids = Old(@)],
         table |-> Old(l.table),
         api   |-> Old(l.api)]

Result(ret, err, l) == [ret |-> ret, err |-> err, local |-> l]

-----------------------------------------------------------------------------
(* ovirt_utils_gerror_from_xml_fault: the error of a <fault> node.         *)
IsFault(b)    == b.root = "fault"
GoodFault(b)  == IsFault(b) /\ b.reason
FaultError(b) == IF b.reason THEN "fault" ELSE "parsing"

\* fault: the code of librest is passed on as it is
TransportErrorRaw(r) == r.transport

TransportError(r) == IF r.transport = "cancelled" THEN "cancelled" ELSE "transport"

(* ovirt_vm_init_from_xml: the display is replaced, so the ticket is gone, *)
(* before the identifiers of the resource are looked at.                    *)
VmInitFromXml(l, b) ==
    LET shown == [l EXCEPT !.vm.display = TRUE, !.vm.ticket = "none",
                           !.vm.expiry = "none"]
    IN  IF b.root # "vm" \/ ~b.display THEN Result(FALSE, "none", l)
        ELSE IF ~b.ids THEN Result(FALSE, "parsing", shown)
        ELSE Result(TRUE, "none", [shown EXCEPT !.vm.ids = "now"])

(* parse_ticket_status: only the nodes that are there are written to the   *)
(* display, and the display is what is examined afterwards.                 *)
TicketNodes(vm, t) ==
    [vm EXCEPT
        !.ticket = IF t = "noValue" THEN @ ELSE "now",
        !.expiry = CASE t = "noExpiry" -> @ [] t = "zeroExpiry" -> "none"
                     [] OTHER -> "now"]

\* fault: the expiry of the ticket is not checked
ParseTicketNoExpiry(l, b) ==
    LET vm == TicketNodes(l.vm, b.ticket)
    IN  IF ~l.vm.display THEN Result(FALSE, "none", l)
        ELSE IF b.ticket = "absent" \/ vm.ticket = "none"
             THEN Result(FALSE, "parsing", l)
        ELSE Result(TRUE, "none", [l EXCEPT !.vm = vm])

ParseTicketStatus(l, b) ==
    LET vm == TicketNodes(l.vm, b.ticket)
        complete == "none" \notin {vm.ticket, vm.expiry}
    IN  IF ~l.vm.display THEN Result(FALSE, "none", l)
        ELSE IF b.ticket = "absent" THEN Result(FALSE, "parsing", l)
        ELSE Result(complete, IF complete THEN "none" ELSE "parsing",
                    [l EXCEPT !.vm = vm])

(* The error of a "failed" action, which its <fault> node replaces.        *)
FailedError(b) == CASE b.fault = "absent" -> "action"
                    [] b.fault = "reason" -> "fault"
                    [] b.fault = "noReason" -> "parsing"

\* fault: an action still pending or in progress counts as complete
ParseActionEarly(l, b, ticket) ==
    IF b.root # "action" THEN Result(FALSE, "none", l)
    ELSE CASE b.status = "complete" /\ ticket -> ParseTicketStatus(l, b)
           [] b.status \in {"pending", "in_progress"} \/
              (b.status = "complete" /\ ~ticket) -> Result(TRUE, "none", l)
           [] b.status = "failed" -> Result(FALSE, FailedError(b), l)
           [] OTHER -> Result(FALSE, "parsing", l)

(* parse_action_response, with or without a response parser.               *)
ParseActionResponse(l, b, ticket) ==
    IF b.root # "action" THEN Result(FALSE, "none", l)
    ELSE CASE b.status = "complete" ->
                IF ticket THEN ParseTicketStatus(l, b) ELSE Result(TRUE, "none", l)
           [] b.status \in {"pending", "in_progress"} -> Result(FALSE, "action", l)
           [] b.status = "failed" ->
                Result(FALSE, FailedError(b), l)
           [] OTHER -> Result(FALSE, "parsing", l)

\* fault: the table is emptied before the root is looked at
CollectionRefreshClears(l, b) ==
    IF b.root = "vms" THEN Result(TRUE, "none", [l EXCEPT !.table = "now"])
    ELSE Result(FALSE, "parsing", [l EXCEPT !.table = "now"])

(* ovirt_collection_refresh_from_xml: the root must be the collection's.   *)
CollectionRefreshFromXml(l, b) ==
    IF b.root = "vms" THEN Result(TRUE, "none", [l EXCEPT !.table = "now"])
    ELSE Result(FALSE, "parsing", l)

(* ovirt_proxy_set_api_from_xml: any XML makes an api.                      *)
SetApiFromXml(l) == [l EXCEPT !.api = "now"]

-----------------------------------------------------------------------------
(* The callbacks call_async_cb runs on a reply whose transport is "ok".    *)
AsyncCb(op, l, b) ==
    CASE op \in {"collection_fetch", "fetch_api", "refresh"} /\ b = NoXml ->
            Result(FALSE, "parsing", l)
      [] op = "collection_fetch" /\ b # NoXml -> CollectionRefreshFromXml(l, b)
      [] op = "fetch_api" /\ b # NoXml -> Result(TRUE, "none", SetApiFromXml(l))
      [] op = "refresh" /\ b # NoXml -> VmInitFromXml(l, b)
      [] op \in {"action", "ticket"} ->
            LET p == ParseActionResponse(l, b, op = "ticket")
            IN  Result(p.err = "none", p.err, p.local)
      [] op = "delete" -> ParseActionResponse(l, b, FALSE)
      [] op \in {"update", "cdrom_update"} -> Result(TRUE, "none", l)

\* fault: the body is not looked at
AsyncErrorOnly(r, err) == err

(* rest_call_async_set_error: a <fault> body replaces the error at hand.   *)
AsyncError(r, err) == IF GoodFault(r.body) THEN "fault" ELSE err

(* call_async_cb, then the _finish function; late: the cancellable of the  *)
(* task is cancelled before the client calls it.  _finish of the api has   *)
(* an error argument it does not set.                                       *)
CallAsyncCb(op, l, r) ==
    LET cb == IF r.transport = "ok" THEN AsyncCb(op, l, r.body)
              ELSE Result(FALSE, TransportError(r), l)
    IN  IF cb.err = "none" THEN cb
        ELSE Result(FALSE, AsyncError(r, cb.err), cb.local)

Finish(op, res, late) ==
    LET fin == IF late THEN Result(FALSE, "cancelled", res.local) ELSE res
    IN  IF op = "fetch_api" THEN [fin EXCEPT !.err = "none"] ELSE fin

\* fault: the error of the transport is cleared for nothing
RestCallSyncSilent(l, r, done) ==
    IF r.transport # "ok"
    THEN Result(FALSE, IF IsFault(r.body) THEN FaultError(r.body) ELSE "none", l)
    ELSE IF r.body = NoXml THEN Result(FALSE, "none", l)
    ELSE done

(* ovirt_resource_rest_call_sync; done: the result when it returns a node. *)
RestCallSync(l, r, done) ==
    IF r.transport # "ok"
    THEN Result(FALSE, IF IsFault(r.body) THEN FaultError(r.body)
                       ELSE TransportError(r), l)
    ELSE IF r.body = NoXml THEN Result(FALSE, "none", l)
    ELSE done

\* fault: the response of a call that did not fail is not parsed
ResourceActionUnparsed(l, r, ticket) ==
    LET p == ParseActionResponse(l, r.body, ticket)
    IN  IF r.transport = "ok" THEN Result(TRUE, "none", l)
        ELSE Result(FALSE, IF p.err # "none" THEN p.err ELSE TransportError(r),
                    p.local)

(* ovirt_resource_action: TRUE whatever the response says, the error is    *)
(* what tells.                                                              *)
ResourceAction(l, r, ticket) ==
    LET p == ParseActionResponse(l, r.body, ticket)
    IN  IF r.transport = "ok" THEN Result(TRUE, p.err, p.local)
        ELSE Result(FALSE, IF p.err # "none" THEN p.err ELSE TransportError(r),
                    p.local)

(* ovirt_proxy_get_collection_xml, ovirt_collection_fetch: NULL is passed  *)
(* for the error of the request.                                            *)
CollectionFetch(l, r) ==
    IF r.transport # "ok" \/ r.body = NoXml THEN Result(FALSE, "none", l)
    ELSE LET x == CollectionRefreshFromXml(l, r.body)
         IN  Result(TRUE, x.err, x.local)

ProxyFetchApi(l, r) ==
    IF r.transport # "ok" THEN Result(FALSE, TransportError(r), l)
    ELSE IF r.body = NoXml THEN Result(FALSE, "none", l)
    ELSE Result(TRUE, "none", SetApiFromXml(l))

-----------------------------------------------------------------------------
Ops == {"collection_fetch", "fetch_api", "refresh", "update", "delete",
        "action", "ticket", "cdrom_update"}

Calls == [op : Ops, async : BOOLEAN, late : BOOLEAN, reply : Replies,
          ret : BOOLEAN, err : Errors]

NoCall == [op |-> "no_call"]

TypeOK == local \in Locals /\ last \in Calls \cup {NoCall}

Init ==
    /\ local \in [vm : [display : BOOLEAN, ticket : {"none"}, expiry : {"none"},
                        ids : {"none", "earlier"}],
                  table : {"none"}, api : {"none"}]
    /\ last = NoCall

Report(op, async, late, r, res) ==
    /\ local' = res.local
    /\ last' = [op |-> op, async |-> async, late |-> late, reply |-> r,
                ret |-> res.ret, err |-> res.err]

Ready == last = NoCall

(* The synchronous forms take no cancellable.                               *)
SyncReplies == {r \in Replies : r.transport # "cancelled"}

FetchSync ==
    /\ Ready
    /\ \E r \in SyncReplies :
           Report("collection_fetch", FALSE, FALSE, r, CollectionFetch(local, r))

FetchApiSync ==
    /\ Ready
    /\ \E r \in SyncReplies :
           Report("fetch_api", FALSE, FALSE, r, ProxyFetchApi(local, r))

RefreshSync ==
    /\ Ready
    /\ \E r \in SyncReplies :
           Report("refresh", FALSE, FALSE, r, RestCallSync(local, r, VmInitFromXml(local, r.body)))

(* ovirt_resource_update, ovirt_resource_delete, ovirt_cdrom_update.        *)
RequestSync ==
    /\ Ready
    /\ \E r \in SyncReplies, op \in {"update", "delete", "cdrom_update"} :
           Report(op, FALSE, FALSE, r, RestCallSync(local, r, Result(TRUE, "none", local)))

ActionSync ==
    /\ Ready
    /\ \E r \in SyncReplies, op \in {"action", "ticket"} :
           Report(op, FALSE, FALSE, r, ResourceAction(local, r, op = "ticket"))

CallAsync ==
    /\ Ready
    /\ \E r \in Replies, op \in Ops, late \in BOOLEAN :
           Report(op, TRUE, late, r, Finish(op, CallAsyncCb(op, local, r), late))

(* The client has dealt with the result and may call again.                 *)
NextCall == last # NoCall /\ last' = NoCall /\ local' = Aged(local)

Next == \/ NextCall
        \/ FetchSync \/ FetchApiSync \/ RefreshSync \/ RequestSync \/ ActionSync
        \/ CallAsync

Spec == Init /\ [][Next]_vars

-----------------------------------------------------------------------------
Called(ops, forms) == last # NoCall /\ last.op \in ops /\ last.async \in forms

(* ovirt_collection_fetch_finish returns FALSE with an error set, or TRUE  *)
(* with the table of this very reply in the collection; a fetch that fails *)
(* leaves the table alone, unless it was cancelled once it was applied.     *)
FetchContract ==
    Called({"collection_fetch"}, {TRUE}) =>
        /\ last.ret <=> last.err = "none"
        /\ last.ret => local.table = "now"
        /\ local.table = "now" => last.ret \/ last.late

(* When the transport fails the client sees FALSE and an error, whatever   *)
(* the body was; the two calls that lose the error are apart                *)
(* (FetchSetsError).                                                        *)
FailureReported ==
    /\ Called(Ops \ {"collection_fetch"}, {FALSE}) \/ Called(Ops \ {"fetch_api"}, {TRUE})
    /\ last.reply.transport # "ok"
    => ~last.ret /\ last.err # "none"

(* The reason the engine gives in a <fault> body reaches the client rather *)
(* than the HTTP status, in the asynchronous calls and in the synchronous  *)
(* ones that go through ovirt_resource_rest_call_sync.                      *)
FaultReported ==
    /\ \/ Called(Ops \ {"fetch_api"}, {TRUE}) /\ ~last.late
       \/ Called({"refresh", "update", "delete", "cdrom_update"}, {FALSE})
    /\ last.reply.transport = "http" /\ GoodFault(last.reply.body)
    => last.err = "fault"

(* An asynchronous action only succeeds when the response, if there is     *)
(* one, says "complete": not while it is pending, in progress or failed.    *)
ActionDone ==
    Called({"action", "ticket"}, {TRUE}) /\ last.ret
        /\ last.reply.body.root = "action"
    => last.reply.body.status = "complete"

(* For a response that came with an HTTP success, the two forms of an      *)
(* action report the same error, though not the same boolean.               *)
ActionFormsAgree ==
    Called({"action", "ticket"}, BOOLEAN) /\ last.reply.transport = "ok" =>
        \A ticket \in BOOLEAN :
            ResourceAction(local, last.reply, ticket).err =
            CallAsyncCb(IF ticket THEN "ticket" ELSE "action", local, last.reply).err

(* After a ticket request that succeeded with an action response the       *)
(* display has a ticket and a non-zero expiry: what the client connects     *)
(* with.                                                                    *)
TicketUsable ==
    Called({"ticket"}, {TRUE}) /\ last.ret /\ last.reply.body.root = "action"
        /\ local.vm.display
    => "none" \notin {local.vm.ticket, local.vm.expiry}

(* "@error: #GError to set on error" (ovirt-collection.c:385): a fetch that *)
(* fails sets the error of the client, which takes an unset one for success *)
(* (examples/async-test.c:232).                                             *)
FetchSetsError ==
    Called({"collection_fetch"}, {FALSE}) \/ Called({"fetch_api"}, {TRUE})
        => last.ret \/ last.err # "none"
=============================================================================
