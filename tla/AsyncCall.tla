----------------------------- MODULE AsyncCall -----------------------------
(***************************************************************************)
(* The life of the asynchronous calls (ovirt_rest_call_async and           *)
(* call_async_cb of govirt/ovirt-proxy.c, and the functions of             *)
(* ovirt-collection.c and ovirt-resource.c that go through them): the      *)
(* references a call takes, the reply on its way, the callback of the      *)
(* operation and the callback of the client in one dispatch of the main    *)
(* loop, cancellation at any moment, and the client that meanwhile drops   *)
(* its references, makes synchronous calls or starts others.               *)
(*                                                                         *)
(* Client code runs at the top level or in its callback, in one thread; a  *)
(* callback does not run a main loop of its own.  Replies come in any      *)
(* order.  Which error a call ends with is the subject of CallResults.     *)
(***************************************************************************)
EXTENDS Integers, FiniteSets

CONSTANTS
    Calls,          \* calls in flight at once
    Objs,           \* the client's collections and resources
    Proxy,          \* the OvirtProxy
    MaxVersion,     \* bound: versions the engine goes through
    NoCall

ASSUME ObjectAssumption ==
    /\ MaxVersion \in Nat \ {0}
    /\ Proxy \notin Objs
    /\ NoCall \notin Calls

ASSUME CallsAssumption == IsFiniteSet(Calls)

VARIABLES
    version,        \* the engine: its current version
    table,          \* per object: the version it is a copy of, 0 for none
    refs,           \* per object and for the proxy: its reference count
    holds,          \* those the client has a reference of
    call,           \* the calls
    running         \* the call whose callback is running, if any

vars == <<version, table, refs, holds, call, running>>

Versions == 1..MaxVersion
Counted  == Objs \cup {Proxy}

CallStates ==
    [phase     : {"idle", "sent", "answered", "callback", "finished"},
     deletes   : BOOLEAN,           \* DELETE, or a GET that is applied
     on        : Objs,              \* the source object of the GTask
     since     : Versions,          \* history: the version when it was started
     reply     : 0..MaxVersion,     \* the version the reply shows, 0: a failure
     cancelled : BOOLEAN,           \* its GCancellable
     success   : BOOLEAN]           \* the GTask's result, then the client's

TypeOK ==
    /\ version \in Versions
    /\ table \in [Objs -> 0..MaxVersion]
    /\ refs \in [Counted -> Int]
    /\ holds \in SUBSET Counted
    /\ call \in [Calls -> CallStates]
    /\ running \in Calls \cup {NoCall}

Alive(x) == refs[x] > 0
Pending(c) == call[c].phase # "idle"

\* fault: the data of a call is not cleared when it is allocated
NewCallUncleared(deletes, o) ==
    [phase |-> "sent", deletes |-> deletes, on |-> o, since |-> version,
     reply |-> -1, cancelled |-> FALSE, success |-> FALSE]

(* The record of a call started now, and that of a slot without a call,    *)
(* whose fields nobody looks at.                                            *)
NewCall(deletes, o) ==
    [phase |-> "sent", deletes |-> deletes, on |-> o, since |-> version,
     reply |-> 0, cancelled |-> FALSE, success |-> FALSE]

FreeSlot(o) ==
    [phase |-> "idle", deletes |-> FALSE, on |-> o, since |-> 1,
     reply |-> 0, cancelled |-> FALSE, success |-> FALSE]

Init ==
    /\ version = 1
    /\ table = [o \in Objs |-> 0]
    /\ refs = [x \in Counted |-> 1]
    /\ holds = Counted
    /\ \E o \in Objs : call = [c \in Calls |-> FreeSlot(o)]
    /\ running = NoCall

-----------------------------------------------------------------------------
\* fault: the task is created without a source object
TakenUnsourced(deletes, o) ==
    [x \in Counted |-> CASE x = Proxy -> 1
                         [] x = o -> IF deletes THEN 1 ELSE 0
                         [] OTHER -> 0]

(* The references a call takes: the proxy's in the data of the call, the   *)
(* source object's in the GTask, and for a deletion one more, to be        *)
(* dropped by the destroy function of the data.                             *)
Taken(deletes, o) ==
    [x \in Counted |-> CASE x = Proxy -> 1
                         [] x = o -> IF deletes THEN 2 ELSE 1
                         [] OTHER -> 0]

\* fault: the destroy function of the data is not called
ReleasedUndestroyed(c) ==
    [x \in Counted |-> IF x \in {Proxy, call[c].on} THEN 1 ELSE 0]

(* ovirt_proxy_call_async_data_free: what it drops.                         *)
Released(c) == Taken(call[c].deletes, call[c].on)

(* ovirt_collection_fetch_async, ovirt_resource_refresh_async,             *)
(* ovirt_resource_delete_async, down to ovirt_rest_call_async.              *)
Start(c, deletes, o) ==
    /\ ~Pending(c)
    /\ {Proxy, o} \subseteq holds
    /\ call' = [call EXCEPT ![c] = NewCall(deletes, o)]
    /\ refs' = [x \in Counted |-> refs[x] + Taken(deletes, o)[x]]
    /\ UNCHANGED <<version, table, holds, running>>

Cancel(c) ==
    /\ Pending(c)
    /\ call' = [call EXCEPT ![c].cancelled = TRUE]
    /\ UNCHANGED <<version, table, refs, holds, running>>

(* The engine carries out the request; its reply is on its way.            *)
Serve(c) ==
    /\ call[c].phase = "sent"
    /\ call[c].deletes => version < MaxVersion
    /\ version' = IF call[c].deletes THEN version + 1 ELSE version
    /\ call' = [call EXCEPT ![c].phase = "answered", ![c].reply = version']
    /\ UNCHANGED <<table, refs, holds, running>>

(* The request is refused, or it or its reply is lost, or it is cancelled. *)
Fail(c) ==
    /\ call[c].phase \in {"sent", "answered"}
    /\ call' = [call EXCEPT ![c].phase = "answered", ![c].reply = 0]
    /\ UNCHANGED <<version, table, refs, holds, running>>

(* The engine changes on behalf of somebody else.                           *)
EngineChanges ==
    /\ version < MaxVersion
    /\ version' = version + 1
    /\ UNCHANGED <<table, refs, holds, call, running>>

\* fault: a call cancelled in time is forgotten, its task never returns
DispatchDropsCancelled(c) ==
    /\ running = NoCall
    /\ call[c].phase = "answered"
    /\ ~call[c].cancelled
    /\ LET ok == call[c].reply # 0
       IN  /\ table' = IF ok /\ ~call[c].deletes
                       THEN [table EXCEPT ![call[c].on] = call[c].reply]
                       ELSE table
           /\ call' = [call EXCEPT ![c].phase = "callback", ![c].success = ok]
    /\ running' = c
    /\ UNCHANGED <<version, refs, holds>>

\* fault: the calls share their data, the reply applied may be another's
DispatchMixed(c) ==
    /\ running = NoCall
    /\ call[c].phase = "answered"
    /\ \E d \in Calls :
           /\ call[d].phase = "answered"
           /\ call[d].reply # 0
           /\ table' = IF call[c].deletes THEN table
                       ELSE [table EXCEPT ![call[c].on] = call[d].reply]
    /\ call' = [call EXCEPT ![c].phase = "callback", ![c].success = TRUE]
    /\ running' = c
    /\ UNCHANGED <<version, refs, holds>>

(* call_async_cb: rest_proxy_call_invoke_finish, the callback of the       *)
(* operation, g_task_return, in which the callback of the client begins.   *)
(* When the call was cancelled in time librest drops the reply.             *)
Dispatch(c) ==
    /\ running = NoCall
    /\ call[c].phase = "answered"
    /\ \E ok \in BOOLEAN :
           /\ ok => call[c].reply # 0
           /\ ~ok => call[c].reply = 0 \/ call[c].cancelled
           /\ table' = IF ok /\ ~call[c].deletes
                       THEN [table EXCEPT ![call[c].on] = call[c].reply]
                       ELSE table
           /\ call' = [call EXCEPT ![c].phase = "callback", ![c].success = ok]
    /\ running' = c
    /\ UNCHANGED <<version, refs, holds>>

\* fault: the cancellable is not looked at again
FinishUnchecked(c) ==
    /\ running = c
    /\ call[c].phase = "callback"
    /\ call' = [call EXCEPT ![c].phase = "finished"]
    /\ UNCHANGED <<version, table, refs, holds, running>>

(* ovirt_rest_call_finish, ovirt_collection_fetch_finish: GTask checks the *)
(* cancellable again.                                                       *)
Finish(c) ==
    /\ running = c
    /\ call[c].phase = "callback"
    /\ call' = [call EXCEPT ![c].phase = "finished",
                            ![c].success = @ /\ ~call[c].cancelled]
    /\ UNCHANGED <<version, table, refs, holds, running>>

(* The client's callback returns and call_async_cb frees the data.         *)
Return(c) ==
    /\ running = c
    /\ call' = [call EXCEPT ![c] = FreeSlot(call[c].on)]
    /\ refs' = [x \in Counted |-> refs[x] - Released(c)[x]]
    /\ running' = NoCall
    /\ UNCHANGED <<version, table, holds>>

(* ovirt_collection_fetch, ovirt_resource_refresh: the client is blocked   *)
(* and the reply is applied at once.                                        *)
FetchSync(o) ==
    /\ {Proxy, o} \subseteq holds
    /\ table' = [table EXCEPT ![o] = version]
    /\ UNCHANGED <<version, refs, holds, call, running>>

(* The client unrefs an object, or refs the one its callback is handed.    *)
Unref(x) ==
    /\ x \in holds
    /\ holds' = holds \ {x}
    /\ refs' = [refs EXCEPT ![x] = @ - 1]
    /\ UNCHANGED <<version, table, call, running>>

Ref(x) ==
    /\ running # NoCall /\ x = call[running].on
    /\ x \notin holds
    /\ holds' = holds \cup {x}
    /\ refs' = [refs EXCEPT ![x] = @ + 1]
    /\ UNCHANGED <<version, table, call, running>>

Next ==
    \/ EngineChanges
    \/ \E c \in Calls :
           \/ \E deletes \in BOOLEAN, o \in Objs : Start(c, deletes, o)
           \/ Cancel(c) \/ Serve(c) \/ Fail(c)
           \/ Dispatch(c) \/ Finish(c) \/ Return(c)
    \/ \E o \in Objs : FetchSync(o) \/ Ref(o)
    \/ \E x \in Counted : Unref(x)

Spec == Init /\ [][Next]_vars

(* The session of libsoup ends every request, if only by a timeout; an     *)
(* iteration of the main loop dispatches all the ready sources of a        *)
(* priority, so that none is passed over for ever; callbacks return.        *)
FairSpec ==
    /\ Spec
    /\ \A c \in Calls :
           /\ WF_vars(Serve(c) \/ Fail(c))
           /\ SF_vars(Dispatch(c))
           /\ WF_vars(Return(c))

-----------------------------------------------------------------------------
(* The callbacks use the proxy, and the object through a bare pointer      *)
(* (collection, resource, data->resource): neither is finalized while a    *)
(* call on it is pending, though the client may have dropped both.          *)
AliveWhilePending ==
    \A c \in Calls : Pending(c) => Alive(Proxy) /\ Alive(call[c].on)

(* Once its calls are over, an object the client has dropped is finalized: *)
(* the calls give back every reference they take.                           *)
NothingLeaked ==
    \A x \in Counted :
        /\ x \notin holds
        /\ \A c \in Calls : Pending(c) => x \notin {Proxy, call[c].on}
        => ~Alive(x)

(* A fetch the client is told has succeeded shows it the engine as it was  *)
(* when the fetch was started, or later, even if an older reply was on its *)
(* way or the callback has made other calls first; a deletion it is told   *)
(* has succeeded was carried out since then.                                *)
FreshWhenTold ==
    \A c \in Calls :
        call[c].phase = "finished" /\ call[c].success =>
            IF call[c].deletes THEN version > call[c].since
            ELSE table[call[c].on] >= call[c].since

(* Replies may overtake one another and leave an object older than it was, *)
(* but only if the fetch that does so was in flight already when the       *)
(* engine was at the version it replaces: calls in sequence never go back. *)
BackOnlyWhenOverlapped ==
    [][\A o \in Objs : table'[o] < table[o] =>
           \E c \in Calls : running' = c /\ call[c].since < table[o]]_vars

(* The callback of every call runs and its references are given back.      *)
EveryCallEnds ==
    \A c \in Calls : Pending(c) ~> ~Pending(c)

(* The promise each call is to its client.                                  *)
PromiseState(c) ==
    CASE call[c].phase = "idle" -> "none"
      [] call[c].phase \in {"sent", "answered"} -> "open"
      [] call[c].phase = "callback" -> IF call[c].success THEN "due" ELSE "broken"
      [] call[c].phase = "finished" -> IF call[c].success THEN "kept" ELSE "broken"

PromiseOf(c) ==
    [state |-> PromiseState(c), deletes |-> call[c].deletes, on |-> call[c].on,
     since |-> call[c].since, cancelled |-> call[c].cancelled]

Promised == [c \in Calls |-> PromiseOf(c)]

Promise == INSTANCE CallPromise WITH promise <- Promised

(* AsyncCall implements CallPromise.                                        *)
KeepsPromise == Promise!Spec
=============================================================================
