---------------------------- MODULE CallPromise ----------------------------
(***************************************************************************)
(* What an asynchronous call of libgovirt promises its client, whatever    *)
(* happens between the two: the abstract specification that AsyncCall      *)
(* implements.  The engine has a state that only moves on, its version; a  *)
(* client object is a copy of a version.  A call opened at some version is *)
(* settled once: either the object is a copy the engine had since then (for *)
(* a deletion, the engine has moved on since), or nothing was written.     *)
(* What the client is then told is "kept" only in the first case, and only *)
(* if it has not cancelled the call.                                       *)
(***************************************************************************)
EXTENDS Naturals

CONSTANTS
    Calls,          \* calls in flight at once
    Objs,           \* the client's collections and resources
    MaxVersion      \* bound: versions the engine goes through

VARIABLES
    version,        \* the current version of the engine
    table,          \* the version each object is a copy of, 0 for none
    promise         \* per call: its state, what it is for, since when

vars == <<version, table, promise>>

Versions == 1..MaxVersion

Promises ==
    [state     : {"none", "open", "due", "kept", "broken"},
     deletes   : BOOLEAN,
     on        : Objs,
     since     : Versions,
     cancelled : BOOLEAN]

TypeOK ==
    /\ version \in Versions
    /\ table \in [Objs -> 0..MaxVersion]
    /\ promise \in [Calls -> Promises]

Init ==
    /\ version = 1
    /\ table = [o \in Objs |-> 0]
    /\ promise \in [Calls -> {p \in Promises : p.state = "none"}]

-----------------------------------------------------------------------------
Change ==
    /\ version < MaxVersion
    /\ version' = version + 1
    /\ UNCHANGED <<table, promise>>

Read(o) ==
    /\ table' = [table EXCEPT ![o] = version]
    /\ UNCHANGED <<version, promise>>

Open(c, deletes, o) ==
    /\ promise[c].state = "none"
    /\ promise' = [promise EXCEPT ![c] =
           [state |-> "open", deletes |-> deletes, on |-> o,
            since |-> version, cancelled |-> FALSE]]
    /\ UNCHANGED <<version, table>>

Withdrawn(p) ==
    [state |-> p.state, deletes |-> p.deletes, on |-> p.on, since |-> p.since,
     cancelled |-> TRUE]

Cancel(c) ==
    /\ promise[c].state # "none"
    /\ promise' = [promise EXCEPT ![c] = Withdrawn(promise[c])]
    /\ UNCHANGED <<version, table>>

Fulfil(c) ==
    /\ promise[c].state = "open"
    /\ promise' = [promise EXCEPT ![c].state = "due"]
    /\ IF promise[c].deletes
       THEN version > promise[c].since /\ UNCHANGED table
       ELSE \E v \in promise[c].since..version :
                table' = [table EXCEPT ![promise[c].on] = v]
    /\ UNCHANGED version

Break(c) ==
    /\ promise[c].state = "open"
    /\ promise' = [promise EXCEPT ![c].state = "broken"]
    /\ UNCHANGED <<version, table>>

Tell(c) ==
    /\ promise[c].state = "due"
    /\ promise' = [promise EXCEPT ![c].state =
           IF promise[c].cancelled THEN "broken" ELSE "kept"]
    /\ UNCHANGED <<version, table>>

(* The client is done with the call; it need not have asked how it went.   *)
Close(c) ==
    /\ promise[c].state \in {"due", "kept", "broken"}
    /\ \E p \in Promises : p.state = "none" /\ promise' = [promise EXCEPT ![c] = p]
    /\ UNCHANGED <<version, table>>

Next ==
    \/ Change
    \/ \E o \in Objs : Read(o)
    \/ \E c \in Calls :
           \/ \E deletes \in BOOLEAN, o \in Objs : Open(c, deletes, o)
           \/ Cancel(c) \/ Fulfil(c) \/ Break(c) \/ Tell(c) \/ Close(c)

Spec == Init /\ [][Next]_vars
=============================================================================
