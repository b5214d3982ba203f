-------------------------- MODULE AsyncCallProofs --------------------------
(***************************************************************************)
(* Proofs about AsyncCall, for any number of calls and objects and any     *)
(* number of versions of the engine.                                       *)
(***************************************************************************)
EXTENDS AsyncCall, FiniteSetTheorems, TLAPS

(* What the proofs need of every state: at most one callback runs, time     *)
(* only goes forward, and a reply shows a version between the start of its *)
(* call and now.                                                            *)
OneRuns == \A c \in Calls : (running = c) <=> call[c].phase \in {"callback", "finished"}

PastIsPast ==
    /\ \A o \in Objs : table[o] <= version
    /\ \A c \in Calls : call[c].since <= version

Current(c, v) == IF call[c].deletes THEN v > call[c].since ELSE v >= call[c].since

ReplyInTime ==
    \A c \in Calls : call[c].phase = "answered" /\ call[c].reply # 0 =>
        Current(c, call[c].reply) /\ call[c].reply <= version

SuccessIsCurrent ==
    \A c \in Calls : running = c /\ call[c].success =>
        Current(c, IF call[c].deletes THEN version ELSE table[call[c].on])

InFlight == OneRuns /\ PastIsPast /\ ReplyInTime /\ SuccessIsCurrent

-----------------------------------------------------------------------------
(* The records of the calls stay records of calls.                         *)
Phases == {"idle", "sent", "answered", "callback", "finished"}

LEMMA CallUpdates ==
    ASSUME NEW r \in CallStates, NEW p \in Phases
    PROVE  /\ [r EXCEPT !.phase = p] \in CallStates
           /\ [r EXCEPT !.cancelled = TRUE] \in CallStates
           /\ \A v \in 0..MaxVersion : [r EXCEPT !.phase = p, !.reply = v] \in CallStates
           /\ \A b \in BOOLEAN : [r EXCEPT !.phase = p, !.success = b] \in CallStates
<1>1. [r EXCEPT !.phase = p] \in CallStates
  BY DEF CallStates, Phases
<1>2. [r EXCEPT !.cancelled = TRUE] \in CallStates
  BY DEF CallStates
<1>3. ASSUME NEW v \in 0..MaxVersion
      PROVE  [r EXCEPT !.phase = p, !.reply = v] \in CallStates
  BY DEF CallStates, Phases
<1>4. ASSUME NEW b \in BOOLEAN
      PROVE  [r EXCEPT !.phase = p, !.success = b] \in CallStates
  BY DEF CallStates, Phases
<1> QED
  BY <1>1, <1>2, <1>3, <1>4

LEMMA NewCallType ==
    ASSUME version \in Versions, NEW deletes \in BOOLEAN, NEW o \in Objs
    PROVE  /\ NewCall(deletes, o) \in CallStates
           /\ FreeSlot(o) \in CallStates
<1>1. NewCall(deletes, o) \in CallStates
  BY ObjectAssumption DEF NewCall, CallStates, ObjectAssumption, Versions
<1>2. FreeSlot(o) \in CallStates
  BY ObjectAssumption DEF FreeSlot, CallStates, ObjectAssumption, Versions
<1> QED
  BY <1>1, <1>2

LEMMA InitTypes == Init => TypeOK
<1> SUFFICES ASSUME Init PROVE TypeOK
  OBVIOUS
<1>1. PICK o \in Objs : call = [c \in Calls |-> FreeSlot(o)]
  BY DEF Init
<1>2. version \in Versions
  BY ObjectAssumption DEF Init, ObjectAssumption, Versions
<1>3. call \in [Calls -> CallStates]
  BY <1>1, <1>2, NewCallType
<1>4. /\ table \in [Objs -> 0..MaxVersion]
      /\ refs \in [Counted -> Int]
      /\ holds \in SUBSET Counted
      /\ running \in Calls \cup {NoCall}
  BY ObjectAssumption DEF Init, ObjectAssumption
<1> QED
  BY <1>2, <1>3, <1>4 DEF TypeOK

LEMMA NextTypes == TypeOK /\ [Next]_vars => TypeOK'
<1> SUFFICES ASSUME TypeOK, [Next]_vars PROVE TypeOK'
  OBVIOUS
<1> USE DEF TypeOK
<1>1. ASSUME NEW c \in Calls, NEW deletes \in BOOLEAN, NEW o \in Objs, Start(c, deletes, o)
      PROVE  TypeOK'
  <2>1. Taken(deletes, o) \in [Counted -> Int]
    BY DEF Taken
  <2>2. refs' \in [Counted -> Int]
    BY <1>1, <2>1 DEF Start
  <2>3. call' \in [Calls -> CallStates]
    BY <1>1, NewCallType DEF Start
  <2> QED
    BY <1>1, <2>2, <2>3 DEF Start
<1>2. ASSUME NEW c \in Calls, Cancel(c)
      PROVE  TypeOK'
  BY <1>2, CallUpdates DEF Cancel, Phases
<1>3. ASSUME NEW c \in Calls, Serve(c)
      PROVE  TypeOK'
  <2>1. version' \in Versions
    BY <1>3, ObjectAssumption DEF Serve, Versions, ObjectAssumption
  <2>2. version' \in 0..MaxVersion
    BY <2>1, ObjectAssumption DEF Versions, ObjectAssumption
  <2>3. [call[c] EXCEPT !.phase = "answered", !.reply = version'] \in CallStates
    BY <2>2, CallUpdates DEF Phases
  <2> QED
    BY <1>3, <2>1, <2>3 DEF Serve
<1>4. ASSUME NEW c \in Calls, Fail(c)
      PROVE  TypeOK'
  <2>1. 0 \in 0..MaxVersion
    BY ObjectAssumption DEF ObjectAssumption
  <2>2. [call[c] EXCEPT !.phase = "answered", !.reply = 0] \in CallStates
    BY <2>1, CallUpdates DEF Phases
  <2> QED
    BY <1>4, <2>2 DEF Fail
<1>5. ASSUME NEW c \in Calls, Dispatch(c)
      PROVE  TypeOK'
  <2>1. \A ok \in BOOLEAN :
           [call[c] EXCEPT !.phase = "callback", !.success = ok] \in CallStates
    BY CallUpdates DEF Phases
  <2>2. call[c].on \in Objs /\ call[c].reply \in 0..MaxVersion
    BY DEF CallStates
  <2>3. call' \in [Calls -> CallStates]
    BY <1>5, <2>1 DEF Dispatch
  <2>4. table' \in [Objs -> 0..MaxVersion]
    BY <1>5, <2>2 DEF Dispatch
  <2> QED
    BY <1>5, <2>3, <2>4 DEF Dispatch
<1>6. ASSUME NEW c \in Calls, Finish(c)
      PROVE  TypeOK'
  <2>1. (call[c].success /\ ~call[c].cancelled) \in BOOLEAN
    OBVIOUS
  <2>2. [call[c] EXCEPT !.phase = "finished",
                        !.success = call[c].success /\ ~call[c].cancelled] \in CallStates
    BY <2>1, CallUpdates DEF Phases
  <2> QED
    BY <1>6, <2>2 DEF Finish
<1>7. ASSUME NEW c \in Calls, Return(c)
      PROVE  TypeOK'
  <2>1. call[c].on \in Objs
    BY DEF CallStates
  <2>3. call' \in [Calls -> CallStates]
    BY <1>7, <2>1, NewCallType DEF Return
  <2>4. Released(c) \in [Counted -> Int]
    BY DEF Released, Taken
  <2>5. refs' \in [Counted -> Int]
    BY <1>7, <2>4 DEF Return
  <2> QED
    BY <1>7, <2>3, <2>5 DEF Return
<1>8. ASSUME NEW o \in Objs, FetchSync(o)
      PROVE  TypeOK'
  BY <1>8, ObjectAssumption DEF FetchSync, Versions, ObjectAssumption
<1>9. ASSUME NEW x \in Counted, Unref(x) \/ Ref(x)
      PROVE  TypeOK'
  BY <1>9 DEF Unref, Ref
<1>10. CASE EngineChanges
  BY <1>10, ObjectAssumption DEF EngineChanges, Versions, ObjectAssumption
<1>11. CASE UNCHANGED vars
  BY <1>11 DEF vars
<1> QED
  BY <1>1, <1>2, <1>3, <1>4, <1>5, <1>6, <1>7, <1>8, <1>9, <1>10, <1>11
  DEF Next, Counted

(* TypeOK holds in every reachable state.                                   *)
THEOREM Typing == Spec => []TypeOK
  BY InitTypes, NextTypes, PTL DEF Spec

(* A callback that runs, a reply on its way, a result: none is about a     *)
(* version that was over when the call was started.                         *)
LEMMA InitInFlight == Init => InFlight
<1> SUFFICES ASSUME Init PROVE InFlight
  OBVIOUS
<1>1. PICK o \in Objs : call = [c \in Calls |-> FreeSlot(o)]
  BY DEF Init
<1>2. \A c \in Calls : call[c].phase = "idle" /\ call[c].since = 1
  BY <1>1 DEF FreeSlot
<1>3. \A c \in Calls : running # c
  BY ObjectAssumption DEF Init, ObjectAssumption
<1>4. OneRuns /\ ReplyInTime /\ SuccessIsCurrent
  BY <1>2, <1>3, Zenon DEF OneRuns, ReplyInTime, SuccessIsCurrent
<1>5. version = 1 /\ table = [p \in Objs |-> 0]
  BY DEF Init
<1>6. PastIsPast
  BY <1>2, <1>5 DEF PastIsPast
<1> QED
  BY <1>4, <1>6 DEF InFlight

LEMMA NextInFlight == TypeOK /\ InFlight /\ [Next]_vars => InFlight'
<1> SUFFICES ASSUME TypeOK, InFlight, [Next]_vars PROVE InFlight'
  OBVIOUS
<1> USE ObjectAssumption
    DEF TypeOK, ObjectAssumption, Versions, InFlight, OneRuns, PastIsPast,
        ReplyInTime, SuccessIsCurrent, Current, CallStates
<1>1. ASSUME NEW c \in Calls, NEW deletes \in BOOLEAN, NEW o \in Objs, Start(c, deletes, o)
      PROVE  InFlight'
  <2>1. /\ call'[c] = NewCall(deletes, o)
        /\ \A d \in Calls \ {c} : call'[d] = call[d]
        /\ UNCHANGED <<version, table, running>>
    BY <1>1 DEF Start
  <2>2. running # c
    BY <1>1 DEF Start, Pending
  <2> QED
    BY <2>1, <2>2 DEF NewCall
<1>2. ASSUME NEW c \in Calls, Cancel(c)
      PROVE  InFlight'
  BY <1>2 DEF Cancel
<1>3. ASSUME NEW c \in Calls, Serve(c)
      PROVE  InFlight'
  <2>1. /\ call'[c].phase = "answered" /\ call'[c].reply = version'
        /\ call'[c].deletes = call[c].deletes /\ call'[c].on = call[c].on
        /\ call'[c].since = call[c].since
        /\ \A d \in Calls \ {c} : call'[d] = call[d]
        /\ version' \in {version, version + 1}
        /\ call[c].deletes => version' = version + 1
        /\ UNCHANGED <<table, running>>
    BY <1>3 DEF Serve
  <2>2. running # c
    BY <1>3 DEF Serve
  <2>3. OneRuns'
    BY <2>1, <2>2
  <2>4. PastIsPast'
    BY <2>1
  <2>5. version' <= MaxVersion /\ version' \in Int
    BY <1>3 DEF Serve
  <2>6. ASSUME NEW d \in Calls, call'[d].phase = "answered", call'[d].reply # 0
        PROVE  Current(d, call[d].reply)' /\ call'[d].reply <= version'
    BY <2>1, <2>5, <2>6
  <2>7. SuccessIsCurrent'
    BY <2>1, <2>2
  <2> QED
    BY <2>3, <2>4, <2>6, <2>7
<1>4. ASSUME NEW c \in Calls, Fail(c)
      PROVE  InFlight'
  BY <1>4 DEF Fail
<1>5. ASSUME NEW c \in Calls, Dispatch(c)
      PROVE  InFlight'
  <2>1. /\ \A d \in Calls \ {c} : call'[d] = call[d]
        /\ running' = c
        /\ call[c].phase = "answered" /\ call'[c].phase = "callback"
        /\ call'[c].deletes = call[c].deletes /\ call'[c].on = call[c].on
        /\ call'[c].since = call[c].since
        /\ UNCHANGED version
    BY <1>5 DEF Dispatch
  <2>2. \A d \in Calls \ {c} : call[d].phase \notin {"callback", "finished"}
    BY <1>5 DEF Dispatch
  <2>3. \A p \in Objs : table'[p] <= version
    BY <1>5 DEF Dispatch
  <2>4. call'[c].success =>
          IF call[c].deletes THEN version > call[c].since
          ELSE table'[call[c].on] >= call[c].since
    BY <1>5 DEF Dispatch
  <2> QED
    BY <2>1, <2>2, <2>3, <2>4
<1>6. ASSUME NEW c \in Calls, Finish(c)
      PROVE  InFlight'
  BY <1>6 DEF Finish
<1>7. ASSUME NEW c \in Calls, Return(c)
      PROVE  InFlight'
  <2>1. /\ \A d \in Calls \ {c} : call'[d] = call[d]
        /\ call'[c].phase = "idle" /\ call'[c].since = 1
        /\ running = c /\ running' = NoCall
        /\ UNCHANGED <<version, table>>
    BY <1>7 DEF Return, FreeSlot
  <2> QED
    BY <2>1
<1>8. ASSUME NEW o \in Objs, FetchSync(o)
      PROVE  InFlight'
  BY <1>8 DEF FetchSync
<1>9. CASE EngineChanges
  BY <1>9 DEF EngineChanges
<1>10. CASE UNCHANGED <<version, table, call, running>>
  BY <1>10
<1> QED
  BY <1>1, <1>2, <1>3, <1>4, <1>5, <1>6, <1>7, <1>8, <1>9, <1>10
  DEF Next, vars, Ref, Unref

LEMMA FlightSafe == Spec => []InFlight
  BY InitInFlight, NextInFlight, Typing, PTL DEF Spec

(* A call the client is told has succeeded was carried out after it was    *)
(* started, and the object is no older than that.                           *)
THEOREM FreshWhenToldSafe == Spec => []FreshWhenTold
<1>1. TypeOK /\ InFlight => FreshWhenTold
  BY DEF InFlight, OneRuns, SuccessIsCurrent, Current, FreshWhenTold
<1> QED
  BY <1>1, Typing, FlightSafe, PTL

(* Only a fetch that overlaps an earlier one brings an object back.        *)
THEOREM BackOnlyWhenOverlappedSafe == Spec => BackOnlyWhenOverlapped
<1>1. TypeOK /\ InFlight /\ [Next]_vars
        => [\A o \in Objs : table'[o] < table[o] =>
               \E c \in Calls : running' = c /\ call[c].since < table[o]]_vars
  <2> SUFFICES ASSUME TypeOK, InFlight, [Next]_vars,
                      NEW o \in Objs, table'[o] < table[o]
               PROVE  \E c \in Calls : running' = c /\ call[c].since < table[o]
    OBVIOUS
  <2> USE ObjectAssumption DEF TypeOK, ObjectAssumption, Versions, CallStates
  <2>1. ASSUME NEW c \in Calls, Dispatch(c)
        PROVE  running' = c /\ call[c].since < table[o]
    BY <2>1 DEF Dispatch, InFlight, ReplyInTime, Current
  <2>2. ASSUME NEW p \in Objs, FetchSync(p)
        PROVE  FALSE
    BY <2>2 DEF FetchSync, InFlight, PastIsPast
  <2>3. CASE UNCHANGED table
    BY <2>3
  <2> QED
    BY <2>1, <2>2, <2>3
    DEF Next, vars, Start, Cancel, Serve, Fail, Finish, Return, EngineChanges, Ref, Unref
<1> QED
  BY <1>1, Typing, FlightSafe, PTL DEF Spec, BackOnlyWhenOverlapped

-----------------------------------------------------------------------------
(* The refinement.  A step that touches one call touches one promise.      *)
LEMMA OnePromise ==
    ASSUME TypeOK, TypeOK', NEW c \in Calls,
           \A d \in Calls \ {c} : call'[d] = call[d]
    PROVE  Promised' = [Promised EXCEPT ![c] = PromiseOf(c)']
  BY DEF Promised, PromiseOf, PromiseState

LEMMA InitPromise == Init => Promise!Init
<1> SUFFICES ASSUME Init PROVE Promise!Init
  OBVIOUS
<1>1. PICK o \in Objs : call = [c \in Calls |-> FreeSlot(o)]
  BY DEF Init
<1>2. ASSUME NEW c \in Calls
      PROVE  PromiseOf(c) \in {p \in Promise!Promises : p.state = "none"}
  <2>1. PromiseOf(c) = [state |-> "none", deletes |-> FALSE, on |-> o, since |-> 1,
                        cancelled |-> FALSE]
    BY <1>1 DEF PromiseOf, PromiseState, FreeSlot
  <2> QED
    BY <2>1, ObjectAssumption DEF Promise!Promises, Promise!Versions, ObjectAssumption
<1>3. Promised \in [Calls -> {p \in Promise!Promises : p.state = "none"}]
  BY <1>2 DEF Promised
<1> QED
  BY <1>3 DEF Init, Promise!Init

LEMMA NextPromise ==
    TypeOK /\ InFlight /\ [Next]_vars => [Promise!Next]_(Promise!vars)
<1> SUFFICES ASSUME TypeOK, InFlight, [Next]_vars
             PROVE  Promise!Next \/ UNCHANGED Promise!vars
  OBVIOUS
<1>0. TypeOK'
  BY NextTypes
<1>1. ASSUME NEW c \in Calls, NEW deletes \in BOOLEAN, NEW o \in Objs, Start(c, deletes, o)
      PROVE  Promise!Open(c, deletes, o)
  <2>1. Promised[c].state = "none"
    BY <1>1 DEF Start, Pending, Promised, PromiseOf, PromiseState
  <2>2. PromiseOf(c)' = [state |-> "open", deletes |-> deletes, on |-> o,
                         since |-> version, cancelled |-> FALSE]
    BY <1>1 DEF Start, TypeOK, NewCall, PromiseOf, PromiseState
  <2>3. Promised' = [Promised EXCEPT ![c] = PromiseOf(c)']
    BY <1>0, <1>1, OnePromise DEF Start, TypeOK
  <2> QED
    BY <1>1, <2>1, <2>2, <2>3 DEF Start, Promise!Open
<1>2. ASSUME NEW c \in Calls, Cancel(c)
      PROVE  Promise!Cancel(c)
  <2>1. Promised[c].state # "none"
    BY <1>2 DEF Cancel, Pending, Promised, PromiseOf, PromiseState, TypeOK, CallStates
  <2>2. PromiseOf(c)' = Promise!Withdrawn(Promised[c])
    <3>1. /\ call'[c].phase = call[c].phase /\ call'[c].deletes = call[c].deletes
          /\ call'[c].on = call[c].on /\ call'[c].since = call[c].since
          /\ (call'[c].success <=> call[c].success)
          /\ call'[c].cancelled = TRUE
      BY <1>2 DEF Cancel, TypeOK, CallStates
    <3>2. call[c].phase \in Phases
      BY DEF TypeOK, CallStates, Phases
    <3>3. PromiseState(c)' = PromiseState(c)
      BY <3>1, <3>2 DEF PromiseState, Phases
    <3>4. PromiseOf(c)' = [state |-> PromiseState(c), deletes |-> call[c].deletes,
                           on |-> call[c].on, since |-> call[c].since,
                           cancelled |-> TRUE]
      BY <3>1, <3>3 DEF PromiseOf
    <3>5. Promised[c] = [state |-> PromiseState(c), deletes |-> call[c].deletes,
                         on |-> call[c].on, since |-> call[c].since,
                         cancelled |-> call[c].cancelled]
      BY DEF Promised, PromiseOf
    <3> QED
      BY <3>4, <3>5 DEF Promise!Withdrawn
  <2>3. Promised' = [Promised EXCEPT ![c] = PromiseOf(c)']
    BY <1>0, <1>2, OnePromise DEF Cancel, TypeOK
  <2> QED
    BY <1>2, <2>1, <2>2, <2>3 DEF Cancel, Promise!Cancel
<1>3. ASSUME NEW c \in Calls, Serve(c)
      PROVE  Promise!Change \/ UNCHANGED Promise!vars
  <2>1. PromiseOf(c)' = Promised[c]
    BY <1>3 DEF Serve, TypeOK, CallStates, PromiseOf, PromiseState, Promised
  <2>2. Promised' = [Promised EXCEPT ![c] = PromiseOf(c)']
    BY <1>0, <1>3, OnePromise DEF Serve, TypeOK
  <2>3. UNCHANGED Promised
    BY <2>1, <2>2 DEF Promised
  <2> QED
    BY <1>3, <2>3 DEF Serve, Promise!Change, Promise!vars
<1>4. ASSUME NEW c \in Calls, Fail(c)
      PROVE  UNCHANGED Promise!vars
  <2>1. PromiseOf(c)' = Promised[c]
    BY <1>4 DEF Fail, TypeOK, CallStates, PromiseOf, PromiseState, Promised
  <2>2. Promised' = [Promised EXCEPT ![c] = PromiseOf(c)']
    BY <1>0, <1>4, OnePromise DEF Fail, TypeOK
  <2>3. UNCHANGED Promised
    BY <2>1, <2>2 DEF Promised
  <2> QED
    BY <1>4, <2>3 DEF Fail, Promise!vars
<1>5. ASSUME NEW c \in Calls, Dispatch(c)
      PROVE  Promise!Fulfil(c) \/ Promise!Break(c)
  <2>1. Promised' = [Promised EXCEPT ![c] = PromiseOf(c)']
    BY <1>0, <1>5, OnePromise DEF Dispatch, TypeOK
  <2>2. /\ Promised[c].state = "open"
        /\ Promised[c].deletes = call[c].deletes
        /\ Promised[c].on = call[c].on
        /\ Promised[c].since = call[c].since
    BY <1>5 DEF Dispatch, Promised, PromiseOf, PromiseState
  <2>3. call[c].on \in Objs /\ call[c].since \in Int /\ call[c].reply \in Int
        /\ version \in Int /\ call[c].deletes \in BOOLEAN
    BY DEF TypeOK, CallStates, Versions
  <2>4. call[c].reply # 0 =>
          IF call[c].deletes THEN version > call[c].since
          ELSE call[c].reply \in call[c].since..version
    BY <1>5, <2>3 DEF Dispatch, InFlight, ReplyInTime, Current
  <2>5. ASSUME call[c].reply # 0,
               table' = IF ~call[c].deletes THEN [table EXCEPT ![call[c].on] = call[c].reply]
                        ELSE table,
               call' = [call EXCEPT ![c].phase = "callback", ![c].success = TRUE]
        PROVE  Promise!Fulfil(c)
    <3>1. PromiseOf(c)' = [Promised[c] EXCEPT !.state = "due"]
      BY <2>5 DEF Promised, PromiseOf, PromiseState, TypeOK, CallStates
    <3> QED
      BY <1>5, <2>1, <2>2, <2>3, <2>4, <2>5, <3>1 DEF Dispatch, Promise!Fulfil
  <2>6. ASSUME UNCHANGED table,
               call' = [call EXCEPT ![c].phase = "callback", ![c].success = FALSE]
        PROVE  Promise!Break(c)
    <3>1. PromiseOf(c)' = [Promised[c] EXCEPT !.state = "broken"]
      BY <2>6 DEF Promised, PromiseOf, PromiseState, TypeOK, CallStates
    <3> QED
      BY <1>5, <2>1, <2>2, <2>6, <3>1 DEF Dispatch, Promise!Break
  <2> QED
    BY <1>5, <2>5, <2>6 DEF Dispatch
<1>6. ASSUME NEW c \in Calls, Finish(c)
      PROVE  Promise!Tell(c) \/ UNCHANGED Promise!vars
  <2>1. Promised' = [Promised EXCEPT ![c] = PromiseOf(c)']
    BY <1>0, <1>6, OnePromise DEF Finish, TypeOK
  <2>2. CASE call[c].success
    <3>1. Promised[c].state = "due" /\ Promised[c].cancelled = call[c].cancelled
      BY <1>6, <2>2 DEF Finish, Promised, PromiseOf, PromiseState
    <3>2. PromiseOf(c)' = [Promised[c] EXCEPT !.state =
                               IF call[c].cancelled THEN "broken" ELSE "kept"]
      BY <1>6, <2>2 DEF Finish, Promised, PromiseOf, PromiseState, TypeOK, CallStates
    <3> QED
      BY <1>6, <2>1, <3>1, <3>2 DEF Finish, Promise!Tell
  <2>3. CASE ~call[c].success
    <3>1. PromiseOf(c)' = Promised[c]
      BY <1>6, <2>3 DEF Finish, Promised, PromiseOf, PromiseState, TypeOK, CallStates
    <3>2. UNCHANGED Promised
      BY <2>1, <3>1 DEF Promised
    <3> QED
      BY <1>6, <3>2 DEF Finish, Promise!vars
  <2> QED
    BY <2>2, <2>3
<1>7. ASSUME NEW c \in Calls, Return(c)
      PROVE  Promise!Close(c)
  <2>1. Promised' = [Promised EXCEPT ![c] = PromiseOf(c)']
    BY <1>0, <1>7, OnePromise DEF Return, TypeOK
  <2>2. call[c].phase \in {"callback", "finished"} /\ call[c].on \in Objs
    BY <1>7 DEF Return, InFlight, OneRuns, TypeOK, CallStates
  <2>3. Promised[c].state \in {"due", "kept", "broken"}
    BY <2>2 DEF Promised, PromiseOf, PromiseState
  <2>4. PromiseOf(c)' = [state |-> "none", deletes |-> FALSE, on |-> call[c].on,
                         since |-> 1, cancelled |-> FALSE]
    BY <1>7 DEF Return, FreeSlot, PromiseOf, PromiseState, TypeOK
  <2>5. PromiseOf(c)' \in Promise!Promises /\ PromiseOf(c)'.state = "none"
    BY <2>2, <2>4, ObjectAssumption
    DEF Promise!Promises, Promise!Versions, ObjectAssumption
  <2> QED
    BY <1>7, <2>1, <2>3, <2>5 DEF Return, Promise!Close
<1>8. ASSUME NEW o \in Objs, FetchSync(o)
      PROVE  Promise!Read(o)
  BY <1>8 DEF FetchSync, Promise!Read, Promised, PromiseOf, PromiseState
<1>9. ASSUME EngineChanges
      PROVE  Promise!Change
  BY <1>9 DEF EngineChanges, Promise!Change, Promised, PromiseOf, PromiseState
<1>10. ASSUME UNCHANGED <<version, table, call>>
       PROVE  UNCHANGED Promise!vars
  BY <1>10 DEF Promise!vars, Promised, PromiseOf, PromiseState
<1> QED
  BY <1>1, <1>2, <1>3, <1>4, <1>5, <1>6, <1>7, <1>8, <1>9, <1>10
  DEF Next, vars, Ref, Unref, Promise!Next

(* Every asynchronous call keeps its promise: AsyncCall implements         *)
(* CallPromise.                                                             *)
THEOREM KeepsPromiseSafe == Spec => KeepsPromise
  BY InitPromise, NextPromise, Typing, FlightSafe, PTL
  DEF Spec, KeepsPromise, Promise!Spec

-----------------------------------------------------------------------------
(* Reference counts: a count is the number of those who own a reference,   *)
(* the client and the pending calls.                                       *)

(* The references to x: <<NoCall, 0>> is the client's, <<c, i>> the i-th   *)
(* of call c.                                                               *)
TakenBy(c, x) == Taken(call[c].deletes, call[c].on)[x]

Owns(c, i, x) ==
    \/ c = NoCall /\ i = 0 /\ x \in holds
    \/ c \in Calls /\ Pending(c) /\ i \in 1..TakenBy(c, x)

Tokens == (Calls \cup {NoCall}) \X (0..2)

Owners(x) == {t \in Tokens : Owns(t[1], t[2], x)}

CountExact == \A x \in Counted : refs[x] = Cardinality(Owners(x))

-----------------------------------------------------------------------------
LEMMA TakenRange ==
    ASSUME NEW deletes \in BOOLEAN, NEW o \in Objs, NEW x \in Counted
    PROVE  /\ Taken(deletes, o)[x] \in 0..2
           /\ Taken(deletes, o)[x] > 0 <=> x \in {Proxy, o}
  BY ObjectAssumption DEF Taken, Counted, ObjectAssumption

LEMMA TokensFinite == IsFiniteSet(Tokens)
<1>1. IsFiniteSet(Calls \cup {NoCall})
  BY CallsAssumption, FS_AddElement DEF CallsAssumption
<1>2. 0 \in Int /\ 2 \in Int
  OBVIOUS
<1>3. IsFiniteSet(0..2)
  BY <1>2, FS_Interval, Zenon
<1> QED
  BY <1>1, <1>3, FS_Product DEF Tokens

(* n references more, for a call that had none.                             *)
LEMMA AddedOwners ==
    ASSUME NEW S, IsFiniteSet(S), NEW c, NEW n \in 0..2,
           \A i \in 1..2 : <<c, i>> \notin S
    PROVE  Cardinality(S \cup ({c} \X (1..n))) = Cardinality(S) + n
<1>0. Cardinality(S) \in Nat
  BY FS_CardinalityType
<1>1. CASE n = 0
  <2>1. S \cup ({c} \X (1..n)) = S
    BY <1>1
  <2>2. Cardinality(S \cup ({c} \X (1..n))) = Cardinality(S)
    BY <2>1, Zenon
  <2> QED
    BY <1>0, <1>1, <2>2
<1>2. IsFiniteSet(S \cup {<<c, 1>>}) /\ Cardinality(S \cup {<<c, 1>>}) = Cardinality(S) + 1
  BY FS_AddElement
<1>3. CASE n = 1
  <2>1. S \cup ({c} \X (1..n)) = S \cup {<<c, 1>>}
    BY <1>3
  <2>2. Cardinality(S \cup ({c} \X (1..n))) = Cardinality(S) + 1
    BY <1>2, <2>1, Zenon
  <2> QED
    BY <1>3, <2>2
<1>4. CASE n = 2
  <2>1. S \cup ({c} \X (1..n)) = (S \cup {<<c, 1>>}) \cup {<<c, 2>>}
    BY <1>4
  <2>2. <<c, 2>> \notin S \cup {<<c, 1>>}
    OBVIOUS
  <2>3. Cardinality((S \cup {<<c, 1>>}) \cup {<<c, 2>>}) = Cardinality(S) + 1 + 1
    BY <1>0, <1>2, <2>2, FS_AddElement
  <2>4. Cardinality(S \cup ({c} \X (1..n))) = Cardinality(S) + 1 + 1
    BY <2>1, <2>3, Zenon
  <2> QED
    BY <1>0, <1>4, <2>4
<1> QED
  BY <1>1, <1>3, <1>4

LEMMA InitCounts == Init => CountExact
<1> SUFFICES ASSUME Init, NEW x \in Counted PROVE refs[x] = Cardinality(Owners(x))
  BY DEF CountExact
<1>1. \A c \in Calls : call[c].phase = "idle"
  BY DEF Init, FreeSlot
<1>2. Owners(x) = {<<NoCall, 0>>}
  BY <1>1, ObjectAssumption DEF Owners, Owns, Tokens, Pending, Init, ObjectAssumption
<1>3. Cardinality(Owners(x)) = 1
  BY <1>2, FS_Singleton
<1> QED
  BY <1>3 DEF Init

LEMMA NextCounts == TypeOK /\ InFlight /\ [Next]_vars /\ CountExact => CountExact'
<1> SUFFICES ASSUME TypeOK, InFlight, [Next]_vars, CountExact, NEW x \in Counted
             PROVE  refs'[x] = Cardinality(Owners(x)')
  BY DEF CountExact
<1>0. /\ IsFiniteSet(Owners(x)) /\ IsFiniteSet(Owners(x)')
      /\ Cardinality(Owners(x)) \in Nat /\ Cardinality(Owners(x)') \in Nat
      /\ refs[x] = Cardinality(Owners(x))
  <2>1. Owners(x) \in SUBSET Tokens /\ Owners(x)' \in SUBSET Tokens
    BY DEF Owners
  <2>2. IsFiniteSet(Owners(x)) /\ IsFiniteSet(Owners(x)')
    BY <2>1, TokensFinite, FS_Subset
  <2> QED
    BY <2>2, FS_CardinalityType DEF CountExact
<1>1. ASSUME NEW c \in Calls, NEW deletes \in BOOLEAN, NEW o \in Objs, Start(c, deletes, o)
      PROVE  refs'[x] = Cardinality(Owners(x)')
  <2> DEFINE n == Taken(deletes, o)[x]
  <2>1. n \in 0..2
    BY TakenRange
  <2>2. /\ ~Pending(c) /\ Pending(c)' /\ TakenBy(c, x)' = n
        /\ \A d \in Calls \ {c} : (Pending(d)' <=> Pending(d)) /\ TakenBy(d, x)' = TakenBy(d, x)
        /\ UNCHANGED holds
    BY <1>1 DEF Start, Pending, TakenBy, NewCall, TypeOK, Taken
  <2>3. \A i \in 1..2 : <<c, i>> \notin Owners(x)
    BY <2>2, ObjectAssumption DEF Owners, Owns, Tokens, ObjectAssumption
  <2>4. Owners(x)' = Owners(x) \cup ({c} \X (1..n))
    <3> HIDE DEF n
    <3> QED
      BY <2>1, <2>2, ObjectAssumption DEF Owners, Owns, Tokens, ObjectAssumption
  <2>5. refs'[x] = refs[x] + n
    BY <1>1 DEF Start
  <2>6. Cardinality(Owners(x) \cup ({c} \X (1..n))) = Cardinality(Owners(x)) + n
    BY <1>0, <2>1, <2>3, AddedOwners
  <2>7. Cardinality(Owners(x)') = Cardinality(Owners(x)) + n
    BY <2>4, <2>6, Zenon
  <2> QED
    BY <1>0, <2>5, <2>7
<1>2. ASSUME NEW c \in Calls, Return(c)
      PROVE  refs'[x] = Cardinality(Owners(x)')
  <2> DEFINE n == TakenBy(c, x)
  <2>1. n \in 0..2
    BY TakenRange DEF TypeOK, CallStates, TakenBy
  <2>2. /\ Pending(c) /\ ~Pending(c)'
        /\ \A d \in Calls \ {c} : (Pending(d)' <=> Pending(d)) /\ TakenBy(d, x)' = TakenBy(d, x)
        /\ UNCHANGED holds
    BY <1>2 DEF Return, Pending, TakenBy, FreeSlot, TypeOK, Taken, InFlight, OneRuns
  <2>3. \A i \in 1..2 : <<c, i>> \notin Owners(x)'
    BY <2>2, ObjectAssumption DEF Owners, Owns, Tokens, ObjectAssumption
  <2>4. Owners(x) = Owners(x)' \cup ({c} \X (1..n))
    <3>1. n = TakenBy(c, x)
      OBVIOUS
    <3> HIDE DEF n
    <3> QED
      BY <2>1, <2>2, <3>1, ObjectAssumption DEF Owners, Owns, Tokens, ObjectAssumption
  <2>5. refs'[x] = refs[x] - n
    BY <1>2 DEF Return, Released, TakenBy
  <2>6. Cardinality(Owners(x)' \cup ({c} \X (1..n))) = Cardinality(Owners(x)') + n
    BY <1>0, <2>1, <2>3, AddedOwners
  <2>7. Cardinality(Owners(x)) = Cardinality(Owners(x)') + n
    BY <2>4, <2>6, Zenon
  <2> QED
    BY <1>0, <2>1, <2>5, <2>7
<1>3. ASSUME NEW y \in Counted, Unref(y)
      PROVE  refs'[x] = Cardinality(Owners(x)')
  <2>1. CASE x = y
    <3>1. Owners(x)' = Owners(x) \ {<<NoCall, 0>>}
      BY <1>3, <2>1, ObjectAssumption
      DEF Unref, Owners, Owns, Tokens, Pending, TakenBy, Taken, ObjectAssumption
    <3>2. <<NoCall, 0>> \in Owners(x)
      BY <1>3, <2>1 DEF Unref, Owners, Owns, Tokens
    <3>3. refs'[x] = refs[x] - 1
      BY <1>3, <2>1 DEF Unref, TypeOK
    <3> QED
      BY <1>0, <3>1, <3>2, <3>3, FS_RemoveElement
  <2>2. CASE x # y
    BY <1>0, <1>3, <2>2
    DEF Unref, TypeOK, Owners, Owns, Tokens, Pending, TakenBy, Taken
  <2> QED
    BY <2>1, <2>2
<1>4. ASSUME NEW y \in Counted, Ref(y)
      PROVE  refs'[x] = Cardinality(Owners(x)')
  <2>1. CASE x = y
    <3>1. Owners(x)' = Owners(x) \cup {<<NoCall, 0>>}
      BY <1>4, <2>1, ObjectAssumption
      DEF Ref, Owners, Owns, Tokens, Pending, TakenBy, Taken, ObjectAssumption
    <3>2. <<NoCall, 0>> \notin Owners(x)
      BY <1>4, <2>1, ObjectAssumption DEF Ref, Owners, Owns, Tokens, ObjectAssumption
    <3>3. refs'[x] = refs[x] + 1
      BY <1>4, <2>1 DEF Ref, TypeOK
    <3> QED
      BY <1>0, <3>1, <3>2, <3>3, FS_AddElement
  <2>2. CASE x # y
    BY <1>0, <1>4, <2>2
    DEF Ref, TypeOK, Owners, Owns, Tokens, Pending, TakenBy, Taken
  <2> QED
    BY <2>1, <2>2
<1>5. ASSUME UNCHANGED <<refs, holds>>,
             \A c \in Calls : /\ Pending(c)' <=> Pending(c)
                              /\ TakenBy(c, x)' = TakenBy(c, x)
      PROVE  refs'[x] = Cardinality(Owners(x)')
  <2>1. Owners(x)' = Owners(x)
    BY <1>5 DEF Owners, Owns, Tokens
  <2> QED
    BY <1>0, <1>5, <2>1
<1>6. ASSUME NEW c \in Calls, Cancel(c) \/ Serve(c) \/ Fail(c) \/ Dispatch(c) \/ Finish(c)
      PROVE  refs'[x] = Cardinality(Owners(x)')
  <2>1. /\ \A d \in Calls \ {c} : call'[d] = call[d]
        /\ call'[c].deletes = call[c].deletes /\ call'[c].on = call[c].on
        /\ call[c].phase # "idle" /\ call'[c].phase # "idle"
        /\ UNCHANGED <<refs, holds>>
    <3>1. CASE Cancel(c)
      BY <3>1 DEF Cancel, Pending, TypeOK, CallStates
    <3>2. CASE Serve(c)
      BY <3>2 DEF Serve, TypeOK, CallStates
    <3>3. CASE Fail(c)
      BY <3>3 DEF Fail, TypeOK, CallStates
    <3>4. CASE Dispatch(c)
      BY <3>4 DEF Dispatch, TypeOK, CallStates
    <3>5. CASE Finish(c)
      BY <3>5 DEF Finish, TypeOK, CallStates
    <3> QED
      BY <1>6, <3>1, <3>2, <3>3, <3>4, <3>5
  <2> QED
    BY <1>5, <2>1 DEF Pending, TakenBy, Taken
<1>7. ASSUME UNCHANGED <<refs, holds, call>>
      PROVE  refs'[x] = Cardinality(Owners(x)')
  BY <1>5, <1>7 DEF Pending, TakenBy, Taken
<1> QED
  BY <1>1, <1>2, <1>3, <1>4, <1>6, <1>7 DEF Next, vars, FetchSync, EngineChanges, Counted

LEMMA CountSafe == Spec => []CountExact
  BY InitCounts, NextCounts, Typing, FlightSafe, PTL DEF Spec

(* The proxy and the object of a pending call are not finalized.           *)
THEOREM AliveWhilePendingSafe == Spec => []AliveWhilePending
<1>1. TypeOK /\ CountExact => AliveWhilePending
  <2> SUFFICES ASSUME TypeOK, CountExact, NEW c \in Calls, Pending(c),
                      NEW x \in {Proxy, call[c].on}
               PROVE  Alive(x)
    BY DEF AliveWhilePending
  <2>1. x \in Counted
    BY DEF Counted, TypeOK, CallStates
  <2>2. TakenBy(c, x) \in 0..2 /\ TakenBy(c, x) > 0
    BY <2>1, TakenRange DEF TakenBy, TypeOK, CallStates
  <2>3. <<c, 1>> \in Owners(x)
    BY <2>2 DEF Owners, Owns, Tokens
  <2>4. IsFiniteSet(Owners(x)) /\ Owners(x) # {}
    BY <2>3, TokensFinite, FS_Subset DEF Owners
  <2>5. Cardinality(Owners(x)) \in Nat /\ Cardinality(Owners(x)) # 0
    BY <2>4, FS_CardinalityType, FS_EmptySet
  <2> QED
    BY <2>1, <2>5 DEF CountExact, Alive
<1> QED
  BY <1>1, Typing, CountSafe, PTL

(* What the client has dropped is finalized once its calls are over.       *)
THEOREM NothingLeakedSafe == Spec => []NothingLeaked
<1>1. TypeOK /\ CountExact => NothingLeaked
  <2> SUFFICES ASSUME TypeOK, CountExact, NEW x \in Counted, x \notin holds,
                      \A c \in Calls : Pending(c) => x \notin {Proxy, call[c].on}
               PROVE  ~Alive(x)
    BY DEF NothingLeaked
  <2>1. ASSUME NEW c \in Calls, Pending(c)
        PROVE  TakenBy(c, x) = 0
    <3>1. Taken(call[c].deletes, call[c].on)[x] \in 0..2
          /\ ~(Taken(call[c].deletes, call[c].on)[x] > 0)
      BY <2>1, TakenRange DEF TypeOK, CallStates
    <3> QED
      BY <3>1 DEF TakenBy
  <2>2. Owners(x) = {}
    BY <2>1 DEF Owners, Owns
  <2>3. Cardinality(Owners(x)) = 0
    BY <2>2, FS_EmptySet
  <2> QED
    BY <2>3 DEF CountExact, Alive
<1> QED
  BY <1>1, Typing, CountSafe, PTL
=============================================================================
