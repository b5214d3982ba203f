---------------------------- MODULE ReportProofs ----------------------------
(***************************************************************************)
(* Theorems about what the client is told: of any call, in either form and *)
(* for every reply (CallResults), and of any number of overlapping calls    *)
(* that list the VMs of a proxy (FetchVms).                                 *)
(***************************************************************************)
EXTENDS CallResults, FetchVms, TLAPS

(* What an operation comes back with.                                       *)
Outcomes == [ret : BOOLEAN, err : Errors, local : Locals]

(* An action that leaves no error, whatever form it was called in, had a    *)
(* response that says it is complete, if it had one; and if it was for a    *)
(* ticket, the display has one that does not expire at once.                *)
ActionTold(p, b, ticket) ==
    p.err = "none" /\ b.root = "action" =>
        /\ b.status = "complete"
        /\ ticket /\ p.local.vm.display =>
             "none" \notin {p.local.vm.ticket, p.local.vm.expiry}

(* Between two calls nothing is of the call that is about to be made.       *)
Fresh == last = NoCall => local.table # "now"

(* The inductive invariant: the properties need each other's types only,    *)
(* and a fetch that its table was not of this call before it was made.      *)
IInv == /\ TypeOK /\ Fresh
        /\ FetchContract /\ FailureReported /\ FaultReported
        /\ ActionDone /\ ActionFormsAgree /\ TicketUsable

-----------------------------------------------------------------------------
(* What the root of a body says of its nodes.                               *)
LEMMA ActionBody ==
    ASSUME NEW b \in Bodies, b.root = "action"
    PROVE  b \in Actions
  BY DEF Bodies, NoXml, Faults, Actions, VmXml

LEMMA VmBody ==
    ASSUME NEW b \in Bodies, b.root = "vm"
    PROVE  b \in VmXml
  BY DEF Bodies, NoXml, Faults, Actions, VmXml

LEMMA ReplyParts ==
    ASSUME NEW r \in Replies
    PROVE  /\ r.transport \in {"ok", "http", "network", "cancelled"}
           /\ r.body \in Bodies
           /\ r.transport \in {"network", "cancelled"} => r.body = NoXml
  BY DEF Replies, Bodies

LEMMA ErrorsOfReplies ==
    ASSUME NEW r \in Replies
    PROVE  /\ r.transport # "ok" => TransportError(r) \in Errors \ {"none"}
           /\ IsFault(r.body) => FaultError(r.body) \in Errors \ {"none"}
           /\ GoodFault(r.body) => IsFault(r.body) /\ FaultError(r.body) = "fault"
  BY ReplyParts DEF TransportError, FaultError, IsFault, GoodFault, Errors

LEMMA AgedLocals ==
    ASSUME NEW l \in Locals
    PROVE  Aged(l) \in Locals /\ Aged(l).table # "now"
  BY DEF Aged, Locals, Ages

-----------------------------------------------------------------------------
(* What each parser leaves: an outcome, and the table as it was unless it   *)
(* is the parser of collections.                                            *)
LEMMA VmInitOutcome ==
    ASSUME NEW l \in Locals, NEW b \in Bodies
    PROVE  /\ VmInitFromXml(l, b) \in Outcomes
           /\ VmInitFromXml(l, b).local.table = l.table
  BY VmBody DEF VmInitFromXml, Result, Outcomes, Locals, Ages, Errors, VmXml

LEMMA TicketNodesVm ==
    ASSUME NEW l \in Locals, NEW t \in {"absent", "full", "noValue", "noExpiry", "zeroExpiry"}
    PROVE  /\ [l EXCEPT !.vm = TicketNodes(l.vm, t)] \in Locals
           /\ TicketNodes(l.vm, t).display = l.vm.display
           /\ TicketNodes(l.vm, t).ticket \in Ages
           /\ TicketNodes(l.vm, t).expiry \in Ages
  BY DEF TicketNodes, Locals, Ages

LEMMA TicketOutcome ==
    ASSUME NEW l \in Locals, NEW b \in Actions, NEW p, p = ParseTicketStatus(l, b)
    PROVE  /\ p \in Outcomes
           /\ p.local.table = l.table
           /\ p.err = "none" /\ p.local.vm.display
                => "none" \notin {p.local.vm.ticket, p.local.vm.expiry}
  <1> DEFINE vm == TicketNodes(l.vm, b.ticket)
             stored == [l EXCEPT !.vm = vm]
  <1>t. b.ticket \in {"absent", "full", "noValue", "noExpiry", "zeroExpiry"}
    BY DEF Actions
  <1>1. stored \in Locals /\ stored.table = l.table /\ stored.vm = vm
    BY <1>t, TicketNodesVm DEF Locals
  <1>n. {"none", "parsing"} \subseteq Errors
    BY DEF Errors
  <1>2. CASE ~l.vm.display
    <2>1. p = Result(FALSE, "none", l)
      BY <1>2 DEF ParseTicketStatus
    <2>2. p \in Outcomes /\ p.local = l
      BY <2>1, <1>n DEF Result, Outcomes
    <2> QED BY <1>2, <2>2
  <1>3. CASE l.vm.display /\ b.ticket = "absent"
    <2>1. p = Result(FALSE, "parsing", l)
      BY <1>3 DEF ParseTicketStatus
    <2>2. p \in Outcomes /\ p.local = l /\ p.err = "parsing"
      BY <2>1, <1>n DEF Result, Outcomes
    <2> QED BY <2>2
  <1>4. CASE l.vm.display /\ b.ticket # "absent" /\ "none" \in {vm.ticket, vm.expiry}
    <2>1. p = Result(FALSE, "parsing", stored)
      BY <1>4 DEF ParseTicketStatus
    <2> HIDE DEF stored
    <2>2. p \in Outcomes /\ p.local = stored /\ p.err = "parsing"
      BY <1>1, <2>1, <1>n DEF Result, Outcomes
    <2> QED BY <1>1, <2>2
  <1>5. CASE l.vm.display /\ b.ticket # "absent" /\ "none" \notin {vm.ticket, vm.expiry}
    <2>1. p = Result(TRUE, "none", stored)
      BY <1>5 DEF ParseTicketStatus
    <2> HIDE DEF stored
    <2>2. p \in Outcomes /\ p.local = stored
      BY <1>1, <2>1, <1>n DEF Result, Outcomes
    <2> QED BY <1>1, <1>5, <2>2
  <1> QED BY <1>2, <1>3, <1>4, <1>5

LEMMA ActionOutcome ==
    ASSUME NEW l \in Locals, NEW b \in Bodies, NEW ticket \in BOOLEAN,
           NEW p, p = ParseActionResponse(l, b, ticket)
    PROVE  /\ p \in Outcomes
           /\ p.local.table = l.table
           /\ b.root # "action" => p.err = "none"
           /\ ActionTold(p, b, ticket)
  <1>n. {"none", "parsing", "action"} \subseteq Errors
    BY DEF Errors
  <1>1. CASE b.root # "action"
    <2>1. p = Result(FALSE, "none", l)
      BY <1>1 DEF ParseActionResponse
    <2> QED BY <1>1, <2>1, <1>n DEF Result, Outcomes, ActionTold
  <1>2. CASE b.root = "action"
    <2>1. b \in Actions
      BY <1>2, ActionBody
    <2>2. FailedError(b) \in Errors \ {"none"}
      BY <2>1 DEF FailedError, Actions, Errors
    <2>3. CASE b.status = "complete" /\ ticket
      <3>1. p = ParseTicketStatus(l, b)
        BY <1>2, <2>3 DEF ParseActionResponse
      <3> QED BY <1>2, <2>1, <2>3, <3>1, TicketOutcome DEF ActionTold
    <2>4. CASE b.status = "complete" /\ ~ticket
      <3>1. p = Result(TRUE, "none", l)
        BY <1>2, <2>4 DEF ParseActionResponse
      <3> QED BY <2>4, <3>1, <1>n DEF Result, Outcomes, ActionTold
    <2>5. CASE b.status # "complete"
      <3>1. PICK e \in Errors \ {"none"} : p = Result(FALSE, e, l)
        BY <1>2, <2>2, <2>5 DEF ParseActionResponse, Errors
      <3> QED BY <1>2, <3>1 DEF Result, Outcomes, ActionTold
    <2> QED BY <2>3, <2>4, <2>5
  <1> QED BY <1>1, <1>2

LEMMA RefreshOutcome ==
    ASSUME NEW l \in Locals, NEW b \in Bodies, NEW p, p = CollectionRefreshFromXml(l, b)
    PROVE  /\ p \in Outcomes
           /\ p.ret <=> p.err = "none"
           /\ p.local.table = IF p.ret THEN "now" ELSE l.table
  <1>1. [l EXCEPT !.table = "now"] \in Locals /\ [l EXCEPT !.table = "now"].table = "now"
    BY DEF Locals, Ages
  <1>n. {"none", "parsing"} \subseteq Errors
    BY DEF Errors
  <1> DEFINE filled == [l EXCEPT !.table = "now"]
  <1>2. CASE b.root = "vms"
    <2>1. p = Result(TRUE, "none", filled)
      BY <1>2 DEF CollectionRefreshFromXml
    <2> HIDE DEF filled
    <2>2. p \in Outcomes /\ p.ret = TRUE /\ p.err = "none" /\ p.local = filled
      BY <1>1, <1>n, <2>1 DEF Result, Outcomes, filled
    <2> QED BY <1>1, <2>2 DEF filled
  <1>3. CASE b.root # "vms"
    <2>1. p = Result(FALSE, "parsing", l)
      BY <1>3 DEF CollectionRefreshFromXml
    <2>2. p \in Outcomes /\ p.ret = FALSE /\ p.err = "parsing" /\ p.local = l
      BY <1>n, <2>1 DEF Result, Outcomes
    <2> QED BY <2>2
  <1> QED BY <1>2, <1>3

LEMMA SetApiLocals ==
    ASSUME NEW l \in Locals
    PROVE  SetApiFromXml(l) \in Locals /\ SetApiFromXml(l).table = l.table
  BY DEF SetApiFromXml, Locals, Ages

-----------------------------------------------------------------------------
(* The callbacks of the asynchronous calls.                                 *)
LEMMA AsyncCbOutcome ==
    ASSUME NEW op \in Ops, NEW l \in Locals, NEW b \in Bodies, NEW p, p = AsyncCb(op, l, b)
    PROVE  /\ p \in Outcomes
           /\ op = "collection_fetch" =>
                /\ p.ret <=> p.err = "none"
                /\ p.local.table = IF p.ret THEN "now" ELSE l.table
           /\ op # "collection_fetch" => p.local.table = l.table
           /\ op \in {"action", "ticket"} =>
                /\ p.ret => p.err = "none"
                /\ p.err = ParseActionResponse(l, b, op = "ticket").err
                /\ ActionTold(p, b, op = "ticket")
  <1>n. {"none", "parsing"} \subseteq Errors
    BY DEF Errors
  <1>1. CASE op \in {"collection_fetch", "fetch_api", "refresh"} /\ b = NoXml
    <2>1. p = Result(FALSE, "parsing", l)
      BY <1>1 DEF AsyncCb
    <2>2. p \in Outcomes /\ p.ret = FALSE /\ p.err = "parsing" /\ p.local = l
      BY <1>n, <2>1 DEF Result, Outcomes
    <2> QED BY <1>1, <2>2
  <1>2. CASE op = "collection_fetch" /\ b # NoXml
    <2>1. p = CollectionRefreshFromXml(l, b)
      BY <1>2 DEF AsyncCb
    <2> QED BY <1>2, <2>1, RefreshOutcome
  <1>3. CASE op = "fetch_api" /\ b # NoXml
    <2>1. p = Result(TRUE, "none", SetApiFromXml(l))
      BY <1>3 DEF AsyncCb
    <2>2. p \in Outcomes /\ p.local = SetApiFromXml(l)
      BY <1>n, <2>1, SetApiLocals DEF Result, Outcomes
    <2> QED BY <1>3, <2>2, SetApiLocals
  <1>4. CASE op = "refresh" /\ b # NoXml
    <2>1. p = VmInitFromXml(l, b)
      BY <1>4 DEF AsyncCb
    <2> QED BY <1>4, <2>1, VmInitOutcome
  <1>5. CASE op \in {"action", "ticket"}
    <2> DEFINE ticket == op = "ticket"
               q == ParseActionResponse(l, b, ticket)
    <2>1. p = Result(q.err = "none", q.err, q.local)
      BY <1>5 DEF AsyncCb
    <2>t. ticket \in BOOLEAN
      OBVIOUS
    <2>2. /\ q \in Outcomes /\ q.local.table = l.table
          /\ ActionTold(q, b, ticket)
      <3> HIDE DEF ticket
      <3> QED BY <2>t, ActionOutcome
    <2> HIDE DEF q
    <2>3. q.err \in Errors /\ q.local \in Locals
      BY <2>2 DEF Outcomes
    <2>4. /\ p \in Outcomes /\ p.err = q.err /\ p.local = q.local
          /\ p.ret => p.err = "none"
      <3>1. CASE q.err = "none"
        <4>1. p = Result(TRUE, q.err, q.local)
          BY <2>1, <3>1
        <4> QED BY <2>3, <3>1, <4>1 DEF Result, Outcomes
      <3>2. CASE q.err # "none"
        <4>1. p = Result(FALSE, q.err, q.local)
          BY <2>1, <3>2
        <4> QED BY <2>3, <4>1 DEF Result, Outcomes
      <3> QED BY <3>1, <3>2
    <2> QED BY <1>5, <2>2, <2>4 DEF q, ActionTold
  <1>6. CASE op = "delete"
    <2>1. p = ParseActionResponse(l, b, FALSE)
      BY <1>6 DEF AsyncCb
    <2> QED BY <1>6, <2>1, ActionOutcome
  <1>7. CASE op \in {"update", "cdrom_update"}
    <2>1. p = Result(TRUE, "none", l)
      BY <1>7 DEF AsyncCb
    <2>2. p \in Outcomes /\ p.local = l
      BY <1>n, <2>1 DEF Result, Outcomes
    <2> QED BY <1>7, <2>2
  <1> QED BY <1>1, <1>2, <1>3, <1>4, <1>5, <1>6, <1>7 DEF Ops

(* What call_async_cb makes of a reply to a call, before _finish.           *)
Answered(op, l, r, p) ==
    /\ p \in Outcomes
    /\ r.transport # "ok" => /\ p.ret = FALSE /\ p.err # "none"
                             /\ GoodFault(r.body) => p.err = "fault"
    /\ op = "collection_fetch" =>
         /\ p.ret <=> p.err = "none"
         /\ p.local.table = "now" /\ l.table # "now" => p.ret
         /\ p.ret => p.local.table = "now"
    /\ op \in {"action", "ticket"} =>
         /\ p.ret => p.err = "none"
         /\ ActionTold(p, r.body, op = "ticket")
         /\ r.transport = "ok" =>
              p.err = ParseActionResponse(l, r.body, op = "ticket").err

LEMMA CallAsyncOutcome ==
    ASSUME NEW op \in Ops, NEW l \in Locals, NEW r \in Replies, NEW p, p = CallAsyncCb(op, l, r)
    PROVE  Answered(op, l, r, p)
  <1> DEFINE cb == IF r.transport = "ok" THEN AsyncCb(op, l, r.body)
                   ELSE Result(FALSE, TransportError(r), l)
  <1>n. {"none", "parsing", "fault"} \subseteq Errors
    BY DEF Errors
  <1>r. r.body \in Bodies
    BY ReplyParts
  <1>1. CASE r.transport # "ok"
    <2>1. cb = Result(FALSE, TransportError(r), l)
      BY <1>1
    <2>2. TransportError(r) \in Errors \ {"none"}
      BY <1>1, ErrorsOfReplies
    <2>3. cb.err = TransportError(r) /\ cb.local = l
      BY <2>1, <2>2 DEF Result, Outcomes
    <2>4. p = Result(FALSE, AsyncError(r, TransportError(r)), l)
      BY <2>2, <2>3 DEF CallAsyncCb
    <2>5. /\ AsyncError(r, TransportError(r)) \in Errors \ {"none"}
          /\ GoodFault(r.body) => AsyncError(r, TransportError(r)) = "fault"
      BY <1>n, <2>2 DEF AsyncError
    <2> HIDE DEF cb
    <2>6. p \in Outcomes /\ p.ret = FALSE /\ p.local = l
          /\ p.err = AsyncError(r, TransportError(r))
      BY <2>4, <2>5 DEF Result, Outcomes
    <2> QED BY <1>1, <2>5, <2>6 DEF Answered, ActionTold
  <1>2. CASE r.transport = "ok"
    <2>1. cb = AsyncCb(op, l, r.body)
      BY <1>2
    <2>2. p = IF cb.err = "none" THEN cb ELSE Result(FALSE, AsyncError(r, cb.err), cb.local)
      BY DEF CallAsyncCb
    <2> HIDE DEF cb
    <2>3. /\ cb \in Outcomes
          /\ op = "collection_fetch" =>
               /\ cb.ret <=> cb.err = "none"
               /\ cb.local.table = IF cb.ret THEN "now" ELSE l.table
          /\ op # "collection_fetch" => cb.local.table = l.table
          /\ op \in {"action", "ticket"} =>
               /\ cb.ret => cb.err = "none"
               /\ cb.err = ParseActionResponse(l, r.body, op = "ticket").err
               /\ ActionTold(cb, r.body, op = "ticket")
      BY <1>r, <2>1, AsyncCbOutcome
    <2>4. CASE cb.err = "none"
      BY <1>2, <2>2, <2>3, <2>4 DEF Answered
    <2>5. CASE cb.err # "none"
      <3>1. p = Result(FALSE, AsyncError(r, cb.err), cb.local)
        BY <2>2, <2>5
      <3>2. AsyncError(r, cb.err) \in Errors \ {"none"} /\ cb.local \in Locals
        BY <1>n, <2>3, <2>5 DEF AsyncError, Outcomes
      <3>3. /\ p \in Outcomes /\ p.ret = FALSE /\ p.local = cb.local
            /\ p.err = AsyncError(r, cb.err)
        BY <3>1, <3>2 DEF Result, Outcomes
      <3>4. op \in {"action", "ticket"} => ~GoodFault(r.body)
        <4> SUFFICES ASSUME op \in {"action", "ticket"}, GoodFault(r.body) PROVE FALSE
          OBVIOUS
        <4>1. r.body.root # "action"
          BY DEF GoodFault, IsFault
        <4>2. ParseActionResponse(l, r.body, op = "ticket").err = "none"
          BY <1>r, <4>1, ActionOutcome
        <4> QED BY <2>3, <2>5, <4>2
      <3>5. op \in {"action", "ticket"} => p.err = cb.err
        BY <3>3, <3>4 DEF AsyncError
      <3> QED BY <1>2, <2>3, <2>5, <3>2, <3>3, <3>5 DEF Answered, ActionTold
    <2> QED BY <2>4, <2>5
  <1> QED BY <1>1, <1>2

(* A fault is not an action: a response that is one leaves no error, in     *)
(* either form.                                                             *)
LEMMA FormsAgree ==
    ASSUME NEW l \in Locals, NEW r \in Replies, r.transport = "ok", NEW ticket \in BOOLEAN
    PROVE  ResourceAction(l, r, ticket).err =
           CallAsyncCb(IF ticket THEN "ticket" ELSE "action", l, r).err
  <1>1. ResourceAction(l, r, ticket).err = ParseActionResponse(l, r.body, ticket).err
    BY DEF ResourceAction, Result
  <1>2. PICK op \in {"ticket", "action"} : op = IF ticket THEN "ticket" ELSE "action"
    OBVIOUS
  <1>3. PICK p : p = CallAsyncCb(op, l, r)
    OBVIOUS
  <1>4. Answered(op, l, r, p)
    BY <1>3, CallAsyncOutcome DEF Ops
  <1>5. p.err = ParseActionResponse(l, r.body, op = "ticket").err
    BY <1>4 DEF Answered
  <1>6. (op = "ticket") = ticket
    BY <1>2
  <1> QED BY <1>1, <1>2, <1>3, <1>5, <1>6

-----------------------------------------------------------------------------
(* What a call reports keeps the invariant if it honours the contract of a  *)
(* fetch, tells a failure and the reason of the engine, and speaks of an    *)
(* action that is complete only when there is one.                          *)
LEMMA SyncInv ==
    ASSUME NEW op \in Ops, NEW r \in Replies, NEW res \in Outcomes,
           Report(op, FALSE, FALSE, r, res),
           op # "collection_fetch" /\ r.transport # "ok" =>
               res.ret = FALSE /\ res.err # "none",
           op \in {"refresh", "update", "delete", "cdrom_update"} /\
             r.transport = "http" /\ GoodFault(r.body) => res.err = "fault"
    PROVE  IInv'
  <1>1. /\ local' = res.local
        /\ last' = [op |-> op, async |-> FALSE, late |-> FALSE, reply |-> r,
                    ret |-> res.ret, err |-> res.err]
    BY DEF Report
  <1>2. res.ret \in BOOLEAN /\ res.err \in Errors /\ res.local \in Locals
    BY DEF Outcomes
  <1>3. /\ last' \in Calls /\ last' # NoCall /\ last'.op = op /\ last'.async = FALSE
        /\ last'.late = FALSE /\ last'.reply = r /\ last'.ret = res.ret /\ last'.err = res.err
    BY <1>1, <1>2 DEF Calls, NoCall, Ops
  <1>4. TypeOK' /\ Fresh'
    BY <1>1, <1>2, <1>3 DEF TypeOK, Fresh
  <1>5. FetchContract'
    BY <1>1, <1>2, <1>3 DEF FetchContract, Called
  <1>6. FailureReported'
    BY <1>1, <1>2, <1>3 DEF FailureReported, Called
  <1>7. FaultReported'
    BY <1>1, <1>2, <1>3 DEF FaultReported, Called
  <1>8. ActionDone'
    BY <1>1, <1>2, <1>3 DEF ActionDone, Called, ActionTold
  <1>9. ActionFormsAgree'
    <2> SUFFICES ASSUME r.transport = "ok", NEW ticket \in BOOLEAN
                 PROVE  ResourceAction(local', r, ticket).err =
                        CallAsyncCb(IF ticket THEN "ticket" ELSE "action", local', r).err
      BY <1>3 DEF ActionFormsAgree
    <2> QED BY <1>1, <1>2, FormsAgree
  <1>10. TicketUsable'
    BY <1>1, <1>2, <1>3 DEF TicketUsable, Called, ActionTold
  <1> QED BY <1>4, <1>5, <1>6, <1>7, <1>8, <1>9, <1>10 DEF IInv

LEMMA AsyncInv ==
    ASSUME NEW op \in Ops, NEW late \in BOOLEAN, NEW r \in Replies, NEW res \in Outcomes,
           Report(op, TRUE, late, r, res),
           op = "collection_fetch" =>
               /\ res.ret <=> res.err = "none"
               /\ res.ret => res.local.table = "now"
               /\ res.local.table = "now" => res.ret \/ late,
           op # "fetch_api" /\ r.transport # "ok" => res.ret = FALSE /\ res.err # "none",
           op # "fetch_api" /\ ~late /\ r.transport = "http" /\ GoodFault(r.body) =>
               res.err = "fault",
           op \in {"action", "ticket"} /\ res.ret =>
               res.err = "none" /\ ActionTold(res, r.body, op = "ticket")
    PROVE  IInv'
  <1>1. /\ local' = res.local
        /\ last' = [op |-> op, async |-> TRUE, late |-> late, reply |-> r,
                    ret |-> res.ret, err |-> res.err]
    BY DEF Report
  <1>2. res.ret \in BOOLEAN /\ res.err \in Errors /\ res.local \in Locals
    BY DEF Outcomes
  <1>3. /\ last' \in Calls /\ last' # NoCall /\ last'.op = op /\ last'.async = TRUE
        /\ last'.late = late /\ last'.reply = r /\ last'.ret = res.ret /\ last'.err = res.err
    BY <1>1, <1>2 DEF Calls, NoCall, Ops
  <1>4. TypeOK' /\ Fresh'
    BY <1>1, <1>2, <1>3 DEF TypeOK, Fresh
  <1>5. FetchContract'
    BY <1>1, <1>2, <1>3 DEF FetchContract, Called
  <1>6. FailureReported'
    BY <1>1, <1>2, <1>3 DEF FailureReported, Called
  <1>7. FaultReported'
    BY <1>1, <1>2, <1>3 DEF FaultReported, Called
  <1>8. ActionDone'
    BY <1>1, <1>2, <1>3 DEF ActionDone, Called, ActionTold
  <1>9. ActionFormsAgree'
    <2> SUFFICES ASSUME r.transport = "ok", NEW ticket \in BOOLEAN
                 PROVE  ResourceAction(local', r, ticket).err =
                        CallAsyncCb(IF ticket THEN "ticket" ELSE "action", local', r).err
      BY <1>3 DEF ActionFormsAgree
    <2> QED BY <1>1, <1>2, FormsAgree
  <1>10. TicketUsable'
    BY <1>1, <1>2, <1>3 DEF TicketUsable, Called, ActionTold
  <1> QED BY <1>4, <1>5, <1>6, <1>7, <1>8, <1>9, <1>10 DEF IInv

-----------------------------------------------------------------------------
(* The synchronous forms: an outcome, and FALSE with an error when the      *)
(* transport failed, except for a collection.                               *)
LEMMA RestCallOutcome ==
    ASSUME NEW l \in Locals, NEW r \in Replies, NEW done \in Outcomes,
           NEW p, p = RestCallSync(l, r, done)
    PROVE  /\ p \in Outcomes
           /\ r.transport # "ok" => /\ p.ret = FALSE /\ p.err # "none"
                                    /\ GoodFault(r.body) => p.err = "fault"
  <1>n. "none" \in Errors
    BY DEF Errors
  <1>1. CASE r.transport # "ok" /\ IsFault(r.body)
    <2>1. p = Result(FALSE, FaultError(r.body), l)
      BY <1>1 DEF RestCallSync
    <2> QED BY <1>1, <2>1, ErrorsOfReplies DEF Result, Outcomes
  <1>2. CASE r.transport # "ok" /\ ~IsFault(r.body)
    <2>1. p = Result(FALSE, TransportError(r), l)
      BY <1>2 DEF RestCallSync
    <2> QED BY <1>2, <2>1, ErrorsOfReplies DEF Result, Outcomes
  <1>3. CASE r.transport = "ok"
    BY <1>3, <1>n DEF RestCallSync, Result, Outcomes
  <1> QED BY <1>1, <1>2, <1>3

LEMMA ResourceActionOutcome ==
    ASSUME NEW l \in Locals, NEW r \in Replies, NEW ticket \in BOOLEAN,
           NEW p, p = ResourceAction(l, r, ticket)
    PROVE  /\ p \in Outcomes
           /\ r.transport # "ok" => p.ret = FALSE /\ p.err # "none"
  <1> DEFINE q == ParseActionResponse(l, r.body, ticket)
  <1>1. p = IF r.transport = "ok" THEN Result(TRUE, q.err, q.local)
            ELSE Result(FALSE, IF q.err # "none" THEN q.err ELSE TransportError(r), q.local)
    BY DEF ResourceAction
  <1>2. q \in Outcomes
    BY ReplyParts, ActionOutcome
  <1> HIDE DEF q
  <1>3. r.transport # "ok" => TransportError(r) \in Errors \ {"none"}
    BY ErrorsOfReplies
  <1> QED BY <1>1, <1>2, <1>3 DEF Result, Outcomes

LEMMA FetchOutcome ==
    ASSUME NEW l \in Locals, NEW r \in Replies
    PROVE  CollectionFetch(l, r) \in Outcomes
  <1>n. "none" \in Errors
    BY DEF Errors
  <1> DEFINE x == CollectionRefreshFromXml(l, r.body)
  <1>1. x \in Outcomes
    BY ReplyParts, RefreshOutcome
  <1> HIDE DEF x
  <1>2. CollectionFetch(l, r) = IF r.transport # "ok" \/ r.body = NoXml
                                THEN Result(FALSE, "none", l)
                                ELSE Result(TRUE, x.err, x.local)
    BY DEF CollectionFetch, x
  <1> QED BY <1>n, <1>1, <1>2 DEF Result, Outcomes

LEMMA FetchApiOutcome ==
    ASSUME NEW l \in Locals, NEW r \in Replies, NEW p, p = ProxyFetchApi(l, r)
    PROVE  /\ p \in Outcomes
           /\ r.transport # "ok" => p.ret = FALSE /\ p.err # "none"
  <1>n. "none" \in Errors
    BY DEF Errors
  <1>1. r.transport # "ok" => TransportError(r) \in Errors \ {"none"}
    BY ErrorsOfReplies
  <1> QED BY <1>n, <1>1, SetApiLocals DEF ProxyFetchApi, Result, Outcomes

-----------------------------------------------------------------------------
LEMMA InitInv == Init => IInv
  <1> SUFFICES ASSUME Init PROVE IInv
    OBVIOUS
  <1>1. TypeOK /\ Fresh
    BY DEF Init, TypeOK, Fresh, Locals, Ages
  <1>2. \A ops, forms : ~Called(ops, forms)
    BY DEF Init, Called
  <1> QED BY <1>1, <1>2 DEF IInv, FetchContract, FailureReported, FaultReported,
                            ActionDone, ActionFormsAgree, TicketUsable

LEMMA NextCallInv == IInv /\ NextCall => IInv'
  <1> SUFFICES ASSUME IInv, NextCall PROVE IInv'
    OBVIOUS
  <1>1. local' = Aged(local) /\ last' = NoCall /\ local \in Locals
    BY DEF NextCall, IInv, TypeOK
  <1>2. TypeOK' /\ Fresh'
    BY <1>1, AgedLocals DEF TypeOK, Fresh
  <1>3. /\ FetchContract' /\ FailureReported' /\ FaultReported'
        /\ ActionDone' /\ ActionFormsAgree' /\ TicketUsable'
    BY <1>1 DEF Called, FetchContract, FailureReported, FaultReported,
                ActionDone, ActionFormsAgree, TicketUsable
  <1> QED BY <1>2, <1>3 DEF IInv

LEMMA NextInv == IInv /\ [Next]_vars => IInv'
  <1> SUFFICES ASSUME IInv, [Next]_vars PROVE IInv'
    OBVIOUS
  <1>l. local \in Locals /\ (Ready => local.table # "now")
    BY DEF IInv, TypeOK, Fresh, Ready
  <1>1. CASE NextCall
    BY <1>1, NextCallInv
  <1>2. CASE FetchSync
    <2> PICK r \in SyncReplies :
            Report("collection_fetch", FALSE, FALSE, r, CollectionFetch(local, r))
      BY <1>2 DEF FetchSync
    <2>1. r \in Replies /\ "collection_fetch" \in Ops
      BY DEF SyncReplies, Ops
    <2>2. CollectionFetch(local, r) \in Outcomes
      BY <1>l, <2>1, FetchOutcome
    <2>3. "collection_fetch" \notin {"refresh", "update", "delete", "cdrom_update"}
      OBVIOUS
    <2> QED BY <2>1, <2>2, <2>3, SyncInv
  <1>3. CASE FetchApiSync
    <2> PICK r \in SyncReplies :
            Report("fetch_api", FALSE, FALSE, r, ProxyFetchApi(local, r))
      BY <1>3 DEF FetchApiSync
    <2>1. r \in Replies /\ "fetch_api" \in Ops
      BY DEF SyncReplies, Ops
    <2> DEFINE res == ProxyFetchApi(local, r)
    <2>2. /\ res \in Outcomes
          /\ r.transport # "ok" => res.ret = FALSE /\ res.err # "none"
      BY <1>l, <2>1, FetchApiOutcome
    <2> HIDE DEF res
    <2>3. Report("fetch_api", FALSE, FALSE, r, res)
      BY DEF res
    <2>4. "fetch_api" \notin {"refresh", "update", "delete", "cdrom_update"}
      OBVIOUS
    <2> QED BY <2>1, <2>2, <2>3, <2>4, SyncInv
  <1>4. CASE RefreshSync
    <2> DEFINE Refreshed(r) == RestCallSync(local, r, VmInitFromXml(local, r.body))
    <2> PICK r \in SyncReplies : Report("refresh", FALSE, FALSE, r, Refreshed(r))
      BY <1>4 DEF RefreshSync
    <2>1. r \in Replies /\ "refresh" \in Ops
      BY DEF SyncReplies, Ops
    <2>2. VmInitFromXml(local, r.body) \in Outcomes
      BY <1>l, <2>1, ReplyParts, VmInitOutcome
    <2>3. PICK res : res = Refreshed(r)
      OBVIOUS
    <2>4. /\ res \in Outcomes
          /\ r.transport # "ok" => /\ res.ret = FALSE /\ res.err # "none"
                                   /\ GoodFault(r.body) => res.err = "fault"
      BY <1>l, <2>1, <2>2, <2>3, RestCallOutcome
    <2>5. Report("refresh", FALSE, FALSE, r, res)
      BY <2>3
    <2> QED BY <2>1, <2>4, <2>5, SyncInv
  <1>5. CASE RequestSync
    <2> PICK r \in SyncReplies, op \in {"update", "delete", "cdrom_update"} :
            Report(op, FALSE, FALSE, r, RestCallSync(local, r, Result(TRUE, "none", local)))
      BY <1>5 DEF RequestSync
    <2>1. r \in Replies /\ op \in Ops
      BY DEF SyncReplies, Ops
    <2>2. Result(TRUE, "none", local) \in Outcomes
      BY <1>l DEF Result, Outcomes, Errors
    <2>3. PICK res : res = RestCallSync(local, r, Result(TRUE, "none", local))
      OBVIOUS
    <2>4. /\ res \in Outcomes
          /\ r.transport # "ok" => /\ res.ret = FALSE /\ res.err # "none"
                                   /\ GoodFault(r.body) => res.err = "fault"
      BY <1>l, <2>1, <2>2, <2>3, RestCallOutcome
    <2>5. Report(op, FALSE, FALSE, r, res)
      BY <2>3
    <2> QED BY <2>1, <2>4, <2>5, SyncInv
  <1>6. CASE ActionSync
    <2> PICK r \in SyncReplies, op \in {"action", "ticket"} :
            Report(op, FALSE, FALSE, r, ResourceAction(local, r, op = "ticket"))
      BY <1>6 DEF ActionSync
    <2>1. r \in Replies /\ op \in Ops
      BY DEF SyncReplies, Ops
    <2>2. PICK res : res = ResourceAction(local, r, op = "ticket")
      OBVIOUS
    <2>3. PICK ticket \in BOOLEAN : ticket = (op = "ticket")
      OBVIOUS
    <2>4. res = ResourceAction(local, r, ticket)
      BY <2>2, <2>3
    <2>5. /\ res \in Outcomes
          /\ r.transport # "ok" => res.ret = FALSE /\ res.err # "none"
      BY <1>l, <2>1, <2>4, ResourceActionOutcome
    <2>6. Report(op, FALSE, FALSE, r, res)
      BY <2>2
    <2>7. op \notin {"refresh", "update", "delete", "cdrom_update"}
      OBVIOUS
    <2> QED BY <2>1, <2>5, <2>6, <2>7, SyncInv
  <1>7. CASE CallAsync
    <2> PICK r \in Replies, op \in Ops, late \in BOOLEAN :
            Report(op, TRUE, late, r, Finish(op, CallAsyncCb(op, local, r), late))
      BY <1>7 DEF CallAsync
    <2>1. PICK called : called = CallAsyncCb(op, local, r)
      OBVIOUS
    <2>2. Answered(op, local, r, called)
      BY <1>l, <2>1, CallAsyncOutcome
    <2>3. PICK res : res = Finish(op, called, late)
      OBVIOUS
    <2>4. /\ res \in Outcomes /\ res.local = called.local
          /\ late => res.ret = FALSE
          /\ late /\ op # "fetch_api" => res.err = "cancelled"
          /\ ~late /\ op # "fetch_api" => res.ret = called.ret /\ res.err = called.err
      BY <2>2, <2>3 DEF Answered, Finish, Result, Outcomes, Errors
    <2>5. Report(op, TRUE, late, r, res)
      BY <2>1, <2>3
    <2>6. op = "collection_fetch" =>
               /\ res.ret <=> res.err = "none"
               /\ res.ret => res.local.table = "now"
               /\ res.local.table = "now" => res.ret \/ late
      BY <1>l, <1>7, <2>2, <2>4 DEF CallAsync, Answered
    <2>7. op # "fetch_api" /\ r.transport # "ok" => res.ret = FALSE /\ res.err # "none"
      BY <2>2, <2>4 DEF Answered
    <2>8. op # "fetch_api" /\ ~late /\ r.transport = "http" /\ GoodFault(r.body) =>
              res.err = "fault"
      BY <2>2, <2>4 DEF Answered
    <2>9. op \in {"action", "ticket"} /\ res.ret =>
              res.err = "none" /\ ActionTold(res, r.body, op = "ticket")
      BY <2>2, <2>4 DEF Answered, ActionTold
    <2> QED BY <2>4, <2>5, <2>6, <2>7, <2>8, <2>9, AsyncInv
  <1>8. CASE UNCHANGED vars
    BY <1>8 DEF vars, IInv, TypeOK, Fresh, Called, FetchContract, FailureReported,
                FaultReported, ActionDone, ActionFormsAgree, TicketUsable
  <1> QED BY <1>1, <1>2, <1>3, <1>4, <1>5, <1>6, <1>7, <1>8 DEF Next

LEMMA Invariance == Spec => []IInv
  BY InitInv, NextInv, PTL DEF Spec

(* The type invariant: every call comes back with a boolean, an error and   *)
(* the objects as the code may leave them.                                  *)
THEOREM Typing == Spec => []TypeOK
  <1>1. IInv => TypeOK BY DEF IInv
  <1> QED BY <1>1, Invariance, PTL

(* An asynchronous fetch of a collection tells an error or has the table of *)
(* its own reply in the collection, and one that fails leaves the table     *)
(* alone.                                                                   *)
THEOREM FetchContractSafe == Spec => []FetchContract
  <1>1. IInv => FetchContract BY DEF IInv
  <1> QED BY <1>1, Invariance, PTL

(* A failure of the transport is told with FALSE and an error, whatever the *)
(* body, by all calls but the two that lose the error.                      *)
THEOREM FailureReportedSafe == Spec => []FailureReported
  <1>1. IInv => FailureReported BY DEF IInv
  <1> QED BY <1>1, Invariance, PTL

(* The reason in a <fault> reaches the client rather than the HTTP status,  *)
(* in whatever order calls are made.                                        *)
THEOREM FaultReportedSafe == Spec => []FaultReported
  <1>1. IInv => FaultReported BY DEF IInv
  <1> QED BY <1>1, Invariance, PTL

(* An asynchronous action only succeeds on a response that says "complete". *)
THEOREM ActionDoneSafe == Spec => []ActionDone
  <1>1. IInv => ActionDone BY DEF IInv
  <1> QED BY <1>1, Invariance, PTL

(* The two forms of an action report the same error for every response:     *)
(* what one parses and the other hands to call_async_cb comes to the same.  *)
THEOREM ActionFormsAgreeSafe == Spec => []ActionFormsAgree
  <1>1. IInv => ActionFormsAgree BY DEF IInv
  <1> QED BY <1>1, Invariance, PTL

(* A ticket request that succeeded leaves a display with a ticket and an    *)
(* expiry, although the response may have written only one of them.         *)
THEOREM TicketUsableSafe == Spec => []TicketUsable
  <1>1. IInv => TicketUsable BY DEF IInv
  <1> QED BY <1>1, Invariance, PTL

-----------------------------------------------------------------------------
(* A call only takes the VMs it fetches for those of the proxy's api when   *)
(* that api has some.                                                       *)
MineIsLinked ==
    \A c \in VmsCalls : call[c].phase = "vms" /\ call[c].mine => api = "linked"

(* A call that is under way, or that was never made, has no result yet.     *)
ResultWhenTold == \A c \in VmsCalls : call[c].phase # "told" => call[c].result = "none"

(* The inductive invariant of ToldItsReply.                                 *)
VmsInv == VmsTypeOK /\ MineIsLinked /\ ResultWhenTold /\ ToldItsReply

-----------------------------------------------------------------------------
(* What the operators the actions share do to the calls.                    *)
LEMMA OrphanedCalls ==
    ASSUME VmsTypeOK
    PROVE  /\ Orphaned \in [VmsCalls -> CallStates]
           /\ \A d \in VmsCalls : /\ Orphaned[d].phase = call[d].phase
                                  /\ Orphaned[d].result = call[d].result
                                  /\ Orphaned[d].got = call[d].got
                                  /\ Orphaned[d].phase = "vms" => ~Orphaned[d].mine
                                  /\ Orphaned[d].mine => call[d].mine
  BY DEF VmsTypeOK, CallStates, Orphaned

LEMMA GoOnCalls ==
    ASSUME NEW calls \in [VmsCalls -> CallStates], NEW c \in VmsCalls, NEW a \in Apis
    PROVE  /\ GoOn(c, a, calls) \in [VmsCalls -> CallStates]
           /\ GoOn(c, a, calls)[c].mine => a = "linked"
           /\ GoOn(c, a, calls)[c].result = calls[c].result
           /\ \A d \in VmsCalls : d # c => GoOn(c, a, calls)[d] = calls[d]
  <1> DEFINE r == calls[c]
             s == [r EXCEPT !.phase = IF a = "linked" THEN "vms" ELSE "forgotten",
                            !.mine = a = "linked"]
  <1>1. s \in CallStates /\ (s.mine => a = "linked") /\ s.result = r.result
    <2>1. r \in CallStates
      OBVIOUS
    <2>2. CASE a = "linked"
      <3>1. s = [r EXCEPT !.phase = "vms", !.mine = TRUE]
        BY <2>2
      <3> HIDE DEF s, r
      <3> QED BY <2>1, <2>2, <3>1 DEF CallStates
    <2>3. CASE a # "linked"
      <3>1. s = [r EXCEPT !.phase = "forgotten", !.mine = FALSE]
        BY <2>3
      <3> HIDE DEF s, r
      <3> QED BY <2>1, <2>3, <3>1 DEF CallStates
    <2> QED BY <2>2, <2>3
  <1>2. GoOn(c, a, calls) = [calls EXCEPT ![c] = s]
    BY DEF GoOn
  <1> HIDE DEF s
  <1> QED BY <1>1, <1>2

LEMMA ToldCalls ==
    ASSUME NEW calls \in [VmsCalls -> CallStates], NEW c \in VmsCalls,
           NEW result \in Lists \cup {"error", "null"}
    PROVE  /\ Told(c, result, calls) \in [VmsCalls -> CallStates]
           /\ Told(c, result, calls)[c].mine = calls[c].mine
           /\ Told(c, result, calls)[c].got = calls[c].got
           /\ Told(c, result, calls)[c].phase = "told"
           /\ Told(c, result, calls)[c].result = result
           /\ \A d \in VmsCalls : d # c => Told(c, result, calls)[d] = calls[d]
  BY DEF CallStates, Told

-----------------------------------------------------------------------------
LEMMA NotCalledRecord ==
    NotCalled \in CallStates /\ ~NotCalled.mine /\ NotCalled.result = "none"
  BY DEF NotCalled, CallStates

LEMMA VmsInitInv == VmsInit => VmsInv
  <1> SUFFICES ASSUME VmsInit PROVE VmsInv
    OBVIOUS
  <1>1. call \in [VmsCalls -> CallStates] /\ \A c \in VmsCalls : call[c] = NotCalled
    BY NotCalledRecord DEF VmsInit
  <1> QED
    BY <1>1, NotCalledRecord
    DEF VmsInit, VmsInv, VmsTypeOK, MineIsLinked, ResultWhenTold, ToldItsReply

(* Failing a call keeps the invariant.                                      *)
LEMMA VmsErrorInv ==
    ASSUME VmsInv, NEW c \in VmsCalls, call' = Told(c, "error", call),
           UNCHANGED <<api, table>>
    PROVE  VmsInv'
  <1>1. call \in [VmsCalls -> CallStates]
    BY DEF VmsInv, VmsTypeOK
  <1>2. /\ call' \in [VmsCalls -> CallStates]
        /\ call'[c].phase = "told" /\ call'[c].result = "error"
        /\ \A d \in VmsCalls : d # c => call'[d] = call[d]
    BY <1>1, ToldCalls
  <1> QED
    BY <1>2 DEF VmsInv, VmsTypeOK, MineIsLinked, ResultWhenTold, ToldItsReply

(* Replacing the api does: calls that were told keep what they were told,   *)
(* and none that is under way fetches the VMs of the new api.               *)
LEMMA VmsReplacedInv ==
    ASSUME VmsInv, call' = Orphaned, api' \in Apis,
           table' \in Fetched \cup {"unfetched"}
    PROVE  VmsInv'
  <1>1. /\ call' \in [VmsCalls -> CallStates]
        /\ \A d \in VmsCalls : /\ call'[d].phase = call[d].phase
                               /\ call'[d].result = call[d].result
                               /\ call'[d].got = call[d].got
                               /\ call'[d].phase = "vms" => ~call'[d].mine
                               /\ call'[d].mine => call[d].mine
    BY OrphanedCalls DEF VmsInv
  <1> QED
    BY <1>1 DEF VmsInv, VmsTypeOK, MineIsLinked, ResultWhenTold, ToldItsReply

(* The VMs arrive: of the api the proxy has, then the table is that of the  *)
(* reply when the client is told, or of another.                            *)
LEMMA VmsArriveInv == ASSUME VmsInv, NEW c \in VmsCalls, VmsArrive(c) PROVE VmsInv'
  <1>1. /\ call \in [VmsCalls -> CallStates] /\ api \in Apis \cup {"none"}
        /\ table \in Fetched \cup {"unfetched"}
    BY DEF VmsInv, VmsTypeOK
  <1>2. call[c].phase = "vms" /\ api' = api
    BY DEF VmsArrive
  <1>3. PICK t \in Fetched :
            /\ table' = IF call[c].mine THEN t ELSE table
            /\ call' = Told(c, FinishVms(c, table'), [call EXCEPT ![c].got = t])
    BY DEF VmsArrive
  <1> DEFINE calls == [call EXCEPT ![c].got = t]
             result == FinishVms(c, table')
  <1>4. table' \in Fetched \cup {"unfetched"}
    BY <1>1, <1>3
  <1>5. /\ calls \in [VmsCalls -> CallStates]
        /\ calls[c].mine = call[c].mine /\ calls[c].got = t
        /\ \A d \in VmsCalls : d # c => calls[d] = call[d]
    BY <1>1 DEF CallStates
  <1>6. result \in Lists \cup {"error", "null"}
    BY DEF FinishVms, GetVms
  <1>7. call' = Told(c, result, calls)
    BY <1>3
  <1>8. call[c].mine /\ result # "error" =>
            IF t \in Lists THEN result = t ELSE t = "empty" /\ result = "null"
    <2>1. call[c].mine => api = "linked" /\ table' = t
      BY <1>2, <1>3 DEF VmsInv, MineIsLinked
    <2> QED BY <2>1 DEF FinishVms, GetVms, Fetched
  <1> HIDE DEF calls, result
  <1>9. /\ call' \in [VmsCalls -> CallStates]
        /\ call'[c].mine = call[c].mine /\ call'[c].got = t
        /\ call'[c].phase = "told" /\ call'[c].result = result
        /\ \A d \in VmsCalls : d # c => call'[d] = call[d]
    BY <1>5, <1>6, <1>7, ToldCalls
  <1>10. VmsTypeOK'
    BY <1>1, <1>2, <1>4, <1>9 DEF VmsTypeOK
  <1>11. MineIsLinked' /\ ResultWhenTold'
    BY <1>2, <1>9 DEF VmsInv, MineIsLinked, ResultWhenTold
  <1>12. ToldItsReply'
    BY <1>8, <1>9 DEF VmsInv, ToldItsReply
  <1> QED BY <1>10, <1>11, <1>12 DEF VmsInv

(* The api arrives: the call goes on with its VMs, or is told that it was   *)
(* cancelled, and the others have lost the api they may have had.           *)
LEMMA ApiArrivesInv == ASSUME VmsInv, NEW c \in VmsCalls, ApiArrives(c) PROVE VmsInv'
  <1>1. PICK a \in Apis :
            /\ InstallApi(a)
            /\ call' = IF call[c].cancelled THEN Told(c, "error", Orphaned)
                       ELSE GoOn(c, a, Orphaned)
    BY DEF ApiArrives
  <1>2. /\ Orphaned \in [VmsCalls -> CallStates]
        /\ \A d \in VmsCalls : /\ Orphaned[d].phase = call[d].phase
                               /\ Orphaned[d].result = call[d].result
                               /\ Orphaned[d].got = call[d].got
                               /\ Orphaned[d].phase = "vms" => ~Orphaned[d].mine
                               /\ Orphaned[d].mine => call[d].mine
    BY OrphanedCalls DEF VmsInv
  <1>3. call[c].result = "none" /\ api' = a /\ table' = "unfetched"
    BY <1>1 DEF VmsInv, ResultWhenTold, ApiArrives, InstallApi
  <1>4. /\ call' \in [VmsCalls -> CallStates]
        /\ \A d \in VmsCalls : d # c => call'[d] = Orphaned[d]
        /\ \/ call'[c].phase = "told" /\ call'[c].result = "error"
           \/ (call'[c].mine => a = "linked") /\ call'[c].result = "none"
    <2>1. CASE call[c].cancelled
      <3>1. call' = Told(c, "error", Orphaned)
        BY <1>1, <2>1
      <3> QED BY <1>2, <3>1, ToldCalls
    <2>2. CASE ~call[c].cancelled
      <3>1. call' = GoOn(c, a, Orphaned)
        BY <1>1, <2>2
      <3> QED BY <1>2, <1>3, <3>1, GoOnCalls
    <2> QED BY <2>1, <2>2
  <1>5. VmsTypeOK'
    BY <1>3, <1>4 DEF VmsTypeOK
  <1>6. MineIsLinked'
    BY <1>2, <1>3, <1>4 DEF MineIsLinked
  <1>7. ResultWhenTold' /\ ToldItsReply'
    BY <1>2, <1>4 DEF VmsInv, ResultWhenTold, ToldItsReply
  <1> QED BY <1>5, <1>6, <1>7 DEF VmsInv

LEMMA FetchVmsAsyncInv ==
    ASSUME VmsInv, NEW c \in VmsCalls, FetchVmsAsync(c) PROVE VmsInv'
  <1>1. call \in [VmsCalls -> CallStates] /\ api \in Apis \cup {"none"}
    BY DEF VmsInv, VmsTypeOK
  <1>2. call[c].result = "none" /\ UNCHANGED <<api, table>>
    BY DEF FetchVmsAsync, VmsInv, ResultWhenTold
  <1>3. /\ call' \in [VmsCalls -> CallStates]
        /\ call'[c].phase = "vms" /\ call'[c].mine => api = "linked"
        /\ call'[c].result = "none"
        /\ \A d \in VmsCalls : d # c => call'[d] = call[d]
    <2>1. CASE api = "none"
      BY <1>1, <1>2, <2>1 DEF FetchVmsAsync, CallStates
    <2>2. CASE api # "none"
      <3>1. call' = GoOn(c, api, call) /\ api \in Apis
        BY <1>1, <2>2 DEF FetchVmsAsync
      <3> QED BY <1>1, <1>2, <3>1, GoOnCalls
    <2> QED BY <2>1, <2>2
  <1> QED
    BY <1>2, <1>3 DEF VmsInv, VmsTypeOK, MineIsLinked, ResultWhenTold, ToldItsReply

LEMMA VmsNextInv == VmsInv /\ [VmsNext]_vmsVars => VmsInv'
  <1> SUFFICES ASSUME VmsInv, [VmsNext]_vmsVars PROVE VmsInv'
    OBVIOUS
  <1>sync. CASE FetchVmsSync
    BY <1>sync, VmsReplacedInv DEF FetchVmsSync
  <1>api. CASE FetchApi
    BY <1>api, VmsReplacedInv DEF FetchApi, InstallApi
  <1>vms. CASE FetchCollection
    BY <1>vms
    DEF FetchCollection, VmsInv, VmsTypeOK, MineIsLinked, ResultWhenTold, ToldItsReply
  <1>call. ASSUME NEW c \in VmsCalls,
                  \/ FetchVmsAsync(c) \/ Cancel(c) \/ Done(c)
                  \/ ApiArrives(c) \/ ApiFails(c) \/ VmsArrive(c) \/ VmsFail(c)
           PROVE  VmsInv'
    <2>1. CASE Cancel(c)
      <3>1. call \in [VmsCalls -> CallStates] /\ UNCHANGED <<api, table>>
        BY <2>1 DEF Cancel, VmsInv, VmsTypeOK
      <3>2. /\ call' \in [VmsCalls -> CallStates]
            /\ \A d \in VmsCalls : /\ call'[d].phase = call[d].phase
                                   /\ call'[d].mine = call[d].mine
                                   /\ call'[d].got = call[d].got
                                   /\ call'[d].result = call[d].result
        BY <2>1, <3>1 DEF Cancel, CallStates
      <3> QED
        BY <3>1, <3>2 DEF VmsInv, VmsTypeOK, MineIsLinked, ResultWhenTold, ToldItsReply
    <2>2. CASE Done(c)
      BY <2>2, NotCalledRecord
      DEF Done, VmsInv, VmsTypeOK, MineIsLinked, ResultWhenTold, ToldItsReply
    <2>3. CASE ApiFails(c) \/ VmsFail(c)
      BY <2>3, VmsErrorInv DEF ApiFails, VmsFail
    <2> QED
      BY <1>call, <2>1, <2>2, <2>3, FetchVmsAsyncInv, ApiArrivesInv, VmsArriveInv
  <1>stutter. CASE UNCHANGED vmsVars
    BY <1>stutter
    DEF vmsVars, VmsInv, VmsTypeOK, MineIsLinked, ResultWhenTold, ToldItsReply
  <1> QED BY <1>sync, <1>api, <1>vms, <1>call, <1>stutter DEF VmsNext

LEMMA VmsInvariance == VmsSpec => []VmsInv
  BY VmsInitInv, VmsNextInv, PTL DEF VmsSpec

(* The type invariant, for any number of calls and any apis and lists of    *)
(* VMs the engine serves.                                                   *)
THEOREM VmsTyping == VmsSpec => []VmsTypeOK
  <1>1. VmsInv => VmsTypeOK BY DEF VmsInv
  <1> QED BY <1>1, VmsInvariance, PTL

(* A client is told what its own reply lists, however many calls, fetches   *)
(* of the api and of its VMs overlap, unless the api was replaced under the *)
(* call (ovirt_proxy_fetch_vms_finish).                                     *)
THEOREM ToldItsReplySafe == VmsSpec => []ToldItsReply
  <1>1. VmsInv => ToldItsReply BY DEF VmsInv
  <1> QED BY <1>1, VmsInvariance, PTL
=============================================================================
