--------------------------- MODULE CollectionTable ---------------------------
(***************************************************************************)
(* The table of a collection (govirt/ovirt-collection.c).  A document that *)
(* arrives is read node by node into a new table, which then takes the     *)
(* place of the one before.  Tables and resources are counted: a table is  *)
(* kept by the collection, by the loop that fills it and by a client that  *)
(* read the property "resources", and keeps the resources in it; a client  *)
(* keeps those it looked up.                                               *)
(*                                                                         *)
(* The loop runs in one dispatch: the client does nothing in between.      *)
(***************************************************************************)
EXTENDS Naturals, Sequences, FiniteSets

CONSTANTS
    Names, Ids, Documents, FakeName,    \* as in Listing
    Tables,         \* the tables that can be at a time
    Objs,           \* the resources (GObjects) that can be at a time
    MaxHeld,        \* bounds the references of a client to a resource
    None

Nodes == [whole : BOOLEAN, id : Ids, name : Names \cup {None}]

ASSUME DocumentAssumption == Documents \subseteq Seq(Nodes)

ASSUME NoneAssumption ==
    /\ None \notin Names /\ None \notin Ids
    /\ None \notin Tables /\ None \notin Objs
    /\ None \notin Documents
    /\ None \notin [Names -> Ids \cup {None}]
    /\ FakeName \in Names

ASSUME HeldAssumption == MaxHeld \in Nat

VARIABLES
    named,          \* is it a collection of CD-ROMs?
    document,       \* root_node in ovirt_collection_refresh_from_xml
    at,             \* how many of its nodes have been read
    building,       \* resources in ovirt_collection_refresh_from_xml
    table,          \* resources of the collection
    snapshot,       \* the table the client keeps
    held,           \* the references of the client to each resource
    heap            \* tables and resources: their counts and contents

vars == <<named, document, at, building, table, snapshot, held, heap>>

Rows == [Names -> Objs \cup {None}]

Heaps ==
    [tableRefs : [Tables -> Nat], rows : [Tables -> Rows],
     refs : [Objs -> Nat], guid : [Objs -> Ids \cup {None}]]

TypeOK ==
    /\ named \in BOOLEAN
    /\ document \in Documents \cup {None}
    /\ at \in Nat /\ (document # None => at <= Len(document))
    /\ building \in Tables \cup {None}
    /\ table \in Tables \cup {None}
    /\ snapshot \in Tables \cup {None}
    /\ held \in [Objs -> 0..MaxHeld]
    /\ heap \in Heaps

-----------------------------------------------------------------------------
EmptyRow == [n \in Names |-> None]

RowObjs(h, t) == {h.rows[t][n] : n \in Names} \ {None}

(* g_object_unref on each of the resources os.                             *)
RefsWithout(h, os) == [o \in Objs |-> h.refs[o] - (IF o \in os THEN 1 ELSE 0)]
GuidWithout(h, os) ==
    [o \in Objs |-> IF o \in os /\ h.refs[o] = 1 THEN None ELSE h.guid[o]]

UnrefObjs(h, os) ==
    [tableRefs |-> h.tableRefs, rows |-> h.rows,
     refs |-> RefsWithout(h, os), guid |-> GuidWithout(h, os)]

RefObj(h, o) ==
    [tableRefs |-> h.tableRefs, rows |-> h.rows,
     refs |-> [h.refs EXCEPT ![o] = @ + 1], guid |-> h.guid]

RefTable(h, t) ==
    [tableRefs |-> [h.tableRefs EXCEPT ![t] = @ + 1], rows |-> h.rows,
     refs |-> h.refs, guid |-> h.guid]

(* g_hash_table_unref: the last one gives back what the table holds.       *)
UnrefTable(h, t) ==
    LET last == h.tableRefs[t] = 1
        gone == IF last THEN RowObjs(h, t) ELSE {}
    IN  [tableRefs |-> [h.tableRefs EXCEPT ![t] = @ - 1],
         rows |-> IF last THEN [h.rows EXCEPT ![t] = EmptyRow] ELSE h.rows,
         refs |-> RefsWithout(h, gone), guid |-> GuidWithout(h, gone)]

FreeTables == {t \in Tables : heap.tableRefs[t] = 0}
FreeObjs   == {o \in Objs : heap.refs[o] = 0}

Init ==
    /\ named \in BOOLEAN
    /\ document = None /\ at = 0 /\ building = None
    /\ table = None /\ snapshot = None
    /\ held = [o \in Objs |-> 0]
    /\ heap = [tableRefs |-> [t \in Tables |-> 0],
               rows |-> [t \in Tables |-> EmptyRow],
               refs |-> [o \in Objs |-> 0], guid |-> [o \in Objs |-> None]]

-----------------------------------------------------------------------------
Reading == document # None /\ at < Len(document)
Node    == document[at + 1]

(* What name the resource of the node has; ovirt_cdrom_init_from_xml gives *)
(* one to a CD-ROM that has none.                                          *)
NodeName == IF Node.name = None /\ named THEN FakeName ELSE Node.name

\* fault: the table of the collection is filled, and not one of its own
ArriveInPlace(d) ==
    /\ document = None
    /\ Cardinality(FreeObjs) >= Len(d)
    /\ document' = d /\ at' = 0
    /\ IF table # None
       THEN building' = table /\ heap' = RefTable(heap, table)
       ELSE \E t \in FreeTables : building' = t /\ heap' = RefTable(heap, t)
    /\ UNCHANGED <<named, table, snapshot, held>>

(* ovirt_collection_refresh_from_xml is called with a document whose root  *)
(* is the one of the collection.                                           *)
Arrive(d) ==
    /\ document = None
    /\ Cardinality(FreeObjs) >= Len(d)
    /\ document' = d /\ at' = 0
    /\ \E t \in FreeTables : building' = t /\ heap' = RefTable(heap, t)
    /\ UNCHANGED <<named, table, snapshot, held>>

(* The node has no resource in it: ovirt_resource_new_from_xml gives none. *)
SkipNode ==
    /\ Reading /\ ~Node.whole
    /\ at' = at + 1
    /\ UNCHANGED <<named, document, building, table, snapshot, held, heap>>

NewResource(o) ==
    [tableRefs |-> heap.tableRefs, rows |-> heap.rows,
     refs |-> [heap.refs EXCEPT ![o] = 1],
     guid |-> [heap.guid EXCEPT ![o] = Node.id]]

Insert(h, t, n, o) ==
    [tableRefs |-> h.tableRefs, rows |-> [h.rows EXCEPT ![t][n] = o],
     refs |-> h.refs, guid |-> h.guid]

(* It has a name, and it is the first one that has it.                     *)
First == NodeName # None /\ heap.rows[building][NodeName] = None

\* fault: the resource that is not listed is not given back
DropNodeLeaks(o) ==
    /\ Reading /\ Node.whole
    /\ heap.refs[o] = 0
    /\ ~First
    /\ at' = at + 1
    /\ heap' = NewResource(o)
    /\ UNCHANGED <<named, document, building, table, snapshot, held>>

(* A resource is made of the node and given back, since it has no name or  *)
(* one that is taken.                                                      *)
DropNode(o) ==
    /\ Reading /\ Node.whole
    /\ heap.refs[o] = 0
    /\ ~First
    /\ at' = at + 1
    /\ heap' = UnrefObjs(NewResource(o), {o})
    /\ UNCHANGED <<named, document, building, table, snapshot, held>>

(* A resource is made of the node and goes into the table.                 *)
InsertNode(o) ==
    /\ Reading /\ Node.whole
    /\ heap.refs[o] = 0
    /\ First
    /\ at' = at + 1
    /\ heap' = Insert(NewResource(o), building, NodeName, o)
    /\ UNCHANGED <<named, document, building, table, snapshot, held>>

(* ovirt_collection_set_resources                                          *)
SetResources(h, t) ==
    LET cleared == IF table = None THEN h ELSE UnrefTable(h, table)
    IN  IF t = None THEN cleared ELSE RefTable(cleared, t)

(* All nodes have been read: the collection gets the table, the loop gives *)
(* its reference back.                                                     *)
Publish ==
    /\ document # None /\ at = Len(document)
    /\ document' = None /\ at' = 0 /\ building' = None
    /\ table' = building
    /\ heap' = UnrefTable(SetResources(heap, building), building)
    /\ UNCHANGED <<named, snapshot, held>>

(* The client sets the property "resources", to NULL, which is what        *)
(* finalization does too, or to the table it keeps.                        *)
SetProperty(t) ==
    /\ document = None
    /\ table' = t
    /\ heap' = SetResources(heap, t)
    /\ UNCHANGED <<named, document, at, building, snapshot, held>>

\* fault: the client is given the resource without a reference
LookupUncounted(n) ==
    /\ document = None /\ table # None
    /\ LET o == heap.rows[table][n] IN
       /\ o # None
       /\ held[o] < MaxHeld
       /\ held' = [held EXCEPT ![o] = @ + 1]
    /\ UNCHANGED <<named, document, at, building, table, snapshot, heap>>

(* ovirt_collection_lookup_resource, when there is one.                    *)
Lookup(n) ==
    /\ document = None /\ table # None
    /\ LET o == heap.rows[table][n] IN
       /\ o # None
       /\ held[o] < MaxHeld
       /\ held' = [held EXCEPT ![o] = @ + 1]
       /\ heap' = RefObj(heap, o)
    /\ UNCHANGED <<named, document, at, building, table, snapshot>>

(* The client drops a resource.                                            *)
Unref(o) ==
    /\ document = None
    /\ held[o] > 0
    /\ held' = [held EXCEPT ![o] = @ - 1]
    /\ heap' = UnrefObjs(heap, {o})
    /\ UNCHANGED <<named, document, at, building, table, snapshot>>

(* The client reads the property "resources".                              *)
GetProperty ==
    /\ document = None /\ snapshot = None /\ table # None
    /\ snapshot' = table
    /\ heap' = RefTable(heap, table)
    /\ UNCHANGED <<named, document, at, building, table, held>>

(* The client drops the table it keeps.                                    *)
DropTable ==
    /\ document = None /\ snapshot # None
    /\ snapshot' = None
    /\ heap' = UnrefTable(heap, snapshot)
    /\ UNCHANGED <<named, document, at, building, table, held>>

Next ==
    \/ \E d \in Documents : Arrive(d)
    \/ SkipNode
    \/ \E o \in Objs : DropNode(o) \/ InsertNode(o)
    \/ Publish
    \/ \E t \in {None, snapshot} : SetProperty(t)
    \/ \E n \in Names : Lookup(n)
    \/ \E o \in Objs : Unref(o)
    \/ GetProperty \/ DropTable

Spec == Init /\ [][Next]_vars

-----------------------------------------------------------------------------
(* A resource has a reference of the table that lists it, and those of the *)
(* client; a table one of each of its keepers: nothing is freed under them, *)
(* and nothing is left behind by a node that was not listed, a fetch that  *)
(* replaced the table, or a table a client kept.                           *)
ListedIn(h, o) == \E t \in Tables, n \in Names : h.rows[t][n] = o

Keeps(k, t) == IF k = t THEN 1 ELSE 0

CountExact ==
    /\ \A o \in Objs :
          heap.refs[o] = held[o] + (IF ListedIn(heap, o) THEN 1 ELSE 0)
    /\ \A t \in Tables :
          heap.tableRefs[t] = Keeps(table, t) + Keeps(building, t) + Keeps(snapshot, t)

-----------------------------------------------------------------------------
GuidIn(h, o) == IF o = None THEN None ELSE h.guid[o]

RowIn(h, t) == [n \in Names |-> GuidIn(h, h.rows[t][n])]

RowOf(t) == IF t = None THEN None ELSE RowIn(heap, t)

Holds == {heap.guid[o] : o \in {p \in Objs : held[p] > 0}}

Promise == INSTANCE Listing WITH
    listing  <- RowOf(table),
    snapshot <- RowOf(snapshot),
    holds    <- Holds

(* The table implements the listing: the first resource of each name in    *)
(* the last document, published at once, with nothing changed under a      *)
(* client that keeps a resource or a table (ovirt-collection.c:243-291).   *)
KeepsListing == Promise!Spec
=============================================================================
