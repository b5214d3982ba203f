----------------------- MODULE CollectionTableProofs -----------------------
(***************************************************************************)
(* Theorems about CollectionTable, for any names, documents, tables and    *)
(* objects.                                                                 *)
(***************************************************************************)
EXTENDS CollectionTable, TLAPS

(* The objects of a heap, with the references hl of the client.            *)
RefsExact(h, hl) ==
    \A o \in Objs : h.refs[o] = hl[o] + (IF ListedIn(h, o) THEN 1 ELSE 0)

GuidWhileAlive(h) == \A o \in Objs : h.guid[o] # None <=> h.refs[o] > 0

ListedOnce(h) ==
    \A t, u \in Tables, n, m \in Names :
        h.rows[t][n] # None /\ h.rows[t][n] = h.rows[u][m] => t = u /\ n = m

FreeIsEmpty(h) == \A t \in Tables : h.tableRefs[t] = 0 => h.rows[t] = EmptyRow

HeapInv(h, hl) ==
    RefsExact(h, hl) /\ GuidWhileAlive(h) /\ ListedOnce(h) /\ FreeIsEmpty(h)

TablesCounted ==
    \A t \in Tables :
        heap.tableRefs[t] = Keeps(table, t) + Keeps(building, t) + Keeps(snapshot, t)

(* The table that is being filled is nobody else's, and lists the nodes    *)
(* that have been read.                                                     *)
BuiltSoFar ==
    IF document = None THEN building = None
    ELSE /\ building # None
         /\ building # table /\ building # snapshot
         /\ Promise!IsListing(RowOf(building), document, at)

IInv == HeapInv(heap, held) /\ TablesCounted /\ BuiltSoFar

-----------------------------------------------------------------------------
(* What the operations on a heap do to it.                                 *)
LEMMA RowObjsType ==
    ASSUME NEW h \in Heaps, NEW t \in Tables
    PROVE  /\ RowObjs(h, t) \subseteq Objs
           /\ \A o \in Objs : o \in RowObjs(h, t) <=> \E n \in Names : h.rows[t][n] = o
  BY NoneAssumption DEF RowObjs, Heaps, Rows

LEMMA RefTableInv ==
    ASSUME NEW h \in Heaps, NEW hl \in [Objs -> Nat], HeapInv(h, hl),
           NEW t \in Tables
    PROVE  RefTable(h, t) \in Heaps /\ HeapInv(RefTable(h, t), hl)
  <1> DEFINE g == RefTable(h, t)
  <1>1. /\ g.tableRefs = [h.tableRefs EXCEPT ![t] = @ + 1]
        /\ g.rows = h.rows /\ g.refs = h.refs /\ g.guid = h.guid
    BY DEF RefTable
  <1>2. g \in Heaps
    BY DEF RefTable, Heaps
  <1>3. FreeIsEmpty(g)
    <2> SUFFICES ASSUME NEW u \in Tables, g.tableRefs[u] = 0 PROVE h.tableRefs[u] = 0
      BY <1>1 DEF FreeIsEmpty, HeapInv
    <2> QED BY <1>1 DEF Heaps
  <1> HIDE DEF g
  <1>4. RefsExact(g, hl) /\ GuidWhileAlive(g) /\ ListedOnce(g)
    BY <1>1 DEF HeapInv, RefsExact, GuidWhileAlive, ListedOnce, ListedIn
  <1> QED BY <1>2, <1>3, <1>4 DEF HeapInv, g

LEMMA UnrefTableInv ==
    ASSUME NEW h \in Heaps, NEW hl \in [Objs -> Nat], HeapInv(h, hl),
           NEW t \in Tables, h.tableRefs[t] > 0
    PROVE  UnrefTable(h, t) \in Heaps /\ HeapInv(UnrefTable(h, t), hl)
  <1> DEFINE last == h.tableRefs[t] = 1
             gone == IF last THEN RowObjs(h, t) ELSE {}
             g == UnrefTable(h, t)
  <1>1. /\ g.tableRefs = [h.tableRefs EXCEPT ![t] = @ - 1]
        /\ g.rows = IF last THEN [h.rows EXCEPT ![t] = EmptyRow] ELSE h.rows
        /\ g.refs = RefsWithout(h, gone) /\ g.guid = GuidWithout(h, gone)
        /\ g = [tableRefs |-> g.tableRefs, rows |-> g.rows,
                refs |-> g.refs, guid |-> g.guid]
    BY DEF UnrefTable
  <1>2. /\ h.tableRefs \in [Tables -> Nat] /\ h.rows \in [Tables -> Rows]
        /\ h.refs \in [Objs -> Nat] /\ h.guid \in [Objs -> Ids \cup {None}]
        /\ EmptyRow \in Rows
    BY DEF Heaps, EmptyRow, Rows
  <1>3. ASSUME NEW o \in Objs
        PROVE  /\ o \in gone => ListedIn(h, o) /\ ~ListedIn(g, o)
               /\ o \notin gone => (ListedIn(g, o) <=> ListedIn(h, o))
    <2> HIDE DEF g
    <2>1. CASE ~last
      BY <1>1, <2>1 DEF ListedIn
    <2>2. CASE last
      <3>1. /\ g.rows = [h.rows EXCEPT ![t] = EmptyRow]
            /\ \A n \in Names : EmptyRow[n] = None
            /\ o # None
        BY <1>1, <2>2, NoneAssumption DEF EmptyRow
      <3>2. o \in gone <=> \E n \in Names : h.rows[t][n] = o
        BY <2>2, RowObjsType
      <3>3. \A u \in Tables, n \in Names :
                g.rows[u][n] = IF u = t THEN None ELSE h.rows[u][n]
        BY <3>1, <1>2
      <3>4. ListedOnce(h)
        BY DEF HeapInv
      <3> QED BY <3>1, <3>2, <3>3, <3>4 DEF ListedIn, ListedOnce
    <2> QED BY <2>1, <2>2
  <1>4. ASSUME NEW o \in Objs
        PROVE  /\ g.refs[o] = h.refs[o] - (IF o \in gone THEN 1 ELSE 0)
               /\ g.refs[o] \in Nat
               /\ g.refs[o] = hl[o] + (IF ListedIn(g, o) THEN 1 ELSE 0)
               /\ g.guid[o] = IF o \in gone /\ h.refs[o] = 1 THEN None ELSE h.guid[o]
    <2>1. h.refs[o] = hl[o] + (IF ListedIn(h, o) THEN 1 ELSE 0)
      BY DEF HeapInv, RefsExact
    <2>2. /\ g.refs[o] = h.refs[o] - (IF o \in gone THEN 1 ELSE 0)
          /\ g.guid[o] = IF o \in gone /\ h.refs[o] = 1 THEN None ELSE h.guid[o]
      BY <1>1 DEF RefsWithout, GuidWithout
    <2>3. hl[o] \in Nat /\ h.refs[o] \in Nat
      BY <1>2
    <2> HIDE DEF g, gone
    <2> QED BY <1>3, <2>1, <2>2, <2>3
  <1>5. g \in Heaps
    <2>1. g.refs = [o \in Objs |-> g.refs[o]] /\ g.guid = [o \in Objs |-> g.guid[o]]
      BY <1>1 DEF RefsWithout, GuidWithout
    <2>2. g.tableRefs \in [Tables -> Nat] /\ g.rows \in [Tables -> Rows]
      BY <1>1, <1>2
    <2>3. \A o \in Objs : g.guid[o] \in Ids \cup {None}
      BY <1>2, <1>4
    <2> HIDE DEF g
    <2>4. g.refs \in [Objs -> Nat] /\ g.guid \in [Objs -> Ids \cup {None}]
      BY <1>4, <2>1, <2>3
    <2> QED BY <1>1, <2>2, <2>4 DEF Heaps
  <1>6. GuidWhileAlive(g)
    <2> SUFFICES ASSUME NEW o \in Objs PROVE g.guid[o] # None <=> g.refs[o] > 0
      BY DEF GuidWhileAlive
    <2>1. h.guid[o] # None <=> h.refs[o] > 0
      BY DEF HeapInv, GuidWhileAlive
    <2>2. o \in gone => h.refs[o] > 0
      BY <1>3, <1>2 DEF HeapInv, RefsExact
    <2> HIDE DEF g, gone
    <2> QED BY <1>2, <1>4, <2>1, <2>2
  <1>7. ListedOnce(g)
    <2>1. \A u \in Tables, n \in Names : g.rows[u][n] # None => g.rows[u][n] = h.rows[u][n]
      BY <1>1, <1>2 DEF EmptyRow
    <2> QED BY <2>1 DEF HeapInv, ListedOnce
  <1>8. FreeIsEmpty(g)
    <2> SUFFICES ASSUME NEW u \in Tables, g.tableRefs[u] = 0 PROVE g.rows[u] = EmptyRow
      BY DEF FreeIsEmpty
    <2> QED BY <1>1, <1>2 DEF HeapInv, FreeIsEmpty
  <1> HIDE DEF g
  <1> QED BY <1>4, <1>5, <1>6, <1>7, <1>8 DEF HeapInv, RefsExact, g

LEMMA UnrefObjInv ==
    ASSUME NEW h \in Heaps, NEW hl \in [Objs -> Nat], HeapInv(h, hl),
           NEW o \in Objs, hl[o] > 0
    PROVE  LET g == UnrefObjs(h, {o}) IN
           g \in Heaps /\ HeapInv(g, [hl EXCEPT ![o] = @ - 1])
  <1> DEFINE g == UnrefObjs(h, {o})
             less == [hl EXCEPT ![o] = @ - 1]
  <1>1. /\ g.tableRefs = h.tableRefs /\ g.rows = h.rows
        /\ g.refs = RefsWithout(h, {o}) /\ g.guid = GuidWithout(h, {o})
        /\ g = [tableRefs |-> g.tableRefs, rows |-> g.rows,
                refs |-> g.refs, guid |-> g.guid]
    BY DEF UnrefObjs
  <1>2. /\ h.tableRefs \in [Tables -> Nat] /\ h.rows \in [Tables -> Rows]
        /\ h.refs \in [Objs -> Nat] /\ h.guid \in [Objs -> Ids \cup {None}]
    BY DEF Heaps
  <1>3. ASSUME NEW p \in Objs
        PROVE  /\ g.refs[p] = less[p] + (IF ListedIn(g, p) THEN 1 ELSE 0)
               /\ g.refs[p] \in Nat
               /\ g.guid[p] \in Ids \cup {None}
               /\ g.guid[p] # None <=> g.refs[p] > 0
    <2>1. /\ h.refs[p] = hl[p] + (IF ListedIn(h, p) THEN 1 ELSE 0)
          /\ h.guid[p] # None <=> h.refs[p] > 0
      BY DEF HeapInv, RefsExact, GuidWhileAlive
    <2>2. /\ g.refs[p] = h.refs[p] - (IF p = o THEN 1 ELSE 0)
          /\ g.guid[p] = IF p = o /\ h.refs[p] = 1 THEN None ELSE h.guid[p]
          /\ less[p] = hl[p] - (IF p = o THEN 1 ELSE 0)
      BY <1>1 DEF RefsWithout, GuidWithout
    <2>3. ListedIn(g, p) <=> ListedIn(h, p)
      BY <1>1 DEF ListedIn
    <2>4. hl[p] \in Nat /\ h.refs[p] \in Nat /\ h.guid[p] \in Ids \cup {None}
      BY <1>2
    <2> HIDE DEF g, less
    <2> QED BY <2>1, <2>2, <2>3, <2>4
  <1>4. g.refs \in [Objs -> Nat] /\ g.guid \in [Objs -> Ids \cup {None}]
    <2>1. g.refs = [p \in Objs |-> g.refs[p]] /\ g.guid = [p \in Objs |-> g.guid[p]]
      BY <1>1 DEF RefsWithout, GuidWithout
    <2> HIDE DEF g
    <2> QED BY <1>3, <2>1
  <1> HIDE DEF g, less
  <1>5. ListedOnce(g) /\ FreeIsEmpty(g)
    BY <1>1 DEF HeapInv, ListedOnce, FreeIsEmpty
  <1>6. g \in Heaps
    BY <1>1, <1>2, <1>4 DEF Heaps
  <1> QED
    BY <1>3, <1>5, <1>6 DEF HeapInv, RefsExact, GuidWhileAlive, g, less

LEMMA RefObjInv ==
    ASSUME NEW h \in Heaps, NEW hl \in [Objs -> Nat], HeapInv(h, hl),
           NEW o \in Objs, h.refs[o] > 0
    PROVE  LET g == RefObj(h, o) IN
           g \in Heaps /\ HeapInv(g, [hl EXCEPT ![o] = @ + 1])
  <1> DEFINE g == RefObj(h, o)
             more == [hl EXCEPT ![o] = @ + 1]
  <1>1. /\ g.tableRefs = h.tableRefs /\ g.rows = h.rows
        /\ g.refs = [h.refs EXCEPT ![o] = @ + 1] /\ g.guid = h.guid
        /\ g \in Heaps
    BY DEF RefObj, Heaps
  <1>2. h.refs \in [Objs -> Nat]
    BY DEF Heaps
  <1>3. ASSUME NEW p \in Objs
        PROVE  /\ g.refs[p] = more[p] + (IF ListedIn(g, p) THEN 1 ELSE 0)
               /\ g.guid[p] # None <=> g.refs[p] > 0
    <2>1. /\ h.refs[p] = hl[p] + (IF ListedIn(h, p) THEN 1 ELSE 0)
          /\ h.guid[p] # None <=> h.refs[p] > 0
      BY DEF HeapInv, RefsExact, GuidWhileAlive
    <2>2. /\ g.refs[p] = h.refs[p] + (IF p = o THEN 1 ELSE 0)
          /\ more[p] = hl[p] + (IF p = o THEN 1 ELSE 0)
          /\ g.guid[p] = h.guid[p]
      BY <1>1, <1>2
    <2>3. ListedIn(g, p) <=> ListedIn(h, p)
      BY <1>1 DEF ListedIn
    <2>4. hl[p] \in Nat /\ h.refs[p] \in Nat
      BY <1>2
    <2> HIDE DEF g, more
    <2> QED BY <2>1, <2>2, <2>3, <2>4
  <1>4. ListedOnce(g) /\ FreeIsEmpty(g)
    BY <1>1 DEF HeapInv, ListedOnce, FreeIsEmpty
  <1> HIDE DEF g, more
  <1> QED BY <1>1, <1>3, <1>4 DEF HeapInv, RefsExact, GuidWhileAlive, g, more

-----------------------------------------------------------------------------
(* A resource that is alive after an operation was alive before, and is    *)
(* the same one.                                                            *)
Shrinks(h, g) ==
    \A o \in Objs : g.refs[o] > 0 => h.refs[o] > 0 /\ g.guid[o] = h.guid[o]

LEMMA RefTableKeeps ==
    ASSUME NEW h \in Heaps, NEW t \in Tables
    PROVE  LET g == RefTable(h, t) IN
           /\ Shrinks(h, g) /\ g.rows = h.rows
           /\ \A u \in Tables : g.tableRefs[u] = h.tableRefs[u] + Keeps(t, u)
  BY DEF RefTable, Shrinks, Heaps, Keeps

LEMMA UnrefTableKeeps ==
    ASSUME NEW h \in Heaps, NEW t \in Tables, h.tableRefs[t] > 0
    PROVE  LET g == UnrefTable(h, t) IN
           /\ Shrinks(h, g)
           /\ \A u \in Tables :
                 /\ g.tableRefs[u] = h.tableRefs[u] - Keeps(t, u)
                 /\ g.tableRefs[u] > 0 => g.rows[u] = h.rows[u]
  <1> DEFINE gone == IF h.tableRefs[t] = 1 THEN RowObjs(h, t) ELSE {}
             g == UnrefTable(h, t)
  <1>1. /\ g.tableRefs = [h.tableRefs EXCEPT ![t] = @ - 1]
        /\ g.rows = IF h.tableRefs[t] = 1 THEN [h.rows EXCEPT ![t] = EmptyRow] ELSE h.rows
        /\ g.refs = RefsWithout(h, gone) /\ g.guid = GuidWithout(h, gone)
    BY DEF UnrefTable
  <1>2. /\ h.tableRefs \in [Tables -> Nat] /\ h.rows \in [Tables -> Rows]
        /\ h.refs \in [Objs -> Nat]
    BY DEF Heaps
  <1> HIDE DEF g, gone
  <1>3. Shrinks(h, g)
    BY <1>1, <1>2 DEF Shrinks, RefsWithout, GuidWithout
  <1>4. ASSUME NEW u \in Tables
        PROVE  /\ g.tableRefs[u] = h.tableRefs[u] - Keeps(t, u)
               /\ g.tableRefs[u] > 0 => g.rows[u] = h.rows[u]
    BY <1>1, <1>2 DEF Keeps
  <1> QED BY <1>3, <1>4 DEF g

(* ovirt_collection_set_resources on the heap.                             *)
LEMMA SetResourcesInv ==
    ASSUME TypeOK, IInv, NEW t \in Tables \cup {None},
           t # None => t \in {building, snapshot}
    PROVE  LET g == SetResources(heap, t) IN
           /\ g \in Heaps /\ HeapInv(g, held) /\ Shrinks(heap, g)
           /\ \A u \in Tables :
                 /\ g.tableRefs[u] = Keeps(t, u) + Keeps(building, u) + Keeps(snapshot, u)
                 /\ g.tableRefs[u] > 0 => g.rows[u] = heap.rows[u]
  <1> DEFINE c == IF table = None THEN heap ELSE UnrefTable(heap, table)
             g == SetResources(heap, t)
  <1>1. /\ heap \in Heaps /\ held \in [Objs -> Nat] /\ HeapInv(heap, held)
        /\ heap.tableRefs \in [Tables -> Nat]
        /\ table \in Tables \cup {None}
        /\ \A u \in Tables : heap.tableRefs[u] = Keeps(table, u) + Keeps(building, u) + Keeps(snapshot, u)
    BY HeldAssumption DEF TypeOK, IInv, TablesCounted, Heaps
  <1>2. /\ c \in Heaps /\ HeapInv(c, held) /\ Shrinks(heap, c)
        /\ \A u \in Tables :
              /\ c.tableRefs[u] = Keeps(building, u) + Keeps(snapshot, u)
              /\ c.tableRefs[u] > 0 => c.rows[u] = heap.rows[u]
    <2>1. CASE table = None
      <3>1. \A u \in Tables : Keeps(table, u) = 0
        BY <2>1, NoneAssumption DEF Keeps
      <3>2. Shrinks(heap, heap)
        BY DEF Shrinks
      <3> QED BY <1>1, <2>1, <3>1, <3>2 DEF Keeps
    <2>2. CASE table # None
      <3>1. table \in Tables /\ heap.tableRefs[table] > 0
        BY <1>1, <2>2 DEF Keeps
      <3>2. c = UnrefTable(heap, table)
        BY <2>2
      <3> HIDE DEF c
      <3>3. /\ c \in Heaps /\ HeapInv(c, held)
        BY <1>1, <3>1, <3>2, UnrefTableInv
      <3>4. /\ Shrinks(heap, c)
            /\ \A u \in Tables :
                 /\ c.tableRefs[u] = heap.tableRefs[u] - Keeps(table, u)
                 /\ c.tableRefs[u] > 0 => c.rows[u] = heap.rows[u]
        BY <1>1, <3>1, <3>2, UnrefTableKeeps
      <3> QED BY <1>1, <3>3, <3>4 DEF Keeps
    <2> QED BY <2>1, <2>2
  <1>3. CASE t = None
    <2>1. g = c
      BY <1>3 DEF SetResources
    <2>2. \A u \in Tables : Keeps(t, u) = 0
      BY <1>3, NoneAssumption DEF Keeps
    <2> HIDE DEF c, g
    <2> QED BY <1>2, <2>1, <2>2 DEF Keeps, g
  <1>4. CASE t # None
    <2>1. g = RefTable(c, t) /\ t \in Tables
      BY <1>4 DEF SetResources
    <2> HIDE DEF c, g
    <2>2. g \in Heaps /\ HeapInv(g, held)
      BY <1>1, <1>2, <2>1, RefTableInv
    <2>3. /\ Shrinks(c, g) /\ g.rows = c.rows
          /\ \A u \in Tables : g.tableRefs[u] = c.tableRefs[u] + Keeps(t, u)
      BY <1>2, <2>1, RefTableKeeps
    <2>4. Shrinks(heap, g)
      BY <1>2, <2>3 DEF Shrinks
    <2>5. ASSUME NEW u \in Tables, g.tableRefs[u] > 0 PROVE c.tableRefs[u] > 0
      BY <1>2, <1>4, <2>3, <2>5 DEF Keeps
    <2> QED BY <1>2, <2>2, <2>3, <2>4, <2>5 DEF Keeps, g
  <1> QED BY <1>3, <1>4

-----------------------------------------------------------------------------
(* The inductive invariant, one lemma for each group of actions.           *)
Inv == TypeOK /\ IInv

LEMMA HeapFacts ==
    ASSUME Inv
    PROVE  /\ heap \in Heaps /\ held \in [Objs -> Nat] /\ HeapInv(heap, held)
           /\ heap.tableRefs \in [Tables -> Nat] /\ heap.rows \in [Tables -> Rows]
           /\ heap.refs \in [Objs -> Nat] /\ heap.guid \in [Objs -> Ids \cup {None}]
           /\ \A u \in Tables : heap.tableRefs[u]
                  = Keeps(table, u) + Keeps(building, u) + Keeps(snapshot, u)
           /\ {table, building, snapshot} \subseteq Tables \cup {None}
  BY HeldAssumption DEF Inv, TypeOK, IInv, TablesCounted, Heaps

LEMMA NodeType ==
    ASSUME Inv, Reading
    PROVE  /\ Node \in Nodes /\ document \in Seq(Nodes)
           /\ NodeName = Promise!NameOf(Node) /\ NodeName \in Names \cup {None}
  <1>1. document \in Seq(Nodes) /\ at \in Nat /\ at < Len(document)
    BY DocumentAssumption DEF Inv, TypeOK, Reading
  <1>2. Node \in Nodes
    BY <1>1 DEF Node
  <1> QED
    BY <1>1, <1>2, NoneAssumption DEF NodeName, Promise!NameOf, Nodes

LEMMA InitInv == Init => Inv
  <1> SUFFICES ASSUME Init PROVE Inv
    OBVIOUS
  <1>1. /\ heap.tableRefs = [t \in Tables |-> 0]
        /\ heap.rows = [t \in Tables |-> EmptyRow]
        /\ heap.refs = [o \in Objs |-> 0] /\ heap.guid = [o \in Objs |-> None]
        /\ heap \in Heaps
    BY DEF Init, Heaps, Rows, EmptyRow
  <1>2. TypeOK
    BY <1>1, HeldAssumption DEF Init, TypeOK
  <1>3. \A o \in Objs : ~ListedIn(heap, o)
    BY <1>1, NoneAssumption DEF ListedIn, EmptyRow
  <1>4. HeapInv(heap, held)
    <2>1. RefsExact(heap, held)
      BY <1>1, <1>3 DEF Init, RefsExact
    <2>2. GuidWhileAlive(heap) /\ ListedOnce(heap) /\ FreeIsEmpty(heap)
      BY <1>1 DEF GuidWhileAlive, ListedOnce, FreeIsEmpty, EmptyRow
    <2> QED BY <2>1, <2>2 DEF HeapInv
  <1>5. TablesCounted
    BY <1>1, NoneAssumption DEF Init, TablesCounted, Keeps
  <1>6. BuiltSoFar
    BY DEF Init, BuiltSoFar
  <1> QED BY <1>2, <1>4, <1>5, <1>6 DEF Inv, IInv

LEMMA ArriveInv ==
    ASSUME Inv, NEW d \in Documents, Arrive(d) PROVE Inv'
  <1>1. PICK t \in FreeTables : building' = t /\ heap' = RefTable(heap, t)
    BY DEF Arrive
  <1>2. t \in Tables /\ heap.tableRefs[t] = 0 /\ t # None
    BY <1>1, NoneAssumption DEF FreeTables
  <1>3. heap' \in Heaps /\ HeapInv(heap', held)
    BY <1>1, <1>2, HeapFacts, RefTableInv
  <1>4. /\ heap'.rows = heap.rows
        /\ \A u \in Tables : heap'.tableRefs[u] = heap.tableRefs[u] + Keeps(t, u)
    BY <1>1, <1>2, HeapFacts, RefTableKeeps
  <1>5. UNCHANGED <<named, table, snapshot, held>> /\ document' = d /\ at' = 0
    BY DEF Arrive
  <1>6. building = None /\ t # table /\ t # snapshot
    BY <1>2, HeapFacts DEF Arrive, Inv, IInv, BuiltSoFar, Keeps
  <1>7. TypeOK'
    <2>1. d \in Seq(Nodes)
      BY DocumentAssumption
    <2> QED BY <1>1, <1>2, <1>3, <1>5, <2>1 DEF Inv, TypeOK
  <1>8. TablesCounted'
    BY <1>1, <1>2, <1>4, <1>5, <1>6, HeapFacts, NoneAssumption DEF TablesCounted, Keeps
  <1>9. BuiltSoFar'
    <2>1. heap.rows[t] = EmptyRow
      BY <1>2, HeapFacts DEF HeapInv, FreeIsEmpty
    <2>2. RowOf(building)' = EmptyRow
      BY <1>1, <1>2, <1>4, <2>1 DEF RowOf, RowIn, GuidIn, EmptyRow
    <2>3. (Promise!IsListing(RowOf(building), document, at))'
      BY <1>5, <2>2 DEF Promise!IsListing, EmptyRow
    <2> QED BY <1>1, <1>2, <1>5, <1>6, <2>3, NoneAssumption DEF BuiltSoFar
  <1> QED BY <1>3, <1>5, <1>7, <1>8, <1>9 DEF Inv, IInv

(* What one more node does to a listing.                                   *)
LEMMA ListingStep ==
    ASSUME NEW d \in Seq(Nodes), NEW k \in Nat, k < Len(d), NEW l,
           Promise!IsListing(l, d, k)
    PROVE  /\ ~d[k+1].whole \/ Promise!NameOf(d[k+1]) = None
                => Promise!IsListing(l, d, k + 1)
           /\ \A n \in Names : l[n] # None /\ Promise!NameOf(d[k+1]) = n
                => Promise!IsListing(l, d, k + 1)
           /\ \A n \in Names : \A m :
                /\ l[n] = None /\ d[k+1].whole /\ Promise!NameOf(d[k+1]) = n
                /\ m[n] = d[k+1].id /\ \A p \in Names \ {n} : m[p] = l[p]
                => Promise!IsListing(m, d, k + 1)
  <1>1. ASSUME NEW p \in Names
        PROVE  \/ l[p] = None /\ \A i \in 1..k : ~Promise!Lists(d, i, p)
               \/ \E i \in 1..k :
                     /\ Promise!Lists(d, i, p) /\ l[p] = d[i].id
                     /\ \A j \in 1..k : j < i => ~Promise!Lists(d, j, p)
    BY DEF Promise!IsListing
  <1>2. /\ k + 1 \in 1..(k+1) /\ \A i \in 1..k : i \in 1..(k+1)
        /\ \A i \in 1..(k+1) : i \in 1..k \/ i = k + 1
        /\ \A i \in 1..k : i < k + 1 /\ ~(k + 1 < i)
    OBVIOUS
  <1>3. ASSUME NEW p \in Names, NEW m, m[p] = l[p],
               l[p] # None \/ ~Promise!Lists(d, k+1, p)
        PROVE  \/ m[p] = None /\ \A i \in 1..(k+1) : ~Promise!Lists(d, i, p)
               \/ \E i \in 1..(k+1) :
                     /\ Promise!Lists(d, i, p) /\ m[p] = d[i].id
                     /\ \A j \in 1..(k+1) : j < i => ~Promise!Lists(d, j, p)
    <2>1. CASE l[p] = None /\ \A i \in 1..k : ~Promise!Lists(d, i, p)
      BY <1>2, <1>3, <2>1
    <2>2. CASE \E i \in 1..k :
                 /\ Promise!Lists(d, i, p) /\ l[p] = d[i].id
                 /\ \A j \in 1..k : j < i => ~Promise!Lists(d, j, p)
      BY <1>2, <1>3, <2>2
    <2> QED BY <1>1, <2>1, <2>2
  <1>4. ASSUME ~d[k+1].whole \/ Promise!NameOf(d[k+1]) = None
        PROVE  Promise!IsListing(l, d, k + 1)
    <2>1. \A p \in Names : ~Promise!Lists(d, k+1, p)
      BY <1>4, NoneAssumption DEF Promise!Lists
    <2> QED BY <1>3, <2>1 DEF Promise!IsListing
  <1>5. ASSUME NEW n \in Names, l[n] # None, Promise!NameOf(d[k+1]) = n
        PROVE  Promise!IsListing(l, d, k + 1)
    <2>1. \A p \in Names : l[p] # None \/ ~Promise!Lists(d, k+1, p)
      BY <1>5 DEF Promise!Lists
    <2> QED BY <1>3, <2>1 DEF Promise!IsListing
  <1>6. ASSUME NEW n \in Names, NEW m, l[n] = None, d[k+1].whole,
               Promise!NameOf(d[k+1]) = n, m[n] = d[k+1].id,
               \A p \in Names \ {n} : m[p] = l[p]
        PROVE  Promise!IsListing(m, d, k + 1)
    <2>1. ASSUME NEW p \in Names \ {n}
          PROVE  m[p] = l[p] /\ ~Promise!Lists(d, k+1, p)
      BY <1>6, <2>1 DEF Promise!Lists
    <2>2. \A i \in 1..k : ~Promise!Lists(d, i, n)
      <3>1. \A i \in 1..k : d[i] \in Nodes
        BY <1>2
      <3>2. \A i \in 1..k : d[i].id # None
        BY <3>1, NoneAssumption DEF Nodes
      <3> QED BY <1>1, <1>6, <3>2
    <2>3. Promise!Lists(d, k+1, n)
      BY <1>6 DEF Promise!Lists
    <2>4. \A j \in 1..(k+1) : j < k+1 => ~Promise!Lists(d, j, n)
      BY <1>2, <2>2
    <2> QED BY <1>2, <1>3, <1>6, <2>1, <2>3, <2>4 DEF Promise!IsListing
  <1> QED BY <1>4, <1>5, <1>6

LEMMA SkipInv == ASSUME Inv, SkipNode PROVE Inv'
  <1>1. /\ UNCHANGED <<named, document, building, table, snapshot, held, heap>>
        /\ at' = at + 1 /\ Reading /\ ~Node.whole
    BY DEF SkipNode
  <1>2. document \in Seq(Nodes) /\ at \in Nat /\ at < Len(document) /\ document # None
    BY <1>1, NodeType DEF Reading, Inv, TypeOK
  <1>3. Promise!IsListing(RowOf(building), document, at + 1)
    BY <1>1, <1>2, ListingStep DEF Inv, IInv, BuiltSoFar, Node
  <1>4. BuiltSoFar'
    <2>1. (Promise!IsListing(RowOf(building), document, at))'
      BY <1>1, <1>3
      DEF Promise!IsListing, Promise!Lists, Promise!NameOf, RowOf, RowIn, GuidIn
    <2> QED BY <1>1, <1>2, <2>1 DEF Inv, IInv, BuiltSoFar
  <1>5. TypeOK'
    BY <1>1, <1>2 DEF Inv, TypeOK
  <1> QED BY <1>1, <1>4, <1>5 DEF Inv, IInv, TablesCounted

(* A resource that is made of a node and given back leaves no trace.       *)
LEMMA DropSame ==
    ASSUME Inv, NEW o \in Objs, heap.refs[o] = 0
    PROVE  UnrefObjs(NewResource(o), {o}) = heap
  <1>1. heap = [tableRefs |-> heap.tableRefs, rows |-> heap.rows,
                refs |-> heap.refs, guid |-> heap.guid]
    BY HeapFacts DEF Heaps
  <1>2. heap.guid[o] = None
    BY HeapFacts DEF HeapInv, GuidWhileAlive
  <1>3. RefsWithout(NewResource(o), {o}) = heap.refs
    BY HeapFacts DEF RefsWithout, NewResource
  <1>4. GuidWithout(NewResource(o), {o}) = heap.guid
    BY <1>2, HeapFacts DEF GuidWithout, NewResource
  <1> QED BY <1>1, <1>3, <1>4 DEF UnrefObjs, NewResource

LEMMA DropInv == ASSUME Inv, NEW o \in Objs, DropNode(o) PROVE Inv'
  <1>1. /\ UNCHANGED <<named, document, building, table, snapshot, held, heap>>
        /\ at' = at + 1 /\ Reading /\ ~First
    BY DropSame DEF DropNode
  <1>2. /\ document \in Seq(Nodes) /\ at \in Nat /\ at < Len(document)
        /\ document # None /\ NodeName = Promise!NameOf(document[at + 1])
        /\ NodeName \in Names \cup {None}
    BY <1>1, NodeType DEF Reading, Inv, TypeOK, Node
  <1>3. /\ building \in Tables /\ building # None
        /\ Promise!IsListing(RowOf(building), document, at)
    BY <1>2, HeapFacts DEF Inv, IInv, BuiltSoFar
  <1>4. Promise!IsListing(RowOf(building), document, at + 1)
    <2>1. CASE NodeName = None
      BY <1>2, <1>3, <2>1, ListingStep
    <2>2. CASE NodeName # None
      <3>1. NodeName \in Names /\ heap.rows[building][NodeName] # None
        BY <1>1, <1>2, <2>2 DEF First
      <3>2. heap.rows[building][NodeName] \in Objs
        BY <1>3, <3>1, HeapFacts DEF Rows
      <3>3. heap.guid[heap.rows[building][NodeName]] # None
        BY <1>3, <3>1, <3>2, HeapFacts
        DEF HeapInv, RefsExact, GuidWhileAlive, ListedIn
      <3>4. RowOf(building)[NodeName] # None
        BY <1>3, <3>1, <3>3 DEF RowOf, RowIn, GuidIn
      <3> QED BY <1>2, <1>3, <3>1, <3>4, ListingStep
    <2> QED BY <2>1, <2>2
  <1>5. BuiltSoFar'
    <2>1. (Promise!IsListing(RowOf(building), document, at))'
      BY <1>1, <1>4
      DEF Promise!IsListing, Promise!Lists, Promise!NameOf, RowOf, RowIn, GuidIn
    <2> QED BY <1>1, <1>2, <2>1 DEF Inv, IInv, BuiltSoFar
  <1>6. TypeOK'
    BY <1>1, <1>2 DEF Inv, TypeOK
  <1> QED BY <1>1, <1>5, <1>6 DEF Inv, IInv, TablesCounted

LEMMA InsertHeap ==
    ASSUME Inv, Reading, First, NEW o \in Objs, heap.refs[o] = 0
    PROVE  LET g == Insert(NewResource(o), building, NodeName, o) IN
           /\ g \in Heaps /\ HeapInv(g, held)
           /\ g.tableRefs = heap.tableRefs
           /\ g.rows = [heap.rows EXCEPT ![building][NodeName] = o]
           /\ g.guid = [heap.guid EXCEPT ![o] = Node.id]
           /\ held[o] = 0 /\ ~ListedIn(heap, o)
           /\ building \in Tables /\ NodeName \in Names
           /\ heap.rows[building][NodeName] = None
           /\ \A t \in Tables, n \in Names :
                 g.rows[t][n] = IF t = building /\ n = NodeName THEN o
                                ELSE heap.rows[t][n]
  <1> DEFINE g == Insert(NewResource(o), building, NodeName, o)
  <1>1. /\ g.tableRefs = heap.tableRefs
        /\ g.rows = [heap.rows EXCEPT ![building][NodeName] = o]
        /\ g.refs = [heap.refs EXCEPT ![o] = 1]
        /\ g.guid = [heap.guid EXCEPT ![o] = Node.id]
        /\ g = [tableRefs |-> g.tableRefs, rows |-> g.rows,
                refs |-> g.refs, guid |-> g.guid]
    BY DEF Insert, NewResource
  <1>2. /\ NodeName \in Names /\ heap.rows[building][NodeName] = None
        /\ Node.id \in Ids /\ Node.id # None
    BY NodeType, NoneAssumption DEF First, Nodes
  <1>3. building \in Tables /\ heap.tableRefs[building] > 0
    BY HeapFacts DEF Inv, IInv, BuiltSoFar, Reading, Keeps
  <1>4. held[o] = 0 /\ ~ListedIn(heap, o)
    BY HeapFacts DEF HeapInv, RefsExact
  <1>5. o # None
    BY NoneAssumption
  <1> HIDE DEF g
  <1>6. \A t \in Tables, n \in Names :
            g.rows[t][n] = IF t = building /\ n = NodeName THEN o ELSE heap.rows[t][n]
    BY <1>1, <1>2, <1>3, HeapFacts DEF Rows
  <1>7. g \in Heaps
    <2>1. g.rows \in [Tables -> Rows]
      <3>1. [heap.rows[building] EXCEPT ![NodeName] = o] \in Rows
        BY <1>3, HeapFacts DEF Rows
      <3> QED BY <1>1, <1>3, <3>1, HeapFacts
    <2>2. g.refs \in [Objs -> Nat] /\ g.guid \in [Objs -> Ids \cup {None}]
      BY <1>1, <1>2, HeapFacts
    <2>3. g.tableRefs \in [Tables -> Nat]
      BY <1>1, HeapFacts
    <2> QED BY <1>1, <2>1, <2>2, <2>3 DEF Heaps
  <1>8. RefsExact(g, held) /\ GuidWhileAlive(g)
    <2> SUFFICES ASSUME NEW p \in Objs
                 PROVE  /\ g.refs[p] = held[p] + (IF ListedIn(g, p) THEN 1 ELSE 0)
                        /\ g.guid[p] # None <=> g.refs[p] > 0
      BY DEF RefsExact, GuidWhileAlive
    <2>1. CASE p = o
      <3>1. ListedIn(g, o)
        BY <1>2, <1>3, <1>6 DEF ListedIn
      <3> QED BY <1>1, <1>2, <1>4, <2>1, <3>1, HeapFacts
    <2>2. CASE p # o
      <3>1. ListedIn(g, p) <=> ListedIn(heap, p)
        BY <1>2, <1>3, <1>6, <2>2, NoneAssumption DEF ListedIn
      <3> QED
        BY <1>1, <2>2, <3>1, HeapFacts DEF HeapInv, RefsExact, GuidWhileAlive
    <2> QED BY <2>1, <2>2
  <1>9. ListedOnce(g)
    BY <1>4, <1>6, HeapFacts DEF HeapInv, ListedOnce, ListedIn
  <1>10. FreeIsEmpty(g)
    <2> SUFFICES ASSUME NEW t \in Tables, g.tableRefs[t] = 0 PROVE g.rows[t] = EmptyRow
      BY DEF FreeIsEmpty
    <2>1. t # building
      BY <1>1, <1>3
    <2>2. g.rows[t] = heap.rows[t]
      BY <1>1, <2>1, HeapFacts
    <2> QED BY <1>1, <2>2, HeapFacts DEF HeapInv, FreeIsEmpty
  <1> QED
    BY <1>1, <1>2, <1>3, <1>4, <1>6, <1>7, <1>8, <1>9, <1>10 DEF HeapInv, g

LEMMA InsertInv == ASSUME Inv, NEW o \in Objs, InsertNode(o) PROVE Inv'
  <1>1. /\ UNCHANGED <<named, document, building, table, snapshot, held>>
        /\ at' = at + 1 /\ Reading /\ First /\ Node.whole /\ heap.refs[o] = 0
        /\ heap' = Insert(NewResource(o), building, NodeName, o)
    BY DEF InsertNode
  <1>2. /\ heap' \in Heaps /\ HeapInv(heap', held)
        /\ heap'.tableRefs = heap.tableRefs
        /\ heap'.guid = [heap.guid EXCEPT ![o] = Node.id]
        /\ ~ListedIn(heap, o)
        /\ building \in Tables /\ NodeName \in Names
        /\ heap.rows[building][NodeName] = None
        /\ \A t \in Tables, n \in Names :
              heap'.rows[t][n] = IF t = building /\ n = NodeName THEN o
                                 ELSE heap.rows[t][n]
    <2> DEFINE g == Insert(NewResource(o), building, NodeName, o)
    <2>1. /\ g \in Heaps /\ HeapInv(g, held)
          /\ g.tableRefs = heap.tableRefs
          /\ g.guid = [heap.guid EXCEPT ![o] = Node.id]
          /\ ~ListedIn(heap, o)
          /\ building \in Tables /\ NodeName \in Names
          /\ heap.rows[building][NodeName] = None
          /\ \A t \in Tables, n \in Names :
                g.rows[t][n] = IF t = building /\ n = NodeName THEN o
                               ELSE heap.rows[t][n]
      BY <1>1, InsertHeap
    <2>2. heap' = g
      BY <1>1
    <2> HIDE DEF g
    <2> QED BY <2>1, <2>2
  <1>3. /\ document \in Seq(Nodes) /\ at \in Nat /\ at < Len(document)
        /\ document # None /\ NodeName = Promise!NameOf(document[at + 1])
        /\ Node = document[at + 1] /\ o # None
    BY <1>1, NodeType, NoneAssumption DEF Reading, Inv, TypeOK, Node
  <1>4. /\ building # None
        /\ Promise!IsListing(RowOf(building), document, at)
    BY <1>3 DEF Inv, IInv, BuiltSoFar
  <1>5. Promise!IsListing(RowOf(building)', document, at + 1)
    <2>1. RowOf(building)[NodeName] = None
      BY <1>2, <1>4 DEF RowOf, RowIn, GuidIn
    <2>2. RowOf(building)'[NodeName] = Node.id
      BY <1>1, <1>2, <1>3, <1>4, HeapFacts DEF RowOf, RowIn, GuidIn
    <2>3. \A p \in Names \ {NodeName} : RowOf(building)'[p] = RowOf(building)[p]
      <3> SUFFICES ASSUME NEW p \in Names \ {NodeName}
                   PROVE  RowOf(building)'[p] = RowOf(building)[p]
        OBVIOUS
      <3>1. heap'.rows[building][p] = heap.rows[building][p]
        BY <1>2
      <3>2. heap.rows[building][p] # o
        BY <1>2 DEF ListedIn
      <3>3. heap.rows[building][p] # None => heap.rows[building][p] \in Objs
        BY <1>2, HeapFacts DEF Rows
      <3>4. GuidIn(heap', heap'.rows[building][p]) = GuidIn(heap, heap.rows[building][p])
        BY <1>2, <3>1, <3>2, <3>3, HeapFacts DEF GuidIn
      <3> QED BY <1>1, <1>4, <3>4 DEF RowOf, RowIn
    <2> QED BY <1>1, <1>2, <1>3, <1>4, <2>1, <2>2, <2>3, ListingStep
  <1>6. BuiltSoFar'
    <2>1. (Promise!IsListing(RowOf(building), document, at))'
      BY <1>1, <1>5
      DEF Promise!IsListing, Promise!Lists, Promise!NameOf
    <2> QED BY <1>1, <1>3, <2>1 DEF Inv, IInv, BuiltSoFar
  <1>7. TypeOK'
    BY <1>1, <1>2, <1>3 DEF Inv, TypeOK
  <1>8. TablesCounted'
    BY <1>1, <1>2 DEF Inv, IInv, TablesCounted
  <1> QED BY <1>1, <1>2, <1>6, <1>7, <1>8 DEF Inv, IInv

LEMMA PublishHeap ==
    ASSUME Inv, Publish
    PROVE  /\ heap' \in Heaps /\ HeapInv(heap', held) /\ Shrinks(heap, heap')
           /\ building \in Tables
           /\ \A u \in Tables :
                 /\ heap'.tableRefs[u] = Keeps(building, u) + Keeps(snapshot, u)
                 /\ heap'.tableRefs[u] > 0 => heap'.rows[u] = heap.rows[u]
  <1> DEFINE g == SetResources(heap, building)
  <1>1. building \in Tables /\ TypeOK /\ IInv /\ held \in [Objs -> Nat]
    BY HeapFacts DEF Publish, Inv, IInv, BuiltSoFar
  <1>2. /\ g \in Heaps /\ HeapInv(g, held) /\ Shrinks(heap, g)
        /\ \A u \in Tables :
              /\ g.tableRefs[u] = Keeps(building, u) + Keeps(building, u) + Keeps(snapshot, u)
              /\ g.tableRefs[u] > 0 => g.rows[u] = heap.rows[u]
    BY <1>1, SetResourcesInv
  <1>3. heap' = UnrefTable(g, building)
    BY DEF Publish
  <1> HIDE DEF g
  <1>4. g.tableRefs[building] > 0
    BY <1>1, <1>2 DEF Keeps
  <1>5. heap' \in Heaps /\ HeapInv(heap', held)
    BY <1>1, <1>2, <1>3, <1>4, UnrefTableInv
  <1>6. /\ Shrinks(g, heap')
        /\ \A u \in Tables :
              /\ heap'.tableRefs[u] = g.tableRefs[u] - Keeps(building, u)
              /\ heap'.tableRefs[u] > 0 => heap'.rows[u] = g.rows[u]
    BY <1>1, <1>2, <1>3, <1>4, UnrefTableKeeps
  <1>7. Shrinks(heap, heap')
    BY <1>2, <1>6 DEF Shrinks
  <1>8. ASSUME NEW u \in Tables
        PROVE  /\ heap'.tableRefs[u] = Keeps(building, u) + Keeps(snapshot, u)
               /\ heap'.tableRefs[u] > 0 => heap'.rows[u] = heap.rows[u]
    BY <1>2, <1>6 DEF Keeps
  <1> QED BY <1>1, <1>5, <1>7, <1>8

LEMMA PublishInv == ASSUME Inv, Publish PROVE Inv'
  <1>1. /\ heap' \in Heaps /\ HeapInv(heap', held) /\ building \in Tables
        /\ \A u \in Tables :
              heap'.tableRefs[u] = Keeps(building, u) + Keeps(snapshot, u)
    BY PublishHeap
  <1>2. /\ document' = None /\ at' = 0 /\ building' = None /\ table' = building
        /\ UNCHANGED <<named, snapshot, held>>
    BY DEF Publish
  <1>3. TypeOK'
    BY <1>1, <1>2 DEF Inv, TypeOK
  <1>4. TablesCounted'
    <2>1. \A u \in Tables : Keeps(None, u) = 0 /\ Keeps(building, u) \in Nat /\ Keeps(snapshot, u) \in Nat
      BY NoneAssumption DEF Keeps
    <2>2. \A u \in Tables :
              heap'.tableRefs[u] = Keeps(building, u) + Keeps(None, u) + Keeps(snapshot, u)
      BY <1>1, <2>1
    <2> QED BY <1>2, <2>2 DEF TablesCounted, Keeps
  <1>5. BuiltSoFar'
    BY <1>2 DEF BuiltSoFar
  <1> QED BY <1>1, <1>2, <1>3, <1>4, <1>5 DEF Inv, IInv

LEMMA SetPropertyHeap ==
    ASSUME Inv, NEW t \in {None, snapshot}, SetProperty(t)
    PROVE  /\ heap' \in Heaps /\ HeapInv(heap', held) /\ Shrinks(heap, heap')
           /\ t \in Tables \cup {None} /\ building = None
           /\ \A u \in Tables :
                 /\ heap'.tableRefs[u] = Keeps(t, u) + Keeps(snapshot, u)
                 /\ heap'.tableRefs[u] > 0 => heap'.rows[u] = heap.rows[u]
  <1> DEFINE g == SetResources(heap, t)
  <1>1. t \in Tables \cup {None} /\ TypeOK /\ IInv /\ building = None
    BY HeapFacts DEF SetProperty, Inv, IInv, BuiltSoFar
  <1>2. t # None => t \in {building, snapshot}
    OBVIOUS
  <1>3. /\ g \in Heaps /\ HeapInv(g, held) /\ Shrinks(heap, g)
        /\ \A u \in Tables :
              /\ g.tableRefs[u] = Keeps(t, u) + Keeps(building, u) + Keeps(snapshot, u)
              /\ g.tableRefs[u] > 0 => g.rows[u] = heap.rows[u]
    BY <1>1, <1>2, SetResourcesInv
  <1>4. heap' = g
    BY DEF SetProperty
  <1>5. \A u \in Tables :
            Keeps(building, u) = 0 /\ Keeps(t, u) \in Nat /\ Keeps(snapshot, u) \in Nat
    BY <1>1, NoneAssumption DEF Keeps
  <1> HIDE DEF g
  <1> QED BY <1>1, <1>3, <1>4, <1>5

LEMMA SetPropertyInv ==
    ASSUME Inv, NEW t \in {None, snapshot}, SetProperty(t) PROVE Inv'
  <1>1. /\ heap' \in Heaps /\ HeapInv(heap', held)
        /\ t \in Tables \cup {None} /\ building = None
        /\ \A u \in Tables : heap'.tableRefs[u] = Keeps(t, u) + Keeps(snapshot, u)
    BY SetPropertyHeap
  <1>2. /\ document = None /\ table' = t
        /\ UNCHANGED <<named, document, at, building, snapshot, held>>
    BY DEF SetProperty
  <1>3. TypeOK'
    BY <1>1, <1>2 DEF Inv, TypeOK
  <1>4. TablesCounted'
    <2>1. \A u \in Tables : Keeps(building, u) = 0 /\ Keeps(t, u) \in Nat /\ Keeps(snapshot, u) \in Nat
      BY <1>1, NoneAssumption DEF Keeps
    <2> QED BY <1>1, <1>2, <2>1 DEF TablesCounted, Keeps
  <1>5. BuiltSoFar'
    BY <1>1, <1>2 DEF BuiltSoFar
  <1> QED BY <1>1, <1>2, <1>3, <1>4, <1>5 DEF Inv, IInv

LEMMA LookupInv == ASSUME Inv, NEW n \in Names, Lookup(n) PROVE Inv'
  <1> DEFINE o == heap.rows[table][n]
  <1>1. /\ document = None /\ table \in Tables /\ o # None /\ held[o] < MaxHeld
        /\ held' = [held EXCEPT ![o] = @ + 1] /\ heap' = RefObj(heap, o)
        /\ UNCHANGED <<named, document, at, building, table, snapshot>>
    BY HeapFacts DEF Lookup
  <1>2. o \in Objs
    BY <1>1, HeapFacts DEF Rows
  <1>3. heap.refs[o] > 0
    <2>1. ListedIn(heap, o)
      BY <1>1 DEF ListedIn
    <2> QED BY <1>2, <2>1, HeapFacts DEF HeapInv, RefsExact
  <1> HIDE DEF o
  <1>4. heap' \in Heaps /\ HeapInv(heap', held')
    BY <1>1, <1>2, <1>3, HeapFacts, RefObjInv
  <1>5. held' \in [Objs -> 0..MaxHeld]
    BY <1>1, <1>2, HeldAssumption DEF Inv, TypeOK
  <1>6. TypeOK'
    BY <1>1, <1>4, <1>5 DEF Inv, TypeOK
  <1>7. TablesCounted' /\ BuiltSoFar'
    BY <1>1 DEF Inv, IInv, TablesCounted, BuiltSoFar, RefObj
  <1> QED BY <1>4, <1>6, <1>7 DEF Inv, IInv

LEMMA UnrefInv == ASSUME Inv, NEW o \in Objs, Unref(o) PROVE Inv'
  <1>1. /\ document = None /\ held[o] > 0
        /\ held' = [held EXCEPT ![o] = @ - 1] /\ heap' = UnrefObjs(heap, {o})
        /\ UNCHANGED <<named, document, at, building, table, snapshot>>
    BY DEF Unref
  <1>2. heap' \in Heaps /\ HeapInv(heap', held')
    BY <1>1, HeapFacts, UnrefObjInv
  <1>3. held' \in [Objs -> 0..MaxHeld]
    BY <1>1, HeldAssumption DEF Inv, TypeOK
  <1>4. TypeOK'
    BY <1>1, <1>2, <1>3 DEF Inv, TypeOK
  <1>5. TablesCounted' /\ BuiltSoFar'
    BY <1>1 DEF Inv, IInv, TablesCounted, BuiltSoFar, UnrefObjs
  <1> QED BY <1>2, <1>4, <1>5 DEF Inv, IInv

LEMMA GetPropertyInv == ASSUME Inv, GetProperty PROVE Inv'
  <1>1. /\ document = None /\ snapshot = None /\ table \in Tables
        /\ snapshot' = table /\ heap' = RefTable(heap, table)
        /\ UNCHANGED <<named, document, at, building, table, held>>
    BY HeapFacts DEF GetProperty
  <1>2. heap' \in Heaps /\ HeapInv(heap', held)
    BY <1>1, HeapFacts, RefTableInv
  <1>3. \A u \in Tables : heap'.tableRefs[u] = heap.tableRefs[u] + Keeps(table, u)
    BY <1>1, HeapFacts, RefTableKeeps
  <1>4. TypeOK'
    BY <1>1, <1>2 DEF Inv, TypeOK
  <1>5. TablesCounted'
    <2>1. \A u \in Tables : Keeps(snapshot, u) = 0 /\ Keeps(table, u) \in Nat /\ Keeps(building, u) \in Nat
      BY <1>1, NoneAssumption DEF Keeps
    <2>2. \A u \in Tables :
              heap'.tableRefs[u] = Keeps(table, u) + Keeps(building, u) + Keeps(table, u)
      BY <1>3, <2>1, HeapFacts
    <2> QED BY <1>1, <2>2 DEF TablesCounted, Keeps
  <1>6. BuiltSoFar'
    BY <1>1 DEF Inv, IInv, BuiltSoFar
  <1> QED BY <1>1, <1>2, <1>4, <1>5, <1>6 DEF Inv, IInv

LEMMA DropTableHeap ==
    ASSUME Inv, DropTable
    PROVE  /\ heap' \in Heaps /\ HeapInv(heap', held) /\ Shrinks(heap, heap')
           /\ building = None
           /\ \A u \in Tables :
                 /\ heap'.tableRefs[u] = Keeps(table, u)
                 /\ heap'.tableRefs[u] > 0 => heap'.rows[u] = heap.rows[u]
  <1>1. /\ snapshot \in Tables /\ heap' = UnrefTable(heap, snapshot)
        /\ building = None
    BY HeapFacts DEF DropTable, Inv, IInv, BuiltSoFar
  <1>2. \A u \in Tables : Keeps(building, u) = 0 /\ Keeps(table, u) \in Nat /\ Keeps(snapshot, u) \in Nat
    BY <1>1, NoneAssumption DEF Keeps
  <1>3. heap.tableRefs[snapshot] > 0
    BY <1>1, HeapFacts DEF Keeps
  <1>4. heap' \in Heaps /\ HeapInv(heap', held)
    BY <1>1, <1>3, HeapFacts, UnrefTableInv
  <1>5. /\ Shrinks(heap, heap')
        /\ \A u \in Tables :
              /\ heap'.tableRefs[u] = heap.tableRefs[u] - Keeps(snapshot, u)
              /\ heap'.tableRefs[u] > 0 => heap'.rows[u] = heap.rows[u]
    BY <1>1, <1>3, HeapFacts, UnrefTableKeeps
  <1> QED BY <1>1, <1>2, <1>4, <1>5, HeapFacts

LEMMA DropTableInv == ASSUME Inv, DropTable PROVE Inv'
  <1>1. /\ heap' \in Heaps /\ HeapInv(heap', held) /\ building = None
        /\ \A u \in Tables : heap'.tableRefs[u] = Keeps(table, u)
    BY DropTableHeap
  <1>2. /\ document = None /\ snapshot' = None
        /\ UNCHANGED <<named, document, at, building, table, held>>
    BY DEF DropTable
  <1>3. TypeOK'
    BY <1>1, <1>2 DEF Inv, TypeOK
  <1>4. TablesCounted'
    <2>1. \A u \in Tables : Keeps(None, u) = 0 /\ Keeps(table, u) \in Nat
      BY NoneAssumption DEF Keeps
    <2>2. \A u \in Tables :
              heap'.tableRefs[u] = Keeps(table, u) + Keeps(None, u) + Keeps(None, u)
      BY <1>1, <2>1
    <2> QED BY <1>1, <1>2, <2>2 DEF TablesCounted, Keeps
  <1>5. BuiltSoFar'
    BY <1>1, <1>2 DEF BuiltSoFar
  <1> QED BY <1>1, <1>2, <1>3, <1>4, <1>5 DEF Inv, IInv

LEMMA NextInv == Inv /\ [Next]_vars => Inv'
  <1> SUFFICES ASSUME Inv, [Next]_vars PROVE Inv'
    OBVIOUS
  <1>1. ASSUME NEW d \in Documents, Arrive(d) PROVE Inv'
    BY <1>1, ArriveInv
  <1>2. CASE SkipNode
    BY <1>2, SkipInv
  <1>3. ASSUME NEW o \in Objs, DropNode(o) PROVE Inv'
    BY <1>3, DropInv
  <1>4. ASSUME NEW o \in Objs, InsertNode(o) PROVE Inv'
    BY <1>4, InsertInv
  <1>5. CASE Publish
    BY <1>5, PublishInv
  <1>6. ASSUME NEW t \in {None, snapshot}, SetProperty(t) PROVE Inv'
    BY <1>6, SetPropertyInv
  <1>7. ASSUME NEW n \in Names, Lookup(n) PROVE Inv'
    BY <1>7, LookupInv
  <1>8. ASSUME NEW o \in Objs, Unref(o) PROVE Inv'
    BY <1>8, UnrefInv
  <1>9. CASE GetProperty
    BY <1>9, GetPropertyInv
  <1>10. CASE DropTable
    BY <1>10, DropTableInv
  <1>11. CASE UNCHANGED vars
    <2>1. TypeOK' /\ HeapInv(heap', held') /\ TablesCounted'
      BY <1>11 DEF vars, Inv, IInv, TypeOK, TablesCounted
    <2>2. BuiltSoFar'
      BY <1>11
      DEF vars, Inv, IInv, BuiltSoFar, RowOf, RowIn, GuidIn,
          Promise!IsListing, Promise!Lists, Promise!NameOf
    <2> QED BY <2>1, <2>2 DEF Inv, IInv
  <1> QED
    BY <1>1, <1>2, <1>3, <1>4, <1>5, <1>6, <1>7, <1>8, <1>9, <1>10, <1>11 DEF Next

(* The type invariant: no count of a table or a resource falls below zero, *)
(* whatever arrives and whatever the client keeps.                          *)
THEOREM Typing == Spec => []TypeOK
  <1>1. Inv => TypeOK
    BY DEF Inv
  <1> QED BY <1>1, InitInv, NextInv, PTL DEF Spec

(* The counts are exact: a resource is alive as long as a table lists it   *)
(* or the client keeps it, and no longer (ovirt_collection_refresh_from_xml, *)
(* ovirt_collection_set_resources, ovirt_collection_lookup_resource).       *)
THEOREM CountExactSafe == Spec => []CountExact
  <1>1. Inv => CountExact
    BY DEF Inv, IInv, HeapInv, RefsExact, TablesCounted, CountExact
  <1> QED BY <1>1, InitInv, NextInv, PTL DEF Spec

-----------------------------------------------------------------------------
(* The refinement: what the client sees of a heap changes as the listing   *)
(* says.                                                                    *)
LEMMA RowKept ==
    ASSUME NEW h \in Heaps, NEW hl \in [Objs -> Nat], HeapInv(h, hl),
           NEW g \in Heaps, NEW gl \in [Objs -> Nat], HeapInv(g, gl),
           NEW t \in Tables, g.rows[t] = h.rows[t],
           \A o \in Objs : h.refs[o] > 0 /\ g.refs[o] > 0 => g.guid[o] = h.guid[o]
    PROVE  RowIn(g, t) = RowIn(h, t)
  <1>1. ASSUME NEW n \in Names PROVE GuidIn(g, g.rows[t][n]) = GuidIn(h, h.rows[t][n])
    <2> DEFINE o == h.rows[t][n]
    <2>1. o \in Objs \cup {None} /\ g.rows[t][n] = o
      BY DEF Heaps, Rows
    <2>2. CASE o = None
      BY <2>1, <2>2 DEF GuidIn
    <2>3. CASE o # None
      <3>1. o \in Objs /\ ListedIn(h, o) /\ ListedIn(g, o)
        BY <2>1, <2>3 DEF ListedIn
      <3>2. h.refs[o] > 0 /\ g.refs[o] > 0
        BY <3>1 DEF HeapInv, RefsExact
      <3> QED BY <2>1, <2>3, <3>1, <3>2 DEF GuidIn
    <2> QED BY <2>1, <2>2, <2>3
  <1> QED BY <1>1 DEF RowIn

LEMMA HoldsKept ==
    ASSUME Inv, Inv', UNCHANGED held,
           \A o \in Objs : heap.refs[o] > 0 /\ heap'.refs[o] > 0 => heap'.guid[o] = heap.guid[o]
    PROVE  UNCHANGED Holds
  <1>1. ASSUME NEW o \in Objs, held[o] > 0 PROVE heap'.guid[o] = heap.guid[o]
    <2>1. heap.refs[o] > 0
      BY <1>1, HeapFacts DEF HeapInv, RefsExact
    <2>2. heap'.refs[o] > 0
      <3>1. HeapInv(heap', held) /\ held \in [Objs -> Nat] /\ heap' \in Heaps
        BY HeapFacts DEF Inv, IInv, TypeOK
      <3> QED BY <1>1, <3>1 DEF HeapInv, RefsExact
    <2> QED BY <2>1, <2>2
  <1> QED BY <1>1 DEF Holds

(* No resource that stays alive changes.                                    *)
Steady == \A o \in Objs :
    heap.refs[o] > 0 /\ heap'.refs[o] > 0 => heap'.guid[o] = heap.guid[o]

LEMMA RowSteady ==
    ASSUME Inv, Inv', Steady, NEW t \in Tables \cup {None},
           t # None => heap'.rows[t] = heap.rows[t]
    PROVE  (IF t = None THEN None ELSE RowIn(heap', t)) = RowOf(t)
  <1>1. heap' \in Heaps /\ held' \in [Objs -> Nat] /\ HeapInv(heap', held')
    BY HeldAssumption DEF Inv, TypeOK, IInv
  <1>2. ASSUME t # None PROVE RowIn(heap', t) = RowIn(heap, t)
    BY <1>1, <1>2, HeapFacts, RowKept DEF Steady
  <1> QED BY <1>2 DEF RowOf

(* What the client sees: its listing, its snapshot and its resources.       *)
LEMMA SeenSteady ==
    ASSUME Inv, Inv', Steady, UNCHANGED <<table, snapshot, held>>,
           \A t \in {table, snapshot} \ {None} : heap'.rows[t] = heap.rows[t]
    PROVE  /\ RowOf(table)' = RowOf(table)
           /\ RowOf(snapshot)' = RowOf(snapshot)
           /\ Holds' = Holds
  <1>1. table \in Tables \cup {None} /\ snapshot \in Tables \cup {None}
    BY HeapFacts
  <1>2. RowOf(table)' = RowOf(table)
    BY <1>1, RowSteady DEF RowOf
  <1>3. RowOf(snapshot)' = RowOf(snapshot)
    BY <1>1, RowSteady DEF RowOf
  <1>4. Holds' = Holds
    BY HoldsKept DEF Steady
  <1> QED BY <1>2, <1>3, <1>4

LEMMA ArriveRefines ==
    ASSUME Inv, Inv', NEW d \in Documents, Arrive(d) PROVE Promise!Arrive(d)
  <1>1. PICK t \in FreeTables : building' = t /\ heap' = RefTable(heap, t)
    BY DEF Arrive
  <1>2. heap'.rows = heap.rows /\ Steady
    BY <1>1 DEF RefTable, Steady
  <1>3. /\ document = None /\ document' = d
        /\ UNCHANGED <<named, table, snapshot, held>>
    BY DEF Arrive
  <1> QED BY <1>2, <1>3, SeenSteady DEF Promise!Arrive

LEMMA NodeRefines ==
    ASSUME Inv, Inv', SkipNode \/ \E o \in Objs : DropNode(o) \/ InsertNode(o)
    PROVE  UNCHANGED <<named, document, RowOf(table), Holds, RowOf(snapshot)>>
  <1>1. UNCHANGED <<named, document, table, snapshot, held>>
    BY DEF SkipNode, DropNode, InsertNode
  <1>2. Steady /\ \A t \in {table, snapshot} \ {None} : heap'.rows[t] = heap.rows[t]
    <2>1. CASE SkipNode
      BY <2>1 DEF SkipNode, Steady
    <2>2. ASSUME NEW o \in Objs, DropNode(o) PROVE heap' = heap
      BY <2>2, DropSame DEF DropNode
    <2>3. ASSUME NEW o \in Objs, InsertNode(o)
          PROVE  Steady /\ \A t \in {table, snapshot} \ {None} : heap'.rows[t] = heap.rows[t]
      <3> DEFINE g == Insert(NewResource(o), building, NodeName, o)
      <3>1. Reading /\ First /\ heap.refs[o] = 0 /\ heap' = g
        BY <2>3 DEF InsertNode
      <3>2. /\ g.rows = [heap.rows EXCEPT ![building][NodeName] = o]
            /\ g.guid = [heap.guid EXCEPT ![o] = Node.id]
        BY <3>1, InsertHeap
      <3> HIDE DEF g
      <3>3. building # table /\ building # snapshot
        BY <3>1 DEF Inv, IInv, BuiltSoFar, Reading
      <3>4. heap.rows \in [Tables -> Rows] /\ {table, snapshot} \subseteq Tables \cup {None}
        BY HeapFacts
      <3>5. Steady
        BY <3>1, <3>2, HeapFacts DEF Steady
      <3> QED BY <3>1, <3>2, <3>3, <3>4, <3>5
    <2> QED BY <2>1, <2>2, <2>3 DEF Steady
  <1> QED BY <1>1, <1>2, SeenSteady

LEMMA PublishRefines ==
    ASSUME Inv, Inv', Publish PROVE Promise!Publish
  <1>1. /\ Shrinks(heap, heap') /\ building \in Tables
        /\ \A u \in Tables :
              /\ heap'.tableRefs[u] = Keeps(building, u) + Keeps(snapshot, u)
              /\ heap'.tableRefs[u] > 0 => heap'.rows[u] = heap.rows[u]
    BY PublishHeap
  <1>2. /\ document # None /\ at = Len(document) /\ document' = None
        /\ table' = building /\ UNCHANGED <<named, snapshot, held>>
    BY DEF Publish
  <1>3. snapshot \in Tables \cup {None} /\ building # None
    BY <1>1, HeapFacts, NoneAssumption
  <1>4. Steady
    BY <1>1 DEF Steady, Shrinks
  <1>5. /\ heap'.rows[building] = heap.rows[building]
        /\ snapshot # None => heap'.rows[snapshot] = heap.rows[snapshot]
    BY <1>1, <1>3 DEF Keeps
  <1>6. RowOf(snapshot)' = RowOf(snapshot)
    BY <1>2, <1>3, <1>4, <1>5, RowSteady DEF RowOf
  <1>7. RowOf(table)' = RowOf(building)
    BY <1>1, <1>2, <1>4, <1>5, RowSteady DEF RowOf
  <1>8. Holds' = Holds
    BY <1>2, <1>4, HoldsKept DEF Steady
  <1>9. Promise!IsListing(RowOf(building), document, Len(document))
    BY <1>2 DEF Inv, IInv, BuiltSoFar
  <1>10. RowOf(building) \in Promise!Listings
    BY <1>1, <1>3, HeapFacts DEF Promise!Listings, RowOf, RowIn, GuidIn, Rows
  <1> QED BY <1>2, <1>6, <1>7, <1>8, <1>9, <1>10 DEF Promise!Publish

LEMMA SetPropertyRefines ==
    ASSUME Inv, Inv', NEW t \in {None, snapshot}, SetProperty(t)
    PROVE  \E l \in {None, RowOf(snapshot)} : Promise!SetListing(l)
  <1>1. /\ Shrinks(heap, heap') /\ t \in Tables \cup {None}
        /\ \A u \in Tables :
              /\ heap'.tableRefs[u] = Keeps(t, u) + Keeps(snapshot, u)
              /\ heap'.tableRefs[u] > 0 => heap'.rows[u] = heap.rows[u]
    BY SetPropertyHeap
  <1>2. /\ document = None /\ table' = t
        /\ UNCHANGED <<named, document, snapshot, held>>
    BY DEF SetProperty
  <1>3. snapshot \in Tables \cup {None}
    BY HeapFacts
  <1>4. Steady
    BY <1>1 DEF Steady, Shrinks
  <1>5. snapshot # None => heap'.rows[snapshot] = heap.rows[snapshot]
    BY <1>1, <1>3, NoneAssumption DEF Keeps
  <1>6. RowOf(snapshot)' = RowOf(snapshot)
    BY <1>2, <1>3, <1>4, <1>5, RowSteady DEF RowOf
  <1>7. RowOf(table)' = RowOf(t)
    BY <1>1, <1>2, <1>4, <1>5, RowSteady DEF RowOf
  <1>8. Holds' = Holds
    BY <1>2, <1>4, HoldsKept DEF Steady
  <1>9. RowOf(t) \in {None, RowOf(snapshot)}
    BY DEF RowOf
  <1> QED BY <1>2, <1>6, <1>7, <1>8, <1>9 DEF Promise!SetListing

LEMMA LookupRefines ==
    ASSUME Inv, Inv', NEW n \in Names, Lookup(n) PROVE Promise!Lookup(n)
  <1> DEFINE o == heap.rows[table][n]
  <1>1. /\ document = None /\ table \in Tables /\ table # None /\ o # None
        /\ held' = [held EXCEPT ![o] = @ + 1] /\ heap' = RefObj(heap, o)
        /\ UNCHANGED <<named, document, table, snapshot>>
    BY HeapFacts DEF Lookup
  <1>2. o \in Objs
    BY <1>1, HeapFacts DEF Rows
  <1>3. ListedIn(heap, o)
    BY <1>1 DEF ListedIn
  <1>4. heap.refs[o] > 0
    BY <1>2, <1>3, HeapFacts DEF HeapInv, RefsExact
  <1>5. heap.guid[o] # None
    BY <1>2, <1>4, HeapFacts DEF HeapInv, GuidWhileAlive
  <1>6. RowOf(table)[n] = heap.guid[o] /\ RowOf(table) # None
    <2>1. RowOf(table) = RowIn(heap, table) /\ RowIn(heap, table)[n] = heap.guid[o]
      BY <1>1 DEF RowOf, RowIn, GuidIn
    <2>2. RowIn(heap, table) \in [Names -> Ids \cup {None}]
      BY <1>1, HeapFacts DEF RowIn, GuidIn, Rows
    <2> QED BY <2>1, <2>2, NoneAssumption
  <1>7. heap'.guid = heap.guid /\ heap'.rows = heap.rows
    BY <1>1 DEF RefObj
  <1> HIDE DEF o
  <1>8. RowOf(table)' = RowOf(table) /\ RowOf(snapshot)' = RowOf(snapshot)
    BY <1>1, <1>7 DEF RowOf, RowIn, GuidIn
  <1>9. Holds' = Holds \cup {heap.guid[o]}
    <2>1. \A p \in Objs : held'[p] > 0 <=> held[p] > 0 \/ p = o
      BY <1>1, <1>2, HeapFacts
    <2> QED BY <1>2, <1>7, <2>1 DEF Holds
  <1> QED BY <1>1, <1>5, <1>6, <1>8, <1>9 DEF Promise!Lookup

(* A client that drops a resource and keeps another one made of the same   *)
(* resource of the engine still has that.                                   *)
LEMMA UnrefRefines ==
    ASSUME Inv, Inv', NEW o \in Objs, Unref(o)
    PROVE  \/ \E i \in Ids : Promise!Drop(i)
           \/ UNCHANGED <<named, document, RowOf(table), Holds, RowOf(snapshot)>>
  <1>1. /\ document = None /\ held[o] > 0
        /\ held' = [held EXCEPT ![o] = @ - 1] /\ heap' = UnrefObjs(heap, {o})
        /\ UNCHANGED <<named, document, table, snapshot>>
    BY DEF Unref
  <1>2. /\ heap'.rows = heap.rows
        /\ heap'.refs = RefsWithout(heap, {o}) /\ heap'.guid = GuidWithout(heap, {o})
    BY <1>1 DEF UnrefObjs
  <1>3. Steady
    BY <1>2, HeapFacts DEF Steady, RefsWithout, GuidWithout
  <1>4. RowOf(table)' = RowOf(table) /\ RowOf(snapshot)' = RowOf(snapshot)
    BY <1>1, <1>2, <1>3, HeapFacts, RowSteady DEF RowOf
  <1>5. \A p \in Objs : held'[p] > 0 <=> held[p] > 0 /\ (p = o => held[o] > 1)
    BY <1>1, HeapFacts
  <1>6. \A p \in Objs : held'[p] > 0 => heap'.guid[p] = heap.guid[p]
    <2> SUFFICES ASSUME NEW p \in Objs, held'[p] > 0
                 PROVE  heap'.guid[p] = heap.guid[p]
      OBVIOUS
    <2>1. heap' \in Heaps /\ held' \in [Objs -> Nat] /\ HeapInv(heap', held')
      BY HeldAssumption DEF Inv, TypeOK, IInv
    <2>2. heap'.refs[p] > 0
      BY <2>1 DEF HeapInv, RefsExact
    <2>3. heap.refs[p] > 0
      BY <1>5, HeapFacts DEF HeapInv, RefsExact
    <2> QED BY <1>3, <2>2, <2>3 DEF Steady
  <1>7. CASE Holds' = Holds
    BY <1>1, <1>4, <1>7
  <1>8. CASE Holds' # Holds
    <2>1. heap.guid[o] \in Ids
      <3>1. heap.refs[o] > 0
        BY <1>1, HeapFacts DEF HeapInv, RefsExact
      <3> QED BY <3>1, HeapFacts DEF HeapInv, GuidWhileAlive
    <2>2. /\ Holds' \subseteq Holds
          /\ \A i \in Holds : i # heap.guid[o] => i \in Holds'
      BY <1>5, <1>6 DEF Holds
    <2>3. Holds' = Holds \ {heap.guid[o]}
      BY <1>8, <2>2
    <2> QED BY <1>1, <1>4, <2>1, <2>3 DEF Promise!Drop
  <1> QED BY <1>7, <1>8

LEMMA GetPropertyRefines ==
    ASSUME Inv, Inv', GetProperty
    PROVE  \E l \in {None, RowOf(table)} : Promise!Take(l)
  <1>1. /\ document = None /\ table \in Tables /\ table # None
        /\ snapshot' = table /\ heap' = RefTable(heap, table)
        /\ UNCHANGED <<named, document, table, held>>
    BY HeapFacts DEF GetProperty
  <1>2. heap'.rows = heap.rows /\ heap'.guid = heap.guid
    BY <1>1 DEF RefTable
  <1>3. /\ RowOf(table)' = RowOf(table) /\ RowOf(snapshot)' = RowOf(table)
        /\ Holds' = Holds
    BY <1>1, <1>2 DEF RowOf, RowIn, GuidIn, Holds
  <1> QED BY <1>1, <1>3 DEF Promise!Take

LEMMA DropTableRefines ==
    ASSUME Inv, Inv', DropTable
    PROVE  \E l \in {None, RowOf(table)} : Promise!Take(l)
  <1>1. /\ Shrinks(heap, heap')
        /\ \A u \in Tables :
              /\ heap'.tableRefs[u] = Keeps(table, u)
              /\ heap'.tableRefs[u] > 0 => heap'.rows[u] = heap.rows[u]
    BY DropTableHeap
  <1>2. /\ document = None /\ snapshot' = None
        /\ UNCHANGED <<named, document, table, held>>
    BY DEF DropTable
  <1>3. table \in Tables \cup {None}
    BY HeapFacts
  <1>4. Steady /\ (table # None => heap'.rows[table] = heap.rows[table])
    BY <1>1, <1>3 DEF Steady, Shrinks, Keeps
  <1>5. RowOf(table)' = RowOf(table)
    BY <1>2, <1>3, <1>4, RowSteady DEF RowOf
  <1>6. RowOf(snapshot)' = None
    BY <1>2 DEF RowOf
  <1>7. Holds' = Holds
    BY <1>2, <1>4, HoldsKept DEF Steady
  <1> QED BY <1>2, <1>5, <1>6, <1>7 DEF Promise!Take

LEMMA InitRefines == Init => Promise!Init
  BY DEF Init, Promise!Init, RowOf, Holds

LEMMA NextRefines == Inv /\ Inv' /\ [Next]_vars => [Promise!Next]_(Promise!vars)
  <1> SUFFICES ASSUME Inv, Inv', [Next]_vars
               PROVE  [Promise!Next]_(Promise!vars)
    OBVIOUS
  <1>1. ASSUME NEW d \in Documents, Arrive(d) PROVE Promise!Next
    BY <1>1, ArriveRefines DEF Promise!Next
  <1>2. ASSUME SkipNode \/ \E o \in Objs : DropNode(o) \/ InsertNode(o)
        PROVE  UNCHANGED Promise!vars
    BY <1>2, NodeRefines DEF Promise!vars
  <1>3. CASE Publish
    BY <1>3, PublishRefines DEF Promise!Next
  <1>4. ASSUME NEW t \in {None, snapshot}, SetProperty(t) PROVE Promise!Next
    BY <1>4, SetPropertyRefines DEF Promise!Next
  <1>5. ASSUME NEW n \in Names, Lookup(n) PROVE Promise!Next
    BY <1>5, LookupRefines DEF Promise!Next
  <1>6. ASSUME NEW o \in Objs, Unref(o) PROVE [Promise!Next]_(Promise!vars)
    BY <1>6, UnrefRefines DEF Promise!Next, Promise!vars
  <1>7. CASE GetProperty
    BY <1>7, GetPropertyRefines DEF Promise!Next
  <1>8. CASE DropTable
    BY <1>8, DropTableRefines DEF Promise!Next
  <1>9. CASE UNCHANGED vars
    BY <1>9 DEF vars, Promise!vars, RowOf, RowIn, GuidIn, Holds
  <1> QED
    BY <1>1, <1>2, <1>3, <1>4, <1>5, <1>6, <1>7, <1>8, <1>9 DEF Next

(* The counted tables implement the listing of Listing.tla: a fetch changes *)
(* what is listed all at once, to the first resource of each name, and      *)
(* nothing a client keeps changes under it                                  *)
(* (ovirt_collection_refresh_from_xml, ovirt-collection.c:226-293).         *)
THEOREM KeepsListingSafe == Spec => KeepsListing
  <1> QED BY InitRefines, InitInv, NextInv, NextRefines, PTL
      DEF Spec, KeepsListing, Promise!Spec

-----------------------------------------------------------------------------
(* A document has one listing.                                              *)
LEMMA OneListing ==
    ASSUME NEW d, NEW k \in Nat, NEW l \in Promise!Listings, NEW m \in Promise!Listings,
           Promise!IsListing(l, d, k), Promise!IsListing(m, d, k)
    PROVE  l = m
  <1>1. ASSUME NEW n \in Names PROVE l[n] = m[n]
    <2>1. CASE \A i \in 1..k : ~Promise!Lists(d, i, n)
      BY <2>1 DEF Promise!IsListing
    <2>2. CASE \E i \in 1..k : Promise!Lists(d, i, n)
      <3>1. PICK i \in 1..k : /\ Promise!Lists(d, i, n) /\ l[n] = d[i].id
                             /\ \A j \in 1..k : j < i => ~Promise!Lists(d, j, n)
        BY <2>2 DEF Promise!IsListing
      <3>2. PICK j \in 1..k : /\ Promise!Lists(d, j, n) /\ m[n] = d[j].id
                             /\ \A h \in 1..k : h < j => ~Promise!Lists(d, h, n)
        BY <2>2 DEF Promise!IsListing
      <3>3. i = j
        BY <3>1, <3>2
      <3> QED BY <3>1, <3>2, <3>3
    <2> QED BY <2>1, <2>2
  <1>2. l = [n \in Names |-> l[n]] /\ m = [n \in Names |-> m[n]]
    BY DEF Promise!Listings
  <1> QED BY <1>1, <1>2

(* What a fetch leaves in the collection is the listing of its document and *)
(* nothing else: not of the table before, of what a client keeps or set, or *)
(* of the resources made on the way.                                        *)
FetchDetermined ==
    [][Publish => \A l \in Promise!Listings :
          Promise!IsListing(l, document, Len(document)) => RowOf(table)' = l]_vars

(* The same document always lists the same                                  *)
(* (ovirt_collection_refresh_from_xml, ovirt-collection.c:226-293).         *)
THEOREM FetchDeterminedSafe == Spec => FetchDetermined
  <1>1. ASSUME Inv, Inv', Publish, NEW l \in Promise!Listings,
               Promise!IsListing(l, document, Len(document))
        PROVE  RowOf(table)' = l
    <2>1. PICK m \in Promise!Listings :
              Promise!IsListing(m, document, Len(document)) /\ RowOf(table)' = m
      BY <1>1, PublishRefines DEF Promise!Publish
    <2>2. Len(document) \in Nat
      BY <1>1, DocumentAssumption DEF Publish, Inv, TypeOK
    <2> QED BY <1>1, <2>1, <2>2, OneListing
  <1>2. Inv /\ Inv' /\ [Next]_vars =>
            [Publish => \A l \in Promise!Listings :
                Promise!IsListing(l, document, Len(document)) => RowOf(table)' = l]_vars
    BY <1>1
  <1> QED BY <1>2, InitInv, NextInv, PTL DEF Spec, FetchDetermined

-----------------------------------------------------------------------------
LEMMA StepSteady == Inv /\ [Next]_vars => Steady
  <1> SUFFICES ASSUME Inv, [Next]_vars PROVE Steady
    OBVIOUS
  <1>1. ASSUME NEW d \in Documents, Arrive(d) PROVE Steady
    BY <1>1 DEF Arrive, RefTable, Steady
  <1>2. CASE SkipNode
    BY <1>2 DEF SkipNode, Steady
  <1>3. ASSUME NEW o \in Objs, DropNode(o) PROVE Steady
    BY <1>3, DropSame DEF DropNode, Steady
  <1>4. ASSUME NEW o \in Objs, InsertNode(o) PROVE Steady
    <2>1. Reading /\ First /\ heap.refs[o] = 0 /\ heap' = Insert(NewResource(o), building, NodeName, o)
      BY <1>4 DEF InsertNode
    <2>2. heap'.guid = [heap.guid EXCEPT ![o] = Node.id]
      BY <2>1, InsertHeap
    <2> QED BY <2>1, <2>2, HeapFacts DEF Steady
  <1>5. CASE Publish
    BY <1>5, PublishHeap DEF Shrinks, Steady
  <1>6. ASSUME NEW t \in {None, snapshot}, SetProperty(t) PROVE Steady
    BY <1>6, SetPropertyHeap DEF Shrinks, Steady
  <1>7. ASSUME NEW n \in Names, Lookup(n) PROVE Steady
    BY <1>7 DEF Lookup, RefObj, Steady
  <1>8. ASSUME NEW o \in Objs, Unref(o) PROVE Steady
    BY <1>8, HeapFacts DEF Unref, UnrefObjs, RefsWithout, GuidWithout, Steady
  <1>9. CASE GetProperty
    BY <1>9 DEF GetProperty, RefTable, Steady
  <1>10. CASE DropTable
    BY <1>10, DropTableHeap DEF Shrinks, Steady
  <1>11. CASE UNCHANGED vars
    BY <1>11 DEF vars, Steady
  <1> QED BY <1>1, <1>2, <1>3, <1>4, <1>5, <1>6, <1>7, <1>8, <1>9, <1>10, <1>11 DEF Next

(* What a client keeps stays as it was, whatever is fetched, set or dropped *)
(* meanwhile: each resource it looked up, and the table it read.            *)
KeptStays ==
    [][/\ \A o \in Objs : held[o] > 0 /\ held'[o] > 0 =>
             heap.guid[o] # None /\ heap'.guid[o] = heap.guid[o]
       /\ snapshot # None /\ snapshot' = snapshot => RowOf(snapshot)' = RowOf(snapshot)]_vars

(* No fetch frees or changes a resource or a table a client has a reference *)
(* to (ovirt_collection_refresh_from_xml fills a table of its own).         *)
THEOREM KeptStaysSafe == Spec => KeptStays
  <1>1. ASSUME Inv, Inv', [Next]_vars, NEW o \in Objs, held[o] > 0, held'[o] > 0
        PROVE  heap.guid[o] # None /\ heap'.guid[o] = heap.guid[o]
    <2>1. heap.refs[o] > 0 /\ heap.guid[o] # None
      BY <1>1, HeapFacts DEF HeapInv, RefsExact, GuidWhileAlive
    <2>2. heap'.refs[o] > 0
      BY <1>1, HeldAssumption DEF Inv, TypeOK, IInv, HeapInv, RefsExact
    <2> QED BY <1>1, <2>1, <2>2, StepSteady DEF Steady
  <1>2. ASSUME Inv, Inv', [Next]_vars, snapshot # None, snapshot' = snapshot
        PROVE  RowOf(snapshot)' = RowOf(snapshot)
    <2>1. ASSUME NEW d \in Documents, Arrive(d) PROVE RowOf(snapshot)' = RowOf(snapshot)
      BY <1>2, <2>1, ArriveRefines DEF Promise!Arrive
    <2>2. ASSUME SkipNode \/ \E o \in Objs : DropNode(o) \/ InsertNode(o)
          PROVE  RowOf(snapshot)' = RowOf(snapshot)
      BY <1>2, <2>2, NodeRefines
    <2>3. CASE Publish
      BY <1>2, <2>3, PublishRefines DEF Promise!Publish
    <2>4. ASSUME NEW t \in {None, snapshot}, SetProperty(t)
          PROVE  RowOf(snapshot)' = RowOf(snapshot)
      BY <1>2, <2>4, SetPropertyRefines DEF Promise!SetListing
    <2>5. ASSUME NEW n \in Names, Lookup(n) PROVE RowOf(snapshot)' = RowOf(snapshot)
      BY <1>2, <2>5, LookupRefines DEF Promise!Lookup
    <2>6. ASSUME NEW o \in Objs, Unref(o) PROVE RowOf(snapshot)' = RowOf(snapshot)
      BY <1>2, <2>6, UnrefRefines DEF Promise!Drop
    <2>7. ~GetProperty /\ ~DropTable
      BY <1>2 DEF GetProperty, DropTable
    <2>8. CASE UNCHANGED vars
      BY <2>8 DEF vars, RowOf, RowIn, GuidIn
    <2> QED BY <1>2, <2>1, <2>2, <2>3, <2>4, <2>5, <2>6, <2>7, <2>8 DEF Next
  <1>3. Inv /\ Inv' /\ [Next]_vars =>
            [/\ \A o \in Objs : held[o] > 0 /\ held'[o] > 0 =>
                   heap.guid[o] # None /\ heap'.guid[o] = heap.guid[o]
             /\ snapshot # None /\ snapshot' = snapshot =>
                   RowOf(snapshot)' = RowOf(snapshot)]_vars
    BY <1>1, <1>2
  <1> QED BY <1>3, InitInv, NextInv, PTL DEF Spec, KeptStays
=============================================================================
