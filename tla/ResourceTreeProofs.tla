------------------------- MODULE ResourceTreeProofs -------------------------
(***************************************************************************)
(* Theorems about ResourceTree, for any owners.                            *)
(***************************************************************************)
EXTENDS ResourceTree, TLAPS

(* The id and the href of an owner come and go together.                   *)
OwnerPaired ==
    \/ obj.ownerId = None /\ obj.ownerHref = None
    \/ obj.ownerId \in Owners /\ obj.ownerHref = EngineHref(obj.ownerId)

(* The search link of an api is a template that loses its "{query}" once.  *)
SearchIsTemplate ==
    obj.links["search"] \in {"none", "template", "stripped"}

-----------------------------------------------------------------------------
(* What the operators the actions share make of a resource.                *)
LEMMA EngineHrefType ==
    ASSUME kind \in Kinds, NEW o \in Owners
    PROVE  EngineHref(o) \in Hrefs
  BY KindAssumption
  DEF EngineHref, EnginePath, Hrefs, Paths, HostOfVm, ClusterOfVm, ClusterOfHost,
      DataCenterOfCluster, DataCenterOfStorageDomain, Api

LEMMA DerivedType ==
    ASSUME kind \in Kinds, NEW o \in Owners
    PROVE  Derived(o) \in Hrefs
  BY KindAssumption
  DEF Derived, Hrefs, Paths, HostOfVm, ClusterOfVm, ClusterOfHost,
      DataCenterOfCluster, DataCenterOfStorageDomain, Api

LEMMA NewResourceType ==
    /\ NewResource \in Resources
    /\ NewResource.ownerId = None /\ NewResource.ownerHref = None
    /\ NewResource.links["search"] = "none"
  BY DEF NewResource, Resources, OptOwner, OptHref, Links, Rels

LEMMA SetOwnerFields ==
    ASSUME kind \in Kinds, NEW r \in Resources, NEW x \in Documents
    PROVE  /\ SetOwner(r, x) \in Resources
           /\ SetOwner(r, x).links = r.links
           /\ SetOwner(r, x).ownerId = IF x.tells = "nothing" THEN r.ownerId ELSE x.owner
           /\ SetOwner(r, x).ownerHref =
                  IF x.tells = "both" THEN EngineHref(x.owner) ELSE r.ownerHref
  <1>1. x.owner \in Owners
    BY DEF Documents
  <1>2. EngineHref(x.owner) \in Hrefs
    BY <1>1, EngineHrefType
  <1> QED
    BY <1>1, <1>2 DEF SetOwner, Resources, OptOwner, OptHref

LEMMA SetLinksFields ==
    ASSUME NEW r \in Resources, NEW x \in Documents
    PROVE  /\ SetLinks(r, x) \in Resources
           /\ SetLinks(r, x).ownerId = r.ownerId
           /\ SetLinks(r, x).ownerHref = r.ownerHref
           /\ SetLinks(r, x).links["search"] =
                  IF x.search = "none" THEN r.links["search"] ELSE x.search
  BY DEF SetLinks, Resources, Documents, Links, Rels

(* Parsing an XML keeps the type of the resource; it keeps the pair of id  *)
(* and href when the engine gives both or none, and the template.          *)
LEMMA InitFromXmlFields ==
    ASSUME kind \in Kinds, NEW r \in Resources, NEW x \in Documents
    PROVE  /\ InitFromXml(r, x) \in Resources
           /\ \/ /\ InitFromXml(r, x).ownerId = r.ownerId
                 /\ InitFromXml(r, x).ownerHref = r.ownerHref
              \/ /\ InitFromXml(r, x).ownerId =
                        IF x.tells = "nothing" THEN r.ownerId ELSE x.owner
                 /\ InitFromXml(r, x).ownerHref =
                        IF x.tells = "both" THEN EngineHref(x.owner) ELSE r.ownerHref
           /\ InitFromXml(r, x).links["search"] \in {r.links["search"], x.search}
  <1> DEFINE owned == IF OwnersRead(x) THEN SetOwner(r, x) ELSE r
  <1>1. owned \in Resources /\ owned.links = r.links
    BY SetOwnerFields
  <1>2. \/ owned.ownerId = r.ownerId /\ owned.ownerHref = r.ownerHref
        \/ /\ owned.ownerId = IF x.tells = "nothing" THEN r.ownerId ELSE x.owner
           /\ owned.ownerHref = IF x.tells = "both" THEN EngineHref(x.owner)
                                ELSE r.ownerHref
    BY SetOwnerFields
  <1>3. InitFromXml(r, x) = IF LinksRead(x) THEN SetLinks(owned, x) ELSE owned
    BY DEF InitFromXml
  <1> HIDE DEF owned
  <1>4. CASE LinksRead(x)
    BY <1>1, <1>2, <1>3, <1>4, SetLinksFields
  <1>5. CASE ~LinksRead(x)
    BY <1>1, <1>2, <1>3, <1>5
  <1> QED BY <1>4, <1>5

LEMMA WithHrefFields ==
    ASSUME kind \in Kinds, NEW r \in Resources
    PROVE  /\ WithHref(r) \in Resources
           /\ WithHref(r).ownerId = r.ownerId
           /\ WithHref(r).links = r.links
           /\ r.ownerHref # None \/ r.ownerId = None => WithHref(r) = r
  <1>1. r.ownerId # None => Derived(r.ownerId) \in Hrefs
    BY DerivedType DEF Resources, OptOwner
  <1> QED BY <1>1 DEF WithHref, Resources, OptHref

-----------------------------------------------------------------------------
LEMMA InitType == Init => TypeOK
  <1> SUFFICES ASSUME Init PROVE TypeOK
    OBVIOUS
  <1>1. obj \in Resources
    BY NewResourceType, InitFromXmlFields DEF Init
  <1> QED BY <1>1 DEF Init, TypeOK

LEMMA NextType == TypeOK /\ [Next]_vars => TypeOK'
  <1> SUFFICES ASSUME TypeOK, [Next]_vars PROVE TypeOK'
    OBVIOUS
  <1>1. kind \in Kinds /\ obj \in Resources /\ xml \in Documents
    BY DEF TypeOK
  <1>2. ASSUME NEW x \in Documents, EngineChanges(x) PROVE TypeOK'
    BY <1>2 DEF TypeOK, EngineChanges
  <1>3. CASE Refresh
    <2>1. obj' \in Resources
      BY <1>1, <1>3, InitFromXmlFields DEF Refresh
    <2> QED BY <1>3, <2>1 DEF TypeOK, Refresh
  <1>4. CASE ReadOwnerHref
    <2>1. obj' \in Resources
      BY <1>1, <1>4, WithHrefFields DEF ReadOwnerHref
    <2> QED BY <1>4, <2>1 DEF TypeOK, ReadOwnerHref
  <1>5. CASE GetOwner
    <2>1. obj' \in Resources /\ obj'.ownerId = obj.ownerId
      BY <1>1, <1>5, WithHrefFields DEF GetOwner
    <2>2. obj'.ownerId \in Owners /\ obj'.ownerHref \in OptHref
      BY <1>1, <1>5, <2>1 DEF GetOwner, Resources, OptOwner
    <2>3. handed' \in [id : Owners, href : OptHref]
      BY <1>5, <2>2 DEF GetOwner
    <2> QED BY <1>5, <2>1, <2>3 DEF TypeOK, GetOwner
  <1>6. CASE GetSubCollection
    <2>1. obj.links["sub"] \in Links
      BY <1>1 DEF Resources, Rels
    <2> QED BY <1>6, <2>1 DEF TypeOK, GetSubCollection
  <1>7. ASSUME NEW rel \in SearchRels, Search(rel) PROVE TypeOK'
    <2>1. obj' \in Resources
      BY <1>1, <1>7 DEF Search, Resources, Links
    <2>2. searched' \in {"plain", "search"}
      BY <1>7 DEF Search
    <2> QED BY <1>7, <2>1, <2>2 DEF TypeOK, Search
  <1>8. CASE UNCHANGED vars
    BY <1>8 DEF TypeOK, vars
  <1> QED
    BY <1>2, <1>3, <1>4, <1>5, <1>6, <1>7, <1>8 DEF Next

(* The type invariant of ResourceTree holds for any owners, whatever the   *)
(* engine tells and whichever links the api is searched through.           *)
THEOREM Typing == Spec => []TypeOK
  <1>1. Init => TypeOK
    BY InitType
  <1>2. TypeOK /\ [Next]_vars => TypeOK'
    BY NextType
  <1> QED BY <1>1, <1>2, PTL DEF Spec

-----------------------------------------------------------------------------
LEMMA PairedInit ==
    ASSUME Tells \subseteq {"both", "nothing"}, Init
    PROVE  OwnerPaired /\ HandedCoherent
  <1>1. CASE obj = NewResource
    BY <1>1, NewResourceType DEF OwnerPaired, HandedCoherent, Init
  <1>2. CASE obj = InitFromXml(NewResource, xml)
    <2>1. xml.tells \in {"both", "nothing"} /\ xml.owner \in Owners
      BY DEF Init, Documents
    <2>2. OwnerPaired
      BY <1>2, <2>1, NewResourceType, InitFromXmlFields DEF OwnerPaired, Init
    <2> QED BY <2>2 DEF HandedCoherent, Init
  <1> QED BY <1>1, <1>2 DEF Init

LEMMA PairedNext ==
    ASSUME Tells \subseteq {"both", "nothing"},
           TypeOK, OwnerPaired, HandedCoherent, [Next]_vars
    PROVE  OwnerPaired' /\ HandedCoherent'
  <1>1. kind \in Kinds /\ obj \in Resources /\ xml \in Documents /\ kind' = kind
    BY DEF TypeOK, Next, vars, EngineChanges, Refresh, ReadOwnerHref, GetOwner,
           GetSubCollection, Search
  <1>2. \A o : EngineHref(o)' = EngineHref(o)
    BY <1>1 DEF EngineHref, EnginePath
  <1>3. ASSUME obj' = obj, handed' = handed PROVE OwnerPaired' /\ HandedCoherent'
    BY <1>1, <1>3 DEF OwnerPaired, HandedCoherent, EngineHref, EnginePath
  <1>4. obj.ownerId # None => obj.ownerHref # None
    BY <1>1, NoneAssumption, EngineHrefType DEF OwnerPaired
  <1>5. CASE Refresh
    <2>1. xml.tells \in {"both", "nothing"} /\ xml.owner \in Owners
      BY <1>1 DEF Documents
    <2>2. \/ obj'.ownerId = obj.ownerId /\ obj'.ownerHref = obj.ownerHref
          \/ obj'.ownerId = xml.owner /\ obj'.ownerHref = EngineHref(xml.owner)
      BY <1>1, <1>5, <2>1, InitFromXmlFields DEF Refresh
    <2>3. OwnerPaired'
      BY <1>1, <2>1, <2>2 DEF OwnerPaired, EngineHref, EnginePath
    <2> QED
      BY <1>1, <1>5, <2>3 DEF HandedCoherent, Refresh, EngineHref, EnginePath
  <1>6. CASE ReadOwnerHref
    <2>1. obj' = obj /\ handed' = handed
      BY <1>1, <1>4, <1>6, WithHrefFields DEF ReadOwnerHref
    <2> QED BY <1>3, <2>1
  <1>7. CASE GetOwner
    <2>1. obj' = obj
      BY <1>1, <1>4, <1>7, WithHrefFields DEF GetOwner
    <2>2. handed'.id = obj.ownerId /\ handed'.href = obj.ownerHref
      BY <1>7, <2>1 DEF GetOwner
    <2>3. obj.ownerHref = EngineHref(obj.ownerId)
      BY <1>7 DEF OwnerPaired, GetOwner
    <2> QED
      BY <1>1, <2>1, <2>2, <2>3 DEF OwnerPaired, HandedCoherent, EngineHref, EnginePath
  <1>8. ASSUME NEW rel \in SearchRels, Search(rel)
        PROVE  OwnerPaired' /\ HandedCoherent'
    <2>1. obj'.ownerId = obj.ownerId /\ obj'.ownerHref = obj.ownerHref
      BY <1>1, <1>8 DEF Search, Resources
    <2> QED
      BY <1>1, <1>8, <2>1 DEF OwnerPaired, HandedCoherent, Search, EngineHref, EnginePath
  <1>9. CASE GetSubCollection \/ UNCHANGED vars \/ \E x \in Documents : EngineChanges(x)
    BY <1>3, <1>9 DEF GetSubCollection, EngineChanges, vars
  <1> QED BY <1>5, <1>6, <1>7, <1>8, <1>9 DEF Next

(* When the engine gives the href of an owner with its id, the owner a     *)
(* client is handed is one resource of the engine (ovirt_vm_get_host).      *)
THEOREM HandedCoherentSafe ==
    ASSUME Tells \subseteq {"both", "nothing"}
    PROVE  Spec => []HandedCoherent
  <1>1. Init => OwnerPaired /\ HandedCoherent
    BY PairedInit
  <1>2. TypeOK /\ OwnerPaired /\ HandedCoherent /\ [Next]_vars
            => OwnerPaired' /\ HandedCoherent'
    BY PairedNext
  <1> QED BY <1>1, <1>2, Typing, PTL DEF Spec

-----------------------------------------------------------------------------
LEMMA TemplateNext ==
    ASSUME SearchRels \subseteq {"search"},
           TypeOK, SearchIsTemplate, SearchReaches, [Next]_vars
    PROVE  SearchIsTemplate' /\ SearchReaches'
  <1>1. kind \in Kinds /\ obj \in Resources /\ xml \in Documents
    BY DEF TypeOK
  <1>2. CASE Refresh
    <2>1. xml.search \in {"none", "template"}
      BY <1>1 DEF Documents
    <2>2. obj'.links["search"] \in {obj.links["search"], xml.search}
      BY <1>1, <1>2, InitFromXmlFields DEF Refresh
    <2> QED BY <1>2, <2>1, <2>2 DEF SearchIsTemplate, SearchReaches, Refresh
  <1>3. CASE ReadOwnerHref \/ GetOwner
    <2>1. obj'.links = obj.links
      BY <1>1, <1>3, WithHrefFields DEF ReadOwnerHref, GetOwner
    <2> QED
      BY <1>3, <2>1 DEF SearchIsTemplate, SearchReaches, ReadOwnerHref, GetOwner
  <1>4. ASSUME NEW rel \in SearchRels, Search(rel)
        PROVE  SearchIsTemplate' /\ SearchReaches'
    <2>1. rel = "search"
      OBVIOUS
    <2>2. obj'.links["search"] = "stripped"
      BY <1>1, <1>4, <2>1 DEF Search, SearchIsTemplate, Resources, Rels
    <2>3. searched' = "search"
      BY <1>4, <2>1, <2>2 DEF Search
    <2> QED BY <2>2, <2>3 DEF SearchIsTemplate, SearchReaches
  <1>5. CASE GetSubCollection \/ UNCHANGED vars \/ \E x \in Documents : EngineChanges(x)
    BY <1>5 DEF SearchIsTemplate, SearchReaches, GetSubCollection, EngineChanges, vars
  <1> QED BY <1>2, <1>3, <1>4, <1>5 DEF Next

(* Searching the api through its search links always reaches them with the *)
(* query in the place of "{query}"                                          *)
(* (ovirt_sub_collection_new_from_resource_search), the first time and any  *)
(* time after it or after the link has come back.                           *)
THEOREM SearchReachesSafe ==
    ASSUME SearchRels \subseteq {"search"}
    PROVE  Spec => []SearchReaches
  <1>1. Init => SearchIsTemplate /\ SearchReaches
    <2> SUFFICES ASSUME Init PROVE SearchIsTemplate /\ SearchReaches
      OBVIOUS
    <2>1. xml.search \in {"none", "template"}
      BY DEF Init, Documents
    <2>2. obj.links["search"] \in {"none", "template"}
      BY <2>1, NewResourceType, InitFromXmlFields DEF Init
    <2> QED BY <2>2 DEF SearchIsTemplate, SearchReaches, Init
  <1>2. TypeOK /\ SearchIsTemplate /\ SearchReaches /\ [Next]_vars
            => SearchIsTemplate' /\ SearchReaches'
    BY TemplateNext
  <1> QED BY <1>1, <1>2, Typing, PTL DEF Spec
=============================================================================
