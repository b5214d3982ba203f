---------------------------- MODULE ResourceTree ----------------------------
(***************************************************************************)
(* How a client walks from one resource to another: from a resource to the *)
(* one it belongs to (ovirt_vm_get_host, ovirt_vm_get_cluster,             *)
(* ovirt_host_get_cluster, ovirt_cluster_get_data_center and the data      *)
(* center of a storage domain), to its sub-collections, and to the         *)
(* collections a search of the api gives.                                  *)
(*                                                                         *)
(* What is stored comes from the XML of the resource, of which there is a  *)
(* new one at every refresh: what it says is stored, what it leaves out    *)
(* stays.  The href of an owner is derived from its id when it is first     *)
(* asked for and the XML gave none, and is kept then.  A sub-collection is *)
(* made once, from the link the XML gave, and belongs to the resource.      *)
(***************************************************************************)
CONSTANTS
    Owners,         \* the hosts, clusters or data centers of the engine
    Kinds,          \* which of the classes and references below to look at
    Tells,          \* what the XML says of the owner: "both", "id", "nothing"
    SearchRels,     \* the links the api is searched through
    None

VARIABLES
    kind,           \* the class of the resource, and which owner is meant
    xml,            \* what the engine says of the resource now
    obj,            \* the resource
    sub,            \* the link of its sub-collection, None if not made yet
    handed,         \* the owner the client was given last
    searched        \* the address of the last search

vars == <<kind, xml, obj, sub, handed, searched>>

-----------------------------------------------------------------------------
(* The references between classes, with the path the href of an owner is   *)
(* derived with: get_host_href, get_cluster_href, get_data_center_href.    *)
HostOfVm ==
    [class |-> "vm", owner |-> "host", path |-> "hosts"]
ClusterOfVm ==
    [class |-> "vm", owner |-> "cluster", path |-> "clusters"]
ClusterOfHost ==
    [class |-> "host", owner |-> "cluster", path |-> "clusters"]
DataCenterOfCluster ==
    [class |-> "cluster", owner |-> "data_center", path |-> "data_centers"]
DataCenterOfStorageDomain ==
    [class |-> "storage_domain", owner |-> "data_center", path |-> "datacenters"]
Api ==
    [class |-> "api", owner |-> "none", path |-> "none"]

ASSUME KindAssumption ==
    Kinds \subseteq {HostOfVm, ClusterOfVm, ClusterOfHost, DataCenterOfCluster,
                     DataCenterOfStorageDomain, Api}

(* The path of the engine itself, as the links of its api name it.         *)
EnginePath(owner) ==
    CASE owner = "host" -> "hosts" [] owner = "cluster" -> "clusters"
      [] owner = "data_center" -> "datacenters" [] owner = "none" -> "none"

EngineHref(o) == [path |-> EnginePath(kind.owner), id |-> o]
Derived(o)    == [path |-> kind.path, id |-> o]

Paths == {"hosts", "clusters", "data_centers", "datacenters", "none"}
Hrefs == [path : Paths, id : Owners]
OptOwner == Owners \cup {None}
OptHref  == Hrefs \cup {None}

ASSUME NoneAssumption == None \notin Owners /\ None \notin Hrefs

(* Links: none, one to a collection, which may come to be another, one     *)
(* with "{query}" at its end, one that has lost it.                         *)
Rels  == {"sub", "search"}
Links == {"none", "plain", "moved", "template", "stripped"}

ASSUME EngineAssumption == Tells \subseteq {"both", "id", "nothing"}

ASSUME SearchAssumption == SearchRels \subseteq Rels

(* An XML names the resource itself, or lacks its 'id' or its 'href'; that  *)
(* of a VM has a display of a known type, or not.                           *)
Documents ==
    [whole : BOOLEAN, display : BOOLEAN, tells : Tells, owner : Owners,
     sub : {"none", "plain", "moved"}, search : {"none", "template"}]

Resources == [ownerId : OptOwner, ownerHref : OptHref, links : [Rels -> Links]]

TypeOK ==
    /\ kind \in Kinds
    /\ xml \in Documents
    /\ obj \in Resources
    /\ sub \in Links \cup {None}
    /\ handed \in [id : Owners, href : OptHref] \cup {None}
    /\ searched \in {"none", "plain", "search", "literal"}

-----------------------------------------------------------------------------
\* fault: the href of the owner is only stored when there is none yet
SetOwnerKeepsHref(r, x) ==
    [r EXCEPT !.ownerId = IF x.tells = "nothing" THEN @ ELSE x.owner,
              !.ownerHref = IF x.tells = "both" /\ @ = None
                            THEN EngineHref(x.owner) ELSE @]

\* fault: the attributes are mixed up
SetOwnerMixed(r, x) ==
    [r EXCEPT !.ownerId = IF x.tells = "nothing" THEN @ ELSE x.owner,
              !.ownerHref = IF x.tells = "both" THEN x.owner ELSE @]

(* ovirt_rest_xml_node_parse on the elements of the class: only what the   *)
(* XML has is stored.                                                       *)
SetOwner(r, x) ==
    [r EXCEPT !.ownerId = IF x.tells = "nothing" THEN @ ELSE x.owner,
              !.ownerHref = IF x.tells = "both" THEN EngineHref(x.owner) ELSE @]

(* ovirt_resource_set_sub_collections_from_xml inserts and never removes.  *)
SetLinks(r, x) ==
    [r EXCEPT !.links["sub"] = IF x.sub = "none" THEN @ ELSE x.sub,
              !.links["search"] = IF x.search = "none" THEN @ ELSE x.search]

(* The init_from_xml of the class reads the owners first, that of a VM once *)
(* there is a display; an api has none.                                     *)
OwnersRead(x) == kind # Api /\ (kind.class = "vm" => x.display)

(* The links are read only if nothing before failed and the XML has the     *)
(* identifiers ovirt_resource_init_from_xml_real wants, which an api need   *)
(* not have.                                                                *)
LinksRead(x) == kind = Api \/ (OwnersRead(x) /\ x.whole)

(* A refresh that fails keeps what was read until then.                     *)
InitFromXml(r, x) ==
    LET owned == IF OwnersRead(x) THEN SetOwner(r, x) ELSE r
    IN  IF LinksRead(x) THEN SetLinks(owned, x) ELSE owned

NewResource ==
    [ownerId |-> None, ownerHref |-> None, links |-> [l \in Rels |-> "none"]]

(* A resource is made from its XML, or from the id and href of an owner.   *)
Init ==
    /\ kind \in Kinds
    /\ xml \in Documents
    /\ \/ LinksRead(xml) /\ obj = InitFromXml(NewResource, xml)
       \/ kind # Api /\ obj = NewResource
    /\ sub = None /\ handed = None
    /\ searched = "none"

EngineChanges(x) ==
    /\ xml' = x
    /\ UNCHANGED <<kind, obj, sub, handed, searched>>

(* ovirt_resource_refresh; an api has no href and cannot be refreshed.     *)
Refresh ==
    /\ kind # Api
    /\ obj' = InitFromXml(obj, xml)
    /\ UNCHANGED <<kind, xml, sub, handed, searched>>

(* get_host_href and its likes.                                             *)
WithHref(r) ==
    IF r.ownerHref = None /\ r.ownerId # None
    THEN [r EXCEPT !.ownerHref = Derived(r.ownerId)]
    ELSE r

(* The href property of the owner is read.                                  *)
ReadOwnerHref ==
    /\ kind # Api
    /\ obj' = WithHref(obj)
    /\ UNCHANGED <<kind, xml, sub, handed, searched>>

(* ovirt_vm_get_host and its likes; NULL when the owner is not known.      *)
GetOwner ==
    /\ kind # Api
    /\ obj.ownerId # None
    /\ obj' = WithHref(obj)
    /\ handed' = [id |-> obj'.ownerId, href |-> obj'.ownerHref]
    /\ UNCHANGED <<kind, xml, sub, searched>>

(* ovirt_vm_get_cdroms, ovirt_api_get_vms and their likes: the collection  *)
(* is made when the resource has a link and no collection yet.              *)
GetSubCollection ==
    /\ obj.links["sub"] # "none"
    /\ sub' = IF sub = None THEN obj.links["sub"] ELSE sub
    /\ UNCHANGED <<kind, xml, obj, handed, searched>>

\* fault: the query is put behind the link as it is
SearchLiteral(rel) ==
    /\ kind = Api
    /\ obj.links[rel] # "none"
    /\ searched' = CASE obj.links[rel] \in {"plain", "moved"} -> "plain"
                     [] obj.links[rel] = "template" -> "literal"
                     [] obj.links[rel] = "stripped" -> "search"
    /\ obj' = IF obj.links[rel] = "template"
              THEN [obj EXCEPT !.links[rel] = "stripped"] ELSE obj
    /\ UNCHANGED <<kind, xml, sub, handed>>

(* ovirt_sub_collection_new_from_resource_search: "{query}" is cut off the *)
(* link in the table of the resource, and the query is put behind it.       *)
Search(rel) ==
    /\ kind = Api
    /\ obj.links[rel] # "none"
    /\ obj' = IF obj.links[rel] = "template"
              THEN [obj EXCEPT !.links[rel] = "stripped"] ELSE obj
    /\ searched' = IF obj'.links[rel] = "stripped" THEN "search" ELSE "plain"
    /\ UNCHANGED <<kind, xml, sub, handed>>

Next ==
    \/ \E x \in Documents : EngineChanges(x)
    \/ Refresh \/ ReadOwnerHref \/ GetOwner
    \/ GetSubCollection
    \/ \E rel \in SearchRels : Search(rel)

Spec == Init /\ [][Next]_vars

-----------------------------------------------------------------------------
(* The id and the href of the owner a client is handed name the same       *)
(* resource of the engine, whatever the replies before left in the object: *)
(* ovirt_vm_get_host gives "OvirtHost representing the host the virtual     *)
(* machine belongs to" (ovirt-vm.c:486).  So it is while the engine gives  *)
(* the href whenever it gives the id; Tells says what it gives.             *)
HandedCoherent ==
    handed # None => handed.href = EngineHref(handed.id)

(* A search reaches the search link of the api with the query in place of  *)
(* "{query}" (ovirt-collection.c:365), the first time and again.            *)
SearchReaches ==
    searched \in {"none", "search"}
=============================================================================
