------------------------------- MODULE Listing -------------------------------
(***************************************************************************)
(* What a collection promises its client, without tables, objects and      *)
(* references: a fetch makes it list, all at once, the first resource of   *)
(* each name in the document that arrived; what a client looked up, and a  *)
(* listing it took, stay what they were until it drops them.               *)
(***************************************************************************)
EXTENDS Naturals, Sequences

CONSTANTS
    Names,          \* names of resources
    Ids,            \* resources of the engine
    Documents,      \* sequences of nodes [whole, id, name]
    FakeName,       \* the name a class gives a resource without one
    None

VARIABLES
    named,          \* does the class of the resources give them a name?
    document,       \* the document that is being read
    listing,        \* which resource has a name, None before the first fetch
    holds,          \* the resources the client has looked up
    snapshot        \* the listing it took

vars == <<named, document, listing, holds, snapshot>>

Listings == [Names -> Ids \cup {None}]

(* The name a node is listed under, if any.                                *)
NameOf(node) == IF node.name = None /\ named THEN FakeName ELSE node.name

Lists(d, i, n) == d[i].whole /\ NameOf(d[i]) = n

(* l is the listing of the first k nodes of d.                             *)
IsListing(l, d, k) ==
    \A n \in Names :
        \/ l[n] = None /\ \A i \in 1..k : ~Lists(d, i, n)
        \/ \E i \in 1..k :
              /\ Lists(d, i, n) /\ l[n] = d[i].id
              /\ \A j \in 1..k : j < i => ~Lists(d, j, n)

Init ==
    /\ named \in BOOLEAN
    /\ document = None /\ listing = None /\ holds = {} /\ snapshot = None

Arrive(d) ==
    /\ document = None
    /\ document' = d
    /\ UNCHANGED <<named, listing, holds, snapshot>>

Publish ==
    /\ document # None
    /\ document' = None
    /\ \E l \in Listings : IsListing(l, document, Len(document)) /\ listing' = l
    /\ UNCHANGED <<named, holds, snapshot>>

SetListing(l) ==
    /\ document = None
    /\ l \in {None, snapshot}
    /\ listing' = l
    /\ UNCHANGED <<named, document, holds, snapshot>>

Lookup(n) ==
    /\ document = None
    /\ listing # None
    /\ listing[n] # None
    /\ holds' = holds \cup {listing[n]}
    /\ UNCHANGED <<named, document, listing, snapshot>>

Drop(i) ==
    /\ document = None
    /\ holds' = holds \ {i}
    /\ UNCHANGED <<named, document, listing, snapshot>>

Take(l) ==
    /\ document = None
    /\ l \in {None, listing}
    /\ snapshot' = l
    /\ UNCHANGED <<named, document, listing, holds>>

Next ==
    \/ \E d \in Documents : Arrive(d)
    \/ Publish
    \/ \E l \in {None, snapshot} : SetListing(l)
    \/ \E n \in Names : Lookup(n)
    \/ \E i \in Ids : Drop(i)
    \/ \E l \in {None, listing} : Take(l)

Spec == Init /\ [][Next]_vars
=============================================================================
