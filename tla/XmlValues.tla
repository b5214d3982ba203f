------------------------------ MODULE XmlValues ------------------------------
(***************************************************************************)
(* How the text of an XML becomes the value of a property, on three        *)
(* resources that are refreshed again and again: the counts of a VM pool,  *)
(* which ovirt_utils_guint_from_string parses; the state, the used bytes   *)
(* and the data centers of a storage domain, and the state and display of  *)
(* a VM, which ovirt_rest_xml_node_parse stores by the type of the          *)
(* property.                                                                *)
(*                                                                         *)
(* A number is given by the value of its digits (decimal, no leading zero, *)
(* no sign) and by whether other characters follow them.  The limits of the *)
(* types are constants: G_MAXUINT, G_MAXUINT64, which is ULONG_MAX too,    *)
(* and G_MAXUINT16 of the ports.  The XML has the identifiers its resource *)
(* needs (CallResults is about those that have not).                       *)
(***************************************************************************)
EXTENDS Integers

CONSTANTS
    MaxPort, MaxUint, MaxUint64,
    PoolTexts,      \* bound: the texts to look at in the XML of a pool
    Ids,            \* data centers
    Kinds,          \* the resources to look at: "pool", "domain", "vm"
    Errnos          \* what the calls of others may leave in errno

ASSUME LimitsAssumption ==
    /\ MaxPort \in Nat /\ MaxUint \in Nat /\ MaxUint64 \in Nat
    /\ MaxPort <= MaxUint /\ MaxUint < MaxUint64

ASSUME ErrnoAssumption == Errnos \subseteq {"ok", "EINVAL", "ERANGE"}

VARIABLES
    kind,           \* the resource that is refreshed
    errno,
    pool,           \* the counts of the VM pool
    domain,         \* the storage domain
    vm,             \* the VM
    said            \* the last XML

vars == <<kind, errno, pool, domain, vm, said>>

Absent == [there |-> FALSE, n |-> 0, tail |-> FALSE]
Texts  == [there : {TRUE}, n : 0..(MaxUint64 + 1), tail : BOOLEAN] \cup {Absent}

Counts == {"size", "prestarted_vms", "max_user_vms"}
States == {"first", "second", "unknown"}      \* the first has the value 0

PoolXml   == [of : {"pool"}, counts : [Counts -> Texts \cap PoolTexts]]
DomainXml == [of : {"domain"}, state : {"absent", "first", "second", "other"},
              used : Texts, ids : SUBSET Ids, lists : BOOLEAN]
VmXml     == [of : {"vm"}, state : {"absent", "first", "second", "other"},
              type : {"absent", "spice", "vnc", "other"}, port : Texts]

TypeOK ==
    /\ errno \in {"ok", "EINVAL", "ERANGE"}
    /\ pool \in [Counts -> 0..MaxUint]
    /\ domain.state \in States /\ domain.used \in 0..MaxUint64
    /\ domain.ids \subseteq Ids
    /\ vm.state \in States /\ vm.type \in {"none", "spice", "vnc"}
    /\ vm.port \in 0..MaxPort
    /\ kind \in Kinds
    /\ said.of \in {"nothing", kind}

WellFormed(t, max) == t.there /\ ~t.tail /\ t.n <= max

-----------------------------------------------------------------------------
(* g_ascii_strtoull and strtoul: the digits up to the first other          *)
(* character; errno is set by an overflow and otherwise left as it was.    *)
Strtoull(t, e) ==
    IF t.n > MaxUint64 THEN [value |-> MaxUint64, errno |-> "ERANGE"]
    ELSE [value |-> t.n, errno |-> e]

(* ovirt_utils_guint64_from_string.                                         *)
Guint64FromString(t, e) ==
    LET r == Strtoull(t, e)
    IN  /\ ~(r.value = MaxUint64 /\ r.errno = "ERANGE")
        /\ ~(r.value = 0 /\ r.errno = "EINVAL")
        /\ ~t.tail

\* fault: the value is cut to the width of a guint
GuintFromStringCut(t, e) ==
    IF Guint64FromString(t, e)
    THEN [ok |-> TRUE, value |-> Strtoull(t, e).value % (MaxUint + 1)]
    ELSE [ok |-> FALSE, value |-> 0]

\* fault: a result of 0 is taken for a failure
GuintFromStringNotZero(t, e) ==
    LET v == Strtoull(t, e).value
    IN  [ok |-> v # 0 /\ v <= MaxUint /\ Guint64FromString(t, e), value |-> v]

(* ovirt_utils_guint_from_string.                                           *)
GuintFromString(t, e) ==
    LET v == Strtoull(t, e).value
    IN  [ok |-> Guint64FromString(t, e) /\ v <= MaxUint, value |-> v]

(* g_object_set_guint_property_from_xml, on the object so far and errno:   *)
(* a count that is missing or cannot be parsed keeps its value.             *)
SetCount(at, c, t) ==
    LET r == GuintFromString(t, at.errno)
    IN  IF ~t.there THEN at
        ELSE [counts |-> [at.counts EXCEPT ![c] = IF r.ok THEN r.value ELSE @],
              errno |-> Strtoull(t, at.errno).errno]

(* ovirt_vm_pool_refresh_from_xml: one count after the other, and the      *)
(* refresh succeeds whatever becomes of them.                               *)
PoolRefresh(x) ==
    LET one   == SetCount([counts |-> pool, errno |-> errno], "size", x.counts["size"])
        two   == SetCount(one, "prestarted_vms", x.counts["prestarted_vms"])
        three == SetCount(two, "max_user_vms", x.counts["max_user_vms"])
    IN  /\ kind = "pool"
        /\ pool' = three.counts
        /\ errno' = three.errno
        /\ said' = x
        /\ UNCHANGED <<kind, domain, vm>>

-----------------------------------------------------------------------------
(* ovirt_utils_genum_get_value on a property whose default is UNKNOWN.     *)
EnumValue(nick, old) ==
    CASE nick = "absent" -> old
      [] nick = "other" -> "unknown"
      [] OTHER -> nick

(* _set_property_value_from_basic_type: a text without digits is 0.        *)
Uint64Value(t, old) == IF t.there THEN Strtoull(t, "ok").value ELSE old

\* fault: GLib is told not to validate the property (G_PARAM_LAX_VALIDATION)
PortValueLax(t, old) ==
    IF t.there THEN Strtoull(t, "ok").value % (MaxUint + 1) ELSE old

(* The result of strtoul is cut to a guint, which GLib does not store when *)
(* it is out of the range of the property.                                  *)
PortValue(t, old) ==
    LET v == Strtoull(t, "ok").value % (MaxUint + 1)
    IN  IF t.there /\ v <= MaxPort THEN v ELSE old

(* ovirt_rest_xml_node_get_str_array_from_path goes through the table of   *)
(* the children, which has one entry for a name: the first of its nodes,   *)
(* which the others are linked from.  Nothing is stored without the element *)
(* that holds the list.                                                     *)
ListedIds(x, old) ==
    IF ~x.lists THEN {old}
    ELSE IF x.ids = {} THEN {{}}
    ELSE {{i} : i \in x.ids}

ErrnoAfter(t, e) == IF t.there THEN Strtoull(t, e).errno ELSE e

(* ovirt_storage_domain_init_from_xml.                                      *)
DomainRefresh(x) ==
    /\ kind = "domain"
    /\ \E ids \in ListedIds(x, domain.ids) :
          domain' = [state |-> EnumValue(x.state, domain.state),
                     used |-> Uint64Value(x.used, domain.used), ids |-> ids]
    /\ errno' = ErrnoAfter(x.used, errno)
    /\ said' = x
    /\ UNCHANGED <<kind, pool, vm>>

(* ovirt_vm_init_from_xml: a display is made anew, of type 0, SPICE, until *)
(* the XML says otherwise; one of a type that is not known is dropped, and *)
(* then nothing of the XML is stored.                                       *)
VmRefresh(x) ==
    /\ kind = "vm"
    /\ vm' = IF x.type = "other" THEN vm
             ELSE [state |-> EnumValue(x.state, vm.state),
                   type |-> IF x.type = "absent" THEN "spice" ELSE x.type,
                   port |-> PortValue(x.port, 0)]
    /\ errno' = ErrnoAfter(x.port, errno)
    /\ said' = x
    /\ UNCHANGED <<kind, pool, domain>>

(* Something else in the process sets errno.                                *)
Elsewhere(e) ==
    /\ errno' = e
    /\ UNCHANGED <<kind, pool, domain, vm, said>>

(* The private structures of the resources are zeroed.                      *)
Init ==
    /\ kind \in Kinds
    /\ errno = "ok"
    /\ pool = [c \in Counts |-> 0]
    /\ domain = [state |-> "first", used |-> 0, ids |-> {}]
    /\ vm = [state |-> "first", type |-> "none", port |-> 0]
    /\ said = [of |-> "nothing"]

Next ==
    \/ \E x \in PoolXml : PoolRefresh(x)
    \/ \E x \in DomainXml : DomainRefresh(x)
    \/ \E x \in VmXml : VmRefresh(x)
    \/ \E e \in Errnos : Elsewhere(e)

Spec == Init /\ [][Next]_vars

-----------------------------------------------------------------------------
(* A count of the pool is the exact number an XML had, and never a part of *)
(* one: when the XML has none that fits a guint, the count stays.          *)
CountsAreSaid ==
    [][\A c \in Counts :
          \/ pool'[c] = pool[c]
          \/ /\ WellFormed(said'.counts[c], MaxUint)
             /\ pool'[c] = said'.counts[c].n]_vars

(* A count the XML gives in full is stored, 0 too, whatever was parsed     *)
(* before it: the branch for EINVAL "should not happen" (ovirt-utils.c:315) *)
(* for a number.  So it is while nothing else leaves EINVAL in errno, which *)
(* nobody clears; Errnos says what is left there.                           *)
GoodCountsTaken ==
    said.of = "pool" =>
        \A c \in Counts :
            WellFormed(said.counts[c], MaxUint) => pool[c] = said.counts[c].n

(* The "Ids of Data Centers for this Storage Domain"                        *)
(* (ovirt-storage-domain.c:341) are all of those the XML lists.             *)
AllIdsListed ==
    said.of = "domain" /\ said.lists => domain.ids = said.ids
=============================================================================
