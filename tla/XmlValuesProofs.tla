--------------------------- MODULE XmlValuesProofs ---------------------------
(***************************************************************************)
(* Theorems about XmlValues, for any limits of the integer types.          *)
(***************************************************************************)
EXTENDS XmlValues, TLAPS

ErrnoValues == {"ok", "EINVAL", "ERANGE"}

(* A refresh of a pool on its way: the counts so far, and errno.           *)
CountStates == [counts : [Counts -> 0..MaxUint], errno : ErrnoValues]

-----------------------------------------------------------------------------
LEMMA TextFields ==
    ASSUME NEW t \in Texts
    PROVE  /\ t.n \in 0..(MaxUint64 + 1) /\ t.n \in Nat
           /\ t.tail \in BOOLEAN /\ t.there \in BOOLEAN
  <1>1. CASE t \in [there : {TRUE}, n : 0..(MaxUint64 + 1), tail : BOOLEAN]
    <2>1. t.there \in {TRUE} /\ t.n \in 0..(MaxUint64 + 1) /\ t.tail \in BOOLEAN
      BY <1>1, Zenon
    <2>2. t.n \in Nat
      BY <2>1, LimitsAssumption
    <2> QED BY <2>1, <2>2, Zenon
  <1>2. CASE t = Absent
    <2>1. t.n = 0 /\ t.tail = FALSE /\ t.there = FALSE
      BY <1>2 DEF Absent
    <2>2. 0 \in 0..(MaxUint64 + 1) /\ 0 \in Nat
      BY LimitsAssumption
    <2> QED BY <2>1, <2>2, Zenon
  <1> QED BY <1>1, <1>2 DEF Texts

LEMMA StrtoullValue ==
    ASSUME NEW t \in Texts, NEW e \in ErrnoValues
    PROVE  /\ Strtoull(t, e).value \in 0..MaxUint64
           /\ Strtoull(t, e).errno \in ErrnoValues
           /\ Strtoull(t, e).errno = "EINVAL" => e = "EINVAL"
           /\ t.n <= MaxUint64 =>
                  Strtoull(t, e).value = t.n /\ Strtoull(t, e).errno = e
           /\ t.n > MaxUint64 =>
                  Strtoull(t, e).value = MaxUint64 /\ Strtoull(t, e).errno = "ERANGE"
  BY TextFields, LimitsAssumption DEF Strtoull, ErrnoValues

(* A guint is only taken from a number in full that fits, and always taken *)
(* from one unless errno is EINVAL already.                                 *)
LEMMA GuintTaken ==
    ASSUME NEW t \in Texts, NEW e \in ErrnoValues, t.there
    PROVE  /\ GuintFromString(t, e).ok =>
                  /\ WellFormed(t, MaxUint)
                  /\ GuintFromString(t, e).value = t.n
           /\ WellFormed(t, MaxUint) /\ e # "EINVAL" => GuintFromString(t, e).ok
  <1> DEFINE v == Strtoull(t, e).value
             f == Strtoull(t, e).errno
  <1>1. /\ GuintFromString(t, e).ok = (Guint64FromString(t, e) /\ v <= MaxUint)
        /\ GuintFromString(t, e).value = v
    BY DEF GuintFromString
  <1>2. Guint64FromString(t, e) <=> /\ ~(v = MaxUint64 /\ f = "ERANGE")
                                    /\ ~(v = 0 /\ f = "EINVAL")
                                    /\ ~t.tail
    BY DEF Guint64FromString
  <1>3. t.n \in Nat /\ v \in 0..MaxUint64
    BY TextFields, StrtoullValue
  <1>4. CASE t.n > MaxUint64
    <2>1. v = MaxUint64 /\ f = "ERANGE"
      BY <1>4, StrtoullValue
    <2>2. ~Guint64FromString(t, e)
      BY <1>2, <2>1
    <2>3. ~(t.n <= MaxUint)
      BY <1>3, <1>4, LimitsAssumption
    <2> QED BY <1>1, <2>2, <2>3 DEF WellFormed
  <1>5. CASE t.n <= MaxUint64
    <2>1. v = t.n /\ f = e
      BY <1>5, StrtoullValue
    <2>2. t.n <= MaxUint => t.n # MaxUint64
      BY <1>3, LimitsAssumption
    <2> QED BY <1>1, <1>2, <2>1, <2>2 DEF WellFormed
  <1> QED BY <1>3, <1>4, <1>5, LimitsAssumption

LEMMA SetCountFields ==
    ASSUME NEW at \in CountStates, NEW c \in Counts, NEW t \in Texts
    PROVE  /\ SetCount(at, c, t) \in CountStates
           /\ \A d \in Counts \ {c} : SetCount(at, c, t).counts[d] = at.counts[d]
           /\ \/ SetCount(at, c, t).counts[c] = at.counts[c]
              \/ WellFormed(t, MaxUint) /\ SetCount(at, c, t).counts[c] = t.n
           /\ at.errno # "EINVAL" => SetCount(at, c, t).errno # "EINVAL"
           /\ at.errno # "EINVAL" /\ WellFormed(t, MaxUint)
                  => SetCount(at, c, t).counts[c] = t.n
  <1> DEFINE r == GuintFromString(t, at.errno)
             new == IF r.ok THEN r.value ELSE at.counts[c]
  <1>1. at.counts \in [Counts -> 0..MaxUint] /\ at.errno \in ErrnoValues
    BY DEF CountStates
  <1>2. CASE ~t.there
    BY <1>2 DEF SetCount, WellFormed
  <1>3. CASE t.there
    <2>1. /\ new \in 0..MaxUint
          /\ \/ new = at.counts[c]
             \/ WellFormed(t, MaxUint) /\ new = t.n
          /\ at.errno # "EINVAL" /\ WellFormed(t, MaxUint) => new = t.n
      <3>1. CASE r.ok
        <4>1. new = r.value
          BY <3>1
        <4>2. WellFormed(t, MaxUint) /\ r.value = t.n
          BY <1>1, <1>3, <3>1, GuintTaken
        <4>3. t.n \in 0..MaxUint
          BY <4>2, TextFields, LimitsAssumption DEF WellFormed
        <4> QED BY <4>1, <4>2, <4>3
      <3>2. CASE ~r.ok
        <4>1. new = at.counts[c]
          BY <3>2
        <4>2. ~(at.errno # "EINVAL" /\ WellFormed(t, MaxUint))
          BY <1>1, <1>3, <3>2, GuintTaken
        <4> QED BY <1>1, <4>1, <4>2
      <3> QED BY <3>1, <3>2
    <2>2. SetCount(at, c, t) = [counts |-> [at.counts EXCEPT ![c] = new],
                                errno |-> Strtoull(t, at.errno).errno]
      BY <1>3 DEF SetCount
    <2> HIDE DEF new
    <2>3. [at.counts EXCEPT ![c] = new] \in [Counts -> 0..MaxUint]
      BY <1>1, <2>1
    <2> QED BY <1>1, <2>1, <2>2, <2>3, StrtoullValue DEF CountStates
  <1> QED BY <1>2, <1>3

(* What a refresh leaves in the pool and in errno.                         *)
LEMMA PoolRefreshed ==
    ASSUME TypeOK, NEW x \in PoolXml, PoolRefresh(x)
    PROVE  /\ pool' \in [Counts -> 0..MaxUint]
           /\ errno' \in ErrnoValues
           /\ errno # "EINVAL" => errno' # "EINVAL"
           /\ \A c \in Counts :
                 /\ \/ pool'[c] = pool[c]
                    \/ WellFormed(x.counts[c], MaxUint) /\ pool'[c] = x.counts[c].n
                 /\ errno # "EINVAL" /\ WellFormed(x.counts[c], MaxUint)
                        => pool'[c] = x.counts[c].n
  <1> DEFINE none  == [counts |-> pool, errno |-> errno]
             one   == SetCount(none, "size", x.counts["size"])
             two   == SetCount(one, "prestarted_vms", x.counts["prestarted_vms"])
             three == SetCount(two, "max_user_vms", x.counts["max_user_vms"])
  <1>1. /\ none \in CountStates /\ none.counts = pool /\ none.errno = errno
        /\ \A c \in Counts : x.counts[c] \in Texts
    BY DEF TypeOK, CountStates, ErrnoValues, PoolXml
  <1>2. pool' = three.counts /\ errno' = three.errno
    BY DEF PoolRefresh
  <1>3. "size" \in Counts /\ "prestarted_vms" \in Counts /\ "max_user_vms" \in Counts
    BY DEF Counts
  <1> HIDE DEF none
  <1>4. /\ one \in CountStates
        /\ \A d \in Counts \ {"size"} : one.counts[d] = none.counts[d]
        /\ \/ one.counts["size"] = none.counts["size"]
           \/ /\ WellFormed(x.counts["size"], MaxUint)
              /\ one.counts["size"] = x.counts["size"].n
        /\ none.errno # "EINVAL" => one.errno # "EINVAL"
        /\ none.errno # "EINVAL" /\ WellFormed(x.counts["size"], MaxUint)
               => one.counts["size"] = x.counts["size"].n
    BY <1>1, <1>3, SetCountFields
  <1> HIDE DEF one
  <1>5. /\ two \in CountStates
        /\ \A d \in Counts \ {"prestarted_vms"} : two.counts[d] = one.counts[d]
        /\ \/ two.counts["prestarted_vms"] = one.counts["prestarted_vms"]
           \/ /\ WellFormed(x.counts["prestarted_vms"], MaxUint)
              /\ two.counts["prestarted_vms"] = x.counts["prestarted_vms"].n
        /\ one.errno # "EINVAL" => two.errno # "EINVAL"
        /\ one.errno # "EINVAL" /\ WellFormed(x.counts["prestarted_vms"], MaxUint)
               => two.counts["prestarted_vms"] = x.counts["prestarted_vms"].n
    BY <1>1, <1>3, <1>4, SetCountFields
  <1> HIDE DEF two
  <1>6. /\ three \in CountStates
        /\ \A d \in Counts \ {"max_user_vms"} : three.counts[d] = two.counts[d]
        /\ \/ three.counts["max_user_vms"] = two.counts["max_user_vms"]
           \/ /\ WellFormed(x.counts["max_user_vms"], MaxUint)
              /\ three.counts["max_user_vms"] = x.counts["max_user_vms"].n
        /\ two.errno # "EINVAL" => three.errno # "EINVAL"
        /\ two.errno # "EINVAL" /\ WellFormed(x.counts["max_user_vms"], MaxUint)
               => three.counts["max_user_vms"] = x.counts["max_user_vms"].n
    BY <1>1, <1>3, <1>5, SetCountFields
  <1> HIDE DEF three
  <1>7. three.counts \in [Counts -> 0..MaxUint] /\ three.errno \in ErrnoValues
    BY <1>6 DEF CountStates
  <1>8. ASSUME NEW c \in Counts
        PROVE  /\ \/ three.counts[c] = pool[c]
                  \/ /\ WellFormed(x.counts[c], MaxUint)
                     /\ three.counts[c] = x.counts[c].n
               /\ errno # "EINVAL" /\ WellFormed(x.counts[c], MaxUint)
                      => three.counts[c] = x.counts[c].n
    <2>1. c = "size" \/ c = "prestarted_vms" \/ c = "max_user_vms"
      BY DEF Counts
    <2> QED BY <1>1, <1>3, <1>4, <1>5, <1>6, <2>1
  <1> QED BY <1>1, <1>2, <1>4, <1>5, <1>6, <1>7, <1>8

-----------------------------------------------------------------------------
LEMMA PortInRange ==
    ASSUME NEW t \in Texts
    PROVE  PortValue(t, 0) \in 0..MaxPort
  <1>1. Strtoull(t, "ok").value \in Nat
    BY StrtoullValue, LimitsAssumption DEF ErrnoValues
  <1>2. Strtoull(t, "ok").value % (MaxUint + 1) \in Nat
    BY <1>1, LimitsAssumption
  <1> QED BY <1>2, LimitsAssumption DEF PortValue

LEMMA EnumType ==
    ASSUME NEW nick \in {"absent", "first", "second", "other"}, NEW old \in States
    PROVE  EnumValue(nick, old) \in States
  BY DEF EnumValue, States

LEMMA InitType == Init => TypeOK
  BY LimitsAssumption DEF Init, TypeOK, States

LEMMA NextType == TypeOK /\ [Next]_vars => TypeOK'
  <1> SUFFICES ASSUME TypeOK, [Next]_vars PROVE TypeOK'
    OBVIOUS
  <1>1. ASSUME NEW x \in PoolXml, PoolRefresh(x) PROVE TypeOK'
    BY <1>1, PoolRefreshed DEF PoolRefresh, TypeOK, PoolXml, ErrnoValues
  <1>2. ASSUME NEW x \in DomainXml, DomainRefresh(x) PROVE TypeOK'
    <2>1. /\ x.state \in {"absent", "first", "second", "other"}
          /\ x.used \in Texts /\ x.ids \subseteq Ids /\ x.of = "domain"
      BY DEF DomainXml
    <2>2. EnumValue(x.state, domain.state) \in States
      BY <2>1, EnumType DEF TypeOK
    <2>3. Uint64Value(x.used, domain.used) \in 0..MaxUint64
      BY <2>1, StrtoullValue DEF Uint64Value, TypeOK, ErrnoValues
    <2>4. \A ids \in ListedIds(x, domain.ids) : ids \subseteq Ids
      BY <2>1 DEF ListedIds, TypeOK
    <2>5. errno' \in ErrnoValues
      BY <1>2, <2>1, StrtoullValue DEF DomainRefresh, ErrnoAfter, TypeOK, ErrnoValues
    <2> QED
      BY <1>2, <2>1, <2>2, <2>3, <2>4, <2>5 DEF DomainRefresh, TypeOK, ErrnoValues
  <1>3. ASSUME NEW x \in VmXml, VmRefresh(x) PROVE TypeOK'
    <2>1. /\ x.state \in {"absent", "first", "second", "other"}
          /\ x.type \in {"absent", "spice", "vnc", "other"}
          /\ x.port \in Texts /\ x.of = "vm"
      BY DEF VmXml
    <2>2. EnumValue(x.state, vm.state) \in States
      BY <2>1, EnumType DEF TypeOK
    <2>3. PortValue(x.port, 0) \in 0..MaxPort
      BY <2>1, PortInRange
    <2>4. errno' \in ErrnoValues
      BY <1>3, <2>1, StrtoullValue DEF VmRefresh, ErrnoAfter, TypeOK, ErrnoValues
    <2> QED BY <1>3, <2>1, <2>2, <2>3, <2>4 DEF VmRefresh, TypeOK, ErrnoValues
  <1>4. ASSUME NEW e \in Errnos, Elsewhere(e) PROVE TypeOK'
    BY <1>4, ErrnoAssumption DEF Elsewhere, TypeOK
  <1>5. CASE UNCHANGED vars
    BY <1>5 DEF vars, TypeOK
  <1> QED BY <1>1, <1>2, <1>3, <1>4, <1>5 DEF Next

(* The type invariant of XmlValues, which holds the port of a display      *)
(* within its range, for any limits of the types.                           *)
THEOREM Typing == Spec => []TypeOK
  <1>1. Init => TypeOK
    BY InitType
  <1>2. TypeOK /\ [Next]_vars => TypeOK'
    BY NextType
  <1> QED BY <1>1, <1>2, PTL DEF Spec

(* A count of a pool only ever changes to the number an XML has            *)
(* (ovirt_vm_pool_refresh_from_xml), whatever errno holds.                  *)
THEOREM CountsAreSaidSafe == Spec => CountsAreSaid
  <1>1. ASSUME TypeOK, NEW x \in PoolXml, PoolRefresh(x), NEW c \in Counts
        PROVE  \/ pool'[c] = pool[c]
               \/ /\ WellFormed(said'.counts[c], MaxUint)
                  /\ pool'[c] = said'.counts[c].n
    <2>1. said' = x
      BY <1>1 DEF PoolRefresh
    <2> QED BY <1>1, <2>1, PoolRefreshed
  <1>2. TypeOK /\ [Next]_vars =>
            [\A c \in Counts :
                \/ pool'[c] = pool[c]
                \/ /\ WellFormed(said'.counts[c], MaxUint)
                   /\ pool'[c] = said'.counts[c].n]_vars
    BY <1>1 DEF Next, DomainRefresh, VmRefresh, Elsewhere, vars
  <1> QED BY <1>2, Typing, PTL DEF Spec, CountsAreSaid

(* As long as nothing in the process leaves EINVAL in errno, every count   *)
(* the XML gives in full is stored (ovirt_utils_guint64_from_string).       *)
THEOREM GoodCountsTakenSafe ==
    ASSUME Errnos \subseteq {"ok", "ERANGE"}
    PROVE  Spec => []GoodCountsTaken
  <1> DEFINE IInv == GoodCountsTaken /\ errno # "EINVAL"
  <1>1. Init => IInv
    BY DEF Init, GoodCountsTaken
  <1>2. TypeOK /\ IInv /\ [Next]_vars => IInv'
    <2> SUFFICES ASSUME TypeOK, IInv, [Next]_vars PROVE IInv'
      OBVIOUS
    <2>1. ASSUME NEW x \in PoolXml, PoolRefresh(x) PROVE IInv'
      <3>1. said' = x
        BY <2>1 DEF PoolRefresh
      <3> QED BY <2>1, <3>1, PoolRefreshed DEF GoodCountsTaken
    <2>2. ASSUME NEW x \in DomainXml, DomainRefresh(x) PROVE IInv'
      <3>1. said'.of = "domain" /\ x.used \in Texts
        BY <2>2 DEF DomainRefresh, DomainXml
      <3>2. errno' # "EINVAL"
        BY <2>2, <3>1, StrtoullValue DEF DomainRefresh, ErrnoAfter, TypeOK, ErrnoValues
      <3> QED BY <3>1, <3>2 DEF GoodCountsTaken
    <2>3. ASSUME NEW x \in VmXml, VmRefresh(x) PROVE IInv'
      <3>1. said'.of = "vm" /\ x.port \in Texts
        BY <2>3 DEF VmRefresh, VmXml
      <3>2. errno' # "EINVAL"
        BY <2>3, <3>1, StrtoullValue DEF VmRefresh, ErrnoAfter, TypeOK, ErrnoValues
      <3> QED BY <3>1, <3>2 DEF GoodCountsTaken
    <2>4. ASSUME NEW e \in Errnos, Elsewhere(e) PROVE IInv'
      BY <2>4 DEF Elsewhere, GoodCountsTaken
    <2>5. CASE UNCHANGED vars
      BY <2>5 DEF vars, GoodCountsTaken
    <2> QED BY <2>1, <2>2, <2>3, <2>4, <2>5 DEF Next
  <1>3. IInv => GoodCountsTaken
    OBVIOUS
  <1> QED BY <1>1, <1>2, <1>3, Typing, PTL DEF Spec

-----------------------------------------------------------------------------
(* What is left of AllIdsListed, which a run refutes: the data centers of a *)
(* storage domain are ones the last XML lists, one of them if there are     *)
(* several, and none of an earlier XML.                                     *)
OneIdListed ==
    said.of = "domain" /\ said.lists =>
        IF said.ids = {} THEN domain.ids = {}
        ELSE \E i \in said.ids : domain.ids = {i}

(* AllIdsListed, for an XML that lists one data center at most.             *)
SingleIdListed ==
    said.of = "domain" /\ (\A i, j \in said.ids : i = j) => AllIdsListed

(* Whatever a storage domain listed before, it is left with one of the data *)
(* centers of its last XML (ovirt-utils.c:116); all of them when that has   *)
(* one at most.                                                             *)
THEOREM OneIdListedSafe == Spec => [](OneIdListed /\ SingleIdListed)
  <1>1. Init => OneIdListed
    BY DEF Init, OneIdListed
  <1>2. TypeOK /\ OneIdListed /\ [Next]_vars => OneIdListed'
    <2> SUFFICES ASSUME TypeOK, OneIdListed, [Next]_vars PROVE OneIdListed'
      OBVIOUS
    <2>1. ASSUME NEW x \in PoolXml, PoolRefresh(x) PROVE OneIdListed'
      BY <2>1 DEF PoolRefresh, PoolXml, OneIdListed
    <2>2. ASSUME NEW x \in DomainXml, DomainRefresh(x) PROVE OneIdListed'
      <3>1. PICK ids \in ListedIds(x, domain.ids) : domain'.ids = ids /\ said' = x
        BY <2>2 DEF DomainRefresh
      <3> QED BY <3>1 DEF ListedIds, OneIdListed
    <2>3. ASSUME NEW x \in VmXml, VmRefresh(x) PROVE OneIdListed'
      BY <2>3 DEF VmRefresh, VmXml, OneIdListed
    <2>4. ASSUME NEW e \in Errnos, Elsewhere(e) PROVE OneIdListed'
      BY <2>4 DEF Elsewhere, OneIdListed
    <2>5. CASE UNCHANGED vars
      BY <2>5 DEF vars, OneIdListed
    <2> QED BY <2>1, <2>2, <2>3, <2>4, <2>5 DEF Next
  <1>3. OneIdListed => SingleIdListed
    BY DEF OneIdListed, SingleIdListed, AllIdsListed
  <1> QED BY <1>1, <1>2, <1>3, Typing, PTL DEF Spec
=============================================================================
