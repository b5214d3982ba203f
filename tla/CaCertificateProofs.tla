------------------------ MODULE CaCertificateProofs ------------------------
(***************************************************************************)
(* Proofs about CaCertificate, for all values of its constants.            *)
(***************************************************************************)
EXTENDS CaCertificate, TLAPS

(* What the operators on files and tables of VMs return.                   *)
LEMMA OperatorTypes ==
    ASSUME TypeOK
    PROVE  /\ WithoutTmp \in [Files -> OptCert \cup {Partial}]
           /\ \A u \in UserFiles : WithoutTmp[u] = files[u]
           /\ FreshTmp \subseteq TmpFiles
           /\ \A table \in [Vms -> OptCert \cup XmlCerts \cup {NoVm}], c \in OptCert :
                Filled(table, c) \in [Vms -> OptCert \cup XmlCerts \cup {NoVm}]
  BY FileAssumption
  DEF FileAssumption, TypeOK, CaTypeOK, VmTypeOK, WithoutTmp, FreshTmp, Filled,
      Files, OptCert

(* The actions that write the files.                                       *)
LEMMA SslCaFileChangedTypes ==
    ASSUME TypeOK, SslCaFileChanged, UNCHANGED <<sslCaFile, wanted>>
    PROVE  CaTypeOK'
  BY OperatorTypes DEF TypeOK, CaTypeOK, SslCaFileChanged

LEMMA FileActionTypes ==
    ASSUME TypeOK, NEW c \in Certs
    PROVE  /\ (\E t \in FreshTmp : SetTmpCaFile(t, c)) => CaTypeOK'
           /\ WriteFails => CaTypeOK'
           /\ UnsetTmpCaFile => CaTypeOK'
<1> USE FileAssumption, OperatorTypes DEF FileAssumption, TypeOK, CaTypeOK, Files, OptCert
<1>1. ASSUME NEW t \in FreshTmp, SetTmpCaFile(t, c) PROVE CaTypeOK'
  BY <1>1 DEF SetTmpCaFile
<1>2. ASSUME WriteFails PROVE CaTypeOK'
  BY <1>2 DEF WriteFails
<1>3. ASSUME UnsetTmpCaFile PROVE CaTypeOK'
  BY <1>3 DEF UnsetTmpCaFile
<1> QED
  BY <1>1, <1>2, <1>3

LEMMA InitTypes == Init => TypeOK
<1> SUFFICES ASSUME Init PROVE TypeOK
  OBVIOUS
<1> USE DepthAssumption DEF Init, DepthAssumption, Files, Frames, OptCert
<1>1. CaTypeOK
  BY FileAssumption DEF CaTypeOK, FileAssumption
<1>2. NoteTypeOK
  BY DEF NoteTypeOK
<1>3. VmTypeOK
  BY DEF VmTypeOK
<1>4. loading \in 0..MaxLoading
  OBVIOUS
<1>5. {settingCaFile, frozen, alive} \subseteq BOOLEAN
  OBVIOUS
<1> QED
  BY <1>1, <1>2, <1>3, <1>4, <1>5 DEF TypeOK

(* What emits, and what a fetch does once it has the certificate.          *)
LEMMA EmitTypes ==
    ASSUME TypeOK, NEW props \in SUBSET Props, NEW c \in OptCert,
           depth < MaxDepth, Emit(props, c), queued' \in SUBSET Props
    PROVE  NoteTypeOK'
  BY DepthAssumption DEF DepthAssumption, TypeOK, NoteTypeOK, Emit, Frames

LEMMA SetDisplayCaTypes ==
    ASSUME TypeOK, NEW c \in OptCert, SetDisplayCa(c)
    PROVE  VmTypeOK'
  BY OperatorTypes DEF TypeOK, VmTypeOK, SetDisplayCa

LEMMA StoreFetchedCaTypes ==
    ASSUME TypeOK, NEW c \in Certs, depth < MaxDepth, StoreFetchedCa(c)
    PROVE  /\ CaTypeOK' /\ NoteTypeOK' /\ VmTypeOK'
           /\ {settingCaFile, frozen}' \subseteq BOOLEAN
<1> USE DEF TypeOK
<1>c. c \in OptCert /\ Props \in SUBSET Props
  BY DEF OptCert
<1>1. CASE /\ frozen
           /\ \E t \in FreshTmp : SetTmpCaFile(t, c)
           /\ queued' = Props
           /\ SetDisplayCa(c)
           /\ UNCHANGED <<frozen, depth, emitting, handling, fetchedCa>>
  <2>1. CaTypeOK' /\ VmTypeOK'
    BY <1>c, <1>1, FileActionTypes, SetDisplayCaTypes
  <2>2. NoteTypeOK'
    BY <1>1 DEF NoteTypeOK
  <2>3. {settingCaFile, frozen}' \subseteq BOOLEAN
    BY <1>1 DEF SetTmpCaFile
  <2> QED
    BY <2>1, <2>2, <2>3
<1>2. CASE /\ ~frozen
           /\ \E t \in FreshTmp : SetTmpCaFile(t, c)
           /\ Emit(Props, c)
           /\ UNCHANGED <<frozen, queued, vmVars>>
  <2>1. CaTypeOK'
    BY <1>2, FileActionTypes
  <2>2. NoteTypeOK'
    <3>1. queued' \in SUBSET Props
      BY <1>2 DEF NoteTypeOK
    <3> QED
      BY <1>c, <1>2, <3>1, EmitTypes
  <2>3. VmTypeOK'
    BY <1>2 DEF VmTypeOK, vmVars
  <2>4. {settingCaFile, frozen}' \subseteq BOOLEAN
    BY <1>2 DEF SetTmpCaFile
  <2> QED
    BY <2>1, <2>2, <2>3, <2>4
<1>3. CASE WriteFails /\ SetDisplayCa(c) /\ UNCHANGED noteVars
  <2>1. CaTypeOK' /\ VmTypeOK'
    BY <1>c, <1>3, FileActionTypes, SetDisplayCaTypes
  <2>2. NoteTypeOK'
    BY <1>3 DEF NoteTypeOK, noteVars
  <2>3. {settingCaFile, frozen}' \subseteq BOOLEAN
    BY <1>3 DEF WriteFails, noteVars
  <2> QED
    BY <2>1, <2>2, <2>3
<1> QED
  BY <1>1, <1>2, <1>3 DEF StoreFetchedCa

(* The properties set while frozen.                                        *)
LEMMA SetPropertyTypes ==
    ASSUME TypeOK
    PROVE  /\ \A c \in OptCert : SetCaCert(c) => TypeOK'
           /\ \A p \in UserFiles \cup {None} : SetSslCaFile(p) => TypeOK'
<1> USE DEF TypeOK
<1>1. ASSUME NEW c \in OptCert, SetCaCert(c) PROVE TypeOK'
  <2>1. CaTypeOK'
    <3>1. CASE c # None
      <4>1. c \in Certs
        BY <3>1 DEF OptCert
      <4>2. WriteFails \/ \E t \in FreshTmp : SetTmpCaFile(t, c)
        BY <1>1, <3>1 DEF SetCaCert
      <4> QED
        BY <4>1, <4>2, FileActionTypes
    <3>2. CASE c = None
      <4>1. UnsetTmpCaFile
        BY <1>1, <3>2 DEF SetCaCert
      <4> QED
        BY <4>1, FileAssumption, OperatorTypes
        DEF UnsetTmpCaFile, CaTypeOK, OptCert
    <3> QED
      BY <3>1, <3>2
  <2>2. NoteTypeOK'
    BY <1>1 DEF SetCaCert, NoteTypeOK, Props
  <2>3. VmTypeOK'
    BY <1>1 DEF SetCaCert, VmTypeOK, vmVars
  <2>4. {settingCaFile, frozen, alive}' \subseteq BOOLEAN
    BY <1>1 DEF SetCaCert, SetTmpCaFile, UnsetTmpCaFile, WriteFails
  <2> QED
    BY <1>1, <2>1, <2>2, <2>3, <2>4 DEF SetCaCert
<1>2. ASSUME NEW p \in UserFiles \cup {None}, SetSslCaFile(p) PROVE TypeOK'
  <2>1. CaTypeOK'
    BY <1>2, FileAssumption
    DEF SetSslCaFile, CaTypeOK, Files, OptCert, FileAssumption
  <2>2. NoteTypeOK'
    BY <1>2 DEF SetSslCaFile, NoteTypeOK, Props
  <2>3. VmTypeOK'
    BY <1>2 DEF SetSslCaFile, VmTypeOK, vmVars
  <2> QED
    BY <1>2, <2>1, <2>2, <2>3 DEF SetSslCaFile
<1> QED
  BY <1>1, <1>2

(* Fetches of the CA.                                                      *)
LEMMA FetchTypes ==
    ASSUME TypeOK, FetchCaAsync \/ CaFileNotLoaded
                   \/ \E c \in Certs : FetchCa(c) \/ CaFileLoaded(c)
    PROVE  TypeOK'
<1> USE DepthAssumption DEF TypeOK, DepthAssumption
<1>1. ASSUME NEW c \in Certs, FetchCa(c) PROVE TypeOK'
  <2>1. depth < MaxDepth
    BY <1>1 DEF FetchCa, ClientRuns
  <2> QED
    BY <1>1, <2>1, StoreFetchedCaTypes DEF FetchCa
<1>2. ASSUME NEW c \in Certs, CaFileLoaded(c) PROVE TypeOK'
  <2>1. depth < MaxDepth
    BY <1>2 DEF CaFileLoaded
  <2>2. loading' \in 0..MaxLoading
    BY <1>2 DEF CaFileLoaded
  <2> QED
    BY <1>2, <2>1, <2>2, StoreFetchedCaTypes DEF CaFileLoaded
<1>3. ASSUME FetchCaAsync \/ CaFileNotLoaded PROVE TypeOK'
  <2>1. loading' \in 0..MaxLoading
    BY <1>3 DEF FetchCaAsync, CaFileNotLoaded
  <2>2. UNCHANGED <<caVars, noteVars, vmVars, alive>>
    BY <1>3 DEF FetchCaAsync, CaFileNotLoaded
  <2> QED
    BY <2>1, <2>2 DEF caVars, noteVars, vmVars, CaTypeOK, NoteTypeOK, VmTypeOK
<1> QED
  BY <1>1, <1>2, <1>3

(* Changes of the table of VMs.                                            *)
LEMMA VmActionTypes ==
    ASSUME TypeOK
    PROVE  /\ \A table \in [Vms -> XmlCerts \cup {None, NoVm}] :
                VmsRefreshed(table) => TypeOK'
           /\ \A v \in Vms, ca \in XmlCerts \cup {None} :
                VmRefreshed(v, ca) => TypeOK'
           /\ OldVmsRefreshed \/ SetApi => TypeOK'
<1> USE DEF TypeOK
<1>1. ASSUME UNCHANGED <<caVars, noteVars, displayCa, loading, alive>>, VmTypeOK'
      PROVE  TypeOK'
  BY <1>1 DEF caVars, noteVars, CaTypeOK, NoteTypeOK
<1>2. ASSUME NEW table \in [Vms -> XmlCerts \cup {None, NoVm}], VmsRefreshed(table)
      PROVE  TypeOK'
  <2>1. table \in [Vms -> OptCert \cup XmlCerts \cup {NoVm}]
    BY DEF OptCert
  <2>2. VmTypeOK'
    BY <1>2, <2>1, OperatorTypes DEF VmsRefreshed, VmTypeOK
  <2> QED
    BY <1>1, <1>2, <2>2 DEF VmsRefreshed
<1>3. ASSUME NEW v \in Vms, NEW ca \in XmlCerts \cup {None}, VmRefreshed(v, ca)
      PROVE  TypeOK'
  <2>1. VmTypeOK'
    BY <1>3 DEF VmRefreshed, VmTypeOK, OptCert
  <2> QED
    BY <1>1, <1>3, <2>1 DEF VmRefreshed
<1>4. ASSUME OldVmsRefreshed PROVE TypeOK'
  <2>1. VmTypeOK'
    BY <1>4, OperatorTypes DEF OldVmsRefreshed, VmTypeOK
  <2> QED
    BY <1>1, <1>4, <2>1 DEF OldVmsRefreshed
<1>5. ASSUME SetApi PROVE TypeOK'
  <2>1. VmTypeOK'
    BY <1>5 DEF SetApi, VmTypeOK
  <2> QED
    BY <1>1, <1>5, <2>1 DEF SetApi
<1> QED
  BY <1>2, <1>3, <1>4, <1>5

(* Freezing, thawing and the steps of an emission.                         *)
LEMMA NotificationTypes ==
    ASSUME TypeOK,
           Freeze \/ Thaw \/ NotifySslCaFile \/ NotifyCaCert \/ Notified
    PROVE  TypeOK'
<1> USE DepthAssumption DEF TypeOK, DepthAssumption
<1>1. ASSUME Freeze PROVE TypeOK'
  BY <1>1 DEF Freeze, caVars, vmVars, CaTypeOK, NoteTypeOK, VmTypeOK
<1>2. ASSUME Thaw PROVE TypeOK'
  <2>1. CaTypeOK' /\ VmTypeOK'
    BY <1>2 DEF Thaw, caVars, vmVars, CaTypeOK, VmTypeOK
  <2>2. NoteTypeOK'
    <3>1. queued \in SUBSET Props /\ queued' \in SUBSET Props
      BY <1>2 DEF Thaw, NoteTypeOK
    <3>2. CASE queued = {}
      BY <1>2, <3>1, <3>2 DEF Thaw, NoteTypeOK
    <3>3. CASE queued # {}
      <4>1. Emit(queued, None) /\ depth < MaxDepth
        BY <1>2, <3>3 DEF Thaw, ClientRuns
      <4> QED
        BY <3>1, <4>1, EmitTypes DEF OptCert
    <3> QED
      BY <3>2, <3>3
  <2>3. {settingCaFile, frozen, alive}' \subseteq BOOLEAN
    BY <1>2 DEF Thaw, caVars
  <2> QED
    BY <1>2, <2>1, <2>2, <2>3 DEF Thaw
<1>3. ASSUME NotifySslCaFile PROVE TypeOK'
  <2>1. CaTypeOK'
    BY <1>3, SslCaFileChangedTypes DEF NotifySslCaFile
  <2>2. NoteTypeOK'
    BY <1>3 DEF NotifySslCaFile, NoteTypeOK, Frames
  <2>3. VmTypeOK'
    BY <1>3 DEF NotifySslCaFile, vmVars, VmTypeOK
  <2>4. {settingCaFile, frozen, alive}' \subseteq BOOLEAN
    BY <1>3 DEF NotifySslCaFile, SslCaFileChanged
  <2> QED
    BY <1>3, <2>1, <2>2, <2>3, <2>4 DEF NotifySslCaFile
<1>4. ASSUME NotifyCaCert PROVE TypeOK'
  <2>1. NoteTypeOK'
    BY <1>4 DEF NotifyCaCert, NoteTypeOK, Frames
  <2> QED
    BY <1>4, <2>1 DEF NotifyCaCert, caVars, vmVars, CaTypeOK, VmTypeOK
<1>5. ASSUME Notified PROVE TypeOK'
  <2>1. depth \in Frames
    BY <1>5 DEF Notified, NoteTypeOK, Frames
  <2>2. CaTypeOK'
    BY <1>5 DEF Notified, caVars, CaTypeOK
  <2>3. NoteTypeOK'
    BY <1>5, <2>1 DEF Notified, NoteTypeOK, Frames, OptCert
  <2>4. VmTypeOK'
    <3>1. fetchedCa[depth] \in OptCert
      BY <2>1 DEF NoteTypeOK
    <3> QED
      BY <1>5, <3>1, SetDisplayCaTypes DEF Notified, vmVars, VmTypeOK
  <2>5. {settingCaFile, frozen, alive}' \subseteq BOOLEAN
    BY <1>5 DEF Notified, caVars
  <2> QED
    BY <1>5, <2>2, <2>3, <2>4, <2>5 DEF Notified
<1> QED
  BY <1>1, <1>2, <1>3, <1>4, <1>5

LEMMA FinalizeTypes ==
    ASSUME TypeOK, Finalize
    PROVE  TypeOK'
<1> USE DEF TypeOK
<1>1. CaTypeOK'
  BY OperatorTypes DEF Finalize, CaTypeOK
<1>2. NoteTypeOK' /\ VmTypeOK'
  BY DEF Finalize, noteVars, NoteTypeOK, VmTypeOK, OptCert
<1>3. {settingCaFile, frozen, alive}' \subseteq BOOLEAN
  BY DEF Finalize, noteVars
<1> QED
  BY <1>1, <1>2, <1>3 DEF Finalize

LEMMA NextTypes == TypeOK /\ [Next]_vars => TypeOK'
<1> SUFFICES ASSUME TypeOK, [Next]_vars PROVE TypeOK'
  OBVIOUS
<1>1. CASE UNCHANGED vars
  BY <1>1 DEF vars, caVars, noteVars, vmVars, TypeOK, CaTypeOK, NoteTypeOK, VmTypeOK
<1>2. CASE Next
  BY <1>2, SetPropertyTypes, FetchTypes, VmActionTypes, NotificationTypes,
     FinalizeTypes DEF Next
<1> QED
  BY <1>1, <1>2

(* Every variable keeps to its type, whatever the client calls from where.  *)
THEOREM Typing == Spec => []TypeOK
  BY InitTypes, NextTypes, PTL DEF Spec

-----------------------------------------------------------------------------
(***************************************************************************)
(* The files.  Seen from the files, the path and the flag, a step of the   *)
(* system is one of seven.                                                 *)
(***************************************************************************)
Install == \E t \in FreshTmp, c \in Certs : SetTmpCaFile(t, c)
SetPath == \E p \in UserFiles \cup {None} : SetSslCaFile(p)

LEMMA FileSteps ==
    ASSUME [Next]_vars
    PROVE  \/ Install /\ UNCHANGED alive
           \/ WriteFails /\ UNCHANGED alive
           \/ UnsetTmpCaFile /\ UNCHANGED alive
           \/ SetPath
           \/ NotifySslCaFile
           \/ Finalize
           \/ UNCHANGED <<caVars, alive>>
<1>1. CASE UNCHANGED vars
  BY <1>1 DEF vars
<1>2. ASSUME NEW c \in OptCert, SetCaCert(c)
      PROVE  (Install \/ WriteFails \/ UnsetTmpCaFile) /\ UNCHANGED alive
  BY <1>2 DEF SetCaCert, Install, OptCert
<1>3. ASSUME NEW c \in Certs, FetchCa(c) \/ CaFileLoaded(c)
      PROVE  (Install \/ WriteFails) /\ UNCHANGED alive
  BY <1>3 DEF FetchCa, CaFileLoaded, StoreFetchedCa, Install
<1>4. ASSUME \/ Freeze \/ Thaw \/ FetchCaAsync \/ CaFileNotLoaded
             \/ \E table \in [Vms -> XmlCerts \cup {None, NoVm}] : VmsRefreshed(table)
             \/ OldVmsRefreshed
             \/ \E v \in Vms, ca \in XmlCerts \cup {None} : VmRefreshed(v, ca)
             \/ SetApi \/ NotifyCaCert \/ Notified
      PROVE  UNCHANGED <<caVars, alive>>
  BY <1>4 DEF Freeze, Thaw, FetchCaAsync, CaFileNotLoaded, VmsRefreshed,
              OldVmsRefreshed, VmRefreshed, SetApi, NotifyCaCert, Notified
<1> QED
  BY <1>1, <1>2, <1>3, <1>4 DEF Next, SetPath

(* No file of the client is changed or unlinked, however deep the handlers  *)
(* call back: free_tmp_ca_file only ever meets the proxy's own names.       *)
THEOREM UserFilesSafe == Spec => UserFilesIntact
<1>1. TypeOK /\ [Next]_vars => [\A u \in UserFiles : files'[u] = files[u]]_vars
  <2> SUFFICES ASSUME TypeOK, [Next]_vars, NEW u \in UserFiles
               PROVE  files'[u] = files[u]
    OBVIOUS
  <2> USE FileAssumption, OperatorTypes
      DEF FileAssumption, TypeOK, CaTypeOK, Files
  <2>1. CASE Install
    BY <2>1 DEF Install, SetTmpCaFile
  <2>2. CASE WriteFails
    BY <2>2 DEF WriteFails
  <2>3. CASE UnsetTmpCaFile \/ Finalize
    BY <2>3 DEF UnsetTmpCaFile, Finalize
  <2>4. CASE NotifySslCaFile
    BY <2>4 DEF NotifySslCaFile, SslCaFileChanged
  <2>5. CASE SetPath \/ UNCHANGED <<caVars, alive>>
    BY <2>5 DEF SetPath, SetSslCaFile, caVars
  <2> QED
    BY <2>1, <2>2, <2>3, <2>4, <2>5, FileSteps
<1> QED
  BY <1>1, Typing, PTL DEF Spec, UserFilesIntact

(* The proxy forgets no certificate on disk, however deep the handlers      *)
(* call back.  NoOrphan is inductive relative to the types.                 *)
THEOREM NoOrphanSafe == Spec => []NoOrphan
<1>1. Init => NoOrphan
  BY ValueAssumption DEF ValueAssumption, Init, NoOrphan, Files
<1>2. TypeOK /\ NoOrphan /\ [Next]_vars => NoOrphan'
  <2> SUFFICES ASSUME TypeOK, NoOrphan, [Next]_vars,
                      NEW f \in TmpFiles, files'[f] \in Certs
               PROVE  tmpCaFile' = f
    BY DEF NoOrphan
  <2> USE ValueAssumption, OperatorTypes
      DEF ValueAssumption, TypeOK, CaTypeOK, NoOrphan, Files, WithoutTmp
  <2>1. CASE Install
    BY <2>1 DEF Install, SetTmpCaFile
  <2>2. CASE WriteFails
    BY <2>2 DEF WriteFails
  <2>3. CASE UnsetTmpCaFile \/ Finalize
    BY <2>3 DEF UnsetTmpCaFile, Finalize
  <2>4. CASE NotifySslCaFile
    BY <2>4 DEF NotifySslCaFile, SslCaFileChanged
  <2>5. CASE SetPath \/ UNCHANGED <<caVars, alive>>
    BY <2>5 DEF SetPath, SetSslCaFile, caVars
  <2> QED
    BY <2>1, <2>2, <2>3, <2>4, <2>5, FileSteps
<1> QED
  BY <1>1, <1>2, Typing, PTL DEF Spec

-----------------------------------------------------------------------------
(***************************************************************************)
(* The flag.  While it is up, the notification that will take it down is   *)
(* queued or still to be delivered by an emission in progress.             *)
(***************************************************************************)
FlagWaits ==
    /\ settingCaFile => \/ "ssl-ca-file" \in queued
                        \/ \E i \in 1..depth : "ssl-ca-file" \in emitting[i]
    /\ ~frozen => queued = {}

LEMMA InstalledFlagWaits ==
    ASSUME TypeOK, FlagWaits, NEW c \in Certs, depth < MaxDepth, StoreFetchedCa(c)
    PROVE  FlagWaits'
<1> USE DEF FlagWaits, TypeOK, NoteTypeOK
<1>1. CASE frozen /\ queued' = Props /\ UNCHANGED frozen
  BY <1>1 DEF Props
<1>2. CASE ~frozen /\ Emit(Props, c) /\ UNCHANGED <<frozen, queued>>
  <2>1. depth' \in 1..depth' /\ depth + 1 \in Frames
    BY <1>2, DepthAssumption DEF Emit, Frames, DepthAssumption
  <2>2. "ssl-ca-file" \in emitting'[depth']
    BY <1>2, <2>1 DEF Emit, Props
  <2> QED
    BY <1>2, <2>1, <2>2
<1>3. CASE WriteFails /\ UNCHANGED noteVars
  BY <1>3 DEF WriteFails, noteVars
<1> QED
  BY <1>1, <1>2, <1>3 DEF StoreFetchedCa

LEMMA NextFlagWaits == TypeOK /\ FlagWaits /\ [Next]_vars => FlagWaits'
<1> SUFFICES ASSUME TypeOK, FlagWaits, [Next]_vars PROVE FlagWaits'
  OBVIOUS
<1> USE DEF TypeOK, NoteTypeOK
<1>1. CASE UNCHANGED <<settingCaFile, frozen, queued, depth, emitting>>
  BY <1>1 DEF FlagWaits
<1>2. CASE Freeze
  BY <1>2 DEF Freeze, FlagWaits, caVars
<1>3. CASE Thaw
  <2>1. CASE queued = {}
    BY <1>3, <2>1 DEF Thaw, FlagWaits, caVars
  <2>2. CASE queued # {}
    <3>1. /\ depth + 1 \in Frames /\ depth' = depth + 1 /\ queued' = {}
          /\ emitting' = [emitting EXCEPT ![depth + 1] = queued]
          /\ UNCHANGED settingCaFile
      BY <1>3, <2>2, DepthAssumption
      DEF Thaw, ClientRuns, Emit, Frames, caVars, DepthAssumption
    <3>2. emitting'[depth'] = queued /\ \A i \in 1..depth : emitting'[i] = emitting[i]
      BY <3>1 DEF Frames
    <3>3. depth' \in 1..depth' /\ 1..depth \subseteq 1..depth'
      BY <3>1
    <3> QED
      BY <3>1, <3>2, <3>3 DEF FlagWaits
  <2> QED
    BY <2>1, <2>2
<1>4. ASSUME NEW c \in OptCert, SetCaCert(c) PROVE FlagWaits'
  <2>1. CASE queued' = Props
    BY <1>4, <2>1 DEF SetCaCert, FlagWaits, Props
  <2>2. CASE (WriteFails \/ UnsetTmpCaFile) /\ queued' = queued \cup {"ca-cert"}
    BY <1>4, <2>2 DEF SetCaCert, WriteFails, UnsetTmpCaFile, FlagWaits
  <2> QED
    BY <1>4, <2>1, <2>2 DEF SetCaCert
<1>5. ASSUME NEW p \in UserFiles \cup {None}, SetSslCaFile(p) PROVE FlagWaits'
  BY <1>5 DEF SetSslCaFile, FlagWaits
<1>6. ASSUME NEW c \in Certs, FetchCa(c) \/ CaFileLoaded(c) PROVE FlagWaits'
  BY <1>6, InstalledFlagWaits, DepthAssumption
  DEF FetchCa, CaFileLoaded, ClientRuns, DepthAssumption
<1>7. CASE NotifySslCaFile
  BY <1>7 DEF NotifySslCaFile, SslCaFileChanged, FlagWaits
<1>8. CASE NotifyCaCert
  <2>1. \A i \in 1..depth : "ssl-ca-file" \in emitting[i] => "ssl-ca-file" \in emitting'[i]
    BY <1>8 DEF NotifyCaCert, Frames
  <2> QED
    BY <1>8, <2>1 DEF NotifyCaCert, FlagWaits, caVars
<1>9. CASE Notified
  <2>1. \A i \in 1..depth : "ssl-ca-file" \in emitting[i] => i \in 1..depth'
    BY <1>9 DEF Notified
  <2> QED
    BY <1>9, <2>1 DEF Notified, FlagWaits, caVars
<1>10. ASSUME \/ FetchCaAsync \/ CaFileNotLoaded \/ OldVmsRefreshed \/ SetApi \/ Finalize
              \/ \E table \in [Vms -> XmlCerts \cup {None, NoVm}] : VmsRefreshed(table)
              \/ \E v \in Vms, ca \in XmlCerts \cup {None} : VmRefreshed(v, ca)
       PROVE  UNCHANGED <<settingCaFile, frozen, queued, depth, emitting>>
  BY <1>10 DEF FetchCaAsync, CaFileNotLoaded, OldVmsRefreshed, SetApi, Finalize,
               VmsRefreshed, VmRefreshed, caVars, noteVars
<1>11. CASE UNCHANGED vars
  BY <1>1, <1>11 DEF vars, caVars, noteVars
<1> QED
  BY <1>1, <1>2, <1>3, <1>4, <1>5, <1>6, <1>7, <1>8, <1>9, <1>10, <1>11 DEF Next

(* No announcement of setting_ca_file outlives the notifications, however   *)
(* deep the handlers call back.                                             *)
THEOREM FlagDrainedSafe == Spec => []FlagDrained
<1>1. Init => FlagWaits
  BY DEF Init, FlagWaits
<1>2. TypeOK /\ FlagWaits => FlagDrained
  BY DEF TypeOK, NoteTypeOK, FlagWaits, FlagDrained, Quiescent
<1> QED
  BY <1>1, <1>2, NextFlagWaits, Typing, PTL DEF Spec

-----------------------------------------------------------------------------
(***************************************************************************)
(* What ca-cert reads, when no handler calls back into the proxy.  If the  *)
(* proxy's temporary file is the ssl-ca-file and the flag is down, then no *)
(* notification that would unlink it is on its way.                        *)
(***************************************************************************)
SslPending == \/ "ssl-ca-file" \in queued
              \/ \E i \in Frames : "ssl-ca-file" \in emitting[i]

OwnFileSafe == tmpCaFile # None /\ tmpCaFile = sslCaFile /\ SslPending => settingCaFile

(* Only setting a path, or installing a file, announces a new path.        *)
LEMMA PendingSteps ==
    ASSUME TypeOK, [Next]_vars, SslPending'
    PROVE  SslPending \/ Install \/ SetPath
<1> USE DEF SslPending, TypeOK, NoteTypeOK
<1>1. CASE UNCHANGED <<queued, emitting>>
  BY <1>1
<1>2. CASE Thaw
  <2>1. \A i \in Frames : emitting'[i] = emitting[i] \/ emitting'[i] = queued
    BY <1>2 DEF Thaw, Emit
  <2> QED
    BY <1>2, <2>1 DEF Thaw
<1>3. ASSUME NEW c \in OptCert, SetCaCert(c) PROVE SslPending \/ Install
  BY <1>3 DEF SetCaCert, Install, OptCert
<1>4. ASSUME NEW c \in Certs, FetchCa(c) \/ CaFileLoaded(c)
      PROVE  SslPending \/ Install
  BY <1>4 DEF FetchCa, CaFileLoaded, StoreFetchedCa, Install, noteVars
<1>5. CASE NotifySslCaFile
  <2>1. \A i \in Frames : emitting'[i] \subseteq emitting[i]
    BY <1>5 DEF NotifySslCaFile
  <2> QED
    BY <1>5, <2>1 DEF NotifySslCaFile
<1>6. CASE NotifyCaCert
  <2>1. \A i \in Frames : emitting'[i] \subseteq emitting[i]
    BY <1>6 DEF NotifyCaCert
  <2> QED
    BY <1>6, <2>1 DEF NotifyCaCert
<1>7. ASSUME \/ Freeze \/ FetchCaAsync \/ CaFileNotLoaded \/ OldVmsRefreshed
             \/ SetApi \/ Finalize \/ Notified
             \/ \E table \in [Vms -> XmlCerts \cup {None, NoVm}] : VmsRefreshed(table)
             \/ \E v \in Vms, ca \in XmlCerts \cup {None} : VmRefreshed(v, ca)
      PROVE  UNCHANGED <<queued, emitting>>
  BY <1>7 DEF Freeze, FetchCaAsync, CaFileNotLoaded, OldVmsRefreshed, SetApi,
              Finalize, Notified, VmsRefreshed, VmRefreshed, noteVars
<1>8. CASE UNCHANGED vars
  BY <1>1, <1>8 DEF vars, noteVars
<1> QED
  BY <1>1, <1>2, <1>3, <1>4, <1>5, <1>6, <1>7, <1>8 DEF Next, SetPath

(* The only emission cannot deliver "ssl-ca-file" twice.                   *)
LEMMA Delivered ==
    ASSUME MaxDepth = 1, TypeOK, FlagWaits, NotifySslCaFile
    PROVE  SslPending /\ ~SslPending'
<1> USE DEF TypeOK, NoteTypeOK
<1>1. depth = 1 /\ Frames = {1}
  BY DEF NotifySslCaFile, Frames
<1>2. "ssl-ca-file" \in emitting[1] /\ "ssl-ca-file" \notin emitting'[1]
  BY <1>1 DEF NotifySslCaFile
<1>3. queued' = {}
  BY DEF NotifySslCaFile, FlagWaits
<1> QED
  BY <1>1, <1>2, <1>3 DEF SslPending

LEMMA NextOwnFileSafe ==
    ASSUME MaxDepth = 1, TypeOK, FlagWaits, OwnFileSafe, [Next]_vars
    PROVE  OwnFileSafe'
<1> USE FileAssumption DEF FileAssumption, OwnFileSafe, TypeOK, CaTypeOK
<1>1. CASE Install
  BY <1>1 DEF Install, SetTmpCaFile
<1>2. CASE WriteFails \/ UNCHANGED <<caVars, alive>>
  <2>1. UNCHANGED <<tmpCaFile, sslCaFile, settingCaFile>>
    BY <1>2 DEF WriteFails, caVars
  <2>2. SslPending' => SslPending \/ Install \/ SetPath
    BY PendingSteps
  <2>3. SetPath => sslCaFile' \in UserFiles \cup {None}
    BY DEF SetPath, SetSslCaFile
  <2> QED
    BY <1>1, <2>1, <2>2, <2>3
<1>3. CASE UnsetTmpCaFile \/ Finalize
  BY <1>3 DEF UnsetTmpCaFile, Finalize
<1>4. CASE SetPath
  BY <1>4 DEF SetPath, SetSslCaFile
<1>5. CASE NotifySslCaFile
  BY <1>5, Delivered
<1> QED
  BY <1>1, <1>2, <1>3, <1>4, <1>5, FileSteps

(* The file that ssl-ca-file names stays, except as NamedFileKept says.     *)
LEMMA NextNamedFileKept ==
    ASSUME MaxDepth = 1, TypeOK, FlagWaits, OwnFileSafe, [Next]_vars,
           NEW t \in TmpFiles, sslCaFile = t, sslCaFile' = t,
           files[t] \in Certs, alive', wanted' # None
    PROVE  files'[t] = files[t]
<1> USE FileAssumption, OperatorTypes
    DEF FileAssumption, TypeOK, CaTypeOK, Files, WithoutTmp, FreshTmp
<1>1. CASE Install
  BY <1>1, ValueAssumption DEF Install, SetTmpCaFile, ValueAssumption
<1>2. CASE WriteFails
  BY <1>2 DEF WriteFails
<1>3. CASE UnsetTmpCaFile \/ Finalize
  BY <1>3 DEF UnsetTmpCaFile, Finalize
<1>4. CASE SetPath
  BY <1>4 DEF SetPath, SetSslCaFile
<1>5. CASE NotifySslCaFile
  <2>1. CASE settingCaFile
    BY <1>5, <2>1 DEF NotifySslCaFile, SslCaFileChanged
  <2>2. CASE ~settingCaFile
    <3>1. tmpCaFile # t
      BY <1>5, <2>2, Delivered DEF OwnFileSafe
    <3> QED
      BY <1>5, <2>2, <3>1 DEF NotifySslCaFile, SslCaFileChanged
  <2> QED
    BY <2>1, <2>2
<1>6. CASE UNCHANGED <<caVars, alive>>
  BY <1>6 DEF caVars
<1> QED
  BY <1>1, <1>2, <1>3, <1>4, <1>5, <1>6, FileSteps

LEMMA NextCaCertReadBack ==
    ASSUME MaxDepth = 1, TypeOK, FlagWaits, OwnFileSafe, CaCertReadBack, [Next]_vars
    PROVE  CaCertReadBack'
<1> USE FileAssumption, ValueAssumption, OperatorTypes
    DEF FileAssumption, ValueAssumption, TypeOK, CaTypeOK, Files, OptCert,
        CaCertReadBack, CaCertData
<1>1. CASE Install
  BY <1>1 DEF Install, SetTmpCaFile
<1>2. CASE UnsetTmpCaFile \/ Finalize
  BY <1>2 DEF UnsetTmpCaFile, Finalize
<1>3. CASE SetPath
  BY <1>3 DEF SetPath, SetSslCaFile
<1>4. CASE WriteFails /\ UNCHANGED alive
  <2>1. sslCaFile # None => files'[sslCaFile] = files[sslCaFile]
    BY <1>4 DEF WriteFails, FreshTmp
  <2> QED
    BY <1>4, <2>1 DEF WriteFails
<1>5. CASE NotifySslCaFile
  <2>1. ASSUME sslCaFile # None, wanted \in Certs, alive
        PROVE  files'[sslCaFile] = files[sslCaFile]
    <3>1. CASE settingCaFile
      BY <1>5, <3>1 DEF NotifySslCaFile, SslCaFileChanged
    <3>2. CASE ~settingCaFile
      <4>1. tmpCaFile # sslCaFile \/ tmpCaFile = None
        BY <1>5, <3>2, Delivered DEF OwnFileSafe
      <4> QED
        BY <1>5, <2>1, <3>2, <4>1
        DEF NotifySslCaFile, SslCaFileChanged, WithoutTmp
    <3> QED
      BY <3>1, <3>2
  <2>2. UNCHANGED <<sslCaFile, wanted, alive>>
    BY <1>5 DEF NotifySslCaFile
  <2> QED
    BY <2>1, <2>2
<1>6. CASE UNCHANGED <<caVars, alive>>
  BY <1>6 DEF caVars
<1> QED
  BY <1>1, <1>2, <1>3, <1>4, <1>5, <1>6, FileSteps

LEMMA OwnFileSafety ==
    ASSUME MaxDepth = 1
    PROVE  Spec => [](FlagWaits /\ OwnFileSafe)
<1>1. Init => FlagWaits /\ OwnFileSafe
  BY DEF Init, FlagWaits, OwnFileSafe
<1>2. TypeOK /\ FlagWaits /\ OwnFileSafe /\ [Next]_vars
        => (FlagWaits /\ OwnFileSafe)'
  BY NextFlagWaits, NextOwnFileSafe
<1> QED
  BY <1>1, <1>2, Typing, PTL DEF Spec

(* Without callbacks into the proxy, ca-cert reads back what was last asked *)
(* for.  The run MCCaReentrantKept shows why the hypothesis is needed.      *)
THEOREM CaCertReadBackSafe ==
    ASSUME MaxDepth = 1
    PROVE  Spec => []CaCertReadBack
<1>1. Init => CaCertReadBack
  BY ValueAssumption DEF Init, CaCertReadBack, ValueAssumption
<1>2. TypeOK /\ FlagWaits /\ OwnFileSafe /\ CaCertReadBack /\ [Next]_vars
        => CaCertReadBack'
  BY NextCaCertReadBack
<1> QED
  BY <1>1, <1>2, Typing, OwnFileSafety, PTL DEF Spec

(* Without callbacks into the proxy, its own change of ssl-ca-file never    *)
(* costs it the file it has just written.                                   *)
THEOREM NamedFileKeptSafe ==
    ASSUME MaxDepth = 1
    PROVE  Spec => NamedFileKept
<1>1. TypeOK /\ FlagWaits /\ OwnFileSafe /\ [Next]_vars
        => [\A t \in TmpFiles :
              /\ sslCaFile = t /\ files[t] \in Certs /\ alive'
              /\ sslCaFile' = t /\ wanted' # None
              => files'[t] = files[t]]_vars
  BY NextNamedFileKept
<1> QED
  BY <1>1, Typing, OwnFileSafety, PTL DEF Spec, NamedFileKept

-----------------------------------------------------------------------------
(***************************************************************************)
(* The displays.                                                           *)
(***************************************************************************)

(* A step either leaves the displays alone, or fills them with the CA it    *)
(* leaves in display_ca, or replaces one of them, or empties the table, or  *)
(* finalizes the proxy.                                                    *)
LEMMA DisplaySteps ==
    ASSUME TypeOK, [Next]_vars
    PROVE  \/ UNCHANGED <<vmVars, alive>>
           \/ \E c \in Certs : SetDisplayCa(c) /\ UNCHANGED alive
           \/ \E table \in [Vms -> XmlCerts \cup {None, NoVm}] : VmsRefreshed(table)
           \/ OldVmsRefreshed
           \/ \E v \in Vms, ca \in XmlCerts \cup {None} : VmRefreshed(v, ca)
           \/ SetApi
           \/ Finalize
<1>1. CASE UNCHANGED vars
  BY <1>1 DEF vars
<1>2. ASSUME \/ Freeze \/ Thaw \/ FetchCaAsync \/ CaFileNotLoaded
             \/ NotifySslCaFile \/ NotifyCaCert
             \/ \E c \in OptCert : SetCaCert(c)
             \/ \E p \in UserFiles \cup {None} : SetSslCaFile(p)
      PROVE  UNCHANGED <<vmVars, alive>>
  BY <1>2 DEF Freeze, Thaw, FetchCaAsync, CaFileNotLoaded, NotifySslCaFile,
              NotifyCaCert, SetCaCert, SetSslCaFile
<1>3. ASSUME NEW c \in Certs, FetchCa(c) \/ CaFileLoaded(c)
      PROVE  (SetDisplayCa(c) \/ UNCHANGED vmVars) /\ UNCHANGED alive
  BY <1>3 DEF FetchCa, CaFileLoaded, StoreFetchedCa
<1>4. CASE Notified
  <2>1. fetchedCa[depth] \in OptCert
    BY <1>4 DEF Notified, TypeOK, NoteTypeOK, Frames
  <2> QED
    BY <1>4, <2>1 DEF Notified, OptCert
<1> QED
  BY <1>1, <1>2, <1>3, <1>4 DEF Next

(* Whichever of the CA and the VMs arrives first, and however deep the      *)
(* handlers call back, no display that was not refreshed since lacks a CA.  *)
THEOREM DisplaysHaveCaSafe == Spec => []DisplaysHaveCa
<1>1. Init => DisplaysHaveCa
  BY DEF Init, DisplaysHaveCa
<1>2. TypeOK /\ DisplaysHaveCa /\ [Next]_vars => DisplaysHaveCa'
  <2> SUFFICES ASSUME TypeOK, DisplaysHaveCa, [Next]_vars, alive', displayCa' # None,
                      NEW v \in Vms, display'[v] = None
               PROVE  v \in refreshed'
    BY DEF DisplaysHaveCa
  <2> USE ValueAssumption
      DEF DisplaysHaveCa, ValueAssumption, TypeOK, VmTypeOK, Filled
  <2>1. CASE UNCHANGED <<vmVars, alive>>
    BY <2>1 DEF vmVars
  <2>2. CASE \E c \in Certs : SetDisplayCa(c) /\ UNCHANGED alive
    BY <2>2 DEF SetDisplayCa
  <2>3. ASSUME NEW table \in [Vms -> XmlCerts \cup {None, NoVm}], VmsRefreshed(table)
        PROVE  FALSE
    BY <2>3 DEF VmsRefreshed
  <2>4. CASE OldVmsRefreshed
    BY <2>4 DEF OldVmsRefreshed
  <2>5. ASSUME NEW w \in Vms, NEW ca \in XmlCerts \cup {None}, VmRefreshed(w, ca)
        PROVE  v \in refreshed'
    BY <2>5 DEF VmRefreshed, ClientRuns
  <2>6. CASE SetApi \/ Finalize
    BY <2>6 DEF SetApi, Finalize
  <2> QED
    BY <2>1, <2>2, <2>3, <2>4, <2>5, <2>6, DisplaySteps
<1> QED
  BY <1>1, <1>2, Typing, PTL DEF Spec

(* A CA that a VM's own XML gave is never replaced by the proxy's.          *)
THEOREM KeepsXmlCaSafe == Spec => KeepsXmlCa
<1>1. TypeOK /\ [Next]_vars
        => [displayCa' # displayCa =>
              \A v \in Vms : display[v] \in XmlCerts => display'[v] = display[v]]_vars
  <2> SUFFICES ASSUME TypeOK, [Next]_vars, displayCa' # displayCa,
                      NEW v \in Vms, display[v] \in XmlCerts
               PROVE  display'[v] = display[v]
    OBVIOUS
  <2>1. CASE \E c \in Certs : SetDisplayCa(c)
    BY <2>1, ValueAssumption DEF SetDisplayCa, Filled, ValueAssumption
  <2>2. CASE Finalize
    BY <2>2 DEF Finalize
  <2> QED
    BY <2>1, <2>2, DisplaySteps
    DEF vmVars, VmsRefreshed, OldVmsRefreshed, VmRefreshed, SetApi
<1> QED
  BY <1>1, Typing, PTL DEF Spec, KeepsXmlCa
=============================================================================
