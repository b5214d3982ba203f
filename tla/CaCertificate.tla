--------------------------- MODULE CaCertificate ---------------------------
(***************************************************************************)
(* The CA certificates of an OvirtProxy (govirt/ovirt-proxy.c).            *)
(*                                                                         *)
(* Two properties name the CA of the REST connection: "ssl-ca-file", a     *)
(* path kept by librest, and "ca-cert", a blob.  Setting the blob writes   *)
(* it to a temporary file and makes that file the ssl-ca-file; reading it  *)
(* reads the ssl-ca-file.  The handler of notify::ssl-ca-file unlinks the  *)
(* temporary file when somebody else changes the path, and a boolean tells *)
(* the proxy's own changes apart.  A third CA, display_ca, is for the      *)
(* SPICE connections and is copied to the displays of the VMs.             *)
(*                                                                         *)
(* Notifications are those of GObject: while an object is frozen each      *)
(* changed property is queued once, and the thaw emits what was queued, in *)
(* no order the caller controls.  An emission is a frame of a stack: user  *)
(* handlers run in it, and what they call may push another frame.          *)
(***************************************************************************)
EXTENDS Naturals

CONSTANTS
    Certs,          \* the certificates a client or the engine may hand over
    XmlCerts,       \* those that come inside the XML of a VM's display
    UserFiles,      \* files of the client that hold a certificate
    TmpFiles,       \* names g_file_new_tmp may draw
    Vms,            \* slots of the table of VMs
    MaxLoading,     \* bound: asynchronous loads of the CA in flight
    MaxDepth,       \* bound: emissions inside one another; 1 when no handler
                    \* calls back into the proxy
    None,           \* NULL, no file, no certificate
    Partial,        \* the content of a file whose write failed
    NoVm            \* the slot is not in the table

ASSUME DepthAssumption == MaxDepth \in Nat \ {0} /\ MaxLoading \in Nat
ASSUME ValueAssumption ==
    /\ {None, Partial, NoVm} \cap (Certs \cup XmlCerts) = {}
    /\ None # Partial /\ None # NoVm /\ Partial # NoVm
    /\ Certs \cap XmlCerts = {}
ASSUME FileAssumption ==
    /\ None \notin UserFiles \cup TmpFiles
    /\ UserFiles \cap TmpFiles = {}

VARIABLES
    files,          \* the file system: content of every file, None if absent
    sslCaFile,      \* RestProxy's "ssl-ca-file"
    tmpCaFile,      \* priv->tmp_ca_file
    settingCaFile,  \* priv->setting_ca_file
    frozen,         \* is the notification of the proxy frozen?
    queued,         \* properties queued while frozen
    depth,          \* number of emissions in progress
    emitting,       \* per emission: the properties still to be notified
    handling,       \* the emissions that have called a handler
    fetchedCa,      \* per emission: the certificate whose fetch it is part of
    displayCa,      \* priv->display_ca
    display,        \* ca-cert of the display of every VM of the current api
    refreshed,      \* history: VMs refreshed since displays were last filled
    loading,        \* asynchronous fetches of the CA in flight
    wanted,         \* history: the certificate last asked for, None if none
    alive           \* the proxy is not finalized

caVars   == <<files, sslCaFile, tmpCaFile, settingCaFile, wanted>>
noteVars == <<frozen, queued, depth, emitting, handling, fetchedCa>>
vmVars   == <<displayCa, display, refreshed>>
vars     == <<caVars, noteVars, vmVars, loading, alive>>

Files  == UserFiles \cup TmpFiles
Props  == {"ssl-ca-file", "ca-cert"}
Frames == 1..MaxDepth
OptCert == Certs \cup {None}

CaTypeOK ==
    /\ files \in [Files -> OptCert \cup {Partial}]
    /\ \A u \in UserFiles : files[u] \in Certs
    /\ sslCaFile \in Files \cup {None}
    /\ tmpCaFile \in TmpFiles \cup {None}
    /\ wanted \in OptCert

NoteTypeOK ==
    /\ queued \in SUBSET Props
    /\ depth \in 0..MaxDepth
    /\ emitting \in [Frames -> SUBSET Props]
    /\ handling \in SUBSET Frames
    /\ fetchedCa \in [Frames -> OptCert]

VmTypeOK ==
    /\ displayCa \in OptCert
    /\ display \in [Vms -> OptCert \cup XmlCerts \cup {NoVm}]
    /\ refreshed \in SUBSET Vms

TypeOK ==
    /\ CaTypeOK /\ NoteTypeOK /\ VmTypeOK
    /\ loading \in 0..MaxLoading
    /\ {settingCaFile, frozen, alive} \subseteq BOOLEAN

Init ==
    /\ files \in {f \in [Files -> OptCert] :
                     /\ \A u \in UserFiles : f[u] # None
                     /\ \A t \in TmpFiles : f[t] = None}
    /\ sslCaFile = None /\ tmpCaFile = None /\ settingCaFile = FALSE
    /\ wanted = None
    /\ frozen = FALSE /\ queued = {} /\ depth = 0
    /\ emitting = [i \in Frames |-> {}]
    /\ handling = {}
    /\ fetchedCa = [i \in Frames |-> None]
    /\ displayCa = None
    /\ display = [v \in Vms |-> NoVm]
    /\ refreshed = {}
    /\ loading = 0
    /\ alive = TRUE

-----------------------------------------------------------------------------
(* The client's code runs at the top level or in a handler.  Its handlers   *)
(* of "ssl-ca-file" come after ssl_ca_file_changed, connected in _init.     *)
ClientRuns == alive /\ depth < MaxDepth /\ depth \in handling \cup {0}

(* get_ca_cert_data: what reading "ca-cert" gives.                          *)
CaCertData == IF sslCaFile = None THEN None ELSE files[sslCaFile]

(* ovirt_proxy_free_tmp_ca_file: the files once it has unlinked tmpCaFile.  *)
WithoutTmp == [f \in Files |-> IF f = tmpCaFile THEN None ELSE files[f]]

(* A name drawn by g_file_new_tmp: random, so not one ssl-ca-file still has.*)
FreshTmp == {t \in TmpFiles : files[t] = None /\ t # sslCaFile}

\* fault: the previous temporary file is forgotten, not unlinked
SetTmpCaFileLeaks(t, c) ==
    /\ files' = [files EXCEPT ![t] = c]
    /\ tmpCaFile' = t /\ sslCaFile' = t /\ settingCaFile' = TRUE /\ wanted' = c

\* fault: the proxy does not announce its own change to ssl_ca_file_changed
SetTmpCaFileUnannounced(t, c) ==
    /\ files' = [WithoutTmp EXCEPT ![t] = c]
    /\ tmpCaFile' = t /\ sslCaFile' = t /\ wanted' = c
    /\ UNCHANGED settingCaFile

(* ovirt_proxy_set_tmp_ca_file with a file t that write_to_tmp_file has     *)
(* just filled with c.                                                      *)
SetTmpCaFile(t, c) ==
    /\ files' = [WithoutTmp EXCEPT ![t] = c]
    /\ tmpCaFile' = t /\ sslCaFile' = t /\ settingCaFile' = TRUE /\ wanted' = c

\* fault: the change of the other branch is announced as well
UnsetTmpCaFileAnnounces ==
    /\ files' = WithoutTmp
    /\ tmpCaFile' = None /\ settingCaFile' = TRUE /\ wanted' = None
    /\ UNCHANGED sslCaFile

(* ovirt_proxy_set_tmp_ca_file with NULL: ssl-ca-file keeps its path.       *)
UnsetTmpCaFile ==
    /\ files' = WithoutTmp
    /\ tmpCaFile' = None /\ wanted' = None
    /\ UNCHANGED <<sslCaFile, settingCaFile>>

(* write_to_tmp_file fails, when creating the file or when writing it: the  *)
(* incomplete file stays on disk.                                           *)
WriteFails ==
    /\ \/ \E t \in FreshTmp : files' = [files EXCEPT ![t] = Partial]
       \/ UNCHANGED files
    /\ UNCHANGED <<sslCaFile, tmpCaFile, settingCaFile, wanted>>

\* fault: the certificate the XML gave is overwritten
FilledOver(table, c) ==
    [v \in Vms |-> IF table[v] # NoVm /\ c # None THEN c ELSE table[v]]

(* ovirt_proxy_update_vm_display_ca: displays without a CA get c.           *)
Filled(table, c) == [v \in Vms |-> IF table[v] = None THEN c ELSE table[v]]

(* set_display_ca_cert_from_data                                            *)
SetDisplayCa(c) ==
    /\ displayCa' = c
    /\ display' = Filled(display, c)
    /\ refreshed' = {}

(* The thaw, or a notification nobody froze, emits props; c is the          *)
(* certificate of the fetch that waits for the emission to return.          *)
Emit(props, c) ==
    /\ depth' = depth + 1
    /\ emitting' = [emitting EXCEPT ![depth + 1] = props]
    /\ UNCHANGED handling
    /\ fetchedCa' = [fetchedCa EXCEPT ![depth + 1] = c]

-----------------------------------------------------------------------------
(* What the client calls.  g_object_set is Freeze, one action per property  *)
(* set, Thaw; g_object_freeze_notify groups several of them.                *)
Freeze ==
    /\ ClientRuns /\ ~frozen
    /\ frozen' = TRUE
    /\ UNCHANGED <<caVars, queued, depth, emitting, handling, fetchedCa,
                   vmVars, loading, alive>>

Thaw ==
    /\ ClientRuns /\ frozen
    /\ frozen' = FALSE /\ queued' = {}
    /\ IF queued = {} THEN UNCHANGED <<depth, emitting, handling, fetchedCa>>
                      ELSE Emit(queued, None)
    /\ UNCHANGED <<caVars, vmVars, loading, alive>>

(* "ca-cert" is set to a certificate, or to NULL when c is None             *)
(* (set_ca_cert_from_data).                                                 *)
SetCaCert(c) ==
    /\ ClientRuns /\ frozen
    /\ \/ /\ c # None
          /\ \E t \in FreshTmp : SetTmpCaFile(t, c)
          /\ queued' = Props
       \/ /\ c # None
          /\ WriteFails
          /\ queued' = queued \cup {"ca-cert"}
       \/ /\ c = None
          /\ UnsetTmpCaFile
          /\ queued' = queued \cup {"ca-cert"}
    /\ UNCHANGED <<frozen, depth, emitting, handling, fetchedCa, vmVars,
                   loading, alive>>

\* fault: the client's file is taken for the proxy's own
SetSslCaFileOwned(p) ==
    /\ ClientRuns /\ frozen
    /\ sslCaFile' = p /\ tmpCaFile' = p
    /\ wanted' = IF p = None THEN None ELSE files[p]
    /\ queued' = queued \cup {"ssl-ca-file"}
    /\ UNCHANGED <<files, settingCaFile, frozen, depth, emitting,
                   handling, fetchedCa, vmVars, loading, alive>>

(* "ssl-ca-file" is set by the client to a file of its own, or to NULL.     *)
SetSslCaFile(p) ==
    /\ ClientRuns /\ frozen
    /\ sslCaFile' = p
    /\ wanted' = IF p = None THEN None ELSE files[p]
    /\ queued' = queued \cup {"ssl-ca-file"}
    /\ UNCHANGED <<files, tmpCaFile, settingCaFile, frozen, depth, emitting,
                   handling, fetchedCa, vmVars, loading, alive>>

(* The certificate c was read from the engine: set_ca_cert_from_data, whose *)
(* result is ignored, then set_display_ca_cert_from_data.  Unless frozen,   *)
(* the notifications of the first run before the second.                    *)
StoreFetchedCa(c) ==
    \/ /\ frozen
       /\ \E t \in FreshTmp : SetTmpCaFile(t, c)
       /\ queued' = Props
       /\ SetDisplayCa(c)
       /\ UNCHANGED <<frozen, depth, emitting, handling, fetchedCa>>
    \/ /\ ~frozen
       /\ \E t \in FreshTmp : SetTmpCaFile(t, c)
       /\ Emit(Props, c)
       /\ UNCHANGED <<frozen, queued, vmVars>>
    \/ /\ WriteFails
       /\ SetDisplayCa(c)
       /\ UNCHANGED noteVars

(* ovirt_proxy_fetch_ca_certificate; when the load fails nothing changes.   *)
FetchCa(c) ==
    /\ ClientRuns
    /\ StoreFetchedCa(c)
    /\ UNCHANGED <<loading, alive>>

(* ovirt_proxy_fetch_ca_certificate_async: the task keeps the proxy alive.  *)
FetchCaAsync ==
    /\ ClientRuns /\ loading < MaxLoading
    /\ loading' = loading + 1
    /\ UNCHANGED <<caVars, noteVars, vmVars, alive>>

\* fault: nobody listens to the collection
VmsRefreshedUnheard(table) ==
    /\ ClientRuns
    /\ display' = table
    /\ refreshed' = {}
    /\ UNCHANGED <<caVars, noteVars, displayCa, loading, alive>>

(* A collection of VMs of the current api gets a new table: new resources,  *)
(* whose displays have a CA when the XML has one, and vm_collection_changed.*)
VmsRefreshed(table) ==
    /\ ClientRuns
    /\ display' = Filled(table, displayCa)
    /\ refreshed' = {}
    /\ UNCHANGED <<caVars, noteVars, displayCa, loading, alive>>

(* vm_collection_changed runs for the collection of an api that was         *)
(* replaced: it still updates the VMs of the current one.                   *)
OldVmsRefreshed ==
    /\ ClientRuns
    /\ display' = Filled(display, displayCa)
    /\ refreshed' = {}
    /\ UNCHANGED <<caVars, noteVars, displayCa, loading, alive>>

(* A VM is refreshed: its display is replaced by the one of the reply.      *)
VmRefreshed(v, ca) ==
    /\ ClientRuns /\ display[v] # NoVm
    /\ display' = [display EXCEPT ![v] = ca]
    /\ refreshed' = refreshed \cup {v}
    /\ UNCHANGED <<caVars, noteVars, displayCa, loading, alive>>

(* ovirt_proxy_set_api_from_xml: the new api has an empty collection.       *)
SetApi ==
    /\ ClientRuns
    /\ display' = [v \in Vms |-> NoVm]
    /\ refreshed' = {}
    /\ UNCHANGED <<caVars, noteVars, displayCa, loading, alive>>

(* The last reference is dropped: ovirt_proxy_dispose and _finalize.        *)
Finalize ==
    /\ alive /\ depth = 0 /\ ~frozen /\ loading = 0
    /\ alive' = FALSE
    /\ files' = WithoutTmp
    /\ tmpCaFile' = None
    /\ displayCa' = None
    /\ UNCHANGED <<sslCaFile, settingCaFile, wanted, noteVars, display, refreshed, loading>>

-----------------------------------------------------------------------------
(* What the main loop and the notifications run.                            *)

(* ca_file_loaded_cb: the file arrived, or it did not.                      *)
CaFileLoaded(c) ==
    /\ depth = 0 /\ loading > 0
    /\ loading' = loading - 1
    /\ StoreFetchedCa(c)
    /\ UNCHANGED alive

CaFileNotLoaded ==
    /\ depth = 0 /\ loading > 0
    /\ loading' = loading - 1
    /\ UNCHANGED <<caVars, noteVars, vmVars, alive>>

\* fault: the handler does not look at the flag before it unlinks
SslCaFileChangedUnlinks ==
    /\ files' = WithoutTmp
    /\ tmpCaFile' = None
    /\ settingCaFile' = FALSE

(* ssl_ca_file_changed                                                      *)
SslCaFileChanged ==
    \/ /\ settingCaFile
       /\ settingCaFile' = FALSE
       /\ UNCHANGED <<files, tmpCaFile>>
    \/ /\ ~settingCaFile
       /\ files' = WithoutTmp
       /\ tmpCaFile' = None
       /\ UNCHANGED settingCaFile

NotifySslCaFile ==
    /\ depth > 0 /\ ~frozen
    /\ "ssl-ca-file" \in emitting[depth]
    /\ emitting' = [emitting EXCEPT ![depth] = @ \ {"ssl-ca-file"}]
    /\ handling' = handling \cup {depth}
    /\ SslCaFileChanged
    /\ UNCHANGED <<sslCaFile, wanted, frozen, queued, depth, fetchedCa,
                   vmVars, loading, alive>>

(* The proxy itself has no handler for "ca-cert".  A fetch sets the file    *)
(* first and notifies "ca-cert" afterwards.                                 *)
NotifyCaCert ==
    /\ depth > 0 /\ ~frozen
    /\ "ca-cert" \in emitting[depth]
    /\ fetchedCa[depth] # None => "ssl-ca-file" \notin emitting[depth]
    /\ emitting' = [emitting EXCEPT ![depth] = @ \ {"ca-cert"}]
    /\ handling' = handling \cup {depth}
    /\ UNCHANGED <<caVars, frozen, queued, depth, fetchedCa, vmVars, loading, alive>>

(* The emission returns to its caller, which may be a fetch.                *)
Notified ==
    /\ depth > 0 /\ ~frozen
    /\ emitting[depth] = {}
    /\ depth' = depth - 1
    /\ handling' = handling \ {depth}
    /\ fetchedCa' = [fetchedCa EXCEPT ![depth] = None]
    /\ \/ fetchedCa[depth] = None /\ UNCHANGED vmVars
       \/ fetchedCa[depth] # None /\ SetDisplayCa(fetchedCa[depth])
    /\ UNCHANGED <<caVars, frozen, queued, emitting, loading, alive>>

Next ==
    \/ Freeze \/ Thaw
    \/ \E c \in OptCert : SetCaCert(c)
    \/ \E p \in UserFiles \cup {None} : SetSslCaFile(p)
    \/ \E c \in Certs : FetchCa(c) \/ CaFileLoaded(c)
    \/ FetchCaAsync \/ CaFileNotLoaded
    \/ \E table \in [Vms -> XmlCerts \cup {None, NoVm}] : VmsRefreshed(table)
    \/ OldVmsRefreshed
    \/ \E v \in Vms, ca \in XmlCerts \cup {None} : VmRefreshed(v, ca)
    \/ SetApi \/ Finalize
    \/ NotifySslCaFile \/ NotifyCaCert \/ Notified

Spec == Init /\ [][Next]_vars

-----------------------------------------------------------------------------
(* Properties                                                               *)

Quiescent == ~frozen /\ depth = 0

(* The proxy never changes or deletes a file of the client, whatever the    *)
(* order in which "ca-cert", "ssl-ca-file" and fetches set the CA           *)
(* (ovirt_proxy_free_tmp_ca_file unlinks nothing but its own files).        *)
UserFilesIntact ==
    [][\A u \in UserFiles : files'[u] = files[u]]_vars

(* When no notification is under way, the flag is down: a change that was   *)
(* announced and not consumed would hide the client's next change of        *)
(* ssl-ca-file from ssl_ca_file_changed.                                    *)
FlagDrained == Quiescent => ~settingCaFile

(* Every complete temporary file is the one tmp_ca_file remembers, so       *)
(* ovirt_proxy_free_tmp_ca_file and finalize leave no certificate behind.   *)
NoOrphan == \A t \in TmpFiles : files[t] \in Certs => tmpCaFile = t

(* Once a certificate has been asked for, through "ca-cert", "ssl-ca-file"  *)
(* or a fetch, reading "ca-cert" gives it back until something else is      *)
(* asked for: set_ca_cert_from_data and ssl_ca_file_changed keep the file   *)
(* that get_ca_cert_data reads.                                             *)
CaCertReadBack == alive /\ wanted \in Certs => CaCertData = wanted

(* The file ssl-ca-file names is not unlinked under it, except by setting   *)
(* "ca-cert" to NULL and by the finalizer: ssl_ca_file_changed must not     *)
(* take the proxy's own change for somebody else's.                         *)
NamedFileKept ==
    [][\A t \in TmpFiles :
         /\ sslCaFile = t /\ files[t] \in Certs /\ alive'
         /\ sslCaFile' = t /\ wanted' # None
         => files'[t] = files[t]]_vars

(* Installing a new CA for the displays leaves alone those that already     *)
(* have the CA of their own XML (ovirt_proxy_update_vm_display_ca).         *)
KeepsXmlCa ==
    [][displayCa' # displayCa =>
         \A v \in Vms : display[v] \in XmlCerts => display'[v] = display[v]]_vars

(* Once the CA for displays is known, whichever of the CA and the VMs       *)
(* arrived first, only a VM refreshed since then can lack one               *)
(* (set_display_ca_cert_from_data and vm_collection_changed).               *)
DisplaysHaveCa ==
    alive /\ displayCa # None =>
        \A v \in Vms : display[v] = None => v \in refreshed
=============================================================================
