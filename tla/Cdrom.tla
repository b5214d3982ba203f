-------------------------------- MODULE Cdrom --------------------------------
(***************************************************************************)
(* The CD-ROM of a VM (govirt/ovirt-cdrom.c) and the requests made on it   *)
(* (ovirt-resource-rest-call.c, ovirt-resource.c).  The client has objects *)
(* for the drive: one of each listing it took.  It sets their file, sends  *)
(* it (an update) and reads it back (a refresh), while the engine, other   *)
(* users, and its own calls change what is in the drive.                   *)
(*                                                                         *)
(* The engine has two views of a drive: what is in it now, and what is     *)
(* stored for the next start of the VM.  The parameter "current" in the    *)
(* address of a request says which one is meant.                           *)
(***************************************************************************)
CONSTANTS
    Files,          \* the images
    Odd,            \* those whose name, put into XML as it is, breaks it
    Objs,           \* the client's CD-ROMs, all of one drive
    Calls,          \* calls in flight at once
    Empty,          \* the name "": no image
    None            \* NULL, and a node that is not there

ASSUME FilesAssumption ==
    /\ Odd \subseteq Files
    /\ Empty \notin Files /\ None \notin Files /\ Empty # None

VARIABLES
    drive,          \* the engine's: the image in each view
    silent,         \* does it leave out the <file> of a drive that is empty?
    file,           \* priv->file of each CD-ROM
    call,           \* the calls that are under way
    settled         \* history: CD-ROMs that have been in agreement with the
                    \* drive, and neither has changed since

vars == <<drive, silent, file, call, settled>>

Images == Files \cup {Empty}
Views  == {"current", "stored"}

NoCall == [state |-> "none"]

Updates ==
    [op : {"update"}, on : Objs, state : {"sent", "failed", "done"},
     view : Views, body : Images, clean : BOOLEAN]
Refreshes ==
    [op : {"refresh"}, on : Objs, state : {"sent", "failed", "done"},
     view : Views, says : Images \cup {None}, clean : BOOLEAN]

TypeOK ==
    /\ drive \in [Views -> Images]
    /\ silent \in BOOLEAN
    /\ file \in [Objs -> Images \cup {None}]
    /\ call \in [Calls -> Updates \cup Refreshes \cup {NoCall}]
    /\ settled \subseteq Objs

-----------------------------------------------------------------------------
\* fault: NULL is printed
ToXmlNull(f) == f

(* ovirt_cdrom_to_xml: the image that the body of a request names.         *)
ToXml(f) == IF f = None THEN Empty ELSE f

\* fault: only an update whose caller says so is about the drive of now
AddRestParamsNone == {}

(* ovirt_cdrom_add_rest_params: the parameters that every request on a     *)
(* CD-ROM gets when it is sent, also those that are not updates.           *)
AddRestParams == {"current"}

(* The parameters append_params puts into the address, given those the     *)
(* caller added, and the view that the engine takes them for.              *)
View(params) == IF "current" \in params \cup AddRestParams THEN "current" ELSE "stored"

(* The argument of ovirt_cdrom_update.                                     *)
Asked(current) == IF current THEN {"current"} ELSE {}

(* ovirt_cdrom_init_from_xml: a file that is not there changes nothing.    *)
InitFromXml(f, says) == IF says = None THEN f ELSE says

(* What the engine's XML has for a drive.                                  *)
Says(image) == IF image = Empty /\ silent THEN None ELSE image

-----------------------------------------------------------------------------
Updating(c, o)   == call[c] \in Updates /\ call[c].on = o
Done(c)          == call[c] # NoCall /\ call[c].state = "done"

(* A CD-ROM gets another file: an update of it no longer tells what it has. *)
Unsent(o) ==
    [c \in Calls |-> IF Updating(c, o) THEN [call[c] EXCEPT !.clean = FALSE] ELSE call[c]]

(* What is in the drive becomes d: no answer tells any longer, and no       *)
(* CD-ROM agrees, unless it is what was there.                              *)
Changed(d) == d["current"] # drive["current"]

Unheard(d) ==
    [c \in Calls |-> IF Changed(d) /\ Done(c) THEN [call[c] EXCEPT !.clean = FALSE]
                     ELSE call[c]]

Unsettled(d) == IF Changed(d) THEN {} ELSE settled

Init ==
    /\ drive \in [Views -> Images]
    /\ silent \in BOOLEAN
    /\ file = [o \in Objs |-> Says(drive["stored"])]
    /\ call = [c \in Calls |-> NoCall]
    /\ settled = {}

(* Another user, or the start of the VM.                                   *)
EngineChanges ==
    /\ drive' \in [Views -> Images] \ {drive}
    /\ call' = Unheard(drive')
    /\ settled' = Unsettled(drive')
    /\ UNCHANGED <<silent, file>>

(* The client drops a CD-ROM no call is on, lists the drive again and has a *)
(* new one.  The address of a collection has no parameters.                *)
Relist(o) ==
    /\ \A c \in Calls : call[c] # NoCall => call[c].on # o
    /\ file' = [file EXCEPT ![o] = InitFromXml(None, Says(drive["stored"]))]
    /\ settled' = settled \ {o}
    /\ UNCHANGED <<drive, silent, call>>

(* The client sets the property "file".                                    *)
SetFile(o, f) ==
    /\ file' = [file EXCEPT ![o] = f]
    /\ call' = Unsent(o)
    /\ settled' = settled \ {o}
    /\ UNCHANGED <<drive, silent>>

-----------------------------------------------------------------------------
(* ovirt_cdrom_update_async, and ovirt_resource_update_async, which is the  *)
(* one that is not asked for the drive of now.  The body is made of the     *)
(* file of this moment.                                                     *)
UpdateAsync(c, o, current) ==
    /\ call[c] = NoCall
    /\ call' = [call EXCEPT ![c] =
                  [op |-> "update", on |-> o, state |-> "sent",
                   view |-> View(Asked(current)), body |-> ToXml(file[o]),
                   clean |-> TRUE]]
    /\ UNCHANGED <<drive, silent, file, settled>>

(* ovirt_resource_refresh_async                                            *)
RefreshAsync(c, o) ==
    /\ call[c] = NoCall
    /\ call' = [call EXCEPT ![c] =
                  [op |-> "refresh", on |-> o, state |-> "sent",
                   view |-> View({}), says |-> None, clean |-> TRUE]]
    /\ UNCHANGED <<drive, silent, file, settled>>

Inserted(view, body) == [drive EXCEPT ![view] = body]

(* The engine carries out an update whose body is XML; its answer may get   *)
(* lost.                                                                    *)
ServeUpdate(c, heard) ==
    /\ call[c] \in Updates /\ call[c].state = "sent"
    /\ call[c].body \notin Odd
    /\ LET d == Inserted(call[c].view, call[c].body) IN
       /\ drive' = d
       /\ call' = [Unheard(d) EXCEPT ![c].state = IF heard THEN "done" ELSE "failed"]
       /\ settled' = Unsettled(d)
    /\ UNCHANGED <<silent, file>>

(* The engine answers a refresh.                                           *)
ServeRefresh(c) ==
    /\ call[c] \in Refreshes /\ call[c].state = "sent"
    /\ call' = [call EXCEPT ![c].state = "done", ![c].says = Says(drive[call[c].view])]
    /\ UNCHANGED <<drive, silent, file, settled>>

(* The engine refuses it, the connection fails, or the client cancels.     *)
Fail(c) ==
    /\ call[c] # NoCall /\ call[c].state = "sent"
    /\ call' = [call EXCEPT ![c].state = "failed"]
    /\ UNCHANGED <<drive, silent, file, settled>>

(* call_async_cb on the answer of an update: nothing is written.           *)
UpdateAsyncCb(c) ==
    /\ call[c] \in Updates /\ call[c].state = "done"
    /\ call' = [call EXCEPT ![c] = NoCall]
    /\ settled' = IF call[c].clean THEN settled \cup {call[c].on} ELSE settled
    /\ UNCHANGED <<drive, silent, file>>

(* ovirt_resource_refresh_async_cb                                         *)
RefreshAsyncCb(c) ==
    LET o == call[c].on IN
    /\ call[c] \in Refreshes /\ call[c].state = "done"
    /\ file' = [file EXCEPT ![o] = InitFromXml(@, call[c].says)]
    /\ call' = [Unsent(o) EXCEPT ![c] = NoCall]
    /\ settled' = IF call[c].clean THEN settled \cup {o} ELSE settled \ {o}
    /\ UNCHANGED <<drive, silent>>

(* call_async_cb on a call that failed.                                    *)
FailedCb(c) ==
    /\ call[c] # NoCall /\ call[c].state = "failed"
    /\ call' = [call EXCEPT ![c] = NoCall]
    /\ UNCHANGED <<drive, silent, file, settled>>

(* ovirt_cdrom_update, ovirt_resource_update: the client waits.            *)
UpdateSync(o, current, heard) ==
    LET d == Inserted(View(Asked(current)), ToXml(file[o])) IN
    /\ ToXml(file[o]) \notin Odd
    /\ drive' = d
    /\ call' = Unheard(d)
    /\ settled' = IF heard THEN Unsettled(d) \cup {o} ELSE Unsettled(d)
    /\ UNCHANGED <<silent, file>>

(* ovirt_resource_refresh                                                  *)
RefreshSync(o) ==
    /\ file' = [file EXCEPT ![o] = InitFromXml(@, Says(drive[View({})]))]
    /\ call' = Unsent(o)
    /\ settled' = settled \cup {o}
    /\ UNCHANGED <<drive, silent>>

Next ==
    \/ EngineChanges
    \/ \E o \in Objs :
          \/ Relist(o) \/ RefreshSync(o)
          \/ \E f \in Images \cup {None} : SetFile(o, f)
          \/ \E current, heard \in BOOLEAN : UpdateSync(o, current, heard)
    \/ \E c \in Calls :
          \/ \E o \in Objs, current \in BOOLEAN : UpdateAsync(c, o, current)
          \/ \E o \in Objs : RefreshAsync(c, o)
          \/ \E heard \in BOOLEAN : ServeUpdate(c, heard)
          \/ ServeRefresh(c) \/ Fail(c)
          \/ UpdateAsyncCb(c) \/ RefreshAsyncCb(c) \/ FailedCb(c)

Spec == Init /\ [][Next]_vars

-----------------------------------------------------------------------------
(* After an update or a refresh that ended well, a CD-ROM has the image    *)
(* that is in the drive, whatever else was under way, as long as nobody    *)
(* sets the one or changes the other: whichever argument the update got,   *)
(* and although the file may have been set, and the drive changed, between *)
(* the call, its execution and its answer.  The exception is an engine     *)
(* that leaves the <file> of an empty drive out: the name of the image that *)
(* was ejected then stays (ovirt-cdrom.c:115, ovirt-utils.c:174), and the   *)
(* next update puts it back.                                                *)
SettledAgrees ==
    \A o \in settled :
        \/ ToXml(file[o]) = drive["current"]
        \/ silent /\ drive["current"] = Empty
=============================================================================
