----------------------------- MODULE CdromProofs -----------------------------
(***************************************************************************)
(* Proofs about Cdrom, for any images, CD-ROMs and calls in flight.        *)
(***************************************************************************)
EXTENDS Cdrom, TLAPS

AllCalls == Updates \cup Refreshes \cup {NoCall}

(* What a call that is clean says: an update that its CD-ROM has the file   *)
(* it sent and, once done, the drive too; a refresh what is in the drive.   *)
Tells(r, d, fl) ==
    /\ r \in Updates =>
          /\ r.view = "current"
          /\ r.clean => r.body = ToXml(fl[r.on])
          /\ r.clean /\ r.state = "done" => r.body = d["current"]
    /\ r \in Refreshes =>
          /\ r.view = "current"
          /\ r.clean /\ r.state = "done" => r.says = Says(d["current"])

Answers == \A c \in Calls : Tells(call[c], drive, file)

Inv == TypeOK /\ Answers /\ SettledAgrees

-----------------------------------------------------------------------------
(* The operations on the record of a call.                                 *)
LEMMA Kinds ==
    /\ \A r \in Updates : r \notin Refreshes /\ r # NoCall
    /\ \A r \in Refreshes : r \notin Updates /\ r # NoCall
    /\ NoCall \notin Updates /\ NoCall \notin Refreshes
  <1>1. \A r \in Updates \cup Refreshes : r # NoCall
    <2> SUFFICES ASSUME NEW r \in Updates \cup Refreshes, r = NoCall PROVE FALSE
      OBVIOUS
    <2>1. r.state \in {"sent", "failed", "done"}
      BY DEF Updates, Refreshes
    <2>2. r.state = "none"
      BY DEF NoCall
    <2> QED BY <2>1, <2>2
  <1>2. \A r \in Updates : r \notin Refreshes
    BY DEF Updates, Refreshes
  <1> QED BY <1>1, <1>2

LEMMA Faded ==
    ASSUME NEW r \in Updates \cup Refreshes, NEW s, s = [r EXCEPT !.clean = FALSE]
    PROVE  /\ r \in Updates => s \in Updates
           /\ r \in Refreshes => s \in Refreshes
           /\ s.view = r.view /\ s.state = r.state /\ s.clean = FALSE
  BY DEF Updates, Refreshes

LEMMA UnheardTells ==
    ASSUME Inv, NEW d \in [Views -> Images], NEW c \in Calls
    PROVE  Unheard(d)[c] \in AllCalls /\ Tells(Unheard(d)[c], d, file)
  <1> DEFINE r == call[c]
             s == Unheard(d)[c]
  <1>1. r \in AllCalls /\ Tells(r, drive, file)
    BY DEF Inv, TypeOK, Answers, AllCalls
  <1>2. s = IF Changed(d) /\ Done(c) THEN [r EXCEPT !.clean = FALSE] ELSE r
    BY DEF Unheard
  <1> HIDE DEF r, s
  <1>3. CASE Changed(d) /\ Done(c)
    <2>1. r \in Updates \cup Refreshes
      BY <1>1, <1>3 DEF AllCalls, Done, r
    <2>2. s = [r EXCEPT !.clean = FALSE]
      BY <1>2, <1>3
    <2> QED BY <1>1, <2>1, <2>2, Faded, Kinds DEF AllCalls, Tells, s
  <1>4. CASE ~(Changed(d) /\ Done(c))
    <2>1. s = r
      BY <1>2, <1>4
    <2>2. CASE ~Changed(d)
      BY <1>1, <2>1, <2>2 DEF Changed, Tells, s
    <2>3. CASE ~Done(c)
      <3>1. r = NoCall \/ r.state # "done"
        BY <2>3 DEF Done, r
      <3> QED BY <1>1, <2>1, <3>1, Kinds DEF Tells, s
    <2> QED BY <1>4, <2>2, <2>3
  <1> QED BY <1>3, <1>4

LEMMA UnsentTells ==
    ASSUME Inv, NEW o \in Objs, NEW f, NEW c \in Calls
    PROVE  /\ Unsent(o)[c] \in AllCalls
           /\ Tells(Unsent(o)[c], drive, [file EXCEPT ![o] = f])
  <1> DEFINE r == call[c]
             s == Unsent(o)[c]
             g == [file EXCEPT ![o] = f]
  <1>1. r \in AllCalls /\ Tells(r, drive, file)
    BY DEF Inv, TypeOK, Answers, AllCalls
  <1>2. s = IF Updating(c, o) THEN [r EXCEPT !.clean = FALSE] ELSE r
    BY DEF Unsent
  <1>3. \A p \in Objs \ {o} : g[p] = file[p]
    BY DEF Inv, TypeOK
  <1> HIDE DEF r, s, g
  <1>4. CASE Updating(c, o)
    <2>1. r \in Updates
      BY <1>4 DEF Updating, r
    <2>2. s = [r EXCEPT !.clean = FALSE]
      BY <1>2, <1>4
    <2> QED BY <1>1, <2>1, <2>2, Faded, Kinds DEF AllCalls, Tells, s, g
  <1>5. CASE ~Updating(c, o)
    <2>1. s = r
      BY <1>2, <1>5
    <2>2. r \in Updates => r.on \in Objs \ {o}
      BY <1>5 DEF Updating, Updates, r
    <2> QED BY <1>1, <1>3, <2>1, <2>2 DEF Tells, s, g
  <1> QED BY <1>4, <1>5

LEMMA UnsettledAgrees ==
    ASSUME Inv, NEW d \in [Views -> Images]
    PROVE  /\ Unsettled(d) \subseteq Objs
           /\ \A o \in Unsettled(d) :
                 ToXml(file[o]) = d["current"] \/ (silent /\ d["current"] = Empty)
  BY DEF Inv, TypeOK, SettledAgrees, Unsettled, Changed

(* The drive becomes d and nothing else happens to CD-ROMs and calls.      *)
LEMMA DriveChanges ==
    ASSUME Inv, UNCHANGED <<silent, file>>,
           drive' \in [Views -> Images], call' = Unheard(drive'),
           settled' = Unsettled(drive')
    PROVE  Inv'
  <1>1. TypeOK'
    <2>1. call' \in [Calls -> AllCalls]
      BY UnheardTells DEF Unheard
    <2> QED BY <2>1, UnsettledAgrees DEF Inv, TypeOK, AllCalls
  <1>2. Answers'
    BY UnheardTells DEF Answers, Tells, ToXml, Says
  <1>3. SettledAgrees'
    BY UnsettledAgrees DEF SettledAgrees, ToXml
  <1> QED BY <1>1, <1>2, <1>3 DEF Inv

(* A CD-ROM gets the file f, and no longer agrees with the drive.          *)
LEMMA FileChanges ==
    ASSUME Inv, UNCHANGED <<drive, silent>>,
           NEW o \in Objs, NEW f \in Images \cup {None},
           file' = [file EXCEPT ![o] = f], call' = Unsent(o),
           \/ settled' = settled \ {o}
           \/ /\ settled' = settled \cup {o}
              /\ ToXml(f) = drive["current"] \/ (silent /\ drive["current"] = Empty)
    PROVE  Inv'
  <1>1. TypeOK'
    <2>1. call' \in [Calls -> AllCalls]
      BY UnsentTells DEF Unsent
    <2>2. file' \in [Objs -> Images \cup {None}]
      BY DEF Inv, TypeOK
    <2> QED BY <2>1, <2>2 DEF Inv, TypeOK, AllCalls
  <1>2. Answers'
    <2>1. ASSUME NEW c \in Calls PROVE Tells(call'[c], drive, file')
      BY UnsentTells
    <2> QED BY <2>1 DEF Answers, Tells, ToXml, Says
  <1>3. SettledAgrees'
    <2>1. \A p \in Objs : file'[p] = IF p = o THEN f ELSE file[p]
      BY DEF Inv, TypeOK
    <2>2. settled \subseteq Objs
      BY DEF Inv, TypeOK
    <2> QED BY <2>1, <2>2 DEF Inv, SettledAgrees, ToXml
  <1> QED BY <1>1, <1>2, <1>3 DEF Inv

(* What a refresh reads.                                                   *)
LEMMA ReadBack ==
    ASSUME Inv, NEW f \in Images \cup {None}
    PROVE  LET g == InitFromXml(f, Says(drive["current"])) IN
           /\ g \in Images \cup {None}
           /\ ToXml(g) = drive["current"] \/ (silent /\ drive["current"] = Empty)
  <1>1. drive["current"] \in Images /\ None \notin Images
    BY FilesAssumption DEF Inv, TypeOK, Views, Images
  <1> QED BY <1>1 DEF InitFromXml, Says, ToXml

-----------------------------------------------------------------------------
LEMMA InitInv == Init => Inv
  <1> SUFFICES ASSUME Init PROVE Inv
    OBVIOUS
  <1>1. TypeOK
    BY DEF Init, TypeOK, Says, Views, Images
  <1>2. Answers
    BY Kinds DEF Init, Answers, Tells
  <1>3. SettledAgrees
    BY DEF Init, SettledAgrees
  <1> QED BY <1>1, <1>2, <1>3 DEF Inv

(* A call is replaced by another one, and nothing else happens but that its *)
(* CD-ROM may turn out to agree.                                            *)
LEMMA CallChanges ==
    ASSUME Inv, NEW c \in Calls, NEW r \in AllCalls, Tells(r, drive, file),
           call' = [call EXCEPT ![c] = r],
           UNCHANGED <<drive, silent, file>>,
           \/ settled' = settled
           \/ \E o \in Objs : /\ settled' = settled \cup {o}
                              /\ ToXml(file[o]) = drive["current"]
    PROVE  Inv'
  <1>1. TypeOK'
    BY DEF Inv, TypeOK, AllCalls
  <1>2. Answers'
    <2>1. \A p \in Calls : call'[p] = IF p = c THEN r ELSE call[p]
      BY DEF Inv, TypeOK
    <2> QED BY <2>1 DEF Inv, Answers, Tells, ToXml, Says
  <1>3. SettledAgrees'
    BY DEF Inv, SettledAgrees, ToXml
  <1> QED BY <1>1, <1>2, <1>3 DEF Inv

LEMMA SendInv ==
    ASSUME Inv, NEW c \in Calls, NEW o \in Objs
    PROVE  /\ \A current \in BOOLEAN : UpdateAsync(c, o, current) => Inv'
           /\ RefreshAsync(c, o) => Inv'
  <1>1. ToXml(file[o]) \in Images
    BY DEF Inv, TypeOK, ToXml, Images
  <1>2. \A p : View(p) = "current"
    BY DEF View, AddRestParams
  <1>3. ASSUME NEW current \in BOOLEAN, UpdateAsync(c, o, current) PROVE Inv'
    <2> DEFINE r == [op |-> "update", on |-> o, state |-> "sent",
                     view |-> View(Asked(current)), body |-> ToXml(file[o]),
                     clean |-> TRUE]
    <2>1. r \in Updates /\ r \notin Refreshes
      BY <1>1, <1>2, Kinds DEF Updates, Views
    <2>2. Tells(r, drive, file)
      BY <1>2, <2>1 DEF Tells
    <2>3. call' = [call EXCEPT ![c] = r] /\ UNCHANGED <<drive, silent, file, settled>>
      BY <1>3 DEF UpdateAsync
    <2> HIDE DEF r
    <2> QED BY <2>1, <2>2, <2>3, CallChanges DEF AllCalls
  <1>4. ASSUME RefreshAsync(c, o) PROVE Inv'
    <2> DEFINE r == [op |-> "refresh", on |-> o, state |-> "sent",
                     view |-> View({}), says |-> None, clean |-> TRUE]
    <2>1. r \in Refreshes /\ r \notin Updates
      BY <1>2, Kinds DEF Refreshes, Views
    <2>2. Tells(r, drive, file)
      BY <1>2, <2>1 DEF Tells
    <2>3. call' = [call EXCEPT ![c] = r] /\ UNCHANGED <<drive, silent, file, settled>>
      BY <1>4 DEF RefreshAsync
    <2> HIDE DEF r
    <2> QED BY <2>1, <2>2, <2>3, CallChanges DEF AllCalls
  <1> QED BY <1>3, <1>4

LEMMA ServeRefreshInv ==
    ASSUME Inv, NEW c \in Calls, ServeRefresh(c) PROVE Inv'
  <1> DEFINE r == call[c]
             s == [r EXCEPT !.state = "done", !.says = Says(drive["current"])]
  <1>1. r \in Refreshes /\ r.view = "current"
    BY Kinds DEF ServeRefresh, Inv, Answers, Tells
  <1>2. Says(drive["current"]) \in Images \cup {None}
    BY DEF Inv, TypeOK, Says, Views
  <1>3. /\ s \in Refreshes /\ s \notin Updates
        /\ s.view = "current" /\ s.says = Says(drive["current"])
    <2>1. /\ s \in Refreshes
          /\ s.view = r.view /\ s.says = Says(drive["current"])
      BY <1>1, <1>2 DEF Refreshes
    <2> QED BY <1>1, <2>1, Kinds
  <1>4. call' = [call EXCEPT ![c] = s] /\ UNCHANGED <<drive, silent, file, settled>>
    BY <1>1 DEF ServeRefresh
  <1> HIDE DEF r, s
  <1>5. Tells(s, drive, file)
    BY <1>3 DEF Tells
  <1> QED BY <1>3, <1>4, <1>5, CallChanges DEF AllCalls

LEMMA FailInv == ASSUME Inv, NEW c \in Calls, Fail(c) PROVE Inv'
  <1> DEFINE r == call[c]
             s == [r EXCEPT !.state = "failed"]
  <1>1. r \in Updates \cup Refreshes /\ Tells(r, drive, file)
    BY DEF Fail, Inv, TypeOK, Answers
  <1>2. /\ r \in Updates => s \in Updates /\ s.on = r.on /\ s.body = r.body
        /\ r \in Refreshes => s \in Refreshes
        /\ s.view = r.view /\ s.state = "failed" /\ s.clean = r.clean
    BY <1>1 DEF Updates, Refreshes
  <1>3. call' = [call EXCEPT ![c] = s] /\ UNCHANGED <<drive, silent, file, settled>>
    BY DEF Fail
  <1> HIDE DEF r, s
  <1>4. Tells(s, drive, file)
    BY <1>1, <1>2, Kinds DEF Tells
  <1> QED BY <1>1, <1>2, <1>3, <1>4, CallChanges DEF AllCalls

LEMMA UpdateCbInv == ASSUME Inv, NEW c \in Calls, UpdateAsyncCb(c) PROVE Inv'
  <1>1. /\ call[c] \in Updates /\ call[c].state = "done"
        /\ call' = [call EXCEPT ![c] = NoCall] /\ UNCHANGED <<drive, silent, file>>
        /\ settled' = IF call[c].clean THEN settled \cup {call[c].on} ELSE settled
    BY DEF UpdateAsyncCb
  <1>2. call[c].on \in Objs
    BY <1>1 DEF Updates
  <1>3. call[c].clean => ToXml(file[call[c].on]) = drive["current"]
    BY <1>1 DEF Inv, Answers, Tells
  <1>4. Tells(NoCall, drive, file)
    BY Kinds DEF Tells
  <1> QED BY <1>1, <1>2, <1>3, <1>4, CallChanges DEF AllCalls

LEMMA FailedCbInv == ASSUME Inv, NEW c \in Calls, FailedCb(c) PROVE Inv'
  <1>1. Tells(NoCall, drive, file)
    BY Kinds DEF Tells
  <1> QED BY <1>1, CallChanges DEF FailedCb, AllCalls

(* The answer of a refresh is written: the file changes, the call ends.    *)
LEMMA RefreshCbInv == ASSUME Inv, NEW c \in Calls, RefreshAsyncCb(c) PROVE Inv'
  <1> DEFINE o == call[c].on
             f == InitFromXml(file[o], call[c].says)
  <1>1. /\ call[c] \in Refreshes /\ call[c].state = "done"
        /\ file' = [file EXCEPT ![o] = f]
        /\ call' = [Unsent(o) EXCEPT ![c] = NoCall]
        /\ settled' = IF call[c].clean THEN settled \cup {o} ELSE settled \ {o}
        /\ UNCHANGED <<drive, silent>>
    BY DEF RefreshAsyncCb
  <1>2. o \in Objs /\ call[c].says \in Images \cup {None}
    BY <1>1 DEF Refreshes
  <1>3. file[o] \in Images \cup {None}
    BY <1>2 DEF Inv, TypeOK
  <1>4. f \in Images \cup {None}
    BY <1>2, <1>3 DEF InitFromXml
  <1>5. call[c].clean => \/ ToXml(f) = drive["current"]
                         \/ (silent /\ drive["current"] = Empty)
    <2>1. call[c].clean => call[c].says = Says(drive["current"])
      BY <1>1 DEF Inv, Answers, Tells
    <2> QED BY <1>3, <2>1, ReadBack
  <1> HIDE DEF o, f
  <1>6. TypeOK'
    <2>1. \A p \in Calls : Unsent(o)[p] \in AllCalls
      BY <1>2, UnsentTells
    <2>2. call' \in [Calls -> AllCalls]
      BY <1>1, <2>1 DEF AllCalls, Unsent
    <2>3. file' \in [Objs -> Images \cup {None}]
      BY <1>1, <1>4 DEF Inv, TypeOK
    <2> QED BY <1>1, <1>2, <2>2, <2>3 DEF Inv, TypeOK, AllCalls
  <1>7. Answers'
    <2>1. ASSUME NEW p \in Calls PROVE Tells(call'[p], drive, file')
      <3>1. Tells(Unsent(o)[p], drive, file')
        BY <1>1, <1>2, UnsentTells
      <3>2. Tells(NoCall, drive, file')
        BY Kinds DEF Tells
      <3>3. call'[p] = IF p = c THEN NoCall ELSE Unsent(o)[p]
        BY <1>1 DEF Unsent
      <3> QED BY <3>1, <3>2, <3>3
    <2> QED BY <1>1, <2>1 DEF Answers, Tells, ToXml, Says
  <1>8. SettledAgrees'
    <2>1. \A p \in Objs : file'[p] = IF p = o THEN f ELSE file[p]
      BY <1>1 DEF Inv, TypeOK
    <2>2. settled \subseteq Objs
      BY DEF Inv, TypeOK
    <2> QED BY <1>1, <1>2, <1>5, <2>1, <2>2 DEF Inv, SettledAgrees, ToXml
  <1> QED BY <1>6, <1>7, <1>8 DEF Inv

(* An update is carried out: the drive changes, the call is answered.      *)
LEMMA ServeUpdateInv ==
    ASSUME Inv, NEW c \in Calls, NEW heard \in BOOLEAN, ServeUpdate(c, heard)
    PROVE  Inv'
  <1> DEFINE r == call[c]
             d == Inserted(r.view, r.body)
             u == Unheard(d)[c]
             s == [u EXCEPT !.state = IF heard THEN "done" ELSE "failed"]
  <1>1. /\ r \in Updates /\ r.state = "sent" /\ drive' = d
        /\ settled' = Unsettled(d) /\ UNCHANGED <<silent, file>>
    BY DEF ServeUpdate
  <1>2. r.view = "current" /\ r.body \in Images /\ (r.clean => r.body = ToXml(file[r.on]))
    BY <1>1 DEF Inv, Answers, Tells, Updates
  <1>3. d \in [Views -> Images] /\ d["current"] = r.body
    BY <1>2 DEF Inserted, Inv, TypeOK, Views
  <1>4. u = r
    BY <1>1 DEF Unheard, Done
  <1>5. /\ s \in Updates /\ s.view = r.view /\ s.on = r.on /\ s.body = r.body
        /\ s.clean = r.clean
    BY <1>1, <1>4 DEF Updates
  <1>6. call' = [Unheard(d) EXCEPT ![c] = s]
    BY DEF ServeUpdate, Unheard
  <1> HIDE DEF r, d, u, s
  <1>7. s \notin Refreshes
    BY <1>5, Kinds
  <1>8. Tells(s, d, file)
    BY <1>2, <1>3, <1>5, <1>7 DEF Tells
  <1>9. \A p \in Calls : call'[p] = IF p = c THEN s ELSE Unheard(d)[p]
    BY <1>6 DEF Unheard
  <1>10. \A p \in Calls : call'[p] \in AllCalls /\ Tells(call'[p], d, file)
    BY <1>3, <1>5, <1>8, <1>9, UnheardTells DEF AllCalls
  <1>11. call' = [p \in Calls |-> call'[p]]
    BY <1>6 DEF Unheard
  <1>12. TypeOK'
    <2>1. call' \in [Calls -> AllCalls]
      BY <1>10, <1>11
    <2> QED BY <1>1, <1>3, <2>1, UnsettledAgrees DEF Inv, TypeOK, AllCalls
  <1>13. Answers'
    BY <1>1, <1>10 DEF Answers, Tells, ToXml, Says
  <1>14. SettledAgrees'
    BY <1>1, <1>3, UnsettledAgrees DEF SettledAgrees, ToXml
  <1> QED BY <1>12, <1>13, <1>14 DEF Inv

LEMMA UpdateSyncInv ==
    ASSUME Inv, NEW o \in Objs, NEW current \in BOOLEAN, NEW heard \in BOOLEAN,
           UpdateSync(o, current, heard)
    PROVE  Inv'
  <1> DEFINE d == Inserted(View(Asked(current)), ToXml(file[o]))
  <1>1. /\ drive' = d /\ call' = Unheard(d) /\ UNCHANGED <<silent, file>>
        /\ settled' = IF heard THEN Unsettled(d) \cup {o} ELSE Unsettled(d)
    BY DEF UpdateSync
  <1>2. ToXml(file[o]) \in Images
    BY DEF Inv, TypeOK, ToXml, Images
  <1>3. d \in [Views -> Images] /\ d["current"] = ToXml(file[o])
    BY <1>2 DEF Inserted, View, AddRestParams, Inv, TypeOK, Views
  <1> HIDE DEF d
  <1>4. TypeOK'
    <2>1. call' \in [Calls -> AllCalls]
      BY <1>1, <1>3, UnheardTells DEF Unheard
    <2> QED BY <1>1, <1>3, <2>1, UnsettledAgrees DEF Inv, TypeOK, AllCalls
  <1>5. Answers'
    BY <1>1, <1>3, UnheardTells DEF Answers, Tells, ToXml, Says
  <1>6. SettledAgrees'
    BY <1>1, <1>3, UnsettledAgrees DEF SettledAgrees, ToXml
  <1> QED BY <1>4, <1>5, <1>6 DEF Inv

LEMMA RefreshSyncInv == ASSUME Inv, NEW o \in Objs, RefreshSync(o) PROVE Inv'
  <1> DEFINE f == InitFromXml(file[o], Says(drive["current"]))
  <1>1. file[o] \in Images \cup {None}
    BY DEF Inv, TypeOK
  <1>2. /\ f \in Images \cup {None}
        /\ ToXml(f) = drive["current"] \/ (silent /\ drive["current"] = Empty)
    BY <1>1, ReadBack
  <1>3. /\ file' = [file EXCEPT ![o] = f] /\ call' = Unsent(o)
        /\ settled' = settled \cup {o} /\ UNCHANGED <<drive, silent>>
    BY DEF RefreshSync, View, AddRestParams
  <1> HIDE DEF f
  <1> QED BY <1>2, <1>3, FileChanges

LEMMA SetFileInv ==
    ASSUME Inv, NEW o \in Objs, NEW f \in Images \cup {None}, SetFile(o, f)
    PROVE  Inv'
  BY FileChanges DEF SetFile

(* No call is on the CD-ROM that is replaced.                              *)
LEMMA RelistInv == ASSUME Inv, NEW o \in Objs, Relist(o) PROVE Inv'
  <1> DEFINE f == InitFromXml(None, Says(drive["stored"]))
  <1>1. /\ file' = [file EXCEPT ![o] = f] /\ settled' = settled \ {o}
        /\ UNCHANGED <<drive, silent, call>>
        /\ \A c \in Calls : call[c] # NoCall => call[c].on # o
    BY DEF Relist
  <1>2. f \in Images \cup {None}
    BY DEF InitFromXml, Says, Inv, TypeOK, Views
  <1>3. call' = Unsent(o)
    <2>1. \A c \in Calls : ~Updating(c, o)
      BY <1>1, Kinds DEF Updating
    <2>2. call = [c \in Calls |-> call[c]]
      BY DEF Inv, TypeOK
    <2> QED BY <1>1, <2>1, <2>2 DEF Unsent
  <1> HIDE DEF f
  <1> QED BY <1>1, <1>2, <1>3, FileChanges

LEMMA NextInv == Inv /\ [Next]_vars => Inv'
  <1> SUFFICES ASSUME Inv, [Next]_vars PROVE Inv'
    OBVIOUS
  <1>1. CASE EngineChanges
    BY <1>1, DriveChanges DEF EngineChanges
  <1>2. ASSUME NEW o \in Objs, Relist(o) \/ RefreshSync(o) PROVE Inv'
    BY <1>2, RelistInv, RefreshSyncInv
  <1>3. ASSUME NEW o \in Objs, NEW f \in Images \cup {None}, SetFile(o, f) PROVE Inv'
    BY <1>3, SetFileInv
  <1>4. ASSUME NEW o \in Objs, NEW current \in BOOLEAN, NEW heard \in BOOLEAN,
               UpdateSync(o, current, heard)
        PROVE  Inv'
    BY <1>4, UpdateSyncInv
  <1>5. ASSUME NEW c \in Calls, NEW o \in Objs, NEW current \in BOOLEAN,
               UpdateAsync(c, o, current) \/ RefreshAsync(c, o)
        PROVE  Inv'
    BY <1>5, SendInv
  <1>6. ASSUME NEW c \in Calls, NEW heard \in BOOLEAN, ServeUpdate(c, heard) PROVE Inv'
    BY <1>6, ServeUpdateInv
  <1>7. ASSUME NEW c \in Calls, ServeRefresh(c) \/ Fail(c) PROVE Inv'
    BY <1>7, ServeRefreshInv, FailInv
  <1>8. ASSUME NEW c \in Calls, UpdateAsyncCb(c) \/ RefreshAsyncCb(c) \/ FailedCb(c)
        PROVE  Inv'
    BY <1>8, UpdateCbInv, RefreshCbInv, FailedCbInv
  <1>9. CASE UNCHANGED vars
    BY <1>9 DEF vars, Inv, TypeOK, Answers, Tells, SettledAgrees, ToXml, Says
  <1> QED
    BY <1>1, <1>2, <1>3, <1>4, <1>5, <1>6, <1>7, <1>8, <1>9 DEF Next

(* The type invariant: the engine never gets a body without an image name,  *)
(* although a CD-ROM without a file has none (ovirt-cdrom.c:142).           *)
THEOREM Typing == Spec => []TypeOK
  <1>1. Inv => TypeOK
    BY DEF Inv
  <1> QED BY <1>1, InitInv, NextInv, PTL DEF Spec

(* After an update or refresh that ended well a CD-ROM agrees with the      *)
(* drive until one of the two is changed, for any number of CD-ROMs and     *)
(* calls, executed and answered in any order (ovirt_cdrom_update_async,     *)
(* ovirt_resource_refresh_async, ovirt_cdrom_add_rest_params).              *)
THEOREM SettledAgreesSafe == Spec => []SettledAgrees
  <1>1. Inv => SettledAgrees
    BY DEF Inv
  <1> QED BY <1>1, InitInv, NextInv, PTL DEF Spec

-----------------------------------------------------------------------------
(* No call of a client changes what the VM is started with: whichever      *)
(* argument an update got, and also one that was sent before the drive was *)
(* changed by others and is carried out after it.                          *)
StoredKept ==
    [][drive'["stored"] = drive["stored"] \/ EngineChanges]_vars

(* The argument "current" of ovirt_cdrom_update makes no difference, since *)
(* the class adds that parameter to each request (ovirt-cdrom.c:255): an   *)
(* update meant for the next start changes the drive of now instead.       *)
THEOREM StoredKeptSafe == Spec => StoredKept
  <1>1. ASSUME Inv, NEW d \in Images PROVE Inserted("current", d)["stored"] = drive["stored"]
    BY <1>1 DEF Inserted, Inv, TypeOK, Views
  <1>2. ASSUME Inv, NEW c \in Calls, NEW heard \in BOOLEAN, ServeUpdate(c, heard)
        PROVE  drive'["stored"] = drive["stored"]
    <2>1. call[c].view = "current" /\ call[c].body \in Images
      BY <1>2 DEF ServeUpdate, Inv, Answers, Tells, Updates
    <2>2. drive' = Inserted("current", call[c].body)
      BY <1>2, <2>1 DEF ServeUpdate
    <2> QED BY <1>1, <1>2, <2>1, <2>2
  <1>3. ASSUME Inv, NEW o \in Objs, NEW current \in BOOLEAN, NEW heard \in BOOLEAN,
               UpdateSync(o, current, heard)
        PROVE  drive'["stored"] = drive["stored"]
    <2>1. ToXml(file[o]) \in Images
      BY <1>3 DEF Inv, TypeOK, ToXml, Images
    <2>2. drive' = Inserted("current", ToXml(file[o]))
      BY <1>3 DEF UpdateSync, View, AddRestParams
    <2> QED BY <1>1, <1>3, <2>1, <2>2
  <1>4. ASSUME Inv, [Next]_vars
        PROVE  drive'["stored"] = drive["stored"] \/ EngineChanges
    <2>1. \A o \in Objs : /\ Relist(o) \/ RefreshSync(o) => drive' = drive
                         /\ \A f \in Images \cup {None} : SetFile(o, f) => drive' = drive
      BY DEF Relist, RefreshSync, SetFile
    <2>2. \A c \in Calls, o \in Objs, current \in BOOLEAN :
              UpdateAsync(c, o, current) \/ RefreshAsync(c, o) => drive' = drive
      BY DEF UpdateAsync, RefreshAsync
    <2>3. \A c \in Calls :
              /\ ServeRefresh(c) \/ Fail(c) => drive' = drive
              /\ UpdateAsyncCb(c) \/ RefreshAsyncCb(c) \/ FailedCb(c) => drive' = drive
      BY DEF ServeRefresh, Fail, UpdateAsyncCb, RefreshAsyncCb, FailedCb
    <2>4. UNCHANGED vars => drive' = drive
      BY DEF vars
    <2> QED BY <1>2, <1>3, <1>4, <2>1, <2>2, <2>3, <2>4 DEF Next
  <1>5. Inv /\ [Next]_vars => [drive'["stored"] = drive["stored"] \/ EngineChanges]_vars
    BY <1>4
  <1> QED BY <1>5, InitInv, NextInv, PTL DEF Spec, StoredKept
=============================================================================
