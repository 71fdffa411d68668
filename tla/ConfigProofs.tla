---------------------------- MODULE ConfigProofs ----------------------------
(***************************************************************************)
(* Proofs about ConfigXML for any elements, texts and number of requests.  *)
(* LockedInv is inductive: whoever is past the lock is alone, so the       *)
(* document it has read is the one in place.                               *)
(***************************************************************************)
EXTENDS ConfigXML, TLAPS

\* An edit changes only elements that it names.
LEMMA EditedDoc ==
  ASSUME NEW e \in Edits, NEW d \in Docs
  PROVE  /\ Edited(e, d) \in Docs
         /\ \A k \in Keys \ e.keys : Edited(e, d)[k] = d[k]
<1>1. e.value \in Values \cup {None} BY DEF Edits
<1> QED BY <1>1 DEF Edited, Docs, Matched

\* The fields of a request that has just been accepted.
LEMMA OpeningType ==
  ASSUME NEW label \in Labels, NEW keys \in SUBSET Keys, NEW doc \in Docs \cup {None}
  PROVE  /\ Opening(label, keys, doc) \in ReqTypes
         /\ Opening(label, keys, doc).at = "open" /\ Opening(label, keys, doc).label = label
         /\ Opening(label, keys, doc).keys = keys /\ Opening(label, keys, doc).doc = doc
  BY DEF Opening, Off, ReqTypes

\* The fields of a request that is not there.
LEMMA OffType == Off \in ReqTypes /\ Off.at = "off"
  BY DEF Off, ReqTypes

\* A request that ends leaves the others as they are and releases what it holds.
LEMMA Returns ==
  ASSUME TypeOK, NEW r \in Requests, Return(r)
  PROVE  /\ req' \in [Requests -> ReqTypes] /\ mu' \in Requests \cup {None}
         /\ req'[r].at = "off"
         /\ \A q \in Requests : q # r => req'[q] = req[q]
         /\ mu' = mu \/ (mu = r /\ mu' = None)
  BY OffType DEF Return, TypeOK

-----------------------------------------------------------------------------
(* TypeOK                                                                  *)

\* The first step of a request keeps the types.
LEMMA TypeStarts ==
  ASSUME TypeOK, NEW r \in Requests
  PROVE  /\ \A e \in Edits : Edit(r, e) => TypeOK'
         /\ BackupConfigXML(r) => TypeOK'
         /\ \A d \in Docs : Put(r, d) => TypeOK'
<1>1. ASSUME NEW e \in Edits, Edit(r, e) PROVE TypeOK'
  <2>1. e.label \in Labels /\ e.keys \in SUBSET Keys
    BY ConfigAssumption DEF Edits, Labels
  <2>2. Edited(e, config) \in Docs BY EditedDoc DEF TypeOK
  <2>3. Opening(e.label, e.keys, Edited(e, config)) \in ReqTypes
        /\ Opening(e.label, e.keys, Edited(e, config)).at = "open"
        /\ Opening(e.label, e.keys, Edited(e, config)).label = e.label
    BY <2>1, <2>2, OpeningType
  <2> QED BY <1>1, <2>1, <2>3 DEF Edit, TypeOK, disk
<1>2. ASSUME BackupConfigXML(r) PROVE TypeOK'
  <2>1. "explicit" \in Labels /\ {} \in SUBSET Keys BY DEF Labels
  <2>2. Opening("explicit", {}, None) \in ReqTypes
        /\ Opening("explicit", {}, None).at = "open"
        /\ Opening("explicit", {}, None).label = "explicit"
    BY <2>1, OpeningType
  <2> QED BY <1>2, <2>1, <2>2 DEF BackupConfigXML, TypeOK, disk
<1>3. ASSUME NEW d \in Docs, Put(r, d) PROVE TypeOK'
  <2>1. "bak" \in Labels /\ Keys \in SUBSET Keys BY DEF Labels
  <2>2. Opening("bak", Keys, d) \in ReqTypes
        /\ Opening("bak", Keys, d).at = "open" /\ Opening("bak", Keys, d).label = "bak"
    BY <2>1, OpeningType
  <2> QED BY <1>3, <2>1, <2>2 DEF Put, TypeOK, disk
<1> QED BY <1>1, <1>2, <1>3

\* So do its later ones.
LEMMA TypeSteps ==
  ASSUME TypeOK, NEW r \in Requests
  PROVE  (Open(r) \/ Keep(r) \/ Install(r)) => TypeOK'
<1>1. req[r] \in ReqTypes BY DEF TypeOK
<1>2. ASSUME Open(r) PROVE TypeOK'
  <2>1. CASE Return(r) BY <1>2, <2>1, Returns DEF Open, TypeOK, disk
  <2>2. CASE ~Return(r)
    <3> DEFINE new == [req[r] EXCEPT !.at = "keep", !.src = config, !.name = <<now, req[r].label>>]
    <3>1. req' = [req EXCEPT ![r] = new] /\ mu' = mu BY <1>2, <2>2 DEF Open
    <3>2. req[r].label \in Labels BY <1>2 DEF Open, TypeOK
    <3>3. <<now, req[r].label>> \in Names BY <3>2 DEF Names, TypeOK
    <3>4. new \in ReqTypes /\ new.at = "keep" /\ new.label = req[r].label
          /\ new.name = <<now, req[r].label>> /\ new.src = config
      BY <1>1, <3>3 DEF ReqTypes, TypeOK
    <3> HIDE DEF new
    <3> QED BY <1>2, <3>1, <3>2, <3>3, <3>4 DEF Open, TypeOK, disk
  <2> QED BY <2>1, <2>2
<1>3. ASSUME Keep(r) PROVE TypeOK'
  <2>0. backup' \in [Names -> Docs \cup {None}] /\ clash' \in BOOLEAN
    BY <1>3 DEF Keep, TypeOK
  <2>1. CASE Return(r) BY <1>3, <2>0, <2>1, Returns DEF Keep, TypeOK
  <2>2. CASE ~Return(r)
    <3> DEFINE new == [req[r] EXCEPT !.at = "install"]
    <3>1. req' = [req EXCEPT ![r] = new] /\ mu' = mu /\ req[r].doc # None
      BY <1>3, <2>2 DEF Keep, Goto
    <3>2. new \in ReqTypes /\ new.at = "install" /\ new.label = req[r].label
          /\ new.name = req[r].name /\ new.src = req[r].src /\ new.doc = req[r].doc
      BY <1>1 DEF ReqTypes
    <3>3. req[r].label \in Labels /\ req[r].name \in Names /\ req[r].src \in Docs
          /\ req[r].doc \in Docs
      BY <1>1, <1>3, <3>1 DEF Keep, TypeOK, ReqTypes
    <3> HIDE DEF new
    <3> QED BY <1>3, <2>0, <3>1, <3>2, <3>3 DEF Keep, TypeOK
  <2> QED BY <2>1, <2>2
<1>4. ASSUME Install(r) PROVE TypeOK'
  BY <1>4, Returns DEF Install, TypeOK
<1> QED BY <1>2, <1>3, <1>4

\* Every step keeps the types.
LEMMA TypeNext == TypeOK /\ [Next]_vars => TypeOK'
<1> SUFFICES ASSUME TypeOK, [Next]_vars PROVE TypeOK'
  OBVIOUS
<1>1. ASSUME NEW r \in Requests, Serve(r) PROVE TypeOK'
  BY <1>1, TypeStarts, TypeSteps DEF Serve
<1>2. CASE Tick BY <1>2, ConfigAssumption DEF Tick, TypeOK, disk
<1>3. CASE Restart BY <1>3, OffType DEF Restart, TypeOK, disk
<1>4. ASSUME NEW d \in Docs, Replace(d) PROVE TypeOK'
  BY <1>4 DEF Replace, TypeOK
<1>5. CASE UNCHANGED vars BY <1>5 DEF vars, disk, TypeOK
<1> QED BY <1>1, <1>2, <1>3, <1>4, <1>5 DEF Next

\* The initial state is well typed.
LEMMA TypeInit == Init => TypeOK
<1> SUFFICES ASSUME Init PROVE TypeOK
  OBVIOUS
<1>1. req = [r \in Requests |-> Off] /\ backup = [n \in Names |-> None] BY DEF Init
<1>2. req \in [Requests -> ReqTypes] /\ \A r \in Requests : req[r].at = "off"
  BY <1>1, OffType
<1>3. backup \in [Names -> Docs \cup {None}] BY <1>1
<1>4. now \in 0..MaxTime BY ConfigAssumption DEF Init
<1>5. past \in SUBSET Docs /\ clash \in BOOLEAN /\ config \in Docs /\ whole \in BOOLEAN
      /\ mu = None
  BY DEF Init
<1> QED BY <1>2, <1>3, <1>4, <1>5 DEF TypeOK

\* Every reachable state is well typed.
THEOREM TypeCorrect == Spec => []TypeOK
  BY TypeInit, TypeNext, PTL DEF Spec

-----------------------------------------------------------------------------
(* LockedInv, EveryVersionKept                                             *)

ConfigInv == TypeOK /\ LockedInv /\ EveryVersionKept

\* While nobody uploads whole files, whoever finds the lock free is alone, and so
\* is whoever is past it.
LEMMA Alone ==
  ASSUME ConfigInv, ~whole, NEW r \in Requests, mu = None \/ req[r].at # "off"
  PROVE  \A q \in Requests : q # r => req[q].at = "off"
  BY ConfigAssumption DEF ConfigInv, LockedInv

\* When the only request returns, nobody is past the lock.
LEMMA LockedReturn ==
  ASSUME ConfigInv, ~whole, NEW r \in Requests, req[r].at # "off", Return(r)
  PROVE  LockedInv'
<1>1. \A q \in Requests : req'[q].at = "off" BY Alone, Returns DEF ConfigInv
<1> QED BY <1>1 DEF LockedInv

\* The first step of a request reads the document in place, under the lock.
LEMMA LockedStarts ==
  ASSUME ConfigInv, NEW r \in Requests
  PROVE  /\ \A e \in Edits : Edit(r, e) => LockedInv'
         /\ BackupConfigXML(r) => LockedInv'
         /\ \A d \in Docs : Put(r, d) => LockedInv'
<1>0. req \in [Requests -> ReqTypes] /\ config \in Docs BY DEF ConfigInv, TypeOK
<1>1. ASSUME NEW e \in Edits, Edit(r, e) PROVE LockedInv'
  <2> SUFFICES ASSUME ~whole PROVE LockedInv'
    BY <1>1 DEF Edit, LockedInv
  <2>1. \A q \in Requests : q # r => req[q].at = "off" BY <1>1, Alone DEF Edit
  <2>2. e.label \in Labels /\ e.keys \in SUBSET Keys
    BY ConfigAssumption DEF Edits, Labels
  <2> DEFINE new == Opening(e.label, e.keys, Edited(e, config))
  <2>3. new.at = "open" /\ new.keys = e.keys /\ new.doc = Edited(e, config)
    BY <1>0, <2>2, OpeningType, EditedDoc
  <2>4. \A k \in Keys \ e.keys : Edited(e, config)[k] = config[k] BY <1>0, EditedDoc
  <2>5. req' = [req EXCEPT ![r] = new] /\ mu' = r /\ config' = config
    BY <1>1 DEF Edit, disk
  <2> HIDE DEF new
  <2> QED BY <1>0, <2>1, <2>3, <2>4, <2>5 DEF LockedInv
<1>2. ASSUME BackupConfigXML(r) PROVE LockedInv'
  <2> SUFFICES ASSUME ~whole PROVE LockedInv'
    BY <1>2 DEF BackupConfigXML, LockedInv
  <2>1. \A q \in Requests : q # r => req[q].at = "off" BY <1>2, Alone DEF BackupConfigXML
  <2> DEFINE new == Opening("explicit", {}, None)
  <2>2. "explicit" \in Labels BY DEF Labels
  <2>3. new.at = "open" /\ new.doc = None BY <2>2, OpeningType
  <2>4. req' = [req EXCEPT ![r] = new] /\ mu' = r BY <1>2 DEF BackupConfigXML
  <2> HIDE DEF new
  <2> QED BY <1>0, <2>1, <2>3, <2>4 DEF LockedInv
<1>3. ASSUME NEW d \in Docs, Put(r, d) PROVE LockedInv'
  BY <1>3 DEF Put, LockedInv
<1> QED BY <1>1, <1>2, <1>3

\* What the holder of the lock has read and backed up is still in place.
LEMMA LockedSteps ==
  ASSUME ConfigInv, NEW r \in Requests
  PROVE  (Open(r) \/ Keep(r) \/ Install(r)) => LockedInv'
<1>0. req \in [Requests -> ReqTypes] /\ req[r] \in ReqTypes
      /\ backup \in [Names -> Docs \cup {None}]
  BY DEF ConfigInv, TypeOK
<1> SUFFICES ASSUME ~whole, Open(r) \/ Keep(r) \/ Install(r) PROVE LockedInv'
  BY DEF Open, Keep, Install, LockedInv
<1>1. req[r].at # "off" BY DEF Open, Keep, Install
<1>2. \A q \in Requests : q # r => req[q].at = "off" BY <1>1, Alone
<1>3. CASE Return(r) BY <1>1, <1>3, LockedReturn
<1>4. CASE Open(r) /\ ~Return(r)
  <2> DEFINE new == [req[r] EXCEPT !.at = "keep", !.src = config, !.name = <<now, req[r].label>>]
  <2>1. req' = [req EXCEPT ![r] = new] /\ mu' = mu /\ config' = config
    BY <1>4 DEF Open, disk
  <2>2. new.at = "keep" /\ new.src = config /\ new.doc = req[r].doc /\ new.keys = req[r].keys
    BY <1>0 DEF ReqTypes
  <2> HIDE DEF new
  <2> QED BY <1>0, <1>1, <1>2, <2>1, <2>2 DEF LockedInv, ConfigInv
<1>5. CASE Keep(r) /\ ~Return(r)
  <2> DEFINE new == [req[r] EXCEPT !.at = "install"]
  <2>1. req' = [req EXCEPT ![r] = new] /\ mu' = mu /\ config' = config
        /\ backup' = [backup EXCEPT ![req[r].name] = req[r].src]
    BY <1>5 DEF Keep, Goto
  <2>2. new.at = "install" /\ new.src = req[r].src /\ new.doc = req[r].doc
        /\ new.keys = req[r].keys /\ new.name = req[r].name
    BY <1>0 DEF ReqTypes
  <2>3. req[r].name \in Names /\ req[r].src = config /\ req[r].at = "keep" /\ mu = r
    BY <1>5 DEF Keep, ConfigInv, TypeOK, LockedInv
  <2> HIDE DEF new
  <2> QED BY <1>0, <1>1, <1>2, <2>1, <2>2, <2>3 DEF LockedInv, ConfigInv
<1> QED BY <1>3, <1>4, <1>5 DEF Install

\* Naming a backup keeps every version that was in place.
LEMMA KeptKeep ==
  ASSUME ConfigInv, NEW r \in Requests, Keep(r)
  PROVE  EveryVersionKept'
<1> SUFFICES ASSUME ~whole, ~clash', NEW d \in past
             PROVE  d = config' \/ \E n \in Names : backup'[n] = d
  BY DEF EveryVersionKept, Keep
<1>1. CASE backup' = backup /\ clash' = clash
  BY <1>1 DEF ConfigInv, EveryVersionKept, Keep
<1>2. CASE /\ backup' = [backup EXCEPT ![req[r].name] = req[r].src]
           /\ clash' = (clash \/ backup[req[r].name] \notin {None, req[r].src})
  <2>1. req[r].name \in Names /\ backup \in [Names -> Docs \cup {None}] /\ d # None
    BY ConfigAssumption DEF ConfigInv, TypeOK, Keep, Docs
  <2>2. d = config \/ \E n \in Names : backup[n] = d
    BY <1>2 DEF ConfigInv, EveryVersionKept
  <2>3. \A n \in Names : backup[n] = d => backup'[n] = d BY <1>2, <2>1
  <2> QED BY <2>2, <2>3 DEF Keep
<1> QED BY <1>1, <1>2 DEF Keep

\* So does installing a document.
LEMMA KeptInstall ==
  ASSUME ConfigInv, NEW r \in Requests, Install(r)
  PROVE  EveryVersionKept'
<1> SUFFICES ASSUME ~whole, ~clash, NEW d \in past'
             PROVE  d = config' \/ \E n \in Names : backup[n] = d
  BY DEF EveryVersionKept, Install
<1>1. req[r].name \in Names /\ backup[req[r].name] = config
  BY DEF ConfigInv, TypeOK, LockedInv, Install
<1>2. CASE d \in past
  BY <1>1, <1>2 DEF ConfigInv, EveryVersionKept, Install
<1>3. CASE d \notin past
  BY <1>3 DEF Install
<1> QED BY <1>2, <1>3

\* Every step keeps the invariant.
LEMMA InvNext == ConfigInv /\ [Next]_vars => ConfigInv'
<1> SUFFICES ASSUME ConfigInv, [Next]_vars PROVE LockedInv' /\ EveryVersionKept'
  BY TypeNext DEF ConfigInv
<1>1. ASSUME NEW r \in Requests, Serve(r) PROVE LockedInv'
  BY <1>1, LockedStarts, LockedSteps DEF Serve
<1>2. ASSUME NEW r \in Requests, Serve(r) PROVE EveryVersionKept'
  <2>1. CASE Keep(r) BY <2>1, KeptKeep
  <2>2. CASE Install(r) BY <2>2, KeptInstall
  <2>3. CASE UNCHANGED <<whole, disk>>
    BY <2>3 DEF ConfigInv, EveryVersionKept, disk
  <2> QED BY <1>2, <2>1, <2>2, <2>3 DEF Serve, Edit, BackupConfigXML, Put, Open
<1>3. CASE Tick
  BY <1>3 DEF Tick, ConfigInv, LockedInv, EveryVersionKept, disk
<1>4. CASE Restart
  <2>1. \A r \in Requests : req'[r].at = "off" BY <1>4, OffType DEF Restart
  <2> QED BY <1>4, <2>1 DEF Restart, ConfigInv, LockedInv, EveryVersionKept, disk
<1>5. ASSUME NEW d \in Docs, Replace(d) PROVE LockedInv' /\ EveryVersionKept'
  BY <1>5 DEF Replace, LockedInv, EveryVersionKept
<1>6. CASE UNCHANGED vars
  BY <1>6 DEF vars, ConfigInv, LockedInv, EveryVersionKept, disk
<1> QED BY <1>1, <1>2, <1>3, <1>4, <1>5, <1>6 DEF Next

\* The initial state satisfies it.
LEMMA InvInit == Init => ConfigInv
<1> SUFFICES ASSUME Init PROVE LockedInv /\ EveryVersionKept
  BY TypeInit DEF ConfigInv
<1>1. \A r \in Requests : req[r].at = "off" BY OffType DEF Init
<1> QED BY <1>1 DEF Init, LockedInv, EveryVersionKept

\* The inductive invariant holds in every reachable state.
THEOREM ConfigInvariant == Spec => []ConfigInv
  BY InvInit, InvNext, PTL DEF Spec

\* The one request that is past the lock works on the document in place.
THEOREM AlwaysLocked == Spec => []LockedInv
<1>1. ConfigInv => LockedInv BY DEF ConfigInv
<1> QED BY <1>1, ConfigInvariant, PTL

\* Every document that config.xml has been can be restored.
THEOREM AlwaysKept == Spec => []EveryVersionKept
<1>1. ConfigInv => EveryVersionKept BY DEF ConfigInv
<1> QED BY <1>1, ConfigInvariant, PTL

\* No typed edit undoes another's.
THEOREM EditsAddUp == Spec => NoEditLost
<1> DEFINE A == ~whole => \A r \in Requests : Install(r) =>
                  \A k \in Keys \ req[r].keys : config'[k] = config[k]
<1>1. ConfigInv /\ [Next]_vars => [A]_vars
  <2> SUFFICES ASSUME ConfigInv, ~whole, NEW r \in Requests, Install(r),
                      NEW k \in Keys \ req[r].keys
               PROVE  config'[k] = config[k]
    OBVIOUS
  <2>1. req[r].at = "install" /\ req[r].doc # None
    BY ConfigAssumption DEF Install, ConfigInv, TypeOK, Docs
  <2> QED BY <2>1 DEF Install, ConfigInv, LockedInv
<1> QED BY <1>1, ConfigInvariant, PTL DEF Spec, NoEditLost

\* The backup that a typed edit returns is of the document that it replaces.
THEOREM BackupsArePrior == Spec => ReturnedBackupIsPrior
<1> DEFINE A == ~whole => \A r \in Requests : Install(r) => backup[req[r].name] = config
<1>1. ConfigInv /\ [Next]_vars => [A]_vars
  BY DEF ConfigInv, LockedInv, Install
<1> QED BY <1>1, ConfigInvariant, PTL DEF Spec, ReturnedBackupIsPrior
=============================================================================
