----------------------------- MODULE ConfigXML -----------------------------
(***************************************************************************)
(* The RPCs that change OPNsense's config.xml (internal/svc/server.go and  *)
(* configxml.go) and the uploads that replace it as a whole (transfer.go). *)
(* The typed RPCs hold Server.mu from the read of the document to the      *)
(* rename of the edited one; an upload does not take it.                   *)
(*                                                                         *)
(* A document is the value of each element, None for one that is absent.   *)
(* A step is one file operation.  A backup's name is the second in which   *)
(* it was taken and the label of the operation.                            *)
(***************************************************************************)
EXTENDS Naturals, FiniteSets

CONSTANTS
  Keys,      \* elements of the document
  Gateway,   \* the element wan/gatewayv6
  Values,    \* texts
  Requests,  \* requests that are served at the same time
  MaxTime,   \* bound: seconds of the clock
  MaxBackups, \* bound: no operation starts once there are so many backups
  MaxBare,   \* bound: nor does an upload without a backup once there are so many
  None

ASSUME ConfigAssumption ==
  /\ Gateway \in Keys /\ MaxTime \in Nat /\ MaxBackups \in Nat /\ MaxBare \in Nat
  /\ None \notin Values \cup Requests \cup [Keys -> Values \cup {None}]

Docs == [Keys -> Values \cup {None}]

\* One XPath expression may match several elements.
Edits ==
  [label : {"xpath-set"}, keys : SUBSET Keys, value : Values]
    \cup [label : {"xpath-delete"}, keys : SUBSET Keys, value : {None}]
    \cup [label : {"strip-gatewayv6"}, keys : {{Gateway}}, value : {None}]
    \cup [label : {"inject-gatewayv6"}, keys : {{Gateway}}, value : Values]

Labels == {"xpath-set", "xpath-delete", "strip-gatewayv6", "inject-gatewayv6",
           "explicit", "bak"}
Names  == (0..MaxTime) \X Labels

VARIABLES
  whole,   \* operators also upload a config.xml as a whole
  config,  \* config.xml
  backup,  \* backup[n]: the backup with the name n, or None
  mu,      \* the request that holds Server.mu, or None
  now,     \* the clock, in seconds
  req,     \* req[r]: [at, label, keys, doc, src, name]
  past,    \* history, unless whole: every document that config.xml has been
  clash    \* history: a backup has replaced another document's

disk == <<config, backup, past, clash>>
vars == <<whole, disk, mu, now, req>>

\* The elements that an edit changes in d: an inject creates a missing one, the
\* others match present ones.
Matched(e, d) ==
  {k \in e.keys : IF e.label = "inject-gatewayv6" THEN d[k] = None ELSE d[k] # None}
Edited(e, d) == [k \in Keys |-> IF k \in Matched(e, d) THEN e.value ELSE d[k]]

Off == [at |-> "off", label |-> None, keys |-> {}, doc |-> None, src |-> None, name |-> None]

\* A request that takes a backup and then installs doc, or nothing if doc is None.
Opening(label, keys, doc) ==
  [Off EXCEPT !.at = "open", !.label = label, !.keys = keys, !.doc = doc]

Backups == Cardinality({n \in Names : backup[n] # None})
Idle(r) == req[r].at = "off" /\ Backups < MaxBackups

Goto(r, at) == req' = [req EXCEPT ![r].at = at]
Return(r) ==
  /\ req' = [req EXCEPT ![r] = Off]
  /\ mu' = IF mu = r THEN None ELSE mu

-----------------------------------------------------------------------------
\* Mutant of Edit: the lock is taken for the write only.
EditUnlocked(r, e) ==
  /\ Idle(r) /\ Matched(e, config) # {}
  /\ req' = [req EXCEPT ![r] = Opening(e.label, e.keys, Edited(e, config))]
  /\ UNCHANGED <<whole, disk, mu, now>>

\* XPathSet, XPathDelete, StripGatewayV6, InjectGatewayV6: lock, read, edit.  An
\* edit that matches nothing returns without a change.
Edit(r, e) ==
  /\ Idle(r) /\ mu = None
  /\ Matched(e, config) # {}
  /\ mu' = r
  /\ req' = [req EXCEPT ![r] = Opening(e.label, e.keys, Edited(e, config))]
  /\ UNCHANGED <<whole, disk, now>>

BackupConfigXML(r) ==
  /\ Idle(r) /\ mu = None
  /\ mu' = r
  /\ req' = [req EXCEPT ![r] = Opening("explicit", {}, None)]
  /\ UNCHANGED <<whole, disk, now>>

\* An upload to /conf/config.xml that ends in snapshotThenReplace.
Put(r, d) ==
  /\ whole /\ Idle(r)
  /\ req' = [req EXCEPT ![r] = Opening("bak", Keys, d)]
  /\ UNCHANGED <<whole, disk, mu, now>>

\* One that ends in FINISH_STEP_REPLACE: a rename, no backup, no lock.
Replace(d) ==
  /\ whole /\ Backups < MaxBare
  /\ config' = d
  /\ UNCHANGED <<whole, backup, past, clash, mu, now, req>>

\* backupConfigWithLog: the document is opened and the name is formed.
Open(r) ==
  /\ req[r].at = "open"
  /\ \/ /\ req' = [req EXCEPT ![r] = [@ EXCEPT !.at = "keep", !.src = config,
                                               !.name = <<now, req[r].label>>]]
        /\ UNCHANGED mu
     \/ Return(r)
  /\ UNCHANGED <<whole, disk, now>>

\* Mutant of Keep: the backup is of the edited document.
KeepEdited(r) ==
  LET n == req[r].name IN
  /\ req[r].at = "keep"
  /\ backup' = [backup EXCEPT ![n] = IF req[r].doc = None THEN req[r].src ELSE req[r].doc]
  /\ IF req[r].doc = None THEN Return(r) ELSE Goto(r, "install") /\ UNCHANGED mu
  /\ UNCHANGED <<whole, config, past, clash, now>>

\* Mutant of Keep: an explicit backup goes on like an edit.
KeepInstalls(r) ==
  /\ req[r].at = "keep"
  /\ backup' = [backup EXCEPT ![req[r].name] = req[r].src]
  /\ Goto(r, "install")
  /\ UNCHANGED <<whole, config, mu, past, clash, now>>

\* The copy is renamed to its name, over a backup of the same second and label.
Keep(r) ==
  LET n == req[r].name IN
  /\ req[r].at = "keep"
  /\ \/ /\ backup' = [backup EXCEPT ![n] = req[r].src]
        /\ clash' = (clash \/ backup[n] \notin {None, req[r].src})
        /\ IF req[r].doc = None THEN Return(r) ELSE Goto(r, "install") /\ UNCHANGED mu
     \/ Return(r) /\ UNCHANGED <<backup, clash>>
  /\ UNCHANGED <<whole, config, past, now>>

\* writeConfigWithLog, or the rename of an upload: all of the document or nothing.
Install(r) ==
  /\ req[r].at = "install"
  /\ \/ config' = req[r].doc /\ past' = past \cup {d \in {req[r].doc} : ~whole}
     \/ UNCHANGED <<config, past>>
  /\ Return(r)
  /\ UNCHANGED <<whole, backup, clash, now>>

Tick == /\ now < MaxTime /\ now' = now + 1
        /\ UNCHANGED <<whole, disk, mu, req>>

\* The daemon dies and starts again.
Restart ==
  /\ req' = [r \in Requests |-> Off] /\ mu' = None
  /\ UNCHANGED <<whole, disk, now>>

Init ==
  /\ whole \in BOOLEAN /\ config \in Docs /\ past = {config} /\ clash = FALSE
  /\ backup = [n \in Names |-> None]
  /\ mu = None /\ now = 0
  /\ req = [r \in Requests |-> Off]

Serve(r) ==
  \/ \E e \in Edits : Edit(r, e)
  \/ BackupConfigXML(r)
  \/ \E d \in Docs : Put(r, d)
  \/ Open(r) \/ Keep(r) \/ Install(r)

Next == (\E r \in Requests : Serve(r)) \/ (\E d \in Docs : Replace(d)) \/ Tick \/ Restart

Spec == Init /\ [][Next]_vars

-----------------------------------------------------------------------------
(* Properties                                                              *)

ReqTypes == [at : {"off", "open", "keep", "install"}, label : Labels \cup {None},
             keys : SUBSET Keys, doc : Docs \cup {None}, src : Docs \cup {None},
             name : Names \cup {None}]

\* Each variable holds a value of its kind; a request that is past a step has what
\* that step gave it.
TypeOK ==
  /\ whole \in BOOLEAN /\ config \in Docs /\ backup \in [Names -> Docs \cup {None}]
  /\ mu \in Requests \cup {None} /\ now \in 0..MaxTime
  /\ past \in SUBSET Docs /\ clash \in BOOLEAN
  /\ req \in [Requests -> ReqTypes]
  /\ \A r \in Requests :
       /\ req[r].at # "off" => req[r].label \in Labels
       /\ req[r].at \in {"keep", "install"} => req[r].name \in Names /\ req[r].src \in Docs
       /\ req[r].at = "install" => req[r].doc \in Docs

\* An edit leaves the elements that it does not name as they are in the document it
\* replaces: no other edit's change is undone, while nobody uploads whole files.
NoEditLost ==
  [][ ~whole => \A r \in Requests : Install(r) =>
        \A k \in Keys \ req[r].keys : config'[k] = config[k] ]_vars

\* Server: "return the backup path so the caller can immediately revert": when an
\* edit is installed, the backup it returns is of the document that it replaces.
ReturnedBackupIsPrior ==
  [][ ~whole => \A r \in Requests : Install(r) => backup[req[r].name] = config ]_vars

\* Server: "All mutating operations on /conf/config.xml take a snapshot first": no
\* document that config.xml has been is ever gone, unless two operations with one
\* label fell into one second.
EveryVersionKept ==
  ~whole /\ ~clash => \A d \in past : d = config \/ \E n \in Names : backup[n] = d

\* What makes the above inductive: the one request that is past the lock has a copy
\* and an edit of the document that is still in place.
LockedInv ==
  ~whole => \A r \in Requests : req[r].at # "off" =>
    /\ mu = r
    /\ req[r].doc # None => \A k \in Keys \ req[r].keys : req[r].doc[k] = config[k]
    /\ req[r].at \in {"keep", "install"} => req[r].src = config
    /\ req[r].at = "install" => backup[req[r].name] = config

\* "so the caller can immediately revert by issuing a write of the snapshot bytes":
\* the backup of a document that an operation has replaced keeps its content.
BackupsStay ==
  [][ \A n \in Names : backup[n] \notin {None, config} => backup'[n] = backup[n] ]_vars

=============================================================================
