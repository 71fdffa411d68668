------------------------------ MODULE Transfer ------------------------------
(***************************************************************************)
(* Resumable uploads of internal/svc/transfer.go: an upload is written to  *)
(* a temporary file next to its target, a record of what is committed is   *)
(* kept for a later resume, and the finish step renames the file into      *)
(* place.  Streams are served concurrently and nothing is locked           *)
(* (TransferManager.mu is never taken); what they share is the disk.       *)
(*                                                                         *)
(* A step is one file operation or one message of the stream.  A file is a *)
(* sequence of chunks; a chunk is known by the version of the content it   *)
(* was cut from, and Hole is what a file is extended with.  Names are      *)
(* durable as soon as they are changed; content is once it is synced.      *)
(***************************************************************************)
EXTENDS Naturals, Sequences

CONSTANTS
  Ids,         \* transfer ids, never used twice (ReadNewID: 128 random bits)
  Versions,    \* contents that clients upload
  Size,        \* chunks in a content
  Checkpoint,  \* chunks between two checkpoints
  Streams,     \* streams, and Cancel calls, served at the same time
  Sharing,     \* whether a transfer is resumed or cancelled while it is served
  Hole,
  None

ASSUME TransferAssumption ==
  /\ Size \in Nat \ {0} /\ Checkpoint \in Nat \ {0}
  /\ Sharing \in BOOLEAN
  /\ None \notin Ids \cup Versions \cup Nat /\ Hole \notin Versions

Slots == {"target", "staged"}

VARIABLES
  inBin,  \* the target lies in the deploy manager's BinaryDir
  born,   \* ids handed out
  rec,    \* rec[t]: CommittedOffset in t's state file, or None without one
  temp,   \* temp[t]: t's temporary file still has its name
  file,   \* file[t]: content of the file that t created
  dur,    \* dur[t]: the content of it that a power loss leaves
  dest,   \* dest[s]: the transfer whose file has the name s, or None
  stream  \* stream[k]: [at, t, v, hash, chk, live]

disk == <<born, rec, temp, file, dur, dest>>
vars == <<inBin, disk, stream>>

Content == Seq(Versions \cup {Hole})
Full(v) == [i \in 1..Size |-> v]

\* Truncate(n), which also extends, and a write at the end of the first n chunks.
Truncated(c, n) == [i \in 1..n |-> IF i <= Len(c) THEN c[i] ELSE Hole]
Written(c, n, v) ==
  [i \in 1..(IF Len(c) > n THEN Len(c) ELSE n + 1) |->
     IF i = n + 1 THEN v ELSE IF i <= Len(c) THEN c[i] ELSE Hole]

New(at, t, v, chk, live) ==
  [at |-> at, t |-> t, v |-> v, hash |-> <<>>, chk |-> chk, live |-> live]
Off == New("off", None, None, 0, FALSE)

\* hash stands for the rolling hash and for CommittedOffset, its length; chk is
\* lastChkpt.
Goto(k, at) == stream' = [stream EXCEPT ![k].at = at]
Ends(k)     == stream' = [stream EXCEPT ![k] = Off]

Idle(k) == stream[k].at = "off"
Free(t) == Sharing \/ \A k \in Streams : stream[k].t # t

-----------------------------------------------------------------------------
(* openWriteState                                                          *)

Create(k, t, v) ==
  /\ Idle(k) /\ t \notin born
  /\ born' = born \cup {t}
  /\ temp' = [temp EXCEPT ![t] = TRUE]
  /\ stream' = [stream EXCEPT ![k] = New("first", t, v, 0, TRUE)]
  /\ UNCHANGED <<inBin, rec, file, dur, dest>>

FirstSave(k) ==
  LET t == stream[k].t IN
  /\ stream[k].at = "first"
  /\ \/ rec' = [rec EXCEPT ![t] = 0] /\ Goto(k, "ack") /\ UNCHANGED temp
     \/ temp' = [temp EXCEPT ![t] = FALSE] /\ Ends(k) /\ UNCHANGED rec
  /\ UNCHANGED <<inBin, born, file, dur, dest>>

\* Mutant of Resume: the client sends everything again from offset 0.
ResumeFromStart(k, t, v) ==
  /\ Idle(k) /\ rec[t] # None /\ Free(t)
  /\ stream' = [stream EXCEPT ![k] = New("reopen", t, v, 0, TRUE)]
  /\ UNCHANGED <<inBin, disk>>

\* resumeWriteState.  The client's own content may have changed since.
Resume(k, t, v) ==
  /\ Idle(k) /\ rec[t] # None /\ Free(t)
  /\ stream' = [stream EXCEPT ![k] = New("reopen", t, v, rec[t], TRUE)]
  /\ UNCHANGED <<inBin, disk>>

Reopen(k) ==
  /\ stream[k].at = "reopen"
  /\ \/ temp[stream[k].t] /\ Goto(k, "truncate")
     \/ Ends(k)
  /\ UNCHANGED <<inBin, disk>>

\* Mutant of Truncate: what is there already is not hashed again from the file.
TruncateTrusting(k) ==
  LET t == stream[k].t
      c == Truncated(file[t], stream[k].chk) IN
  /\ stream[k].at = "truncate"
  /\ file' = [file EXCEPT ![t] = c]
  /\ stream' = [stream EXCEPT ![k] = [@ EXCEPT !.at = "ack", !.hash = [i \in 1..Len(c) |-> stream[k].v]]]
  /\ UNCHANGED <<inBin, born, rec, temp, dur, dest>>

\* The file is cut to what is committed and hashed again from its first byte.
Truncate(k) ==
  LET t == stream[k].t
      c == Truncated(file[t], stream[k].chk) IN
  /\ stream[k].at = "truncate"
  /\ \/ /\ file' = [file EXCEPT ![t] = c]
        /\ stream' = [stream EXCEPT ![k] = [@ EXCEPT !.at = "ack", !.hash = c]]
     \/ Ends(k) /\ UNCHANGED file
  /\ UNCHANGED <<inBin, born, rec, temp, dur, dest>>

-----------------------------------------------------------------------------
(* serveWrite                                                              *)

\* Send an ack and look at the context.
Ack(k) ==
  /\ stream[k].at = "ack"
  /\ Goto(k, IF stream[k].live THEN "wait" ELSE "clean")
  /\ UNCHANGED <<inBin, disk>>

\* writeChunk.  A chunk that was on its way still arrives after the client is gone.
Data(k) ==
  LET t == stream[k].t
      n == Len(stream[k].hash)
      h == Append(stream[k].hash, stream[k].v) IN
  /\ stream[k].at = "wait" /\ n < Size
  /\ file' = [file EXCEPT ![t] = Written(@, n, stream[k].v)]
  /\ stream' = [stream EXCEPT ![k] = [@ EXCEPT !.hash = h,
                  !.at = IF n + 1 - stream[k].chk >= Checkpoint THEN "sync" ELSE "ack"]]
  /\ UNCHANGED <<inBin, born, rec, temp, dur, dest>>

\* A chunk at another offset, a failed write, an unexpected message, a cancel.
DataRefused(k) ==
  /\ stream[k].at = "wait"
  /\ Goto(k, "clean")
  /\ UNCHANGED <<inBin, disk>>

\* Recv has failed: the transfer is persisted to be resumed.
RecvFailed(k) ==
  /\ stream[k].at = "wait" /\ ~stream[k].live
  /\ Goto(k, "dropSync")
  /\ UNCHANGED <<inBin, disk>>

\* Mutant of Sync: the record is written although the sync has failed.
SyncLogged(k) ==
  /\ stream[k].at \in {"sync", "dropSync"}
  /\ Goto(k, IF stream[k].at = "sync" THEN "save" ELSE "dropSave")
  /\ \/ dur' = [dur EXCEPT ![stream[k].t] = file[stream[k].t]]
     \/ UNCHANGED dur
  /\ UNCHANGED <<inBin, born, rec, temp, file, dest>>

\* persist, called for a checkpoint (a failure ends the transfer) and when the
\* stream has broken (a failure is ignored).
Sync(k) ==
  /\ stream[k].at \in {"sync", "dropSync"}
  /\ \/ /\ dur' = [dur EXCEPT ![stream[k].t] = file[stream[k].t]]
        /\ Goto(k, IF stream[k].at = "sync" THEN "save" ELSE "dropSave")
     \/ /\ IF stream[k].at = "sync" THEN Goto(k, "clean") ELSE Ends(k)
        /\ UNCHANGED dur
  /\ UNCHANGED <<inBin, born, rec, temp, file, dest>>

\* Mutant of Save: what was committed before is counted twice.
SaveTwice(k) ==
  LET n == Len(stream[k].hash) IN
  /\ stream[k].at \in {"save", "dropSave"}
  /\ rec' = [rec EXCEPT ![stream[k].t] = stream[k].chk + n]
  /\ IF stream[k].at = "save"
     THEN stream' = [stream EXCEPT ![k] = [@ EXCEPT !.at = "ack", !.chk = n]]
     ELSE Ends(k)
  /\ UNCHANGED <<inBin, born, temp, file, dur, dest>>

Save(k) ==
  LET n == Len(stream[k].hash) IN
  /\ stream[k].at \in {"save", "dropSave"}
  /\ \/ /\ rec' = [rec EXCEPT ![stream[k].t] = n]
        /\ IF stream[k].at = "save"
           THEN stream' = [stream EXCEPT ![k] = [@ EXCEPT !.at = "ack", !.chk = n]]
           ELSE Ends(k)
     \/ /\ IF stream[k].at = "save" THEN Goto(k, "clean") ELSE Ends(k)
        /\ UNCHANGED rec
  /\ UNCHANGED <<inBin, born, temp, file, dur, dest>>

-----------------------------------------------------------------------------
(* finalizeWrite, cleanup                                                  *)

\* The client ends with the hash of its content.
Final(k) ==
  /\ stream[k].at = "wait"
  /\ Goto(k, IF stream[k].hash = Full(stream[k].v) THEN "fsync" ELSE "clean")
  /\ UNCHANGED <<inBin, disk>>

FinalSync(k) ==
  /\ stream[k].at = "fsync"
  /\ \/ /\ dur' = [dur EXCEPT ![stream[k].t] = file[stream[k].t]]
        /\ Goto(k, "install")
     \/ Goto(k, "clean") /\ UNCHANGED dur
  /\ UNCHANGED <<inBin, born, rec, temp, file, dest>>

\* The finish step of the header that opened this stream; a backup that is taken
\* first may fail, and so may the rename.
Install(k, s) ==
  LET t == stream[k].t IN
  /\ stream[k].at = "install"
  /\ s = "staged" => inBin
  /\ \/ /\ temp[t]
        /\ dest' = [dest EXCEPT ![s] = t]
        /\ temp' = [temp EXCEPT ![t] = FALSE]
        /\ Goto(k, "forget")
     \/ Goto(k, "clean") /\ UNCHANGED <<dest, temp>>
  /\ UNCHANGED <<inBin, born, rec, file, dur>>

\* cleanup, and the tail of finalizeWrite: failures are logged.
Clean(k) ==
  /\ stream[k].at = "clean"
  /\ temp' \in {temp, [temp EXCEPT ![stream[k].t] = FALSE]}
  /\ Goto(k, "forget")
  /\ UNCHANGED <<inBin, born, rec, file, dur, dest>>

Forget(k) ==
  /\ stream[k].at = "forget"
  /\ rec' \in {rec, [rec EXCEPT ![stream[k].t] = None]}
  /\ Ends(k)
  /\ UNCHANGED <<inBin, born, temp, file, dur, dest>>

\* The Cancel call does on the record of t what cleanup does.
Cancel(k, t) ==
  /\ Idle(k) /\ rec[t] # None /\ Free(t)
  /\ stream' = [stream EXCEPT ![k] = New("clean", t, None, 0, FALSE)]
  /\ UNCHANGED <<inBin, disk>>

-----------------------------------------------------------------------------
Disconnect(k) ==
  /\ stream[k].live
  /\ stream' = [stream EXCEPT ![k].live = FALSE]
  /\ UNCHANGED <<inBin, disk>>

\* The daemon dies, with a power loss or without, and starts again: GC collects
\* old records and CleanStaleTemps empties the binary directory.
Restart ==
  /\ stream' = [k \in Streams |-> Off]
  /\ \E lost, collected \in SUBSET Ids :
       /\ file' = [t \in Ids |-> IF t \in lost THEN dur[t] ELSE file[t]]
       /\ rec' = [t \in Ids |-> IF t \in collected THEN None ELSE rec[t]]
  /\ temp' = [t \in Ids |-> temp[t] /\ ~inBin]
  /\ dest' = [dest EXCEPT !["staged"] = None]
  /\ UNCHANGED <<inBin, born, dur>>

Init ==
  /\ inBin \in BOOLEAN /\ born = {}
  /\ rec = [t \in Ids |-> None] /\ temp = [t \in Ids |-> FALSE]
  /\ file = [t \in Ids |-> <<>>] /\ dur = [t \in Ids |-> <<>>]
  /\ dest = [s \in Slots |-> None]
  /\ stream = [k \in Streams |-> Off]

\* What the daemon does of itself, and what a client sends.
Serve(k) ==
  \/ FirstSave(k) \/ Reopen(k) \/ Truncate(k) \/ Ack(k) \/ RecvFailed(k)
  \/ Sync(k) \/ Save(k) \/ FinalSync(k) \/ (\E s \in Slots : Install(k, s))
  \/ Clean(k) \/ Forget(k)

Client(k) ==
  \/ \E t \in Ids : Cancel(k, t) \/ \E v \in Versions : Create(k, t, v) \/ Resume(k, t, v)
  \/ Data(k) \/ DataRefused(k) \/ Final(k) \/ Disconnect(k)

Next == (\E k \in Streams : Serve(k) \/ Client(k)) \/ Restart

Spec == Init /\ [][Next]_vars

-----------------------------------------------------------------------------
(* Properties                                                              *)

Places == {"off", "first", "reopen", "truncate", "ack", "wait", "sync", "dropSync",
           "save", "dropSave", "fsync", "install", "clean", "forget"}

StreamTypes == [at : Places, t : Ids \cup {None}, v : Versions \cup {None},
                hash : Content, chk : 0..Size, live : BOOLEAN]

StreamsTyped ==
  /\ stream \in [Streams -> StreamTypes]
  /\ \A k \in Streams :
       /\ Len(stream[k].hash) <= Size
       /\ stream[k].at # "off" => stream[k].t \in Ids
       /\ stream[k].at \notin {"off", "clean", "forget"} => stream[k].v \in Versions

\* Each variable holds a value of its kind; no offset passes the end.
TypeOK ==
  /\ inBin \in BOOLEAN /\ born \in SUBSET Ids
  /\ rec \in [Ids -> 0..Size \cup {None}] /\ temp \in [Ids -> BOOLEAN]
  /\ file \in [Ids -> Content] /\ dur \in [Ids -> Content]
  /\ dest \in [Slots -> Ids \cup {None}]
  /\ StreamsTyped

\* What has been put into place is one client's whole content, and a power loss
\* does not change that: no crash, resume or broken stream mixes two contents.
TargetIntact ==
  \A s \in Slots : dest[s] # None =>
    \E v \in Versions : file[dest[s]] = Full(v) /\ dur[dest[s]] = Full(v)

\* The offset of a record is on disk: whenever the power fails, a resume finds
\* the committed bytes, and those that were hashed.
CheckpointDurable ==
  \A t \in Ids : rec[t] # None =>
    /\ rec[t] <= Len(dur[t]) /\ rec[t] <= Len(file[t])
    /\ \A i \in 1..rec[t] : dur[t][i] = file[t][i]

Hashed  == {"first", "ack", "wait", "sync", "dropSync", "save", "dropSave", "fsync", "install"}
Writing == Hashed \cup {"truncate"}

\* What makes the above inductive: the one stream that writes a file knows what is
\* in it, and a file that has been put into place is nobody's any more.
StreamOwns(k) ==
  LET s == stream[k] IN
  /\ s.at = "off" => s.t = None
  /\ s.at \in Writing => temp[s.t]
  /\ s.at \in {"reopen", "truncate"} => rec[s.t] = s.chk
  /\ s.at = "first" => rec[s.t] = None
  /\ s.at \in Hashed => /\ s.hash = file[s.t]
                        /\ rec[s.t] # None => rec[s.t] <= Len(s.hash)
  /\ s.at \in {"save", "dropSave", "install"} => dur[s.t] = file[s.t]
  /\ s.at \in {"fsync", "install"} => s.hash = Full(s.v)

FileOwned(t) ==
  /\ t \notin born => /\ file[t] = <<>> /\ dur[t] = <<>> /\ ~temp[t] /\ rec[t] = None
                      /\ \A s \in Slots : dest[s] # t
                      /\ \A k \in Streams : stream[k].t # t
  /\ temp[t] => \A s \in Slots : dest[s] # t

OwnedInv ==
  /\ \A j, k \in Streams : stream[k].t # None /\ stream[j].t = stream[k].t => j = k
  /\ \A k \in Streams : StreamOwns(k)
  /\ \A t \in Ids : FileOwned(t)

\* What Status reports as committed is never taken back while the transfer lasts,
\* whoever resumes it and wherever the daemon died.
CommittedGrows ==
  [][ \A t \in Ids : rec[t] # None /\ rec'[t] # None => rec'[t] >= rec[t] ]_vars

=============================================================================
