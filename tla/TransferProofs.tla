--------------------------- MODULE TransferProofs ---------------------------
(***************************************************************************)
(* Proofs about Transfer, for any number of transfers, streams and         *)
(* contents of any length: type correctness, and, when no transfer is      *)
(* resumed while it is served, that what is put into place is whole and    *)
(* that a committed offset is on disk.                                     *)
(***************************************************************************)
EXTENDS Download, TLAPS

USE TransferAssumption

-----------------------------------------------------------------------------
(* File contents                                                           *)

\* A function on 1..m is a sequence of length m.
LEMMA FunctionIsSeq ==
  ASSUME NEW S, NEW m \in Nat, NEW f \in [1..m -> S]
  PROVE  f \in Seq(S) /\ Len(f) = m
OBVIOUS

\* Sequences of one length with the same elements are the same.
LEMMA SeqsEqual ==
  ASSUME NEW S, NEW a \in Seq(S), NEW b \in Seq(S), Len(a) = Len(b),
         \A i \in 1..Len(a) : a[i] = b[i]
  PROVE  a = b
OBVIOUS

\* Truncating to n leaves n chunks, and those that were there as they were.
LEMMA TruncatedFacts ==
  ASSUME NEW c \in Content, NEW n \in Nat
  PROVE  /\ Truncated(c, n) \in Content
         /\ Len(Truncated(c, n)) = n
         /\ \A i \in 1..n : i <= Len(c) => Truncated(c, n)[i] = c[i]
<1> DEFINE T == [i \in 1..n |-> IF i <= Len(c) THEN c[i] ELSE Hole]
<1>1. \A i \in 1..n : T[i] \in Versions \cup {Hole}
  BY DEF Content
<1>2. T \in Seq(Versions \cup {Hole}) /\ Len(T) = n
  BY <1>1
<1> QED BY <1>2 DEF Truncated, Content

\* A write at offset n puts one chunk there; at the end of the file it appends.
LEMMA WrittenFacts ==
  ASSUME NEW c \in Content, NEW n \in Nat, NEW v \in Versions
  PROVE  /\ Written(c, n, v) \in Content
         /\ n = Len(c) => Written(c, n, v) = Append(c, v)
<1> DEFINE m == IF Len(c) > n THEN Len(c) ELSE n + 1
           W == [i \in 1..m |-> IF i = n + 1 THEN v ELSE IF i <= Len(c) THEN c[i] ELSE Hole]
<1>1. m \in Nat BY DEF Content
<1>2. \A i \in 1..m : W[i] \in Versions \cup {Hole}
  BY <1>1 DEF Content
<1>3. W \in Seq(Versions \cup {Hole}) /\ Len(W) = m
  <2>1. W \in [1..m -> Versions \cup {Hole}] BY <1>2
  <2> HIDE DEF m, W
  <2> QED BY <1>1, <2>1, FunctionIsSeq
<1>4. ASSUME n = Len(c) PROVE W = Append(c, v)
  <2>1. /\ Append(c, v) \in Seq(Versions \cup {Hole})
        /\ Len(Append(c, v)) = n + 1
        /\ \A i \in 1..(n + 1) : Append(c, v)[i] = IF i = n + 1 THEN v ELSE c[i]
    BY <1>4 DEF Content
  <2>2. m = n + 1 BY <1>4 DEF Content
  <2>3. \A i \in 1..(n + 1) : W[i] = Append(c, v)[i]
    BY <1>4, <2>1, <2>2
  <2> HIDE DEF m, W
  <2> QED BY <1>3, <2>1, <2>2, <2>3, SeqsEqual
<1> QED BY <1>3, <1>4 DEF Written, Content

\* The whole of a version is content of full size.
LEMMA FullFacts ==
  ASSUME NEW v \in Versions
  PROVE  Full(v) \in Content /\ Len(Full(v)) = Size
BY DEF Full, Content

-----------------------------------------------------------------------------
(* Type correctness                                                        *)

\* A stream that is off is well typed.
LEMMA OffTyped == Off \in StreamTypes /\ Off.at = "off" /\ Off.t = None /\ Len(Off.hash) = 0
BY DEF Off, New, StreamTypes, Places, Content

\* What one stream becomes decides about all of them.
LEMMA OneStream ==
  ASSUME StreamsTyped, NEW k \in Streams, NEW r \in StreamTypes,
         Len(r.hash) <= Size,
         r.at # "off" => r.t \in Ids,
         r.at \notin {"off", "clean", "forget"} => r.v \in Versions,
         stream' = [stream EXCEPT ![k] = r]
  PROVE  StreamsTyped'
<1>1. stream' \in [Streams -> StreamTypes] BY DEF StreamsTyped
<1>2. \A j \in Streams : stream'[j] = IF j = k THEN r ELSE stream[j] BY DEF StreamsTyped
<1> QED BY <1>1, <1>2 DEF StreamsTyped

\* The end of a stream, and its next step.
LEMMA MovesTyped ==
  ASSUME StreamsTyped, NEW k \in Streams
  PROVE  /\ Ends(k) => StreamsTyped'
         /\ \A at \in Places :
              /\ Goto(k, at)
              /\ stream[k].at # "off"
              /\ at \in {"clean", "forget"} \/ stream[k].at \notin {"clean", "forget"}
              => StreamsTyped'
<1>1. ASSUME Ends(k) PROVE StreamsTyped'
  <2> DEFINE r == Off
  <2>1. stream' = [stream EXCEPT ![k] = r] BY <1>1 DEF Ends
  <2>2. r \in StreamTypes /\ r.at = "off" /\ Len(r.hash) <= Size BY OffTyped
  <2> HIDE DEF r
  <2> QED BY <2>1, <2>2, OneStream
<1>2. ASSUME NEW at \in Places, Goto(k, at), stream[k].at # "off",
             at \in {"clean", "forget"} \/ stream[k].at \notin {"clean", "forget"}
      PROVE  StreamsTyped'
  <2> DEFINE r == [stream[k] EXCEPT !.at = at]
  <2>1. stream[k] \in StreamTypes BY DEF StreamsTyped
  <2>2. /\ r \in StreamTypes /\ r.at = at /\ r.t = stream[k].t /\ r.v = stream[k].v
        /\ r.hash = stream[k].hash
    BY <2>1 DEF StreamTypes
  <2>3. stream' = [stream EXCEPT ![k] = r] BY <1>2 DEF Goto
  <2> HIDE DEF r
  <2> QED BY <1>2, <2>2, <2>3, OneStream DEF StreamsTyped
<1> QED BY <1>1, <1>2

\* The initial state is well typed.
LEMMA TypeInit == Init => TypeOK
<1> SUFFICES ASSUME Init PROVE TypeOK OBVIOUS
<1>1. <<>> \in Content BY DEF Content
<1>2. StreamsTyped BY OffTyped DEF Init, StreamsTyped
<1> QED BY <1>1, <1>2 DEF Init, TypeOK, Slots

\* Every step keeps the types.
LEMMA TypeNext ==
  ASSUME TypeOK, [Next]_vars
  PROVE  TypeOK'
<1> USE DEF TypeOK, disk
<1>0. <<>> \in Content BY DEF Content
<1>1. ASSUME NEW k \in Streams, NEW t \in Ids, NEW v \in Versions, Create(k, t, v)
      PROVE  TypeOK'
  <2> DEFINE r == [at |-> "first", t |-> t, v |-> v, hash |-> <<>>, chk |-> 0, live |-> TRUE]
  <2>1. /\ r \in StreamTypes /\ r.at = "first" /\ r.t \in Ids /\ r.v \in Versions
        /\ Len(r.hash) <= Size
    BY <1>0 DEF StreamTypes, Places
  <2>2. stream' = [stream EXCEPT ![k] = r] BY <1>1 DEF Create, New
  <2> HIDE DEF r
  <2>3. StreamsTyped' BY <2>1, <2>2, OneStream
  <2> QED BY <1>1, <2>3 DEF Create
<1>2. ASSUME NEW k \in Streams, NEW t \in Ids, NEW v \in Versions, Resume(k, t, v)
      PROVE  TypeOK'
  <2> DEFINE r == [at |-> "reopen", t |-> t, v |-> v, hash |-> <<>>, chk |-> rec[t],
                   live |-> TRUE]
  <2>1. rec[t] \in 0..Size BY <1>2 DEF Resume
  <2>2. /\ r \in StreamTypes /\ r.at = "reopen" /\ r.t \in Ids /\ r.v \in Versions
        /\ Len(r.hash) <= Size
    BY <1>0, <2>1 DEF StreamTypes, Places
  <2>3. stream' = [stream EXCEPT ![k] = r] BY <1>2 DEF Resume, New
  <2> HIDE DEF r
  <2>4. StreamsTyped' BY <2>2, <2>3, OneStream
  <2> QED BY <1>2, <2>4 DEF Resume
<1>3. ASSUME NEW k \in Streams, NEW t \in Ids, Cancel(k, t)
      PROVE  TypeOK'
  <2> DEFINE r == [at |-> "clean", t |-> t, v |-> None, hash |-> <<>>, chk |-> 0,
                   live |-> FALSE]
  <2>1. r \in StreamTypes /\ r.at = "clean" /\ r.t \in Ids /\ Len(r.hash) <= Size
    BY <1>0 DEF StreamTypes, Places
  <2>2. stream' = [stream EXCEPT ![k] = r] BY <1>3 DEF Cancel, New
  <2> HIDE DEF r
  <2>3. StreamsTyped' BY <2>1, <2>2, OneStream
  <2> QED BY <1>3, <2>3 DEF Cancel
<1>4. ASSUME NEW k \in Streams, FirstSave(k) PROVE TypeOK'
  <2>1. StreamsTyped' BY <1>4, MovesTyped DEF FirstSave, Places
  <2>2. 0 \in 0..Size OBVIOUS
  <2>3. rec' \in [Ids -> 0..Size \cup {None}] BY <1>4, <2>2 DEF FirstSave
  <2>4. temp' \in [Ids -> BOOLEAN] BY <1>4 DEF FirstSave
  <2> QED BY <1>4, <2>1, <2>3, <2>4 DEF FirstSave
<1>5. ASSUME NEW k \in Streams, Reopen(k) PROVE TypeOK'
  BY <1>5, MovesTyped DEF Reopen, Places
<1>6. ASSUME NEW k \in Streams, Truncate(k) PROVE TypeOK'
  <2>1. /\ stream[k] \in StreamTypes /\ stream[k].at = "truncate"
        /\ stream[k].t \in Ids /\ stream[k].v \in Versions
    BY <1>6 DEF Truncate, StreamsTyped
  <2>2. stream[k].chk \in 0..Size BY <2>1 DEF StreamTypes
  <2> DEFINE c == Truncated(file[stream[k].t], stream[k].chk)
             r == [stream[k] EXCEPT !.at = "ack", !.hash = c]
  <2>3. c \in Content /\ Len(c) <= Size
    <3> DEFINE f == file[stream[k].t]
               n == stream[k].chk
    <3>1. n \in Nat /\ n <= Size /\ f \in Content BY <2>1, <2>2
    <3> HIDE DEF f, n
    <3>2. Truncated(f, n) \in Content /\ Len(Truncated(f, n)) = n BY <3>1, TruncatedFacts
    <3>3. Truncated(f, n) \in Content /\ Len(Truncated(f, n)) <= Size BY <3>1, <3>2
    <3> QED BY <3>3 DEF f, n
  <2>6. \/ /\ file' = [file EXCEPT ![stream[k].t] = c]
           /\ stream' = [stream EXCEPT ![k] = r]
           /\ UNCHANGED <<inBin, born, rec, temp, dur, dest>>
        \/ Ends(k) /\ UNCHANGED disk /\ UNCHANGED inBin
    BY <1>6 DEF Truncate
  <2> HIDE DEF c
  <2>4. CASE /\ file' = [file EXCEPT ![stream[k].t] = c]
             /\ stream' = [stream EXCEPT ![k] = r]
             /\ UNCHANGED <<inBin, born, rec, temp, dur, dest>>
    <3>1. /\ r \in StreamTypes /\ r.at = "ack" /\ r.t = stream[k].t /\ r.v = stream[k].v
          /\ r.hash = c
      BY <2>1, <2>3 DEF StreamTypes, Places
    <3> HIDE DEF r
    <3>2. StreamsTyped' BY <2>1, <2>3, <2>4, <3>1, OneStream
    <3> QED BY <2>3, <2>4, <3>2
  <2>5. CASE Ends(k) /\ UNCHANGED disk /\ UNCHANGED inBin
    BY <2>5, MovesTyped
  <2> QED BY <2>4, <2>5, <2>6
<1>7. ASSUME NEW k \in Streams, Ack(k) \/ RecvFailed(k) \/ DataRefused(k) \/ Final(k)
      PROVE  TypeOK'
  BY <1>7, MovesTyped DEF Ack, RecvFailed, DataRefused, Final, Places
<1>8. ASSUME NEW k \in Streams, Data(k) PROVE TypeOK'
  <2>1. /\ stream[k] \in StreamTypes /\ stream[k].at = "wait"
        /\ stream[k].t \in Ids /\ stream[k].v \in Versions
    BY <1>8 DEF Data, StreamsTyped
  <2>2. /\ stream[k].hash \in Content /\ stream[k].hash \in Seq(Versions \cup {Hole})
        /\ Len(stream[k].hash) \in Nat
    BY <2>1 DEF StreamTypes, Content
  <2> DEFINE c == Written(file[stream[k].t], Len(stream[k].hash), stream[k].v)
             h == Append(stream[k].hash, stream[k].v)
  <2>3. c \in Content BY <2>1, <2>2, WrittenFacts
  <2>4. h \in Content /\ Len(h) = Len(stream[k].hash) + 1 BY <2>1, <2>2 DEF Content
  <2>5. PICK at \in {"sync", "ack"} :
               stream' = [stream EXCEPT ![k] = [stream[k] EXCEPT !.hash = h, !.at = at]]
    BY <1>8 DEF Data
  <2>6. file' = [file EXCEPT ![stream[k].t] = c] BY <1>8 DEF Data
  <2>7. Len(h) <= Size BY <1>8, <2>2, <2>4 DEF Data
  <2>11. UNCHANGED <<inBin, born, rec, temp, dur, dest>> BY <1>8 DEF Data
  <2> HIDE DEF c, h
  <2> DEFINE r == [stream[k] EXCEPT !.hash = h, !.at = at]
  <2>8. /\ r \in StreamTypes /\ r.at = at /\ r.t = stream[k].t /\ r.v = stream[k].v
        /\ r.hash = h
    BY <2>1, <2>4, <2>5 DEF StreamTypes, Places
  <2>9. stream' = [stream EXCEPT ![k] = r] BY <2>5
  <2> HIDE DEF r
  <2>10. StreamsTyped' BY <2>1, <2>7, <2>8, <2>9, OneStream
  <2> QED BY <2>1, <2>3, <2>6, <2>10, <2>11
<1>9. ASSUME NEW k \in Streams, Sync(k) PROVE TypeOK'
  BY <1>9, MovesTyped DEF Sync, Places
<1>10. ASSUME NEW k \in Streams, Save(k) PROVE TypeOK'
  <2>1. /\ stream[k] \in StreamTypes /\ stream[k].at \in {"save", "dropSave"}
        /\ stream[k].t \in Ids /\ stream[k].v \in Versions /\ Len(stream[k].hash) <= Size
    BY <1>10 DEF Save, StreamsTyped
  <2> DEFINE n == Len(stream[k].hash)
             r == [stream[k] EXCEPT !.at = "ack", !.chk = n]
  <2>2. n \in 0..Size BY <2>1 DEF StreamTypes, Content
  <2>3. /\ r \in StreamTypes /\ r.at = "ack" /\ r.t = stream[k].t /\ r.v = stream[k].v
        /\ r.hash = stream[k].hash
    BY <2>1, <2>2 DEF StreamTypes, Places
  <2>6. rec' \in [Ids -> 0..Size \cup {None}] /\ UNCHANGED <<inBin, born, temp, file, dur, dest>>
    BY <1>10, <2>1, <2>2 DEF Save
  <2>7. stream' = [stream EXCEPT ![k] = r] \/ Ends(k) \/ Goto(k, "clean")
    BY <1>10 DEF Save
  <2>4. CASE stream' = [stream EXCEPT ![k] = r]
    <3> HIDE DEF r
    <3>1. StreamsTyped' BY <2>1, <2>3, <2>4, OneStream
    <3> QED BY <2>6, <3>1
  <2>5. CASE Ends(k) \/ Goto(k, "clean")
    <3>1. StreamsTyped' BY <2>1, <2>5, MovesTyped DEF Places
    <3> QED BY <2>6, <3>1
  <2> QED BY <2>4, <2>5, <2>7
<1>11. ASSUME NEW k \in Streams, FinalSync(k) PROVE TypeOK'
  BY <1>11, MovesTyped DEF FinalSync, Places
<1>12. ASSUME NEW k \in Streams, NEW s \in Slots, Install(k, s) PROVE TypeOK'
  <2>1. stream[k].at = "install" /\ stream[k].t \in Ids BY <1>12 DEF Install, StreamsTyped
  <2>2. StreamsTyped' BY <1>12, <2>1, MovesTyped DEF Install, Places
  <2> QED BY <1>12, <2>1, <2>2 DEF Install
<1>13. ASSUME NEW k \in Streams, Clean(k) PROVE TypeOK'
  BY <1>13, MovesTyped DEF Clean, Places
<1>14. ASSUME NEW k \in Streams, Forget(k) PROVE TypeOK'
  BY <1>14, MovesTyped DEF Forget
<1>15. ASSUME NEW k \in Streams, Disconnect(k) PROVE TypeOK'
  <2> DEFINE r == [stream[k] EXCEPT !.live = FALSE]
  <2>1. stream[k] \in StreamTypes BY DEF StreamsTyped
  <2>2. /\ r \in StreamTypes /\ r.at = stream[k].at /\ r.t = stream[k].t
        /\ r.v = stream[k].v /\ r.hash = stream[k].hash
    BY <2>1 DEF StreamTypes
  <2>3. stream' = [stream EXCEPT ![k] = r] BY <1>15 DEF Disconnect
  <2> HIDE DEF r
  <2>4. StreamsTyped' BY <2>2, <2>3, OneStream DEF StreamsTyped
  <2> QED BY <1>15, <2>4 DEF Disconnect
<1>16. CASE Restart
  <2>1. StreamsTyped' BY <1>16, OffTyped DEF Restart, StreamsTyped
  <2> QED BY <1>16, <2>1 DEF Restart, Slots
<1>17. CASE UNCHANGED vars
  BY <1>17 DEF vars, StreamsTyped
<1> QED
  BY <1>1, <1>2, <1>3, <1>4, <1>5, <1>6, <1>7, <1>8, <1>9, <1>10, <1>11, <1>12,
     <1>13, <1>14, <1>15, <1>16, <1>17
  DEF Next, Serve, Client

\* TypeOK holds in every reachable state, also when transfers are shared.
THEOREM TypeCorrect == Spec => []TypeOK
<1>1. Init => TypeOK BY TypeInit
<1>2. TypeOK /\ [Next]_vars => TypeOK' BY TypeNext
<1> QED BY <1>1, <1>2, PTL DEF Spec

-----------------------------------------------------------------------------
(* Contents in place and committed offsets                                 *)

Durable(t) ==
  rec[t] # None =>
    /\ rec[t] <= Len(dur[t]) /\ rec[t] <= Len(file[t])
    /\ \A i \in 1..rec[t] : dur[t][i] = file[t][i]

Intact(t) ==
  (\E s \in Slots : dest[s] = t) =>
    \E v \in Versions : file[t] = Full(v) /\ dur[t] = Full(v)

TransferInv == TypeOK /\ OwnedInv /\ CheckpointDurable /\ TargetIntact

\* The two properties, one transfer at a time.
LEMMA ByTransfer ==
  ASSUME TypeOK
  PROVE  /\ CheckpointDurable <=> \A t \in Ids : Durable(t)
         /\ TargetIntact <=> \A t \in Ids : Intact(t)
<1>1. CheckpointDurable <=> \A t \in Ids : Durable(t) BY DEF CheckpointDurable, Durable
<1>2. \A s \in Slots : dest[s] # None => dest[s] \in Ids BY DEF TypeOK
<1>3. None \notin Ids OBVIOUS
<1>4. TargetIntact <=> \A t \in Ids : Intact(t) BY <1>2, <1>3 DEF TargetIntact, Intact
<1> QED BY <1>1, <1>4

\* A step of stream k that changes the files and the record of t only: all there
\* is to show is about k and t.
LEMMA OneTransfer ==
  ASSUME TransferInv, TypeOK', NEW k \in Streams, NEW t \in Ids,
         \A j \in Streams \ {k} : stream'[j] = stream[j] /\ stream[j].t # t,
         stream'[k].t \in {t, None},
         \A u \in Ids \ {t} : /\ temp'[u] = temp[u] /\ rec'[u] = rec[u]
                              /\ file'[u] = file[u] /\ dur'[u] = dur[u]
                              /\ u \in born <=> u \in born',
         \A s \in Slots : dest'[s] = dest[s] \/ dest'[s] = t,
         StreamOwns(k)', FileOwned(t)', Durable(t)', Intact(t)'
  PROVE  TransferInv'
<1>0. \A u \in Ids \ {t} : /\ temp'[u] = temp[u] /\ rec'[u] = rec[u]
                           /\ file'[u] = file[u] /\ dur'[u] = dur[u]
  OBVIOUS
<1>1. \A u \in Ids : Durable(u)'
  <2> SUFFICES ASSUME NEW u \in Ids \ {t} PROVE Durable(u)' OBVIOUS
  <2>1. Durable(u) BY ByTransfer DEF TransferInv
  <2> QED BY <1>0, <2>1, ZenonT(30) DEF Durable
<1>2. \A u \in Ids : Intact(u)'
  <2> SUFFICES ASSUME NEW u \in Ids \ {t} PROVE Intact(u)' OBVIOUS
  <2>1. Intact(u) BY ByTransfer DEF TransferInv
  <2>2. \A s \in Slots : dest'[s] = u => dest[s] = u OBVIOUS
  <2> QED BY <1>0, <2>1, <2>2 DEF Intact
<1>3. \A u \in Ids : FileOwned(u)'
  <2> SUFFICES ASSUME NEW u \in Ids \ {t} PROVE FileOwned(u)' OBVIOUS
  <2>1. FileOwned(u) BY DEF TransferInv, OwnedInv
  <2>2. \A j \in Streams : stream'[j].t = u => stream[j].t = u OBVIOUS
  <2> QED BY <2>1, <2>2 DEF FileOwned
<1>4. \A j \in Streams : StreamOwns(j)'
  <2> SUFFICES ASSUME NEW j \in Streams \ {k} PROVE StreamOwns(j)' OBVIOUS
  <2>1. StreamOwns(j) BY DEF TransferInv, OwnedInv
  <2>2. stream'[j] = stream[j] OBVIOUS
  <2>3. stream[j].at # "off" => stream[j].t \in Ids \ {t}
    BY DEF TransferInv, TypeOK, StreamsTyped
  <2> QED BY <2>1, <2>2, <2>3 DEF StreamOwns, Writing, Hashed
<1>5. \A i, j \in Streams : stream'[j].t # None /\ stream'[i].t = stream'[j].t => i = j
  BY DEF TransferInv, OwnedInv
<1>6. OwnedInv' BY <1>3, <1>4, <1>5 DEF OwnedInv
<1>7. CheckpointDurable' /\ TargetIntact'
  <2>1. \A s \in Slots : dest'[s] # None => dest'[s] \in Ids BY DEF TypeOK
  <2> QED BY <1>1, <1>2, <2>1 DEF CheckpointDurable, TargetIntact, Durable, Intact
<1> QED BY <1>6, <1>7 DEF TransferInv

\* Nothing is owned at the start.
LEMMA InvInit == Init => TransferInv
<1> SUFFICES ASSUME Init PROVE TransferInv OBVIOUS
<1>1. TypeOK BY TypeInit
<1>2. \A k \in Streams : StreamOwns(k)
  BY OffTyped DEF Init, StreamOwns, Writing, Hashed
<1>3. \A t \in Ids : FileOwned(t)
  BY OffTyped DEF Init, FileOwned
<1> QED
  BY <1>1, <1>2, <1>3, OffTyped
  DEF Init, TransferInv, OwnedInv, CheckpointDurable, TargetIntact

\* A stream that works on a transfer is the only one that does.
LEMMA Alone ==
  ASSUME TransferInv, NEW k \in Streams, stream[k].at # "off"
  PROVE  /\ stream[k] \in StreamTypes
         /\ stream[k].t \in Ids /\ stream[k].t # None
         /\ stream[k].at \notin {"clean", "forget"} => stream[k].v \in Versions
         /\ Len(stream[k].hash) <= Size
         /\ \A j \in Streams \ {k} : stream[j].t # stream[k].t
         /\ StreamOwns(k) /\ FileOwned(stream[k].t)
         /\ Durable(stream[k].t) /\ Intact(stream[k].t)
BY ByTransfer DEF TransferInv, OwnedInv, TypeOK, StreamsTyped

\* What the end of a stream and its next step leave of it.
LEMMA Moved ==
  ASSUME TypeOK, NEW k \in Streams
  PROVE  /\ Ends(k) => /\ stream'[k] = Off
                       /\ \A j \in Streams \ {k} : stream'[j] = stream[j]
         /\ \A at : Goto(k, at) =>
              /\ stream'[k].at = at /\ stream'[k].t = stream[k].t
              /\ stream'[k].v = stream[k].v /\ stream'[k].hash = stream[k].hash
              /\ stream'[k].chk = stream[k].chk
              /\ \A j \in Streams \ {k} : stream'[j] = stream[j]
<1>1. stream \in [Streams -> StreamTypes] BY DEF TypeOK, StreamsTyped
<1>2. stream[k] \in StreamTypes BY <1>1
<1>3. ASSUME Ends(k)
      PROVE  stream'[k] = Off /\ \A j \in Streams \ {k} : stream'[j] = stream[j]
  BY <1>1, <1>3 DEF Ends
<1>4. ASSUME NEW at, Goto(k, at)
      PROVE  /\ stream'[k].at = at /\ stream'[k].t = stream[k].t
             /\ stream'[k].v = stream[k].v /\ stream'[k].hash = stream[k].hash
             /\ stream'[k].chk = stream[k].chk
             /\ \A j \in Streams \ {k} : stream'[j] = stream[j]
  <2>1. /\ stream'[k] = [stream[k] EXCEPT !.at = at]
        /\ \A j \in Streams \ {k} : stream'[j] = stream[j]
    BY <1>1, <1>4 DEF Goto
  <2> QED BY <1>2, <2>1 DEF StreamTypes
<1> QED BY <1>3, <1>4

\* A step that leaves files and records alone and moves a stream on.
LEMMA MoveKeeps ==
  ASSUME TransferInv, TypeOK', NEW k \in Streams, stream[k].at # "off",
         UNCHANGED disk,
         \A j \in Streams \ {k} : stream'[j] = stream[j],
         stream'[k].t \in {stream[k].t, None},
         StreamOwns(k)'
  PROVE  TransferInv'
<1>1. PICK t \in Ids : /\ t = stream[k].t /\ FileOwned(t) /\ Durable(t) /\ Intact(t)
                       /\ \A j \in Streams \ {k} : stream[j].t # t
  BY Alone
<1>2. t \in born BY <1>1 DEF FileOwned
<1>3. FileOwned(t)' BY <1>1, <1>2 DEF FileOwned, disk
<1>4. Durable(t)' BY <1>1 DEF Durable, disk
<1>5. Intact(t)' BY <1>1 DEF Intact, disk
<1>6. stream'[k].t \in {t, None} BY <1>1
<1>7. /\ \A u \in Ids \ {t} : /\ temp'[u] = temp[u] /\ rec'[u] = rec[u]
                              /\ file'[u] = file[u] /\ dur'[u] = dur[u]
                              /\ u \in born <=> u \in born'
      /\ \A s \in Slots : dest'[s] = dest[s]
  BY DEF disk
<1> QED BY <1>1, <1>3, <1>4, <1>5, <1>6, <1>7, OneTransfer

\* A step that touches no file keeps the invariant.
LEMMA InvMoves ==
  ASSUME TransferInv, TypeOK', NEW k \in Streams,
         Ack(k) \/ RecvFailed(k) \/ DataRefused(k) \/ Final(k) \/ Reopen(k) \/ Disconnect(k)
  PROVE  TransferInv'
<1> USE DEF Writing, Hashed
<1>0. TypeOK BY DEF TransferInv
<1>1. CASE Ack(k) \/ RecvFailed(k) \/ DataRefused(k)
  <2>1. /\ stream[k].at \in {"ack", "wait"} /\ UNCHANGED disk
        /\ stream'[k].at \in {"wait", "clean", "dropSync"} /\ stream'[k].t = stream[k].t
        /\ stream'[k].hash = stream[k].hash
        /\ \A j \in Streams \ {k} : stream'[j] = stream[j]
    BY <1>0, <1>1, Moved DEF Ack, RecvFailed, DataRefused
  <2>2. StreamOwns(k)' BY <2>1, Alone DEF StreamOwns, disk
  <2> QED BY <2>1, <2>2, MoveKeeps
<1>2. CASE Final(k)
  <2>1. /\ stream[k].at = "wait" /\ UNCHANGED disk
        /\ stream'[k].at \in {"fsync", "clean"} /\ stream'[k].t = stream[k].t
        /\ stream'[k].hash = stream[k].hash /\ stream'[k].v = stream[k].v
        /\ stream'[k].at = "fsync" => stream[k].hash = Full(stream[k].v)
        /\ \A j \in Streams \ {k} : stream'[j] = stream[j]
    BY <1>0, <1>2, Moved DEF Final
  <2>2. StreamOwns(k)' BY <2>1, Alone DEF StreamOwns, disk
  <2> QED BY <2>1, <2>2, MoveKeeps
<1>3. CASE Reopen(k)
  <2>1. /\ stream[k].at = "reopen" /\ UNCHANGED disk
        /\ \A j \in Streams \ {k} : stream'[j] = stream[j]
        /\ \/ stream'[k] = Off
           \/ /\ stream'[k].at = "truncate" /\ stream'[k].t = stream[k].t
              /\ stream'[k].chk = stream[k].chk /\ temp[stream[k].t]
    BY <1>0, <1>3, Moved DEF Reopen
  <2>2. StreamOwns(k)' BY <2>1, Alone, OffTyped DEF StreamOwns, disk
  <2>3. stream'[k].t \in {stream[k].t, None} BY <2>1, OffTyped
  <2> QED BY <2>1, <2>2, <2>3, MoveKeeps
<1>4. CASE Disconnect(k)
  <2>1. CASE stream[k].at # "off"
    <3>1. stream \in [Streams -> StreamTypes] BY <1>0 DEF TypeOK, StreamsTyped
    <3>2. /\ stream'[k] = [stream[k] EXCEPT !.live = FALSE] /\ UNCHANGED disk
          /\ \A j \in Streams \ {k} : stream'[j] = stream[j]
      BY <1>4, <3>1 DEF Disconnect
    <3>3. /\ stream'[k].at = stream[k].at /\ stream'[k].t = stream[k].t
          /\ stream'[k].v = stream[k].v /\ stream'[k].hash = stream[k].hash
          /\ stream'[k].chk = stream[k].chk
      BY <3>1, <3>2 DEF StreamTypes
    <3>4. StreamOwns(k)' BY <2>1, <3>2, <3>3, Alone DEF StreamOwns, disk
    <3> QED BY <2>1, <3>2, <3>3, <3>4, MoveKeeps
  <2>2. CASE stream[k].at = "off"
    <3>1. StreamOwns(k) BY DEF TransferInv, OwnedInv
    <3>2. stream \in [Streams -> StreamTypes] BY <1>0 DEF TypeOK, StreamsTyped
    <3>3. /\ stream' \in [Streams -> StreamTypes] /\ UNCHANGED disk
          /\ \A j \in Streams : /\ stream'[j].at = stream[j].at /\ stream'[j].t = stream[j].t
                               /\ stream'[j].v = stream[j].v /\ stream'[j].hash = stream[j].hash
                               /\ stream'[j].chk = stream[j].chk
      BY <1>4, <3>2 DEF Disconnect, StreamTypes
    <3>4. \A j \in Streams : StreamOwns(j)'
      BY <3>3 DEF TransferInv, OwnedInv, StreamOwns, disk
    <3>5. \A t \in Ids : FileOwned(t)'
      BY <3>3 DEF TransferInv, OwnedInv, FileOwned, disk
    <3>6. CheckpointDurable' /\ TargetIntact'
      BY <3>3 DEF TransferInv, CheckpointDurable, TargetIntact, disk
    <3>7. OwnedInv' BY <3>3, <3>4, <3>5 DEF TransferInv, OwnedInv
    <3> QED BY <3>6, <3>7 DEF TransferInv
  <2> QED BY <2>1, <2>2
<1> QED BY <1>1, <1>2, <1>3, <1>4

\* A new transfer has a file of its own.
LEMMA InvCreate ==
  ASSUME TransferInv, TypeOK', NEW k \in Streams, NEW t \in Ids, NEW v \in Versions,
         Create(k, t, v)
  PROVE  TransferInv'
<1>0. /\ TypeOK /\ FileOwned(t) /\ t \notin born
      /\ stream \in [Streams -> StreamTypes]
  BY DEF TransferInv, OwnedInv, TypeOK, StreamsTyped, Create
<1>1. /\ file[t] = <<>> /\ rec[t] = None /\ \A s \in Slots : dest[s] # t
      /\ \A j \in Streams : stream[j].t # t
  BY <1>0 DEF FileOwned
<1>2. /\ stream'[k] = New("first", t, v, 0, TRUE)
      /\ \A j \in Streams \ {k} : stream'[j] = stream[j]
      /\ temp'[t] /\ UNCHANGED <<rec, file, dur, dest>>
      /\ t \in born' /\ \A u \in Ids \ {t} : temp'[u] = temp[u] /\ (u \in born <=> u \in born')
  BY <1>0 DEF Create, TypeOK
<1>3. /\ stream'[k].at = "first" /\ stream'[k].t = t /\ stream'[k].hash = <<>>
  BY <1>2 DEF New
<1>4. StreamOwns(k)' BY <1>1, <1>2, <1>3 DEF StreamOwns, Writing, Hashed
<1>5. FileOwned(t)' BY <1>1, <1>2 DEF FileOwned
<1>6. Durable(t)' /\ Intact(t)' BY <1>1, <1>2 DEF Durable, Intact
<1> QED BY <1>1, <1>2, <1>3, <1>4, <1>5, <1>6, OneTransfer

\* Without sharing nobody serves the transfer that is resumed or cancelled.
LEMMA InvResume ==
  ASSUME ~Sharing, TransferInv, TypeOK', NEW k \in Streams, NEW t \in Ids,
         Cancel(k, t) \/ \E v \in Versions : Resume(k, t, v)
  PROVE  TransferInv'
<1>0. /\ FileOwned(t) /\ stream \in [Streams -> StreamTypes]
  BY DEF TransferInv, OwnedInv, TypeOK, StreamsTyped
<1>1. /\ rec[t] # None /\ UNCHANGED disk
      /\ \A j \in Streams : stream[j].t # t
  BY DEF Cancel, Resume, Free
<1>2. PICK v \in Versions \cup {None} :
        /\ stream'[k] \in {New("reopen", t, v, rec[t], TRUE), New("clean", t, v, 0, FALSE)}
        /\ \A j \in Streams \ {k} : stream'[j] = stream[j]
  BY <1>0 DEF Cancel, Resume
<1>3. /\ stream'[k].t = t
      /\ \/ stream'[k].at = "clean"
         \/ stream'[k].at = "reopen" /\ stream'[k].chk = rec[t]
  BY <1>2 DEF New
<1>4. StreamOwns(k)' BY <1>1, <1>3 DEF StreamOwns, Writing, Hashed, disk
<1>5. t \in born BY <1>0, <1>1 DEF FileOwned
<1>6. FileOwned(t)' BY <1>0, <1>1, <1>5 DEF FileOwned, disk
<1>7. Durable(t)' /\ Intact(t)'
  <2>1. TypeOK BY DEF TransferInv
  <2>2. Durable(t) /\ Intact(t) BY <2>1, ByTransfer DEF TransferInv
  <2> QED BY <1>1, <2>2 DEF Durable, Intact, disk
<1> QED BY <1>1, <1>2, <1>3, <1>4, <1>6, <1>7, OneTransfer DEF disk

\* What follows needs of the invariant, for the stream that moves.
LEMMA Working ==
  ASSUME TransferInv, NEW k \in Streams, stream[k].at # "off"
  PROVE  \E t \in Ids :
           /\ t = stream[k].t /\ t \in born
           /\ stream[k] \in StreamTypes
           /\ \A j \in Streams \ {k} : stream[j].t # t
           /\ StreamOwns(k) /\ FileOwned(t) /\ Durable(t) /\ Intact(t)
           /\ file[t] \in Content /\ dur[t] \in Content
           /\ rec[t] # None => rec[t] \in Nat
           /\ TypeOK
<1>1. TypeOK BY DEF TransferInv
<1>2. stream[k].t \in born BY Alone DEF FileOwned
<1> QED BY <1>1, <1>2, Alone DEF TypeOK

\* The first record, which commits nothing, or the end of a transfer without one.
LEMMA InvFirstSave ==
  ASSUME TransferInv, TypeOK', NEW k \in Streams, FirstSave(k)
  PROVE  TransferInv'
<1> USE DEF Writing, Hashed
<1>0. stream[k].at = "first" BY DEF FirstSave
<1>1. PICK t \in Ids :
           /\ t = stream[k].t /\ t \in born
           /\ \A j \in Streams \ {k} : stream[j].t # t
           /\ StreamOwns(k) /\ FileOwned(t) /\ Durable(t) /\ Intact(t)
           /\ file[t] \in Content /\ dur[t] \in Content
           /\ TypeOK
  BY <1>0, Working
<1>2. /\ UNCHANGED <<born, file, dur, dest>>
      /\ \A u \in Ids \ {t} : temp'[u] = temp[u] /\ rec'[u] = rec[u]
      /\ \A j \in Streams \ {k} : stream'[j] = stream[j]
      /\ \/ /\ rec'[t] = 0 /\ temp'[t] = temp[t]
            /\ stream'[k].at = "ack" /\ stream'[k].t = t
            /\ stream'[k].hash = stream[k].hash
         \/ rec'[t] = rec[t] /\ ~temp'[t] /\ stream'[k] = Off
  BY <1>1, Moved DEF FirstSave, TypeOK
<1>3. StreamOwns(k)'
  <2>1. Len(file[t]) \in Nat BY <1>1 DEF Content
  <2> QED BY <1>0, <1>1, <1>2, <2>1, OffTyped DEF StreamOwns
<1>4. FileOwned(t)' BY <1>0, <1>1, <1>2 DEF FileOwned, StreamOwns
<1>5. Durable(t)'
  <2>1. Len(file[t]) \in Nat /\ Len(dur[t]) \in Nat BY <1>1 DEF Content
  <2> QED BY <1>1, <1>2, <2>1 DEF Durable
<1>6. Intact(t)' BY <1>1, <1>2 DEF Intact
<1>7. stream'[k].t \in {t, None} BY <1>2, OffTyped
<1> QED BY <1>1, <1>2, <1>3, <1>4, <1>5, <1>6, <1>7, OneTransfer

\* A resume cuts the file to what is committed and hashes it again.
LEMMA InvTruncate ==
  ASSUME TransferInv, TypeOK', NEW k \in Streams, Truncate(k)
  PROVE  TransferInv'
<1> USE DEF Writing, Hashed
<1>0. stream[k].at = "truncate" BY DEF Truncate
<1>1. PICK t \in Ids :
           /\ t = stream[k].t /\ t \in born /\ stream[k] \in StreamTypes
           /\ \A j \in Streams \ {k} : stream[j].t # t
           /\ StreamOwns(k) /\ FileOwned(t) /\ Durable(t) /\ Intact(t)
           /\ file[t] \in Content /\ dur[t] \in Content
           /\ rec[t] # None => rec[t] \in Nat
           /\ TypeOK
  BY <1>0, Working
<1> DEFINE n == stream[k].chk
           c == Truncated(file[t], n)
<1>2. /\ n \in Nat /\ rec[t] = n /\ temp[t] /\ \A s \in Slots : dest[s] # t
  BY <1>0, <1>1 DEF StreamTypes, StreamOwns, FileOwned
<1>3. n <= Len(dur[t]) /\ n <= Len(file[t]) /\ \A i \in 1..n : dur[t][i] = file[t][i]
  <2>1. rec[t] # None BY <1>2
  <2> QED BY <1>1, <1>2, <2>1 DEF Durable
<1>4. c \in Content /\ Len(c) = n /\ \A i \in 1..n : c[i] = file[t][i]
  <2> HIDE DEF n
  <2>1. Len(file[t]) \in Nat BY <1>1 DEF Content
  <2>2. /\ Truncated(file[t], n) \in Content /\ Len(Truncated(file[t], n)) = n
        /\ \A i \in 1..n : i <= Len(file[t]) => Truncated(file[t], n)[i] = file[t][i]
    BY <1>1, <1>2, TruncatedFacts
  <2> QED BY <1>2, <1>3, <2>1, <2>2
<1>5. \/ Ends(k) /\ UNCHANGED disk
      \/ /\ UNCHANGED <<born, rec, temp, dur, dest>>
         /\ file' = [file EXCEPT ![t] = c]
         /\ stream' = [stream EXCEPT ![k] = [@ EXCEPT !.at = "ack", !.hash = c]]
  BY <1>1 DEF Truncate, disk
<1>6. CASE Ends(k) /\ UNCHANGED disk
  <2>1. stream'[k] = Off /\ \A j \in Streams \ {k} : stream'[j] = stream[j]
    BY <1>1, <1>6, Moved
  <2>2. StreamOwns(k)' BY <2>1, OffTyped DEF StreamOwns
  <2> QED BY <1>0, <1>6, <2>1, <2>2, OffTyped, MoveKeeps
<1>7. CASE /\ UNCHANGED <<born, rec, temp, dur, dest>>
           /\ file' = [file EXCEPT ![t] = c]
           /\ stream' = [stream EXCEPT ![k] = [@ EXCEPT !.at = "ack", !.hash = c]]
  <2> HIDE DEF c, n
  <2>1. /\ file'[t] = c /\ \A u \in Ids \ {t} : file'[u] = file[u]
        /\ stream'[k] = [stream[k] EXCEPT !.at = "ack", !.hash = c]
        /\ \A j \in Streams \ {k} : stream'[j] = stream[j]
    BY <1>1, <1>7 DEF TypeOK, StreamsTyped
  <2>2. stream'[k].at = "ack" /\ stream'[k].t = t /\ stream'[k].hash = c
    BY <1>1, <2>1 DEF StreamTypes
  <2>3. StreamOwns(k)' BY <1>2, <1>4, <1>7, <2>1, <2>2 DEF StreamOwns
  <2>4. FileOwned(t)' BY <1>1, <1>2, <1>7, <2>1 DEF FileOwned
  <2>5. Durable(t)' BY <1>2, <1>3, <1>4, <1>7, <2>1 DEF Durable
  <2>6. Intact(t)' BY <1>2, <1>7 DEF Intact
  <2> QED BY <1>1, <1>7, <2>1, <2>2, <2>3, <2>4, <2>5, <2>6, OneTransfer
<1> QED BY <1>5, <1>6, <1>7

\* A chunk is appended to the file of the stream that received it.
LEMMA InvData ==
  ASSUME TransferInv, TypeOK', NEW k \in Streams, Data(k)
  PROVE  TransferInv'
<1> USE DEF Writing, Hashed
<1>0. stream[k].at = "wait" BY DEF Data
<1>1. PICK t \in Ids :
           /\ t = stream[k].t /\ t \in born /\ stream[k] \in StreamTypes
           /\ \A j \in Streams \ {k} : stream[j].t # t
           /\ StreamOwns(k) /\ FileOwned(t) /\ Durable(t) /\ Intact(t)
           /\ file[t] \in Content /\ dur[t] \in Content
           /\ rec[t] # None => rec[t] \in Nat
           /\ TypeOK
  BY <1>0, Working
<1> DEFINE h == Append(stream[k].hash, stream[k].v)
<1>2. /\ stream[k].hash = file[t] /\ temp[t] /\ \A s \in Slots : dest[s] # t
      /\ rec[t] # None => rec[t] <= Len(file[t])
  BY <1>0, <1>1 DEF StreamOwns, FileOwned
<1>3. stream[k].v \in Versions BY <1>0, <1>1 DEF TypeOK, StreamsTyped
<1>4. Written(file[t], Len(stream[k].hash), stream[k].v) = h
  <2>1. Len(file[t]) \in Nat BY <1>1 DEF Content
  <2> QED BY <1>1, <1>2, <1>3, <2>1, WrittenFacts
<1>5. /\ Len(file[t]) \in Nat /\ Len(h) = Len(file[t]) + 1
      /\ \A i \in 1..Len(file[t]) : h[i] = file[t][i]
  BY <1>1, <1>2, <1>3 DEF Content
<1>6. PICK at \in {"sync", "ack"} :
        stream' = [stream EXCEPT ![k] = [@ EXCEPT !.hash = h, !.at = at]]
  BY DEF Data
<1>7. /\ UNCHANGED <<born, rec, temp, dur, dest>>
      /\ file' = [file EXCEPT ![t] = h]
  BY <1>1, <1>4 DEF Data
<1> HIDE DEF h
<1>8. /\ file'[t] = h /\ \A u \in Ids \ {t} : file'[u] = file[u]
      /\ stream'[k] = [stream[k] EXCEPT !.hash = h, !.at = at]
      /\ \A j \in Streams \ {k} : stream'[j] = stream[j]
  BY <1>1, <1>6, <1>7 DEF TypeOK, StreamsTyped
<1>9. stream'[k].at = at /\ stream'[k].t = t /\ stream'[k].hash = h
  BY <1>1, <1>8 DEF StreamTypes
<1>10. StreamOwns(k)' BY <1>1, <1>2, <1>5, <1>6, <1>7, <1>8, <1>9 DEF StreamOwns
<1>11. FileOwned(t)' BY <1>1, <1>2, <1>7, <1>8 DEF FileOwned
<1>12. Durable(t)' BY <1>1, <1>2, <1>5, <1>7, <1>8 DEF Durable
<1>13. Intact(t)' BY <1>2, <1>7 DEF Intact
<1> QED BY <1>1, <1>7, <1>8, <1>9, <1>10, <1>11, <1>12, <1>13, OneTransfer

\* The syncs: what is durable becomes what is written, or the stream gives up.
LEMMA InvSync ==
  ASSUME TransferInv, TypeOK', NEW k \in Streams, Sync(k) \/ FinalSync(k)
  PROVE  TransferInv'
<1> USE DEF Writing, Hashed
<1>0. stream[k].at \in {"sync", "dropSync", "fsync"} BY DEF Sync, FinalSync
<1>1. PICK t \in Ids :
           /\ t = stream[k].t /\ t \in born /\ stream[k] \in StreamTypes
           /\ \A j \in Streams \ {k} : stream[j].t # t
           /\ StreamOwns(k) /\ FileOwned(t) /\ Durable(t) /\ Intact(t)
           /\ file[t] \in Content /\ dur[t] \in Content
           /\ rec[t] # None => rec[t] \in Nat
           /\ TypeOK
  BY <1>0, Working
<1>2. \/ (Ends(k) \/ Goto(k, "clean")) /\ UNCHANGED disk
      \/ /\ UNCHANGED <<born, rec, temp, file, dest>>
         /\ dur' = [dur EXCEPT ![t] = file[t]]
         /\ \/ stream[k].at # "fsync" /\ (Goto(k, "save") \/ Goto(k, "dropSave"))
            \/ stream[k].at = "fsync" /\ Goto(k, "install")
  BY <1>0, <1>1 DEF Sync, FinalSync, disk
<1>3. CASE (Ends(k) \/ Goto(k, "clean")) /\ UNCHANGED disk
  <2>1. /\ stream'[k] = Off \/ (stream'[k].at = "clean" /\ stream'[k].t = stream[k].t)
        /\ \A j \in Streams \ {k} : stream'[j] = stream[j]
    BY <1>1, <1>3, Moved
  <2>2. StreamOwns(k)' BY <2>1, OffTyped DEF StreamOwns
  <2>3. stream'[k].t \in {stream[k].t, None} BY <2>1, OffTyped
  <2> QED BY <1>0, <1>3, <2>1, <2>2, <2>3, MoveKeeps
<1>4. CASE /\ UNCHANGED <<born, rec, temp, file, dest>>
           /\ dur' = [dur EXCEPT ![t] = file[t]]
           /\ \/ stream[k].at # "fsync" /\ (Goto(k, "save") \/ Goto(k, "dropSave"))
              \/ stream[k].at = "fsync" /\ Goto(k, "install")
  <2>1. /\ stream'[k].t = t /\ stream'[k].hash = stream[k].hash /\ stream'[k].v = stream[k].v
        /\ stream'[k].at \in {"save", "dropSave", "install"}
        /\ stream'[k].at = "install" => stream[k].at = "fsync"
        /\ \A j \in Streams \ {k} : stream'[j] = stream[j]
    BY <1>1, <1>4, Moved
  <2>2. /\ dur'[t] = file[t] /\ \A u \in Ids \ {t} : dur'[u] = dur[u]
    BY <1>1, <1>4 DEF TypeOK
  <2>3. stream[k].hash = file[t] /\ temp[t] /\ \A s \in Slots : dest[s] # t
    BY <1>0, <1>1 DEF StreamOwns, FileOwned
  <2>4. StreamOwns(k)' BY <1>0, <1>1, <1>4, <2>1, <2>2 DEF StreamOwns
  <2>5. FileOwned(t)' BY <1>1, <1>4, <2>3 DEF FileOwned
  <2>6. Durable(t)' BY <1>1, <1>4, <2>2 DEF Durable
  <2>7. Intact(t)' BY <1>4, <2>3 DEF Intact
  <2> QED BY <1>1, <1>4, <2>1, <2>2, <2>4, <2>5, <2>6, <2>7, OneTransfer
<1> QED BY <1>2, <1>3, <1>4

\* A checkpoint records what it has just synced.
LEMMA InvSave ==
  ASSUME TransferInv, TypeOK', NEW k \in Streams, Save(k)
  PROVE  TransferInv'
<1> USE DEF Writing, Hashed
<1>0. stream[k].at \in {"save", "dropSave"} BY DEF Save
<1>1. PICK t \in Ids :
           /\ t = stream[k].t /\ t \in born /\ stream[k] \in StreamTypes
           /\ \A j \in Streams \ {k} : stream[j].t # t
           /\ StreamOwns(k) /\ FileOwned(t) /\ Durable(t) /\ Intact(t)
           /\ file[t] \in Content /\ dur[t] \in Content
           /\ rec[t] # None => rec[t] \in Nat
           /\ TypeOK
  BY <1>0, Working
<1> DEFINE n == Len(stream[k].hash)
<1>2. /\ stream[k].hash = file[t] /\ dur[t] = file[t] /\ temp[t]
      /\ rec[t] # None => rec[t] <= Len(file[t])
      /\ n = Len(file[t]) /\ n \in Nat
  BY <1>0, <1>1 DEF StreamOwns, Content
<1>3. /\ UNCHANGED <<born, temp, file, dur, dest>>
      /\ rec'[t] \in {n, rec[t]} /\ \A u \in Ids \ {t} : rec'[u] = rec[u]
  BY <1>0, <1>1 DEF Save, TypeOK
<1>4. /\ \A j \in Streams \ {k} : stream'[j] = stream[j]
      /\ \/ stream'[k] = Off
         \/ stream'[k].at = "clean" /\ stream'[k].t = t
         \/ stream'[k].at = "ack" /\ stream'[k].t = t /\ stream'[k].hash = stream[k].hash
  <2>1. CASE Ends(k) \/ Goto(k, "clean") BY <1>1, <2>1, Moved
  <2>2. CASE stream' = [stream EXCEPT ![k] = [@ EXCEPT !.at = "ack", !.chk = n]]
    <3> HIDE DEF n
    <3>1. /\ stream'[k] = [stream[k] EXCEPT !.at = "ack", !.chk = n]
          /\ \A j \in Streams \ {k} : stream'[j] = stream[j]
      BY <1>1, <2>2 DEF TypeOK, StreamsTyped
    <3> QED BY <1>1, <3>1 DEF StreamTypes
  <2> QED BY <2>1, <2>2 DEF Save
<1>5. StreamOwns(k)' BY <1>2, <1>3, <1>4, OffTyped DEF StreamOwns
<1>6. FileOwned(t)' BY <1>1, <1>2, <1>3 DEF FileOwned
<1>7. Durable(t)' BY <1>1, <1>2, <1>3 DEF Durable
<1>8. Intact(t)' BY <1>1, <1>3 DEF Intact
<1>9. stream'[k].t \in {t, None} BY <1>4, OffTyped
<1> QED BY <1>1, <1>3, <1>4, <1>5, <1>6, <1>7, <1>8, <1>9, OneTransfer

\* What is installed is whole, and its owner lets go of it.
LEMMA InvInstall ==
  ASSUME TransferInv, TypeOK', NEW k \in Streams, NEW s \in Slots, Install(k, s)
  PROVE  TransferInv'
<1> USE DEF Writing, Hashed
<1>0. stream[k].at = "install" BY DEF Install
<1>1. PICK t \in Ids :
           /\ t = stream[k].t /\ t \in born /\ stream[k] \in StreamTypes
           /\ \A j \in Streams \ {k} : stream[j].t # t
           /\ StreamOwns(k) /\ FileOwned(t) /\ Durable(t) /\ Intact(t)
           /\ file[t] \in Content /\ dur[t] \in Content
           /\ rec[t] # None => rec[t] \in Nat
           /\ TypeOK
  BY <1>0, Working
<1>2. stream[k].v \in Versions /\ file[t] = Full(stream[k].v) /\ dur[t] = Full(stream[k].v)
  BY <1>0, <1>1 DEF StreamOwns, TypeOK, StreamsTyped
<1>3. CASE UNCHANGED disk
  <2>1. /\ stream'[k].at \in {"clean", "forget"} /\ stream'[k].t = stream[k].t
        /\ \A j \in Streams \ {k} : stream'[j] = stream[j]
    BY <1>1, Moved DEF Install
  <2>2. StreamOwns(k)' BY <2>1 DEF StreamOwns
  <2> QED BY <1>0, <1>3, <2>1, <2>2, MoveKeeps
<1>4. CASE /\ dest' = [dest EXCEPT ![s] = t]
           /\ temp' = [temp EXCEPT ![t] = FALSE]
           /\ Goto(k, "forget")
           /\ UNCHANGED <<born, rec, file, dur>>
  <2>1. /\ stream'[k].at = "forget" /\ stream'[k].t = t
        /\ \A j \in Streams \ {k} : stream'[j] = stream[j]
    BY <1>1, <1>4, Moved
  <2>2. /\ ~temp'[t] /\ \A u \in Ids \ {t} : temp'[u] = temp[u]
        /\ \A x \in Slots : dest'[x] = dest[x] \/ dest'[x] = t
    BY <1>1, <1>4 DEF TypeOK
  <2>3. StreamOwns(k)' BY <2>1 DEF StreamOwns
  <2>4. FileOwned(t)' BY <1>1, <1>4, <2>2 DEF FileOwned
  <2>5. Durable(t)' BY <1>1, <1>4 DEF Durable
  <2>6. Intact(t)' BY <1>2, <1>4 DEF Intact
  <2> QED BY <1>1, <1>4, <2>1, <2>2, <2>3, <2>4, <2>5, <2>6, OneTransfer
<1> QED BY <1>1, <1>3, <1>4 DEF Install, disk

\* Removing the file or the record of a transfer that has ended disturbs no other.
LEMMA InvEnd ==
  ASSUME TransferInv, TypeOK', NEW k \in Streams, Clean(k) \/ Forget(k)
  PROVE  TransferInv'
<1> USE DEF Writing, Hashed
<1>0. stream[k].at \in {"clean", "forget"} BY DEF Clean, Forget
<1>1. PICK t \in Ids :
           /\ t = stream[k].t /\ t \in born /\ stream[k] \in StreamTypes
           /\ \A j \in Streams \ {k} : stream[j].t # t
           /\ StreamOwns(k) /\ FileOwned(t) /\ Durable(t) /\ Intact(t)
           /\ file[t] \in Content /\ dur[t] \in Content
           /\ rec[t] # None => rec[t] \in Nat
           /\ TypeOK
  BY <1>0, Working
<1>2. /\ UNCHANGED <<born, file, dur, dest>>
      /\ temp'[t] => temp[t]
      /\ \A u \in Ids \ {t} : temp'[u] = temp[u]
      /\ rec'[t] \in {rec[t], None} /\ \A u \in Ids \ {t} : rec'[u] = rec[u]
  BY <1>1 DEF Clean, Forget, TypeOK
<1>3. /\ stream'[k] = Off \/ (stream'[k].at = "forget" /\ stream'[k].t = t)
      /\ \A j \in Streams \ {k} : stream'[j] = stream[j]
  BY <1>1, Moved DEF Clean, Forget
<1>4. StreamOwns(k)' BY <1>3, OffTyped DEF StreamOwns
<1>5. FileOwned(t)' BY <1>1, <1>2 DEF FileOwned
<1>6. Durable(t)' BY <1>1, <1>2 DEF Durable
<1>7. Intact(t)' BY <1>1, <1>2 DEF Intact
<1>8. stream'[k].t \in {t, None} BY <1>3, OffTyped
<1> QED BY <1>1, <1>2, <1>3, <1>4, <1>5, <1>6, <1>7, <1>8, OneTransfer

\* After a restart nobody serves, and what is durable is all there may be.
LEMMA InvRestart ==
  ASSUME TransferInv, TypeOK', Restart
  PROVE  TransferInv'
<1>0. TypeOK BY DEF TransferInv
<1>1. /\ \A k \in Streams : stream'[k] = Off
      /\ \A t \in Ids : /\ file'[t] \in {file[t], dur[t]}
                        /\ rec'[t] \in {rec[t], None}
                        /\ temp'[t] => temp[t]
      /\ \A s \in Slots : dest'[s] \in {dest[s], None}
      /\ UNCHANGED <<born, dur>>
  BY <1>0 DEF Restart, TypeOK
<1>2. \A k \in Streams : stream'[k].at = "off" /\ stream'[k].t = None
  BY <1>1, OffTyped
<1>3. \A k \in Streams : StreamOwns(k)'
  BY <1>2 DEF StreamOwns, Writing, Hashed
<1>4. ASSUME NEW t \in Ids
      PROVE  FileOwned(t)' /\ Durable(t)' /\ Intact(t)'
  <2>1. FileOwned(t) /\ Durable(t) /\ Intact(t)
    BY <1>0, ByTransfer DEF TransferInv, OwnedInv
  <2>2. /\ file'[t] \in {file[t], dur[t]} /\ rec'[t] \in {rec[t], None}
        /\ temp'[t] => temp[t]
        /\ dur'[t] = dur[t]
        /\ t \in born <=> t \in born'
    BY <1>1
  <2>3. \A s \in Slots : dest'[s] = t => dest[s] = t BY <1>1
  <2>4. t \notin born => file'[t] = <<>>
    BY <2>1, <2>2 DEF FileOwned
  <2>5. FileOwned(t)' BY <1>2, <2>1, <2>2, <2>3, <2>4 DEF FileOwned
  <2>6. Durable(t)' BY <2>1, <2>2 DEF Durable
  <2>7. Intact(t)' BY <2>1, <2>2, <2>3 DEF Intact
  <2> QED BY <2>5, <2>6, <2>7
<1>5. OwnedInv' BY <1>2, <1>3, <1>4 DEF OwnedInv
<1>6. CheckpointDurable' /\ TargetIntact'
  <2>1. \A s \in Slots : dest'[s] # None => dest'[s] \in Ids BY DEF TypeOK
  <2> QED BY <1>4, <2>1 DEF CheckpointDurable, TargetIntact, Durable, Intact
<1> QED BY <1>5, <1>6 DEF TransferInv

\* Without sharing every step keeps the invariant.
LEMMA InvNext ==
  ASSUME ~Sharing, TransferInv, [Next]_vars
  PROVE  TransferInv'
<1>0. TypeOK' BY TypeNext DEF TransferInv
<1>1. ASSUME NEW k \in Streams, Serve(k) PROVE TransferInv'
  BY <1>0, <1>1, InvMoves, InvFirstSave, InvTruncate, InvSync, InvSave, InvInstall, InvEnd
  DEF Serve
<1>2. ASSUME NEW k \in Streams, Client(k) PROVE TransferInv'
  BY <1>0, <1>2, InvMoves, InvCreate, InvResume, InvData DEF Client
<1>3. CASE Restart BY <1>0, <1>3, InvRestart
<1>4. CASE UNCHANGED vars
  BY <1>4 DEF vars, disk, TransferInv, TypeOK, StreamsTyped, OwnedInv, StreamOwns,
              FileOwned, CheckpointDurable, TargetIntact
<1> QED BY <1>1, <1>2, <1>3, <1>4 DEF Next

\* What makes them inductive holds in every reachable state when nothing is shared.
THEOREM TransferInvariant ==
  ASSUME ~Sharing PROVE Spec => []TransferInv
<1>1. Init => TransferInv BY InvInit
<1>2. TransferInv /\ [Next]_vars => TransferInv' BY InvNext
<1> QED BY <1>1, <1>2, PTL DEF Spec

\* Each transfer's file has one stream that knows what is in it, or it is in place.
THEOREM AlwaysOwned ==
  ASSUME ~Sharing PROVE Spec => []OwnedInv
<1>1. TransferInv => OwnedInv BY DEF TransferInv
<1> QED BY <1>1, TransferInvariant, PTL

\* What is put into place is one client's whole content, on disk.
THEOREM AlwaysIntact ==
  ASSUME ~Sharing PROVE Spec => []TargetIntact
<1>1. TransferInv => TargetIntact BY DEF TransferInv
<1> QED BY <1>1, TransferInvariant, PTL

\* A recorded offset is on disk, wherever the power fails.
THEOREM AlwaysDurable ==
  ASSUME ~Sharing PROVE Spec => []CheckpointDurable
<1>1. TransferInv => CheckpointDurable BY DEF TransferInv
<1> QED BY <1>1, TransferInvariant, PTL

\* No step takes back what a record says is committed.
LEMMA GrowsNext ==
  ASSUME TransferInv, [Next]_vars, NEW t \in Ids, rec[t] # None, rec'[t] # None
  PROVE  rec'[t] >= rec[t]
<1>0. rec \in [Ids -> 0..Size \cup {None}] BY DEF TransferInv, TypeOK
<1>1. ASSUME rec'[t] = rec[t] PROVE rec'[t] >= rec[t] BY <1>0, <1>1
<1>2. ASSUME NEW k \in Streams, FirstSave(k) PROVE rec'[t] = rec[t]
  <2>1. stream[k].at = "first" /\ rec[stream[k].t] = None
    BY <1>2 DEF FirstSave, TransferInv, OwnedInv, StreamOwns
  <2> QED BY <1>0, <1>2, <2>1 DEF FirstSave
<1>3. ASSUME NEW k \in Streams, Save(k) PROVE rec'[t] >= rec[t]
  <2>1. CASE rec' = [rec EXCEPT ![stream[k].t] = Len(stream[k].hash)] /\ stream[k].t = t
    <3>1. stream[k].at \in {"save", "dropSave"} BY <1>3 DEF Save
    <3>2. rec[t] <= Len(stream[k].hash)
      BY <2>1, <3>1 DEF TransferInv, OwnedInv, StreamOwns, Hashed
    <3>3. Len(stream[k].hash) \in Nat BY <3>1, Alone DEF StreamTypes, Content
    <3> QED BY <1>0, <2>1, <3>2, <3>3
  <2> QED BY <1>0, <1>1, <1>3, <2>1 DEF Save
<1>4. ASSUME NEW k \in Streams, Forget(k) PROVE rec'[t] = rec[t]
  BY <1>0, <1>4 DEF Forget
<1>5. CASE Restart BY <1>0, <1>1, <1>5 DEF Restart
<1>6. CASE UNCHANGED rec BY <1>1, <1>6
<1> QED
  BY <1>1, <1>2, <1>3, <1>4, <1>5, <1>6
  DEF Next, Serve, Client, Create, Resume, Reopen, Truncate, Ack, Data, DataRefused,
      RecvFailed, Sync, Final, FinalSync, Install, Clean, Cancel, Disconnect, disk, vars

\* A committed offset never shrinks while its transfer lasts.
THEOREM AlwaysGrows ==
  ASSUME ~Sharing PROVE Spec => CommittedGrows
<1>1. TransferInv /\ [Next]_vars =>
        [\A t \in Ids : rec[t] # None /\ rec'[t] # None => rec'[t] >= rec[t]]_vars
  BY GrowsNext
<1> QED BY <1>1, TransferInvariant, PTL DEF Spec, CommittedGrows

-----------------------------------------------------------------------------
(* Downloads                                                               *)

\* A file that has been put into place, under its name or not any more.
Settled(t) ==
  /\ t \in born /\ ~temp[t]
  /\ \E v \in Versions : file[t] = Full(v) /\ dur[t] = Full(v)

PullTyped == pull \in [at : {"off", "read", "done"}, t : Ids \cup {None}, got : Content]

\* The reader's file is settled, and what has been read is a prefix of it.
PullInv ==
  /\ PullTyped
  /\ pull.at = "read" =>
       /\ pull.t \in Ids /\ Settled(pull.t) /\ Len(pull.got) <= Size
       /\ \A i \in 1..Len(pull.got) : pull.got[i] = file[pull.t][i]
  /\ PulledWhole

\* No step of an upload touches a file that is in place.
LEMMA SettledStays ==
  ASSUME TransferInv, [Next]_vars, NEW t \in Ids, Settled(t)
  PROVE  Settled(t)' /\ file'[t] = file[t]
<1>0. TypeOK BY DEF TransferInv
<1>1. ASSUME NEW k \in Streams, stream[k].at \in Writing PROVE stream[k].t # t
  BY <1>1 DEF TransferInv, OwnedInv, StreamOwns, Settled
<1>2. ASSUME UNCHANGED <<file, dur>>, born \subseteq born', temp'[t] => temp[t]
      PROVE  Settled(t)' /\ file'[t] = file[t]
  BY <1>2 DEF Settled
<1>3. ASSUME NEW k \in Streams,
             Truncate(k) \/ Data(k) \/ Sync(k) \/ FinalSync(k)
      PROVE  Settled(t)' /\ file'[t] = file[t]
  <2>1. stream[k].at \in Writing
    BY <1>3 DEF Truncate, Data, Sync, FinalSync, Writing, Hashed
  <2>2. file'[t] = file[t] /\ dur'[t] = dur[t] /\ UNCHANGED <<born, temp>>
    BY <1>0, <1>1, <1>3, <2>1 DEF Truncate, Data, Sync, FinalSync, TypeOK, disk
  <2> QED BY <2>2 DEF Settled
<1>4. ASSUME NEW k \in Streams, NEW u \in Ids, NEW v \in Versions, Create(k, u, v)
      PROVE  Settled(t)' /\ file'[t] = file[t]
  <2>1. u # t BY <1>4 DEF Create, Settled
  <2>2. temp'[t] = temp[t] BY <1>0, <1>4, <2>1 DEF Create, TypeOK
  <2> QED BY <1>2, <1>4, <2>2 DEF Create
<1>5. ASSUME NEW k \in Streams, FirstSave(k) \/ Clean(k) \/ Forget(k)
      PROVE  Settled(t)' /\ file'[t] = file[t]
  <2>1. temp'[t] => temp[t] BY <1>0, <1>5 DEF FirstSave, Clean, Forget, TypeOK
  <2> QED BY <1>2, <1>5, <2>1 DEF FirstSave, Clean, Forget
<1>6. ASSUME NEW k \in Streams, NEW s \in Slots, Install(k, s)
      PROVE  Settled(t)' /\ file'[t] = file[t]
  <2>1. temp'[t] => temp[t] BY <1>0, <1>6 DEF Install, TypeOK
  <2> QED BY <1>2, <1>6, <2>1 DEF Install
<1>7. CASE Restart
  <2>1. file[t] = dur[t] BY DEF Settled
  <2>2. /\ file'[t] = file[t] /\ dur'[t] = dur[t] /\ UNCHANGED born
        /\ temp'[t] => temp[t]
    BY <1>0, <1>7, <2>1 DEF Restart, TypeOK
  <2> QED BY <2>2 DEF Settled
<1>8. ASSUME UNCHANGED <<born, temp, file, dur>>
      PROVE  Settled(t)' /\ file'[t] = file[t]
  BY <1>2, <1>8
<1>9. ASSUME NEW k \in Streams,
             \/ Save(k) \/ Reopen(k) \/ Ack(k) \/ RecvFailed(k) \/ DataRefused(k)
             \/ Final(k) \/ Disconnect(k)
             \/ \E u \in Ids : Cancel(k, u) \/ \E v \in Versions : Resume(k, u, v)
      PROVE  Settled(t)' /\ file'[t] = file[t]
  BY <1>8, <1>9 DEF Save, Reopen, Ack, RecvFailed, DataRefused, Final, Disconnect,
                    Cancel, Resume, disk
<1>10. CASE UNCHANGED vars BY <1>8, <1>10 DEF vars, disk
<1> QED
  BY <1>3, <1>4, <1>5, <1>6, <1>7, <1>9, <1>10 DEF Next, Serve, Client

\* A download changes nothing of the uploads.
LEMMA PullStepIsNext == [PullNext]_pullVars => [Next]_vars
BY DEF PullNext, Pull, OpenForRead, ReadChunk, Receive, Terminal, PullFails, Next, pullVars

\* Nothing is being downloaded at the start.
LEMMA PullInvInit == PullInit => PullInv
BY DEF PullInit, PullInv, PullTyped, PulledWhole, NoPull, Content

\* Every step keeps the invariant of a download.
LEMMA PullInvNext ==
  ASSUME TransferInv, PullInv, [PullNext]_pullVars
  PROVE  PullInv'
<1>0. TypeOK /\ [Next]_vars BY PullStepIsNext DEF TransferInv
<1>1. PullTyped BY DEF PullInv
<1>2. CASE UNCHANGED pull
  <2>1. CASE pull.at = "read"
    <3>1. pull.t \in Ids /\ Settled(pull.t) BY <2>1 DEF PullInv
    <3>2. Settled(pull.t)' /\ file'[pull.t] = file[pull.t]
      BY <1>0, <1>2, <3>1, SettledStays DEF Settled
    <3> QED BY <1>2, <2>1, <3>1, <3>2 DEF PullInv, PullTyped, PulledWhole
  <2>2. CASE pull.at # "read"
    BY <1>2, <2>2 DEF PullInv, PullTyped, PulledWhole
  <2> QED BY <2>1, <2>2
<1>3. CASE pull' = NoPull
  <2>1. NoPull.at = "off" /\ PullTyped'
    BY <1>3 DEF NoPull, PullTyped, Content
  <2> QED BY <1>3, <2>1 DEF PullInv, PulledWhole
<1>4. ASSUME NEW s \in Slots, OpenForRead(s) PROVE PullInv'
  <2>1. PICK t \in Ids : t = dest[s] BY <1>0, <1>4 DEF OpenForRead, TypeOK
  <2>2. FileOwned(t) /\ Intact(t) BY <1>0, <2>1, ByTransfer DEF TransferInv, OwnedInv
  <2>3. Settled(t) BY <2>1, <2>2, <1>0 DEF FileOwned, Intact, Settled, TypeOK
  <2>4. UNCHANGED vars /\ pull' = [at |-> "read", t |-> t, got |-> <<>>]
    BY <1>4, <2>1 DEF OpenForRead
  <2>5. Settled(t)' BY <2>3, <2>4 DEF Settled, vars, disk
  <2>6. PullTyped' BY <2>1, <2>4 DEF PullTyped, Content
  <2>7. pull'.at = "read" /\ pull'.t = t /\ pull'.got = <<>> /\ Len(<<>>) = 0 BY <2>4
  <2>8. PulledWhole' BY <2>7 DEF PulledWhole
  <2>9. Len(pull'.got) = 0 /\ 0 <= Size BY <2>7, TransferAssumption DEF TransferAssumption
  <2>10. pull'.t \in Ids /\ Settled(pull.t)' BY <2>1, <2>5, <2>7
  <2>11. Len(pull'.got) <= Size /\ \A i \in 1..Len(pull'.got) : pull'.got[i] = file'[pull'.t][i]
    BY <2>9
  <2> QED BY <2>6, <2>8, <2>10, <2>11 DEF PullInv
<1>5. CASE ReadChunk
  <2>1. PICK t, n, g :
           /\ t \in Ids /\ n \in Nat /\ t = pull.t /\ n = Len(pull.got)
           /\ g = Append(pull.got, file[t][n + 1])
           /\ pull.at = "read" /\ n < Len(file[t]) /\ UNCHANGED vars
           /\ pull' = [pull EXCEPT !.got = g]
    <3>1. pull.at = "read" BY <1>5 DEF ReadChunk
    <3>2. pull.t \in Ids BY <3>1 DEF PullInv
    <3>3. Len(pull.got) \in Nat BY <1>1 DEF PullTyped, Content
    <3> QED BY <1>5, <3>1, <3>2, <3>3 DEF ReadChunk, Receive
  <2>2. /\ Settled(t) /\ pull.got \in Content
        /\ \A i \in 1..n : pull.got[i] = file[t][i]
    BY <1>1, <2>1 DEF PullInv, PullTyped
  <2>3. file[t] \in Content /\ Len(file[t]) = Size BY <2>2, FullFacts DEF Settled
  <2>5. file[t][n + 1] \in Versions \cup {Hole} BY <2>1, <2>3 DEF Content
  <2>6. /\ g \in Content /\ Len(g) = n + 1
        /\ \A i \in 1..(n + 1) : g[i] = file[t][i]
    BY <2>1, <2>2, <2>5 DEF Content
  <2>7. Settled(t)' /\ file'[t] = file[t] BY <2>1, <2>2 DEF Settled, vars, disk
  <2>8. n + 1 <= Size BY <2>1, <2>3
  <2>9. pull'.at = "read" /\ pull'.t = t /\ pull'.got = g /\ PullTyped'
    BY <1>1, <2>1, <2>6 DEF PullTyped
  <2>10. PulledWhole' BY <2>9 DEF PulledWhole
  <2>11. pull'.t \in Ids /\ Settled(pull.t)' BY <2>1, <2>7, <2>9
  <2>12. \A i \in 1..Len(pull'.got) : pull'.got[i] = file'[pull'.t][i]
    BY <2>6, <2>7, <2>9
  <2> QED BY <2>6, <2>8, <2>9, <2>10, <2>11, <2>12 DEF PullInv
<1>6. CASE Terminal
  <2>1. /\ pull.at = "read" /\ Len(pull.got) = Len(file[pull.t])
        /\ pull' = [pull EXCEPT !.at = "done", !.t = None]
    BY <1>6 DEF Terminal
  <2>2. PICK v \in Versions : file[pull.t] = Full(v)
    BY <2>1 DEF PullInv, Settled
  <2>3. /\ pull.got \in Content /\ Full(v) \in Content
        /\ \A i \in 1..Len(pull.got) : pull.got[i] = Full(v)[i]
    BY <1>1, <2>1, <2>2, FullFacts DEF PullInv, PullTyped
  <2>4. pull.got = Full(v) BY <2>1, <2>2, <2>3, SeqsEqual DEF Content
  <2>5. pull'.at = "done" /\ pull'.got = pull.got /\ PullTyped'
    BY <1>1, <2>1 DEF PullTyped
  <2> QED BY <2>4, <2>5 DEF PullInv, PulledWhole
<1> QED
  BY <1>2, <1>3, <1>4, <1>5, <1>6 DEF PullNext, Pull, PullFails, pullVars

\* What is proved of the uploads holds beside a download.
THEOREM PullRefines == PullSpec => Spec
<1>1. PullInit => Init BY DEF PullInit
<1>2. [PullNext]_pullVars => [Next]_vars BY PullStepIsNext
<1> QED BY <1>1, <1>2, PTL DEF PullSpec, Spec

\* A pull that succeeds has read one whole content.
THEOREM AlwaysWhole ==
  ASSUME ~Sharing PROVE PullSpec => []PulledWhole
<1>1. PullInit => PullInv BY PullInvInit
<1>2. TransferInv /\ PullInv /\ [PullNext]_pullVars => PullInv' BY PullInvNext
<1>3. PullInv => PulledWhole BY DEF PullInv
<1> QED BY <1>1, <1>2, <1>3, TransferInvariant, PullRefines, PTL DEF PullSpec

=============================================================================
