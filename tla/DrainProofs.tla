----------------------------- MODULE DrainProofs -----------------------------
(***************************************************************************)
(* Proofs about Drain for any queue depth, and for any number of bridge    *)
(* connections, starts of the VM and chunks.                               *)
(***************************************************************************)
EXTENDS Drain, TLAPS

\* What the assumptions say of the constants.
LEMMA Numbers ==
  /\ Depth \in Nat /\ Depth > 0
  /\ MaxClients \in Nat /\ MaxDevs \in Nat /\ MaxChunks \in Nat /\ MaxUp \in Nat
  BY DrainAssumption

\* The record types of the goroutines.
Readers == [at : {"off", "read", "stamp", "put", "overflow", "clear", "close", "end"},
            chunk : Chunk, c : 0..MaxClients]
Writers == [at : {"off", "take", "check", "write", "clear", "close"},
            chunk : Chunk, c : 0..MaxClients]
Pumps   == [at : {"off", "read", "dev", "write", "loop", "exit", "close"},
            d : 0..MaxDevs]

-----------------------------------------------------------------------------
(* Types                                                                   *)

\* A goroutine moves on.
LEMMA ReaderMoves ==
  ASSUME TypeOK, NEW d \in Devs, NEW c \in 0..MaxClients,
         NEW a \in {"off", "read", "stamp", "put", "overflow", "clear", "close", "end"},
         \/ reader' = [reader EXCEPT ![d].at = a]
         \/ reader' = [reader EXCEPT ![d].at = a, ![d].c = c]
  PROVE  reader' \in [Devs -> Readers]
<1>1. reader \in [Devs -> Readers] BY DEF TypeOK, Readers
<1>2. \/ reader' = [reader EXCEPT ![d] = [@ EXCEPT !.at = a]]
      \/ reader' = [reader EXCEPT ![d] = [@ EXCEPT !.at = a, !.c = c]]
  OBVIOUS
<1>3. /\ [reader[d] EXCEPT !.at = a] \in Readers
      /\ [reader[d] EXCEPT !.at = a, !.c = c] \in Readers
  BY <1>1 DEF Readers
<1> QED BY <1>1, <1>2, <1>3

\* Moving a writer on keeps the writers well typed.
LEMMA WriterMoves ==
  ASSUME TypeOK, NEW d \in Devs, NEW c \in 0..MaxClients,
         NEW a \in {"off", "take", "check", "write", "clear", "close"},
         \/ writer' = [writer EXCEPT ![d].at = a]
         \/ writer' = [writer EXCEPT ![d].at = a, ![d].c = c]
  PROVE  writer' \in [Devs -> Writers]
<1>1. writer \in [Devs -> Writers] BY DEF TypeOK, Writers
<1>2. \/ writer' = [writer EXCEPT ![d] = [@ EXCEPT !.at = a]]
      \/ writer' = [writer EXCEPT ![d] = [@ EXCEPT !.at = a, !.c = c]]
  OBVIOUS
<1>3. /\ [writer[d] EXCEPT !.at = a] \in Writers
      /\ [writer[d] EXCEPT !.at = a, !.c = c] \in Writers
  BY <1>1 DEF Writers
<1> QED BY <1>1, <1>2, <1>3

\* The initial state is well typed.
LEMMA TypeInit == Init => TypeOK
  BY Numbers, SMTT(30) DEF Init, TypeOK, Clients, Devs, Chunk, NoChunk

\* TypeOK in pieces: a step names the pieces it changes and keeps the others.
HubTyped    == /\ epoch \in 0..MaxClients /\ client \in {0, epoch}
               /\ dev \in 0..MaxDevs /\ devs \in 0..MaxDevs
               /\ open \in [Clients -> BOOLEAN]
               /\ accept \in [at : {"accept", "close"}, old : 0..MaxClients]
QueueTyped  == queue \in [Devs -> Seq(Chunk)] /\ \A d \in Devs : Len(queue[d]) <= Depth
ReaderTyped == reader \in [Devs -> Readers]
WriterTyped == writer \in [Devs -> Writers]
LastTyped   == last \in [Clients -> [Devs -> 0..MaxChunks]]
UpTyped     == pump \in [Clients -> Pumps] /\ sent \in [Clients -> 0..MaxUp]

\* TypeOK variable by variable.
LEMMA TypePieces ==
  TypeOK <=> HubTyped /\ QueueTyped /\ ReaderTyped /\ WriterTyped /\ LastTyped /\ UpTyped
  BY DEF TypeOK, HubTyped, QueueTyped, ReaderTyped, WriterTyped, LastTyped, UpTyped,
         Readers, Writers, Pumps

\* The same after a step.
LEMMA TypePiecesNext ==
  (HubTyped /\ QueueTyped /\ ReaderTyped /\ WriterTyped /\ LastTyped /\ UpTyped)' => TypeOK'
  BY TypePieces, PTL

\* A piece whose variables stay keeps its type.
LEMMA PiecesKept ==
  ASSUME TypeOK
  PROVE  /\ UNCHANGED hub => HubTyped'
         /\ UNCHANGED queue => QueueTyped'
         /\ UNCHANGED reader => ReaderTyped'
         /\ UNCHANGED writer => WriterTyped'
         /\ UNCHANGED last => LastTyped'
         /\ UNCHANGED up => UpTyped'
<1> USE TypePieces
<1>1. UNCHANGED hub => HubTyped' BY DEF hub, HubTyped
<1>2. UNCHANGED queue => QueueTyped' BY DEF QueueTyped
<1>3. UNCHANGED reader => ReaderTyped' BY DEF ReaderTyped
<1>4. UNCHANGED writer => WriterTyped' BY DEF WriterTyped
<1>5. UNCHANGED last => LastTyped' BY DEF LastTyped
<1>6. UNCHANGED up => UpTyped' BY DEF up, UpTyped
<1> QED BY <1>1, <1>2, <1>3, <1>4, <1>5, <1>6

\* Clearing or closing a client leaves the hub well typed.
LEMMA TypeClear ==
  ASSUME TypeOK, NEW c, UNCHANGED <<epoch, dev, devs>>,
         \/ Clear(c) /\ UNCHANGED <<open, accept>>
         \/ Close(c) /\ UNCHANGED <<client, accept>>
  PROVE  HubTyped'
<1>0. HubTyped BY TypePieces
<1>1. CASE Clear(c) /\ UNCHANGED <<open, accept>>
  <2>1. client' \in {0, epoch'} BY <1>0, <1>1 DEF HubTyped, Clear
  <2> QED BY <1>0, <1>1, <2>1 DEF HubTyped
<1>2. CASE Close(c) /\ UNCHANGED <<client, accept>>
  <2>1. open' \in [Clients -> BOOLEAN] BY <1>2 DEF Close
  <2> QED BY <1>0, <1>2, <2>1 DEF HubTyped
<1> QED BY <1>1, <1>2

\* The pump of a new connection starts.
LEMMA PumpStarts ==
  ASSUME TypeOK, NEW c \in Clients, pump' = [pump EXCEPT ![c].at = "read"], sent' = sent
  PROVE  UpTyped'
<1>0. UpTyped BY TypePieces
<1>1. pump[c] \in Pumps BY <1>0 DEF UpTyped
<1>2. [pump[c] EXCEPT !.at = "read"] \in Pumps BY <1>1 DEF Pumps
<1>3. pump' = [pump EXCEPT ![c] = [@ EXCEPT !.at = "read"]] OBVIOUS
<1> QED BY <1>0, <1>2, <1>3 DEF UpTyped

\* acceptLoop starts the pump of the newest connection, once.
AcceptInv == /\ accept.at = "close" => epoch # 0 /\ pump[epoch].at = "off"
             /\ \A c \in Clients : c > epoch => pump[c].at = "off"

\* Connections and chardev sessions that come and go keep the types.
LEMMA TypeHub ==
  ASSUME TypeOK, AcceptInv, Attach \/ CloseOld \/ DevOpen \/ DevClose
  PROVE  TypeOK'
<1>0. HubTyped /\ QueueTyped /\ ReaderTyped /\ WriterTyped /\ LastTyped /\ UpTyped
  BY TypePieces
<1>1. CASE Attach
  <2>1. epoch + 1 \in 0..MaxClients /\ epoch + 1 \in Clients
    BY <1>0, <1>1, Numbers DEF Attach, HubTyped, Clients
  <2>2. QueueTyped'
    <3>1. queue' = [d \in Devs |-> IF d = dev THEN <<>> ELSE queue[d]] BY <1>1 DEF Attach
    <3>2. <<>> \in Seq(Chunk) /\ Len(<<>>) <= Depth BY Numbers
    <3> QED BY <1>0, <3>1, <3>2 DEF QueueTyped
  <2>3. HubTyped'
    <3>1. client \in 0..MaxClients BY <1>0, Numbers DEF HubTyped
    <3>2. accept' \in [at : {"accept", "close"}, old : 0..MaxClients]
      BY <1>1, <3>1 DEF Attach
    <3> QED BY <1>0, <1>1, <2>1, <3>2 DEF Attach, HubTyped
  <2>4. ReaderTyped' /\ WriterTyped' /\ LastTyped' /\ UpTyped'
    BY <1>1, PiecesKept DEF Attach
  <2> QED BY <2>2, <2>3, <2>4, TypePiecesNext
<1>4. CASE CloseOld
  <2>1. epoch \in Clients BY <1>0, <1>4, Numbers DEF CloseOld, AcceptInv, HubTyped, Clients
  <2>2. UpTyped' BY <1>4, <2>1, PumpStarts DEF CloseOld
  <2>3. HubTyped'
    <3>1. accept' \in [at : {"accept", "close"}, old : 0..MaxClients]
      BY <1>4, Numbers DEF CloseOld
    <3>2. open' \in [Clients -> BOOLEAN] BY <1>4 DEF CloseOld, Close
    <3> QED BY <1>0, <1>4, <3>1, <3>2 DEF CloseOld, HubTyped
  <2>4. QueueTyped' /\ ReaderTyped' /\ WriterTyped' /\ LastTyped'
    BY <1>4, PiecesKept DEF CloseOld, down
  <2> QED BY <2>2, <2>3, <2>4, TypePiecesNext
<1>2. CASE DevOpen
  <2>1. devs + 1 \in 0..MaxDevs /\ devs + 1 \in Devs
    BY <1>0, <1>2, Numbers DEF DevOpen, HubTyped, Devs
  <2>2. HubTyped' BY <1>0, <1>2, <2>1 DEF DevOpen, HubTyped
  <2>3. ReaderTyped'
    <3>1. reader' = [reader EXCEPT ![devs + 1].at = "read"] BY <1>2 DEF DevOpen
    <3>2. 0 \in 0..MaxClients BY Numbers
    <3> QED BY <2>1, <3>1, <3>2, ReaderMoves DEF ReaderTyped
  <2>4. WriterTyped'
    <3>1. writer' = [writer EXCEPT ![devs + 1].at = "take"] BY <1>2 DEF DevOpen
    <3>2. 0 \in 0..MaxClients BY Numbers
    <3> QED BY <2>1, <3>1, <3>2, WriterMoves DEF WriterTyped
  <2>5. QueueTyped' /\ LastTyped' /\ UpTyped' BY <1>2, PiecesKept DEF DevOpen
  <2> QED BY <2>2, <2>3, <2>4, <2>5, TypePiecesNext
<1>3. CASE DevClose
  <2>1. HubTyped' BY <1>0, <1>3, Numbers DEF DevClose, HubTyped
  <2>2. QueueTyped' /\ ReaderTyped' /\ WriterTyped' /\ LastTyped' /\ UpTyped'
    BY <1>3, PiecesKept DEF DevClose, down
  <2> QED BY <2>1, <2>2, TypePiecesNext
<1> QED BY <1>1, <1>2, <1>3, <1>4

\* So does a reader.
LEMMA TypeReader ==
  ASSUME TypeOK, NEW d \in Devs, ReadStep(d)
  PROVE  TypeOK'
<1>0. HubTyped /\ QueueTyped /\ ReaderTyped BY TypePieces
<1>a. reader[d] \in Readers /\ reader[d].chunk \in Chunk BY <1>0 DEF ReaderTyped, Readers
<1>b. WriterTyped' /\ LastTyped' /\ UpTyped'
  BY PiecesKept
  DEF ReadStep, Deal, Read, Stamp, Put, Overflow, OverflowClear, OverflowClose
<1>c. 0 \in 0..MaxClients /\ epoch \in 0..MaxClients /\ client \in 0..MaxClients
  BY <1>0, Numbers DEF HubTyped
<1>1. CASE Read(d)
  <2>1. HubTyped' /\ QueueTyped' BY <1>1, PiecesKept DEF Read
  <2>2. CASE reader' = [reader EXCEPT ![d].at = "end"]
    <3>1. ReaderTyped' BY <1>c, <2>2, ReaderMoves DEF ReaderTyped
    <3> QED BY <1>b, <2>1, <3>1, TypePiecesNext
  <2>3. CASE /\ reader[d].chunk.n < MaxChunks
             /\ reader' = [reader EXCEPT ![d].at = "stamp", ![d].chunk.n = @ + 1,
                                         ![d].chunk.seen = epoch]
    <3>1. reader[d].chunk.n + 1 \in 0..MaxChunks BY <1>a, <2>3, Numbers DEF Chunk
    <3> DEFINE ch == [reader[d].chunk EXCEPT !.n = @ + 1, !.seen = epoch]
    <3>2. ch \in Chunk BY <1>a, <1>c, <3>1 DEF Chunk
    <3>3. reader' = [reader EXCEPT ![d] = [@ EXCEPT !.at = "stamp", !.chunk = ch]]
      BY <2>3
    <3> HIDE DEF ch
    <3>4. [reader[d] EXCEPT !.at = "stamp", !.chunk = ch] \in Readers
      BY <1>a, <3>2 DEF Readers
    <3>5. ReaderTyped' BY <1>0, <3>3, <3>4 DEF ReaderTyped
    <3> QED BY <1>b, <2>1, <3>5, TypePiecesNext
  <2> QED BY <1>1, <2>2, <2>3 DEF Read
<1>2. CASE Stamp(d)
  <2>1. HubTyped' /\ QueueTyped' BY <1>2, PiecesKept DEF Stamp
  <2> DEFINE ch == [reader[d].chunk EXCEPT !.ep = epoch]
  <2>2. ch \in Chunk BY <1>a, <1>c DEF Chunk
  <2>3. reader' = [reader EXCEPT ![d] = [@ EXCEPT !.at = "put", !.chunk = ch]]
    BY <1>2 DEF Stamp
  <2> HIDE DEF ch
  <2>4. [reader[d] EXCEPT !.at = "put", !.chunk = ch] \in Readers
    BY <1>a, <2>2 DEF Readers
  <2>5. ReaderTyped' BY <1>0, <2>3, <2>4 DEF ReaderTyped
  <2> QED BY <1>b, <2>1, <2>5, TypePiecesNext
<1>3. CASE Put(d)
  <2>1. HubTyped' BY <1>3, PiecesKept DEF Put
  <2>2. queue[d] \in Seq(Chunk) /\ Len(queue[d]) \in Nat BY <1>0 DEF QueueTyped
  <2>3. CASE /\ Len(queue[d]) < Depth
             /\ queue' = [queue EXCEPT ![d] = Append(@, reader[d].chunk)]
             /\ reader' = [reader EXCEPT ![d].at = "read"]
    <3>1. /\ Append(queue[d], reader[d].chunk) \in Seq(Chunk)
          /\ Len(Append(queue[d], reader[d].chunk)) = Len(queue[d]) + 1
      BY <1>a, <2>2
    <3>2. Len(Append(queue[d], reader[d].chunk)) <= Depth BY <2>2, <2>3, <3>1, Numbers
    <3>3. QueueTyped' BY <1>0, <2>3, <3>1, <3>2 DEF QueueTyped
    <3>4. ReaderTyped' BY <1>c, <2>3, ReaderMoves DEF ReaderTyped
    <3> QED BY <1>b, <2>1, <3>3, <3>4, TypePiecesNext
  <2>4. CASE reader' = [reader EXCEPT ![d].at = "overflow"] /\ UNCHANGED queue
    <3>1. QueueTyped' BY <2>4, PiecesKept
    <3>2. ReaderTyped' BY <1>c, <2>4, ReaderMoves DEF ReaderTyped
    <3> QED BY <1>b, <2>1, <3>1, <3>2, TypePiecesNext
  <2> QED BY <1>3, <2>3, <2>4 DEF Put
<1>4. CASE Overflow(d)
  <2>1. HubTyped' /\ QueueTyped' BY <1>4, PiecesKept DEF Overflow
  <2>2. ReaderTyped' BY <1>4, <1>c, ReaderMoves DEF Overflow, ReaderTyped
  <2> QED BY <1>b, <2>1, <2>2, TypePiecesNext
<1>5. CASE OverflowClear(d)
  <2>1. HubTyped' BY <1>5, TypeClear DEF OverflowClear
  <2>2. QueueTyped' BY <1>5, PiecesKept DEF OverflowClear
  <2>3. reader' = [reader EXCEPT ![d].at = "close"] BY <1>5 DEF OverflowClear
  <2>4. ReaderTyped' BY <1>c, <2>3, ReaderMoves DEF ReaderTyped
  <2> QED BY <1>b, <2>1, <2>2, <2>4, TypePiecesNext
<1>6. CASE OverflowClose(d)
  <2>1. HubTyped' BY <1>6, TypeClear DEF OverflowClose
  <2>2. QueueTyped' BY <1>6, PiecesKept DEF OverflowClose
  <2>3. reader' = [reader EXCEPT ![d].at = "read", ![d].c = 0] BY <1>6 DEF OverflowClose
  <2>4. ReaderTyped' BY <1>c, <2>3, ReaderMoves DEF ReaderTyped
  <2> QED BY <1>b, <2>1, <2>2, <2>4, TypePiecesNext
<1> QED BY <1>1, <1>2, <1>3, <1>4, <1>5, <1>6 DEF ReadStep, Deal

\* So does a writer.
LEMMA TypeWriter ==
  ASSUME TypeOK, NEW d \in Devs, WriteStep(d)
  PROVE  TypeOK'
<1>0. HubTyped /\ QueueTyped /\ WriterTyped /\ LastTyped BY TypePieces
<1>a. writer[d] \in Writers /\ writer[d].chunk \in Chunk BY <1>0 DEF WriterTyped, Writers
<1>b. ReaderTyped' /\ UpTyped'
  BY PiecesKept DEF WriteStep, Unwind, Take, Stop, Check, Write, WriteClear, WriteClose
<1>c. 0 \in 0..MaxClients /\ client \in 0..MaxClients BY <1>0, Numbers DEF HubTyped
<1>1. CASE Take(d)
  <2>1. queue[d] \in Seq(Chunk) /\ queue[d] # <<>> /\ Len(queue[d]) <= Depth
    BY <1>0, <1>1 DEF Take, QueueTyped
  <2>2. /\ Head(queue[d]) \in Chunk /\ Tail(queue[d]) \in Seq(Chunk)
        /\ Len(Tail(queue[d])) = Len(queue[d]) - 1 /\ Len(queue[d]) \in Nat
    BY <2>1
  <2>3. Len(Tail(queue[d])) <= Depth BY <2>1, <2>2, Numbers
  <2>4. queue' = [queue EXCEPT ![d] = Tail(@)] BY <1>1 DEF Take
  <2>5. QueueTyped' BY <1>0, <2>2, <2>3, <2>4 DEF QueueTyped
  <2>6. writer' = [writer EXCEPT ![d] = [@ EXCEPT !.at = "check", !.chunk = Head(queue[d])]]
    BY <1>1 DEF Take
  <2>7. [writer[d] EXCEPT !.at = "check", !.chunk = Head(queue[d])] \in Writers
    BY <1>a, <2>2 DEF Writers
  <2>8. WriterTyped' BY <1>0, <2>6, <2>7 DEF WriterTyped
  <2>9. HubTyped' /\ LastTyped' BY <1>1, PiecesKept DEF Take
  <2> QED BY <1>b, <2>5, <2>8, <2>9, TypePiecesNext
<1>2. CASE Stop(d)
  <2>1. writer' = [writer EXCEPT ![d].at = "off"] BY <1>2 DEF Stop
  <2>2. WriterTyped' BY <1>c, <2>1, WriterMoves DEF WriterTyped
  <2>3. HubTyped' /\ QueueTyped' /\ LastTyped' BY <1>2, PiecesKept DEF Stop
  <2> QED BY <1>b, <2>2, <2>3, TypePiecesNext
<1>3. CASE Check(d)
  <2>1. WriterTyped' BY <1>3, <1>c, WriterMoves DEF Check, WriterTyped
  <2>2. HubTyped' /\ QueueTyped' /\ LastTyped' BY <1>3, PiecesKept DEF Check
  <2> QED BY <1>b, <2>1, <2>2, TypePiecesNext
<1>4. CASE Write(d)
  <2>1. writer[d].chunk.n \in 0..MaxChunks BY <1>a DEF Writers, Chunk
  <2>2. HubTyped' /\ QueueTyped' BY <1>4, PiecesKept DEF Write
  <2>3. LastTyped'
    <3>1. CASE last' = last BY <3>1, PiecesKept
    <3>2. CASE last' = [last EXCEPT ![writer[d].c][d] = writer[d].chunk.n]
      BY <1>0, <2>1, <3>2 DEF LastTyped
    <3> QED BY <1>4, <3>1, <3>2 DEF Write
  <2>4. \/ writer' = [writer EXCEPT ![d].at = "take", ![d].c = 0]
        \/ writer' = [writer EXCEPT ![d].at = "clear"]
    BY <1>4 DEF Write
  <2>5. WriterTyped' BY <1>c, <2>4, WriterMoves DEF WriterTyped
  <2> QED BY <1>b, <2>2, <2>3, <2>5, TypePiecesNext
<1>5. CASE WriteClear(d)
  <2>1. HubTyped' BY <1>5, TypeClear DEF WriteClear
  <2>2. QueueTyped' /\ LastTyped' BY <1>5, PiecesKept DEF WriteClear
  <2>3. writer' = [writer EXCEPT ![d].at = "close"] BY <1>5 DEF WriteClear
  <2>4. WriterTyped' BY <1>c, <2>3, WriterMoves DEF WriterTyped
  <2> QED BY <1>b, <2>1, <2>2, <2>4, TypePiecesNext
<1>6. CASE WriteClose(d)
  <2>1. HubTyped' BY <1>6, TypeClear DEF WriteClose
  <2>2. QueueTyped' /\ LastTyped' BY <1>6, PiecesKept DEF WriteClose
  <2>3. writer' = [writer EXCEPT ![d].at = "take", ![d].c = 0] BY <1>6 DEF WriteClose
  <2>4. WriterTyped' BY <1>c, <2>3, WriterMoves DEF WriterTyped
  <2> QED BY <1>b, <2>1, <2>2, <2>4, TypePiecesNext
<1> QED BY <1>1, <1>2, <1>3, <1>4, <1>5, <1>6 DEF WriteStep, Unwind

\* So does a pump.
LEMMA TypePump ==
  ASSUME TypeOK, NEW c \in Clients, PumpRead(c) \/ PumpWrite(c) \/ PumpStep(c)
  PROVE  TypeOK'
<1>0. HubTyped /\ UpTyped BY TypePieces
<1>a. pump[c] \in Pumps /\ dev \in 0..MaxDevs /\ 0 \in 0..MaxDevs
  BY <1>0, Numbers DEF UpTyped, HubTyped
<1>b. QueueTyped' /\ ReaderTyped' /\ WriterTyped' /\ LastTyped'
  BY PiecesKept
  DEF PumpRead, PumpWrite, PumpStep, PumpClosed, PumpDev, PumpCut, PumpLoop, PumpClear,
      PumpClose, down
<1>c. ASSUME NEW p \in Pumps, pump' = [pump EXCEPT ![c] = p],
             sent' \in [Clients -> 0..MaxUp]
      PROVE  UpTyped'
  BY <1>0, <1>c DEF UpTyped
<1>1. CASE PumpRead(c)
  <2>1. sent' \in [Clients -> 0..MaxUp]
    <3>1. CASE sent' = sent BY <1>0, <3>1 DEF UpTyped
    <3>2. CASE sent[c] < MaxUp /\ sent' = [sent EXCEPT ![c] = @ + 1]
      <4>1. sent[c] + 1 \in 0..MaxUp BY <1>0, <3>2, Numbers DEF UpTyped
      <4> QED BY <1>0, <3>2, <4>1 DEF UpTyped
    <3> QED BY <1>1, <3>1, <3>2 DEF PumpRead
  <2>2. PICK a \in {"dev", "exit"} : pump' = [pump EXCEPT ![c] = [@ EXCEPT !.at = a]]
    BY <1>1 DEF PumpRead
  <2>3. [pump[c] EXCEPT !.at = a] \in Pumps BY <1>a DEF Pumps
  <2>4. UpTyped' BY <1>c, <2>1, <2>2, <2>3
  <2>5. HubTyped' BY <1>1, PiecesKept DEF PumpRead
  <2> QED BY <1>b, <2>4, <2>5, TypePiecesNext
<1>2. CASE PumpClosed(c) \/ PumpDev(c) \/ PumpWrite(c) \/ PumpCut(c) \/ PumpLoop(c)
  <2>1. \E a \in {"read", "exit", "loop", "write"}, d \in 0..MaxDevs :
          pump' = [pump EXCEPT ![c] = [at |-> a, d |-> d]]
    BY <1>2, <1>a DEF PumpClosed, PumpDev, PumpWrite, PumpCut, PumpLoop, Pumps
  <2>2. \A a \in {"read", "exit", "loop", "write"}, d \in 0..MaxDevs :
          [at |-> a, d |-> d] \in Pumps
    BY DEF Pumps
  <2>3. UNCHANGED <<hub, sent>>
    BY <1>2 DEF PumpClosed, PumpDev, PumpWrite, PumpCut, PumpLoop
  <2>4. UpTyped' BY <1>0, <1>c, <2>1, <2>2, <2>3 DEF UpTyped
  <2>5. HubTyped' BY <2>3, PiecesKept
  <2> QED BY <1>b, <2>4, <2>5, TypePiecesNext
<1>3. CASE PumpClear(c) \/ PumpClose(c)
  <2>1. HubTyped' BY <1>3, TypeClear DEF PumpClear, PumpClose
  <2>2. PICK a \in {"close", "off"} : pump' = [pump EXCEPT ![c] = [@ EXCEPT !.at = a]]
    BY <1>3 DEF PumpClear, PumpClose
  <2>3. [pump[c] EXCEPT !.at = a] \in Pumps BY <1>a DEF Pumps
  <2>4. sent' = sent BY <1>3 DEF PumpClear, PumpClose
  <2>5. UpTyped' BY <1>0, <1>c, <2>2, <2>3, <2>4 DEF UpTyped
  <2> QED BY <1>b, <2>1, <2>5, TypePiecesNext
<1> QED BY <1>1, <1>2, <1>3 DEF PumpStep

\* A pump that has not been started or has ended is only started by acceptLoop.
LEMMA PumpStaysOff ==
  ASSUME TypeOK, [Next]_vars, ~CloseOld, NEW c \in Clients, pump[c].at = "off"
  PROVE  pump'[c].at = "off"
<1>0. pump \in [Clients -> Pumps] BY DEF TypeOK, Pumps
<1>1. ASSUME NEW x \in Clients, PumpRead(x) \/ PumpWrite(x) \/ PumpStep(x)
      PROVE  pump'[c] = pump[c]
  <2>1. x # c
    BY <1>1
    DEF PumpRead, PumpWrite, PumpStep, PumpClosed, PumpDev, PumpCut, PumpLoop, PumpClear,
        PumpClose
  <2> QED
    BY <1>0, <1>1, <2>1
    DEF PumpRead, PumpWrite, PumpStep, PumpClosed, PumpDev, PumpCut, PumpLoop, PumpClear,
        PumpClose
<1> QED
  BY <1>1
  DEF Next, vars, up, Attach, DevOpen, DevClose, ReadStep, Deal, Read, Stamp, Put,
      Overflow, OverflowClear, OverflowClose, WriteStep, Unwind, Take, Stop, Check, Write,
      WriteClear, WriteClose

\* So does every step.
LEMMA TypeNext ==
  ASSUME TypeOK, AcceptInv, [Next]_vars
  PROVE  TypeOK' /\ AcceptInv'
<1>1. TypeOK'
  <2>1. CASE UNCHANGED vars BY <2>1 DEF TypeOK, vars, hub, down, up
  <2> QED BY <2>1, TypeHub, TypeReader, TypeWriter, TypePump DEF Next
<1>2. AcceptInv'
  <2>0. epoch \in Nat /\ pump \in [Clients -> Pumps] BY Numbers DEF TypeOK, Pumps
  <2>1. CASE Attach
    <3>1. epoch + 1 \in Clients BY <2>0, <2>1, Numbers DEF Attach, Clients
    <3>2. pump' = pump /\ epoch' = epoch + 1 BY <2>1 DEF Attach, up
    <3> QED BY <2>0, <3>1, <3>2, Numbers DEF AcceptInv, Clients
  <2>2. CASE CloseOld
    <3>1. /\ accept'.at = "accept" /\ epoch' = epoch
          /\ \A c \in Clients : c # epoch => pump'[c] = pump[c]
      BY <2>0, <2>2 DEF CloseOld
    <3> QED BY <2>0, <3>1, Numbers DEF AcceptInv, Clients
  <2>3. CASE ~Attach /\ ~CloseOld
    <3>1. UNCHANGED <<epoch, accept>>
      BY <2>3
      DEF Next, vars, hub, DevOpen, DevClose, ReadStep, Deal, Read, Stamp, Put, Overflow,
          OverflowClear, OverflowClose, WriteStep, Unwind, Take, Stop, Check, Write,
          WriteClear, WriteClose, PumpRead, PumpWrite, PumpStep, PumpClosed, PumpDev,
          PumpCut, PumpLoop, PumpClear, PumpClose
    <3>2. \A c \in Clients : pump[c].at = "off" => pump'[c].at = "off"
      BY <2>3, PumpStaysOff
    <3>3. epoch # 0 => epoch \in Clients BY Numbers DEF TypeOK, Clients
    <3> QED BY <3>1, <3>2, <3>3 DEF AcceptInv
  <2> QED BY <2>1, <2>2, <2>3
<1> QED BY <1>1, <1>2

\* Every reachable state of the drainer is well typed, and the queue between
\* reader and writer never grows past drainQueueDepth.
THEOREM TypeCorrect == Spec => []TypeOK
<1>1. Init => AcceptInv BY DEF Init, AcceptInv
<1>2. TypeOK /\ AcceptInv /\ [Next]_vars => TypeOK' /\ AcceptInv' BY TypeNext
<1> QED BY <1>1, <1>2, TypeInit, PTL DEF Spec

-----------------------------------------------------------------------------
(* The chunks on their way                                                 *)

Pipe(d) == Bounded(d) /\ (client # 0 => Tracked(d))

Inv == TypeOK /\ AcceptInv /\ PipeInv /\ TailBounded /\ InOrder /\ OpenIsAttached

\* Nothing of d changes, and the client stays or is dropped.
LEMMA PipeStays ==
  ASSUME Inv, NEW d \in Devs,
         reader'[d] = reader[d], writer'[d] = writer[d], queue'[d] = queue[d],
         epoch' = epoch, client' \in {client, 0}, devs' \in Nat, devs' >= devs,
         \A c \in Clients : last'[c][d] = last[c][d]
  PROVE  Pipe(d)'
<1>1. Pipe(d) BY DEF Inv, PipeInv, Pipe
<1>2. devs \in Nat /\ d \in Nat BY Numbers DEF Inv, TypeOK, Devs
<1>3. client # 0 => client \in Clients BY Numbers DEF Inv, TypeOK, Clients
<1>4. Bounded(d)' BY <1>1, <1>2 DEF Pipe, Bounded, Places, First, At
<1>5. ASSUME client' # 0 PROVE Tracked(d)'
  <2>1. client' = client /\ Tracked(d) /\ last'[client][d] = last[client][d]
    BY <1>1, <1>3, <1>5 DEF Pipe
  <2>2. /\ Places(d)' = Places(d) /\ First(d)' = First(d) /\ Got(d)' = Got(d)
        /\ \A i : At(d, i)' = At(d, i)
    BY DEF Places, First, At, Got
  <2>3. \A i : Number(d, i)' = Number(d, i) BY <2>2 DEF Number
  <2>4. \A i : SettledFrom(d, i) => SettledFrom(d, i)' BY <2>2 DEF SettledFrom
  <2>5. Aligned(d) BY <2>1 DEF Tracked
  <2>6. Aligned(d)' BY <2>1, <2>2, <2>3, <2>4, <2>5 DEF Aligned
  <2> QED BY <2>1, <2>2, <2>6 DEF Tracked
<1> QED BY <1>4, <1>5 DEF Pipe

\* The reader of d goes on without having queued or lost a chunk.
LEMMA PipeReader ==
  ASSUME Inv, NEW d \in Devs,
         UNCHANGED <<writer, queue, last, epoch, client, devs>>, reader[d].at # "off",
         Got(d)' = Got(d),
         reader'[d].at \in {"stamp", "put"} =>
           reader'[d].chunk.seen = epoch
             \/ (reader[d].at \in {"stamp", "put"}
                   /\ reader'[d].chunk.seen = reader[d].chunk.seen),
         reader'[d].at = "put" => reader'[d].chunk.ep = epoch,
         reader'[d].at = "clear" => reader'[d].c = client
  PROVE  Pipe(d)'
<1>1. Pipe(d) BY DEF Inv, PipeInv, Pipe
<1>2. epoch \in Nat BY Numbers DEF Inv, TypeOK
<1>3. Bounded(d)' BY <1>1, <1>2 DEF Pipe, Bounded, Places, First, At
<1>4. \A i : SettledFrom(d, i) => SettledFrom(d, i)'
  BY DEF SettledFrom, Places, First, At
<1>5. /\ Places(d)' = Places(d) /\ First(d)' = First(d)
      /\ \A i : At(d, i)' = At(d, i) /\ Number(d, i)' = Number(d, i)
  BY DEF Places, First, At, Number
<1>6. Tracked(d) => Tracked(d)'
  BY <1>4, <1>5 DEF Tracked, Aligned
<1> QED BY <1>1, <1>3, <1>6 DEF Pipe

\* A reader adds what it read at the end of the pipe, or drops the client first.
LEMMA PipeReads ==
  ASSUME Inv, NEW d \in Devs,
         \/ Read(d) \/ Stamp(d) \/ Overflow(d) \/ OverflowClose(d)
         \/ Put(d) /\ Len(queue[d]) >= Depth
  PROVE  Pipe(d)'
<1>0. /\ reader \in [Devs -> Readers] /\ reader[d] \in Readers
      /\ epoch \in Nat /\ reader[d].chunk.n \in Nat
  BY SMTT(40), Numbers DEF Inv, TypeOK, Readers, Chunk
<1>1. CASE Read(d)
  <2>1. CASE reader' = [reader EXCEPT ![d].at = "end"]
    <3>1. reader'[d].at = "end" /\ reader'[d].chunk = reader[d].chunk
      BY <1>0, <2>1 DEF Readers
    <3> QED BY <1>0, <1>1, <3>1, PipeReader DEF Read, Got, up, hub
  <2>2. CASE reader' = [reader EXCEPT ![d].at = "stamp", ![d].chunk.n = @ + 1,
                                      ![d].chunk.seen = epoch]
    <3>1. /\ reader'[d].at = "stamp" /\ reader'[d].chunk.n = reader[d].chunk.n + 1
          /\ reader'[d].chunk.seen = epoch
      BY <1>0, <2>2 DEF Readers, Chunk
    <3> QED BY <1>0, <1>1, <3>1, PipeReader DEF Read, Got, up, hub
  <2> QED BY <1>1, <2>1, <2>2 DEF Read
<1>2. CASE Stamp(d)
  <2>1. /\ reader'[d].at = "put" /\ reader'[d].chunk.ep = epoch
        /\ reader'[d].chunk.n = reader[d].chunk.n
        /\ reader'[d].chunk.seen = reader[d].chunk.seen
    BY <1>0, <1>2 DEF Stamp, Readers, Chunk
  <2> QED BY <1>2, <2>1, PipeReader DEF Stamp, Got, up, hub
<1>3. CASE Overflow(d)
  <2>1. reader'[d].c = client /\ reader'[d].chunk = reader[d].chunk
        /\ reader'[d].at = IF client = 0 THEN "read" ELSE "clear"
    BY <1>0, <1>3 DEF Overflow, Readers
  <2>2. CASE client # 0
    <3>1. Got(d)' = Got(d) BY <1>3, <2>1, <2>2 DEF Overflow, Got
    <3>2. /\ reader[d].at = "overflow"
          /\ UNCHANGED <<writer, queue, last, epoch, client, devs>>
      BY <1>3 DEF Overflow, hub
    <3>3. reader'[d].at = "clear" /\ reader'[d].c = client BY <2>1, <2>2
    <3> QED BY <3>1, <3>2, <3>3, PipeReader
  <2>3. CASE client = 0
    <3>1. Bounded(d) BY DEF Inv, PipeInv
    <3>2. Bounded(d)'
      BY <1>3, <2>1, <2>3, <3>1 DEF Overflow, Bounded, Places, First, At, hub
    <3> QED BY <1>3, <2>3, <3>2 DEF Overflow, Pipe, hub
  <2> QED BY <2>2, <2>3
<1>4. CASE Put(d) /\ Len(queue[d]) >= Depth
  <2>0. Len(queue[d]) \in Nat BY DEF Inv, TypeOK
  <2>1. /\ reader' = [reader EXCEPT ![d].at = "overflow"] /\ UNCHANGED queue
    BY <1>4, <2>0, Numbers DEF Put
  <2>2. reader'[d].at = "overflow" /\ reader'[d].chunk = reader[d].chunk
    BY <1>0, <2>1 DEF Readers
  <2> QED BY <1>4, <2>1, <2>2, PipeReader DEF Put, Got, up, hub
<1>5. CASE OverflowClose(d)
  <2>1. /\ reader[d].at = "close" /\ reader'[d].at = "read"
        /\ reader'[d].chunk = reader[d].chunk
        /\ UNCHANGED <<writer, queue, last, epoch, client, devs>>
    BY <1>0, <1>5 DEF OverflowClose, Readers
  <2> QED BY <2>1, PipeReader DEF Got
<1> QED BY <1>1, <1>2, <1>3, <1>4, <1>5

\* The chunk in the reader's hand becomes the last place.
LEMMA PipePut ==
  ASSUME Inv, NEW d \in Devs, Put(d), Len(queue[d]) < Depth
  PROVE  Pipe(d)'
<1>a. /\ reader \in [Devs -> Readers] /\ reader[d] \in Readers
      /\ queue[d] \in Seq(Chunk) /\ queue \in [Devs -> Seq(Chunk)] /\ epoch \in Nat
  BY Numbers DEF Inv, TypeOK, Readers
<1>b. PICK n \in Nat : n = Len(queue[d]) BY <1>a
<1>0. reader[d].chunk \in Chunk /\ reader[d].chunk.n \in Nat
  BY <1>a, Numbers DEF Readers, Chunk
<1>1. /\ queue'[d] = Append(queue[d], reader[d].chunk)
      /\ reader' = [reader EXCEPT ![d].at = "read"]
      /\ UNCHANGED <<hub, writer, last>>
  BY <1>a, <1>b, <1>0, Numbers DEF Put
<1>2. reader[d].at = "put" /\ reader'[d].at = "read" /\ reader'[d].chunk = reader[d].chunk
  BY <1>a, <1>b, <1>0, <1>1 DEF Put, Readers
<1>3. /\ Len(queue'[d]) = n + 1 /\ queue'[d][n + 1] = reader[d].chunk
      /\ \A i \in 1..n : queue'[d][i] = queue[d][i]
  BY <1>a, <1>b, <1>0, <1>1
<1>4. First(d)' = First(d) /\ First(d) \in {0, 1} BY <1>1 DEF First
<1>5. /\ Places(d)' = First(d)..(n + 1) /\ Places(d) = First(d)..n
      /\ n + 1 \in Places(d)'
  BY <1>a, <1>b, <1>0, <1>3, <1>4 DEF Places
<1>6. \A i \in Places(d) : At(d, i)' = At(d, i)
  BY <1>a, <1>b, <1>0, <1>1, <1>3, <1>4, <1>5 DEF At
<1>7. At(d, n + 1)' = reader[d].chunk BY <1>a, <1>b, <1>0, <1>3 DEF At
<1>8. \A i \in Places(d)' : i \in Places(d) \/ i = n + 1 BY <1>a, <1>b, <1>0, <1>4, <1>5
<1>9. Got(d)' = Got(d) + 1 /\ Got(d) = reader[d].chunk.n - 1
  BY <1>0, <1>2 DEF Got
<1>10. /\ \A i \in Int : Number(d, i)' = Number(d, i)
       /\ Number(d, n + 1)' = reader[d].chunk.n
  <2>1. Len(queue[d]) = n /\ Len(queue'[d]) = n + 1 BY <1>b, <1>3
  <2>2. PICK g \in Int : g = Got(d) BY <1>0, <1>9
  <2>3. Got(d)' = g + 1 /\ reader[d].chunk.n = g + 1 BY <1>0, <1>9, <2>2
  <2>4. \A i \in Int : Number(d, i) = g + i - n BY <2>1, <2>2 DEF Number
  <2>5. \A i \in Int : Number(d, i)' = (g + 1) + i - (n + 1) BY <2>1, <2>3 DEF Number
  <2>6. n \in Int /\ n + 1 \in Int BY <1>b
  <2>7. \A i \in Int : (g + 1) + i - (n + 1) = g + i - n BY <2>2, <2>6
  <2>8. (g + 1) + (n + 1) - (n + 1) = g + 1 BY <2>2, <2>6
  <2>9. \A i \in Int : Number(d, i)' = Number(d, i) BY <2>4, <2>5, <2>7
  <2>10. Number(d, n + 1)' = g + 1 BY <2>5, <2>6, <2>8
  <2> QED BY <2>3, <2>9, <2>10
<1>11. client' = client /\ epoch' = epoch /\ last' = last BY <1>1 DEF hub
<1>12. \A i \in Int : SettledFrom(d, i) => SettledFrom(d, i)'
  BY <1>2, <1>6, <1>7, <1>8, <1>11 DEF SettledFrom
<1>13. SettledFrom(d, n + 2)'
  BY <1>0, <1>2, <1>4, <1>5 DEF SettledFrom
<1>14. Pipe(d) BY DEF Inv, PipeInv, Pipe
<1>15. Bounded(d)'
  BY <1>1, <1>2, <1>6, <1>7, <1>8, <1>11, <1>14 DEF Pipe, Bounded, hub
<1>16. ASSUME Tracked(d) PROVE Tracked(d)'
  <2>1. \A i \in Places(d)' : At(d, i)'.ep = epoch' =>
          At(d, i)'.n = Number(d, i)' /\ SettledFrom(d, i + 1)'
    <3>1. CASE TRUE
      <4> TAKE i \in Places(d)'
      <4> HAVE At(d, i)'.ep = epoch'
      <4>1. i \in Int BY <1>a, <1>b, <1>0, <1>4, <1>5
      <4>2. CASE i \in Places(d)
        BY <1>6, <1>10, <1>11, <1>12, <1>16, <4>1, <4>2 DEF Tracked, Aligned
      <4>3. CASE i = n + 1
        BY <1>0, <1>7, <1>10, <1>13, <4>3
      <4> QED BY <1>8, <4>2, <4>3
    <3> QED BY <3>1
  <2>2. First(d) \in Int /\ First(d) - 1 \in Int BY <1>4
  <2> QED BY <1>2, <1>4, <1>10, <1>11, <1>12, <1>16, <2>1, <2>2 DEF Tracked, Aligned
<1> QED BY <1>11, <1>14, <1>15, <1>16 DEF Pipe

\* Either the client is cleared, or the reader's gap lies before its first chunk.
LEMMA PipeOverflowClear ==
  ASSUME Inv, NEW d \in Devs, OverflowClear(d)
  PROVE  Pipe(d)'
<1>0. /\ reader \in [Devs -> Readers] /\ client \in Nat
      /\ reader[d].at = "clear" /\ reader'[d].at = "close"
      /\ client' = (IF client = reader[d].c THEN 0 ELSE client)
      /\ UNCHANGED <<epoch, devs, queue, writer, last>>
  BY Numbers DEF OverflowClear, Clear, Inv, TypeOK, Readers
<1>1. Bounded(d) /\ (client # 0 => Tracked(d)) BY DEF Inv, PipeInv
<1>2. Bounded(d)' BY <1>0, <1>1 DEF Bounded, Places, First, At
<1>3. ASSUME client' # 0 PROVE Tracked(d)'
  <2>1. client' = client /\ client # reader[d].c BY <1>0, <1>3
  <2>2. last[client][d] = 0 /\ \A i \in Places(d) : At(d, i).ep # epoch
    BY <1>0, <1>1, <1>3, <2>1 DEF Tracked
  <2> QED BY <1>0, <2>1, <2>2 DEF Tracked, Aligned, Places, First, At
<1> QED BY <1>2, <1>3 DEF Pipe

\* The head of the queue moves from place 1 to place 0.
LEMMA PipeTake ==
  ASSUME Inv, NEW d \in Devs, Take(d)
  PROVE  Pipe(d)'
<1>1. /\ queue[d] \in Seq(Chunk) /\ queue \in [Devs -> Seq(Chunk)]
      /\ writer \in [Devs -> Writers] /\ epoch \in Nat /\ reader \in [Devs -> Readers]
  BY Numbers DEF Inv, TypeOK, Writers, Readers
<1>2. PICK n \in Nat : n = Len(queue[d]) BY <1>1
<1>3. /\ writer[d].at = "take" /\ queue[d] # <<>>
      /\ writer' = [writer EXCEPT ![d].at = "check", ![d].chunk = Head(queue[d])]
      /\ queue' = [queue EXCEPT ![d] = Tail(@)]
      /\ UNCHANGED <<hub, reader, last>>
  BY DEF Take
<1>4. writer'[d].at = "check" /\ writer'[d].chunk = queue[d][1]
  BY <1>1, <1>3 DEF Writers
<1>5. /\ n > 0 /\ Len(queue'[d]) = n - 1
      /\ \A i \in 1..(n - 1) : queue'[d][i] = queue[d][i + 1]
  BY <1>1, <1>2, <1>3
<1>6. First(d) = 1 /\ First(d)' = 0 BY <1>3, <1>4 DEF First
<1>7. Places(d) = 1..n /\ Places(d)' = 0..(n - 1)
  BY <1>2, <1>5, <1>6 DEF Places
<1>8. \A i \in Places(d)' : i + 1 \in Places(d) /\ At(d, i)' = At(d, i + 1)
  BY <1>2, <1>4, <1>5, <1>7 DEF At
<1>9. reader[d].chunk.n \in Nat /\ Got(d)' = Got(d) /\ Got(d) \in Int
  BY <1>1, <1>3 DEF Got, Readers, Chunk
<1>10. \A i \in Int : Number(d, i)' = Number(d, i + 1)
  BY <1>2, <1>5, <1>9 DEF Number
<1>11. client' = client /\ epoch' = epoch /\ last' = last /\ devs' = devs
  BY <1>3 DEF hub
<1>12. \A i \in Int : SettledFrom(d, i + 1) => SettledFrom(d, i)'
  BY <1>2, <1>3, <1>7, <1>8, <1>11 DEF SettledFrom
<1>13. Bounded(d) /\ (client # 0 => Tracked(d)) BY DEF Inv, PipeInv
<1>14. Bounded(d)' BY <1>3, <1>4, <1>8, <1>11, <1>13 DEF Bounded
<1>15. ASSUME Tracked(d) PROVE Tracked(d)'
  <2>1. ASSUME NEW i \in Places(d)', At(d, i)'.ep = epoch'
        PROVE  At(d, i)'.n = Number(d, i)' /\ SettledFrom(d, i + 1)'
    <3>1. i \in Int /\ i + 1 \in Int BY <1>2, <1>7
    <3> QED BY <1>8, <1>10, <1>11, <1>12, <1>15, <2>1, <3>1 DEF Tracked, Aligned
  <2>2. ASSUME last'[client'][d] # 0
        PROVE  last'[client'][d] = Number(d, First(d) - 1)' /\ SettledFrom(d, First(d))'
    <3>1. last[client][d] = Number(d, 0) /\ SettledFrom(d, 1)
      BY <1>6, <1>11, <1>15, <2>2 DEF Tracked, Aligned
    <3>2. Number(d, -1)' = Number(d, 0) /\ SettledFrom(d, 0)'
      <4>1. -1 \in Int /\ 0 \in Int /\ -1 + 1 = 0 /\ 0 + 1 = 1 OBVIOUS
      <4> QED BY <1>10, <1>12, <3>1, <4>1
    <3>3. Number(d, First(d) - 1)' = Number(d, -1)'
      BY <1>6 DEF Number
    <3>4. SettledFrom(d, First(d))' = SettledFrom(d, 0)'
      BY <1>6 DEF SettledFrom
    <3> QED BY <1>11, <3>1, <3>2, <3>3, <3>4
  <2> QED BY <1>3, <1>8, <1>11, <1>15, <2>1, <2>2 DEF Tracked, Aligned
<1> QED BY <1>11, <1>13, <1>14, <1>15 DEF Pipe

\* The writer stops, or finds its chunk to be the client's.
LEMMA PipeWriterKeeps ==
  ASSUME Inv, NEW d \in Devs, UNCHANGED <<epoch, client, devs, queue, reader, last>>,
         writer'[d].chunk = writer[d].chunk, First(d)' = First(d),
         writer[d].at # "off",
         writer'[d].at \in {"write", "clear"} =>
           writer'[d].c # 0 /\ writer'[d].chunk.ep = writer'[d].c
  PROVE  Pipe(d)'
<1>1. Bounded(d) /\ (client # 0 => Tracked(d)) BY DEF Inv, PipeInv
<1>2. /\ Places(d)' = Places(d)
      /\ \A i : At(d, i)' = At(d, i) /\ Number(d, i)' = Number(d, i)
      /\ \A i : SettledFrom(d, i)' = SettledFrom(d, i)
  BY DEF Places, At, Number, Got, SettledFrom
<1>3. client' = client /\ epoch' = epoch /\ last' = last /\ devs' = devs OBVIOUS
<1>4. Bounded(d)' BY <1>1, <1>2, <1>3 DEF Bounded
<1>5. Number(d, First(d) - 1)' = Number(d, First(d) - 1)
  BY DEF Number, Got
<1>6. SettledFrom(d, First(d))' = SettledFrom(d, First(d))
  BY <1>2, <1>3 DEF SettledFrom
<1>7. Tracked(d) => Tracked(d)'
  BY <1>2, <1>3, <1>5, <1>6 DEF Tracked, Aligned
<1> QED BY <1>1, <1>3, <1>4, <1>7 DEF Pipe

\* The writer has done with the chunk at place 0: it was the client's and is the
\* last that the client received, or the client has received nothing of d.
LEMMA PipeWriterDone ==
  ASSUME Inv, NEW d \in Devs, UNCHANGED <<epoch, devs, queue, reader>>,
         client' \in {client, 0}, writer[d].at \in {"check", "write", "clear"},
         writer'[d].at \in {"take", "close"},
         \A c \in Clients : c > epoch => last'[c][d] = last[c][d],
         client' # 0 =>
           \/ /\ writer[d].chunk.ep = epoch
              /\ last'[client][d] = writer[d].chunk.n
           \/ writer[d].chunk.ep # epoch /\ last'[client][d] = last[client][d]
  PROVE  Pipe(d)'
<1>1. Bounded(d) /\ (client # 0 => Tracked(d)) BY DEF Inv, PipeInv
<1>2. First(d) = 0 /\ First(d)' = 1 BY DEF First
<1>3. /\ queue[d] \in Seq(Chunk) /\ Len(queue[d]) \in Nat /\ epoch \in Nat
  BY Numbers DEF Inv, TypeOK
<1>4. Places(d) = 0..Len(queue[d]) /\ Places(d)' = 1..Len(queue[d])
  BY <1>2 DEF Places
<1>5. \A i \in Places(d)' : i \in Places(d) /\ At(d, i)' = At(d, i)
  BY <1>3, <1>4 DEF At
<1>6. \A i : Number(d, i)' = Number(d, i) BY DEF Number, Got
<1>7. \A i \in Int : SettledFrom(d, i) => SettledFrom(d, i)'
  BY <1>5 DEF SettledFrom
<1>8. 0 \in Places(d) /\ At(d, 0) = writer[d].chunk BY <1>3, <1>4 DEF At
<1>9. Bounded(d)' BY <1>1, <1>5 DEF Bounded
<1>10. ASSUME client' # 0 PROVE Tracked(d)'
  <2>0. client' = client /\ Tracked(d) BY <1>1, <1>10
  <2>1. ASSUME NEW i \in Places(d)', At(d, i)'.ep = epoch'
        PROVE  At(d, i)'.n = Number(d, i)' /\ SettledFrom(d, i + 1)'
    <3>1. i + 1 \in Int BY <1>3, <1>4
    <3> QED BY <1>5, <1>6, <1>7, <2>0, <2>1, <3>1 DEF Tracked, Aligned
  <2>2. CASE writer[d].chunk.ep = epoch /\ last'[client][d] = writer[d].chunk.n
    <3>1. writer[d].chunk.n = Number(d, 0) /\ SettledFrom(d, 1)
      <4>1. 0 + 1 = 1 OBVIOUS
      <4> QED BY <1>8, <2>0, <2>2, <4>1 DEF Tracked, Aligned
    <3>2. Number(d, First(d) - 1)' = Number(d, 0)
      BY <1>2 DEF Number, Got
    <3>3. SettledFrom(d, First(d))'
      <4>1. SettledFrom(d, 1)' BY <1>7, <3>1
      <4> QED BY <1>2, <4>1 DEF SettledFrom
    <3>4. reader[d].at = "clear" => reader[d].c = client
      BY <1>8, <2>0, <2>2 DEF Tracked
    <3> QED BY <2>0, <2>1, <2>2, <3>1, <3>2, <3>3, <3>4 DEF Tracked, Aligned
  <2>3. CASE writer[d].chunk.ep # epoch /\ last'[client][d] = last[client][d]
    <3>1. last[client][d] = 0
      <4>1. SUFFICES ASSUME SettledFrom(d, First(d)) PROVE FALSE
        BY <2>0 DEF Tracked, Aligned
      <4> QED BY <1>2, <1>8, <2>3, <4>1 DEF SettledFrom
    <3> QED BY <1>5, <2>0, <2>1, <2>3, <3>1 DEF Tracked, Aligned
  <2> QED BY <1>10, <2>2, <2>3
<1> QED BY <1>9, <1>10 DEF Pipe

\* A writer takes from its front.
LEMMA PipeWrites ==
  ASSUME Inv, NEW d \in Devs, Stop(d) \/ Check(d) \/ Write(d) \/ Unwind(d)
  PROVE  Pipe(d)'
<1>0. /\ writer \in [Devs -> Writers] /\ writer[d] \in Writers
      /\ client \in {0, epoch} /\ epoch \in 0..MaxClients
      /\ last \in [Clients -> [Devs -> 0..MaxChunks]]
      /\ Bounded(d) /\ (client # 0 => Tracked(d))
  BY DEF Inv, TypeOK, Writers, PipeInv
<1>1. CASE Stop(d)
  <2>1. writer'[d].at = "off" /\ writer[d].at = "take" /\ writer'[d].chunk = writer[d].chunk
    BY <1>0, <1>1 DEF Stop, Writers
  <2> QED BY <1>1, <2>1, PipeWriterKeeps DEF Stop, First, up, hub
<1>2. CASE Check(d) /\ client # 0 /\ writer[d].chunk.ep = epoch
  <2>1. /\ writer[d].at = "check" /\ writer'[d].at = "write"
        /\ writer'[d].chunk = writer[d].chunk /\ writer'[d].c = client
    BY <1>0, <1>2 DEF Check, Writers
  <2> QED BY <1>0, <1>2, <2>1, PipeWriterKeeps DEF Check, First, up, hub
<1>3. CASE Check(d) /\ ~(client # 0 /\ writer[d].chunk.ep = epoch)
  <2>1. writer[d].at = "check" /\ writer'[d].at = "take"
    BY <1>0, <1>3 DEF Check, Writers
  <2>2. UNCHANGED <<hub, queue, reader, last>> BY <1>3 DEF Check
  <2> QED BY <1>3, <2>1, <2>2, PipeWriterDone DEF hub
<1>4. CASE Write(d)
  <2> DEFINE k == writer[d].c
  <2>1. /\ writer[d].at = "write" /\ UNCHANGED <<hub, queue, reader>>
    BY <1>4 DEF Write
  <2>2. k \in Clients /\ writer[d].chunk.ep = k /\ k <= epoch
    <3>1. k \in 0..MaxClients /\ k # 0 /\ writer[d].chunk.ep = k
      BY <1>0, <2>1 DEF Bounded, Writers
    <3>2. 0 \in Places(d) /\ At(d, 0) = writer[d].chunk
      BY <1>0, <2>1 DEF Places, First, At
    <3>3. k <= epoch BY <1>0, <3>1, <3>2 DEF Bounded
    <3> QED BY <3>1, <3>3, Numbers DEF Clients
  <2>3. CASE /\ last' = [last EXCEPT ![k][d] = writer[d].chunk.n]
             /\ writer' = [writer EXCEPT ![d].at = "take", ![d].c = 0]
    <3>1. writer'[d].at = "take" BY <1>0, <2>3 DEF Writers
    <3>2. last'[k][d] = writer[d].chunk.n BY <1>0, <2>2, <2>3
    <3>3. \A c \in Clients : c # k => last'[c][d] = last[c][d]
      BY <1>0, <2>2, <2>3
    <3>4. \A c \in Clients : c > epoch => last'[c][d] = last[c][d]
      BY <1>0, <2>2, <3>3, Numbers DEF Clients
    <3>5. client # 0 => client \in Clients /\ client = epoch
      BY <1>0, Numbers DEF Clients
    <3> QED BY <2>1, <2>2, <3>1, <3>2, <3>3, <3>4, <3>5, PipeWriterDone DEF hub
  <2>4. CASE writer' = [writer EXCEPT ![d].at = "clear"] /\ UNCHANGED last
    <3>1. /\ writer'[d].at = "clear" /\ writer'[d].chunk = writer[d].chunk
          /\ writer'[d].c = writer[d].c
      BY <1>0, <2>4 DEF Writers
    <3> QED BY <2>1, <2>2, <2>4, <3>1, PipeWriterKeeps, Numbers DEF First, Clients, hub
  <2> QED BY <1>4, <2>3, <2>4 DEF Write
<1>5. CASE WriteClear(d)
  <2> DEFINE k == writer[d].c
  <2>1. /\ writer[d].at = "clear" /\ writer'[d].at = "close"
        /\ UNCHANGED <<epoch, devs, queue, reader, last>>
    BY <1>0, <1>5 DEF WriteClear, Writers
  <2>2. k # 0 /\ writer[d].chunk.ep = k BY <1>0, <2>1 DEF Bounded
  <2>3. client' \in {client, 0} /\ (client' # 0 => client # k)
    BY <1>5 DEF WriteClear, Clear
  <2>4. client' # 0 => writer[d].chunk.ep # epoch
    BY <1>0, <2>2, <2>3
  <2> QED BY <2>1, <2>3, <2>4, PipeWriterDone
<1>6. CASE WriteClose(d)
  <2>1. /\ writer[d].at = "close" /\ writer'[d].at = "take"
        /\ writer'[d].chunk = writer[d].chunk
        /\ UNCHANGED <<epoch, client, devs, queue, reader, last>>
    BY <1>0, <1>6 DEF WriteClose, Writers
  <2> QED BY <2>1, PipeWriterKeeps DEF First
<1> QED BY <1>1, <1>2, <1>3, <1>4, <1>5, <1>6 DEF Unwind

\* Nothing on its way is of the new epoch.
LEMMA PipeAttach ==
  ASSUME Inv, NEW d \in Devs, Attach
  PROVE  Pipe(d)'
<1>0. /\ epoch \in Nat /\ client' = epoch + 1 /\ epoch' = epoch + 1
      /\ epoch + 1 \in Clients
      /\ queue \in [Devs -> Seq(Chunk)] /\ Len(queue[d]) \in Nat
      /\ queue'[d] = (IF d = dev THEN <<>> ELSE queue[d])
      /\ UNCHANGED <<devs, reader, writer, last>>
  BY Numbers DEF Attach, Inv, TypeOK, Clients
<1>1. Bounded(d) BY DEF Inv, PipeInv
<1>2. \A i \in Places(d)' : i \in Places(d) /\ At(d, i)' = At(d, i)
  BY <1>0 DEF Places, First, At
<1>3. \A i \in Places(d)' : At(d, i)'.ep <= epoch /\ At(d, i)'.ep \in Nat
  <2>1. ASSUME NEW i \in Places(d) PROVE At(d, i) \in Chunk
    <3>1. i \in 0..Len(queue[d]) BY <1>0 DEF Places, First
    <3>2. writer[d].chunk \in Chunk BY DEF Inv, TypeOK
    <3>3. i # 0 => queue[d][i] \in Chunk BY <1>0, <3>1
    <3> QED BY <3>2, <3>3 DEF At
  <2> QED BY <1>1, <1>2, <2>1, Numbers DEF Bounded, Chunk
<1>4. reader[d].chunk.ep \in Nat BY Numbers DEF Inv, TypeOK, Chunk
<1>5. Bounded(d)'
  BY <1>0, <1>1, <1>3, <1>4, Numbers DEF Bounded, Clients
<1>6. last'[client'][d] = 0
  BY <1>0, <1>1 DEF Bounded
<1>7. \A i \in Places(d)' : At(d, i)'.ep # epoch'
  BY <1>0, <1>3
<1> QED BY <1>5, <1>6, <1>7 DEF Pipe, Tracked, Aligned

\* A new chardev session starts with an empty pipe.
LEMMA PipeDevOpen ==
  ASSUME Inv, NEW d \in Devs, DevOpen
  PROVE  Pipe(d)'
<1>0. devs \in Nat /\ devs + 1 \in Devs /\ d \in Nat
  BY Numbers DEF DevOpen, Inv, TypeOK, Devs
<1>1. /\ devs' = devs + 1 /\ UNCHANGED <<epoch, client, queue, last>>
      /\ reader' = [reader EXCEPT ![devs + 1].at = "read"]
      /\ writer' = [writer EXCEPT ![devs + 1].at = "take"]
  BY DEF DevOpen
<1>2. CASE d # devs + 1
  <2>1. reader'[d] = reader[d] /\ writer'[d] = writer[d]
    BY <1>1, <1>2 DEF Inv, TypeOK
  <2> QED BY <1>0, <1>1, <2>1, PipeStays
<1>3. CASE d = devs + 1
  <2>0. Bounded(d) /\ (client # 0 => Tracked(d)) BY DEF Inv, PipeInv
  <2>1. reader[d].at = "off" /\ writer[d].at = "off" BY <1>0, <1>3, <2>0 DEF Bounded
  <2>2. /\ reader'[d].at = "read" /\ reader'[d].chunk = reader[d].chunk
        /\ writer'[d].at = "take" /\ writer'[d].chunk = writer[d].chunk
    BY <1>1, <1>3 DEF Inv, TypeOK
  <2>3. /\ First(d) = 1 /\ First(d)' = 1 /\ Places(d)' = Places(d)
        /\ \A i : At(d, i)' = At(d, i) /\ Number(d, i)' = Number(d, i)
        /\ \A i : SettledFrom(d, i) => SettledFrom(d, i)'
    BY <1>1, <2>1, <2>2 DEF First, Places, At, Number, Got, SettledFrom
  <2>4. Number(d, First(d) - 1)' = Number(d, First(d) - 1)
    BY <1>1, <2>1, <2>2, <2>3 DEF Number, Got
  <2>5. SettledFrom(d, First(d)) => SettledFrom(d, First(d))'
    BY <1>1, <2>2, <2>3 DEF SettledFrom
  <2>6. Tracked(d) => Tracked(d)'
    BY <1>1, <2>2, <2>3, <2>4, <2>5 DEF Tracked, Aligned
  <2>7. Bounded(d)' BY <1>0, <1>1, <1>3, <2>0, <2>2, <2>3 DEF Bounded
  <2> QED BY <1>1, <2>0, <2>6, <2>7 DEF Pipe
<1> QED BY <1>2, <1>3

\* What one session delivers is no other's.
LEMMA OtherSession ==
  ASSUME Inv, NEW x \in Devs, NEW d \in Devs, x # d, ReadStep(x) \/ WriteStep(x)
  PROVE  /\ writer'[d] = writer[d]
         /\ \A c \in Clients : last'[c][d] = last[c][d]
<1>0. /\ writer \in [Devs -> Writers] /\ last \in [Clients -> [Devs -> 0..MaxChunks]]
  BY DEF Inv, TypeOK, Writers
<1>1. writer'[d] = writer[d]
  BY <1>0
  DEF ReadStep, Deal, WriteStep, Unwind, Read, Stamp, Put, Overflow, OverflowClear,
      OverflowClose, Take, Stop, Check, Write, WriteClear, WriteClose
<1>2. CASE last' = last BY <1>1, <1>2
<1>3. CASE Write(x) /\ last' # last
  <2>1. last' = [last EXCEPT ![writer[x].c][x] = writer[x].chunk.n]
    BY <1>3 DEF Write
  <2>2. \A c \in Clients : last'[c][d] = last[c][d]
    BY <1>0, <2>1
  <2> QED BY <1>1, <2>2
<1> QED
  BY <1>2, <1>3
  DEF ReadStep, Deal, WriteStep, Unwind, Read, Stamp, Put, Overflow, OverflowClear,
      OverflowClose, Take, Stop, Check, WriteClear, WriteClose

\* Every step keeps the pipe of every session.
LEMMA PipeNext ==
  ASSUME Inv, [Next]_vars, NEW d \in Devs
  PROVE  Pipe(d)'
<1>0. /\ reader \in [Devs -> Readers] /\ writer \in [Devs -> Writers]
      /\ queue \in [Devs -> Seq(Chunk)] /\ devs \in Nat
      /\ last \in [Clients -> [Devs -> 0..MaxChunks]]
  BY Numbers DEF Inv, TypeOK, Readers, Writers
<1>1. CASE UNCHANGED vars
  BY <1>0, <1>1, PipeStays DEF vars, hub, down
<1>2. CASE Attach BY <1>2, PipeAttach
<1>3. CASE DevOpen BY <1>3, PipeDevOpen
<1>4. CASE DevClose BY <1>0, <1>4, PipeStays DEF DevClose, down
<1>5. ASSUME NEW x \in Devs, ReadStep(x) \/ WriteStep(x)
      PROVE  Pipe(d)'
  <2>1. CASE x = d
    <3>1. CASE Put(d) /\ Len(queue[d]) < Depth BY <3>1, PipePut
    <3>2. CASE Put(d) /\ ~(Len(queue[d]) < Depth)
      <4>1. Len(queue[d]) >= Depth BY <1>0, <3>2, Numbers
      <4> QED BY <3>2, <4>1, PipeReads
    <3> QED BY <1>5, <2>1, <3>1, <3>2, PipeReads, PipeOverflowClear, PipeTake,
           PipeWrites
        DEF ReadStep, Deal, WriteStep
  <2>2. CASE x # d
    <3>1. reader'[d] = reader[d] /\ queue'[d] = queue[d]
      BY <1>0, <1>5, <2>2
      DEF ReadStep, Deal, WriteStep, Unwind, Read, Stamp, Put, Overflow, OverflowClear,
          OverflowClose, Take, Stop, Check, Write, WriteClear, WriteClose
    <3>2. epoch' = epoch /\ devs' = devs /\ client' \in {client, 0}
      BY <1>5
      DEF ReadStep, Deal, WriteStep, Unwind, Read, Stamp, Put, Overflow, OverflowClear,
          OverflowClose, Take, Stop, Check, Write, WriteClear, WriteClose,
          Clear, hub
    <3> QED BY <1>0, <1>5, <2>2, <3>1, <3>2, OtherSession, PipeStays
  <2> QED BY <2>1, <2>2
<1>6. ASSUME NEW c \in Clients, PumpRead(c) \/ PumpWrite(c) \/ PumpStep(c)
      PROVE  Pipe(d)'
  <2>1. UNCHANGED <<reader, writer, queue, last, epoch, devs>> /\ client' \in {client, 0}
    BY <1>6
    DEF PumpRead, PumpWrite, PumpStep, PumpClosed, PumpDev, PumpCut, PumpLoop, PumpClear,
        PumpClose, Clear, hub, down
  <2> QED BY <1>0, <2>1, PipeStays
<1>7. CASE CloseOld BY <1>0, <1>7, PipeStays DEF CloseOld, down
<1> QED BY <1>1, <1>2, <1>3, <1>4, <1>5, <1>6, <1>7 DEF Next

-----------------------------------------------------------------------------
(* The properties                                                          *)

\* Nothing is in flight at the start.
LEMMA InvInit == Init => Inv
<1> SUFFICES ASSUME Init PROVE Inv
  OBVIOUS
<1>1. TypeOK BY TypeInit
<1>2. AcceptInv /\ TailBounded /\ InOrder /\ OpenIsAttached
  BY DEF Init, AcceptInv, TailBounded, InOrder, OpenIsAttached
<1>3. PipeInv
  <2> SUFFICES ASSUME NEW d \in Devs PROVE Bounded(d) /\ client = 0
    BY DEF PipeInv
  <2>1. Places(d) = {} BY DEF Init, Places, First
  <2> QED BY <2>1 DEF Init, Bounded
<1> QED BY <1>1, <1>2, <1>3 DEF Inv

\* Who was about to close another connection, still is or has closed it.
LEMMA ClosingKept ==
  ASSUME Inv, NEW c \in Clients, Closing(c), [Next]_vars
  PROVE  Closing(c)' \/ ~open'[c]
<1>0. /\ reader \in [Devs -> Readers] /\ writer \in [Devs -> Writers]
      /\ pump \in [Clients -> Pumps]
  BY DEF Inv, TypeOK, Readers, Writers, Pumps
<1>1. CASE accept.at = "close" /\ accept.old = c
  <2>1. CASE CloseOld BY <1>1, <2>1 DEF CloseOld, Close
  <2>2. CASE UNCHANGED accept BY <1>1, <2>2 DEF Closing
  <2>3. CASE Attach BY <1>1, <2>3 DEF Attach
  <2> QED
    BY <2>1, <2>2, <2>3
    DEF Next, vars, hub, DevOpen, DevClose, ReadStep, Deal, Read, Stamp, Put, Overflow,
        OverflowClear, OverflowClose, WriteStep, Unwind, Take, Stop, Check, Write,
        WriteClear, WriteClose, PumpRead, PumpWrite, PumpStep, PumpClosed, PumpDev,
        PumpCut, PumpLoop, PumpClear, PumpClose
<1>2. ASSUME NEW d \in Devs, reader[d].at = "close" /\ reader[d].c = c
      PROVE  Closing(c)' \/ ~open'[c]
  <2>1. CASE OverflowClose(d) BY <1>2, <2>1 DEF OverflowClose, Close
  <2>2. CASE reader'[d] = reader[d] BY <1>2, <2>2 DEF Closing
  <2>3. CASE DevOpen
    <3>1. d # devs + 1
      <4>1. Bounded(d) BY DEF Inv, PipeInv
      <4>2. devs \in Nat /\ d \in Nat BY Numbers DEF Inv, TypeOK, Devs
      <4> QED BY <1>2, <4>1, <4>2 DEF Bounded
    <3> QED BY <1>0, <2>2, <2>3, <3>1 DEF DevOpen
  <2>4. ASSUME NEW x \in Devs, ReadStep(x), ~OverflowClose(d) PROVE reader'[d] = reader[d]
    <3>1. CASE x # d
      BY <1>0, <2>4, <3>1
      DEF ReadStep, Deal, Read, Stamp, Put, Overflow, OverflowClear, OverflowClose
    <3>2. CASE x = d
      BY <1>2, <2>4, <3>2
      DEF ReadStep, Deal, Read, Stamp, Put, Overflow, OverflowClear
    <3> QED BY <3>1, <3>2
  <2> QED
    BY <2>1, <2>2, <2>3, <2>4
    DEF Next, vars, hub, down, Attach, CloseOld, DevClose, WriteStep, Unwind, Take, Stop,
        Check, Write, WriteClear, WriteClose, PumpRead, PumpWrite, PumpStep, PumpClosed,
        PumpDev, PumpCut, PumpLoop, PumpClear, PumpClose
<1>3. ASSUME NEW d \in Devs, writer[d].at = "close" /\ writer[d].c = c
      PROVE  Closing(c)' \/ ~open'[c]
  <2>1. CASE WriteClose(d) BY <1>3, <2>1 DEF WriteClose, Close
  <2>2. CASE writer'[d] = writer[d] BY <1>3, <2>2 DEF Closing
  <2>3. CASE DevOpen
    <3>1. d # devs + 1
      <4>1. Bounded(d) BY DEF Inv, PipeInv
      <4>2. devs \in Nat /\ d \in Nat BY Numbers DEF Inv, TypeOK, Devs
      <4> QED BY <1>3, <4>1, <4>2 DEF Bounded
    <3> QED BY <1>0, <2>2, <2>3, <3>1 DEF DevOpen
  <2>4. ASSUME NEW x \in Devs, WriteStep(x), ~WriteClose(d) PROVE writer'[d] = writer[d]
    <3>1. CASE x # d
      BY <1>0, <2>4, <3>1
      DEF WriteStep, Unwind, Take, Stop, Check, Write, WriteClear, WriteClose
    <3>2. CASE x = d
      BY <1>3, <2>4, <3>2 DEF WriteStep, Unwind, Take, Stop, Check, Write, WriteClear
    <3> QED BY <3>1, <3>2
  <2> QED
    BY <2>1, <2>2, <2>3, <2>4
    DEF Next, vars, hub, down, Attach, CloseOld, DevClose, ReadStep, Deal, Read, Stamp,
        Put, Overflow, OverflowClear, OverflowClose, PumpRead, PumpWrite, PumpStep,
        PumpClosed, PumpDev, PumpCut, PumpLoop, PumpClear, PumpClose
<1>4. CASE pump[c].at = "close"
  <2>1. CASE PumpClose(c) BY <2>1 DEF PumpClose, Close
  <2>2. CASE pump'[c] = pump[c] BY <1>4, <2>2 DEF Closing
  <2>3. CASE CloseOld
    <3>1. c # epoch BY <1>4, <2>3 DEF CloseOld, Inv, AcceptInv
    <3> QED BY <1>0, <2>2, <2>3, <3>1 DEF CloseOld
  <2>4. ASSUME NEW x \in Clients, PumpRead(x) \/ PumpWrite(x) \/ PumpStep(x), ~PumpClose(c)
        PROVE  pump'[c] = pump[c]
    <3>1. CASE x # c
      BY <1>0, <2>4, <3>1
      DEF PumpRead, PumpWrite, PumpStep, PumpClosed, PumpDev, PumpCut, PumpLoop,
          PumpClear, PumpClose
    <3>2. CASE x = c
      BY <1>4, <2>4, <3>2
      DEF PumpRead, PumpWrite, PumpStep, PumpClosed, PumpDev, PumpCut, PumpLoop, PumpClear
    <3> QED BY <3>1, <3>2
  <2> QED
    BY <2>1, <2>2, <2>3, <2>4
    DEF Next, vars, up, Attach, DevOpen, DevClose, ReadStep, Deal, Read, Stamp, Put,
        Overflow, OverflowClear, OverflowClose, WriteStep, Unwind, Take, Stop, Check,
        Write, WriteClear, WriteClose
<1> QED BY <1>1, <1>2, <1>3, <1>4 DEF Closing

\* Every step leaves an open connection attached, or about to be closed.
LEMMA OpenNext ==
  ASSUME Inv, [Next]_vars
  PROVE  OpenIsAttached'
<1> SUFFICES ASSUME NEW c \in Clients, open'[c]
             PROVE  client' = c \/ Closing(c)'
  BY DEF OpenIsAttached
<1>0. /\ open \in [Clients -> BOOLEAN] /\ epoch \in Nat
      /\ reader \in [Devs -> Readers] /\ writer \in [Devs -> Writers]
      /\ pump \in [Clients -> Pumps]
  BY Numbers DEF Inv, TypeOK, Readers, Writers, Pumps
<1>1. CASE open[c] /\ Closing(c) BY <1>1, ClosingKept
<1>2. CASE Attach /\ c = epoch + 1 BY <1>2 DEF Attach
<1>3. CASE Attach /\ open[c] /\ client = c BY <1>3 DEF Attach, Closing
<1>4. CASE open[c] /\ client = c /\ ~Attach
  <2>1. CASE client' = client BY <1>4, <2>1
  <2>2. ASSUME NEW d \in Devs, OverflowClear(d), client' # client PROVE Closing(c)'
    <3>1. reader'[d].at = "close" /\ reader'[d].c = reader[d].c
      BY <1>0, <2>2 DEF OverflowClear, Readers
    <3>2. reader[d].c = c BY <1>4, <2>2 DEF OverflowClear, Clear
    <3> QED BY <3>1, <3>2 DEF Closing
  <2>3. ASSUME NEW d \in Devs, WriteClear(d), client' # client PROVE Closing(c)'
    <3>1. writer'[d].at = "close" /\ writer'[d].c = writer[d].c
      BY <1>0, <2>3 DEF WriteClear, Writers
    <3>2. writer[d].c = c BY <1>4, <2>3 DEF WriteClear, Clear
    <3> QED BY <3>1, <3>2 DEF Closing
  <2>4. ASSUME NEW x \in Clients, PumpClear(x), client' # client PROVE Closing(c)'
    <3>1. x = c BY <1>4, <2>4 DEF PumpClear, Clear
    <3>2. pump'[c].at = "close" BY <1>0, <2>4, <3>1 DEF PumpClear, Pumps
    <3> QED BY <3>2 DEF Closing
  <2> QED
    BY <1>4, <2>1, <2>2, <2>3, <2>4
    DEF Next, vars, hub, CloseOld, DevOpen, DevClose, ReadStep, Deal, Read, Stamp, Put,
        Overflow, OverflowClose, WriteStep, Unwind, Take, Stop, Check, Write,
        WriteClose, PumpRead, PumpWrite, PumpStep, PumpClosed, PumpDev, PumpCut, PumpLoop,
        PumpClose
<1>5. open[c] \/ (Attach /\ c = epoch + 1)
  <2>1. CASE Attach BY <1>0, <2>1 DEF Attach
  <2>2. ASSUME NEW x, Close(x) PROVE open[c] BY <2>2 DEF Close
  <2>3. CASE UNCHANGED open BY <2>3
  <2> QED
    BY <2>1, <2>2, <2>3
    DEF Next, vars, hub, CloseOld, DevOpen, DevClose, ReadStep, Deal, Read, Stamp, Put,
        Overflow, OverflowClear, OverflowClose, WriteStep, Unwind, Take, Stop, Check,
        Write, WriteClear, WriteClose, PumpRead, PumpWrite, PumpStep, PumpClosed, PumpDev,
        PumpCut, PumpLoop, PumpClear, PumpClose
<1> QED BY <1>1, <1>2, <1>3, <1>4, <1>5 DEF Inv, OpenIsAttached

\* What a step does to the writer of d and to what clients have received of d.
LEMMA WriterSteps ==
  ASSUME Inv, [Next]_vars, NEW d \in Devs
  PROVE  \/ UNCHANGED <<writer[d], [c \in Clients |-> last[c][d]]>>
         \/ writer'[d].at # "write" /\ \A c \in Clients : last'[c][d] = last[c][d]
         \/ /\ Check(d) /\ writer'[d].c = client /\ client # 0 /\ client = epoch
            /\ writer'[d].chunk = writer[d].chunk /\ writer[d].chunk.ep = epoch
            /\ last' = last
         \/ Write(d) /\ last' = [last EXCEPT ![writer[d].c][d] = writer[d].chunk.n]
<1>0. /\ writer \in [Devs -> Writers] /\ client \in {0, epoch}
      /\ last \in [Clients -> [Devs -> 0..MaxChunks]]
  BY DEF Inv, TypeOK, Writers
<1>1. CASE DevOpen
  BY <1>0, <1>1 DEF DevOpen
<1>2. ASSUME NEW x \in Devs, WriteStep(x), x # d
      PROVE  writer'[d] = writer[d] /\ \A c \in Clients : last'[c][d] = last[c][d]
  BY <1>2, OtherSession
<1>3. CASE Take(d) \/ Stop(d) \/ Unwind(d)
  <2>1. writer'[d].at # "write"
    BY <1>0, <1>3 DEF Take, Stop, Unwind, WriteClear, WriteClose, Writers
  <2> QED BY <1>3, <2>1 DEF Take, Stop, Unwind, WriteClear, WriteClose
<1>4. CASE Check(d)
  BY <1>0, <1>4 DEF Check, Writers
<1>5. CASE Write(d)
  <2>1. CASE writer' = [writer EXCEPT ![d].at = "clear"] /\ UNCHANGED last
    <3>1. writer'[d].at = "clear" BY <1>0, <2>1 DEF Writers
    <3> QED BY <2>1, <3>1
  <2> QED BY <1>5, <2>1 DEF Write
<1>6. CASE UNCHANGED <<writer, last>>
  BY <1>6
<1> QED
  BY <1>1, <1>2, <1>3, <1>4, <1>5, <1>6
  DEF Next, vars, hub, down, Attach, CloseOld, DevClose, ReadStep, Deal, Read, Stamp, Put,
      Overflow, OverflowClear, OverflowClose, WriteStep, PumpRead, PumpWrite, PumpStep,
      PumpClosed, PumpDev, PumpCut, PumpLoop, PumpClear, PumpClose

\* Only the first chunk that a client receives of d may have been read before it
\* connected: after that, what is on its way was read for it.
LEMMA TailNext ==
  ASSUME Inv, [Next]_vars
  PROVE  TailBounded'
<1> SUFFICES ASSUME NEW d \in Devs, writer'[d].at = "write",
                    writer'[d].chunk.seen # writer'[d].c
             PROVE  last'[writer'[d].c][d] = 0
  BY DEF TailBounded
<1>0. /\ writer \in [Devs -> Writers] /\ writer[d] \in Writers /\ Bounded(d)
      /\ (client # 0 => Tracked(d))
      /\ queue[d] \in Seq(Chunk) /\ Len(queue[d]) \in Nat
  BY DEF Inv, TypeOK, Writers, PipeInv
<1>1. CASE UNCHANGED <<writer[d], [c \in Clients |-> last[c][d]]>>
  <2>1. writer[d].c \in Clients
    BY <1>0, <1>1, Numbers DEF Bounded, Writers, Clients
  <2>2. [c \in Clients |-> last'[c][d]][writer[d].c]
          = [c \in Clients |-> last[c][d]][writer[d].c]
    BY <1>1
  <2>3. last'[writer[d].c][d] = last[writer[d].c][d] BY <2>1, <2>2
  <2> QED BY <1>1, <2>3 DEF Inv, TailBounded
<1>2. CASE /\ Check(d) /\ writer'[d].c = client /\ client # 0 /\ client = epoch
           /\ writer'[d].chunk = writer[d].chunk /\ last' = last
  <2>1. First(d) = 0 /\ 0 \in Places(d) /\ At(d, 0) = writer[d].chunk
    BY <1>0, <1>2 DEF Check, First, Places, At
  <2>2. ~SettledFrom(d, First(d)) BY <1>2, <2>1 DEF SettledFrom
  <2> QED BY <1>0, <1>2, <2>2 DEF Tracked, Aligned
<1>3. CASE Write(d)
  <2>1. writer'[d].at # "write" BY <1>0, <1>3 DEF Write, Writers
  <2> QED BY <2>1
<1> QED BY <1>1, <1>2, <1>3, WriterSteps

\* What is about to be written to a client follows what it received last.
LEMMA OrderNext ==
  ASSUME Inv, [Next]_vars
  PROVE  InOrder'
<1> SUFFICES ASSUME NEW d \in Devs, writer'[d].at = "write"
             PROVE  last'[writer'[d].c][d] \in {0, writer'[d].chunk.n - 1}
  BY DEF InOrder
<1>0. /\ writer \in [Devs -> Writers] /\ Bounded(d) /\ (client # 0 => Tracked(d))
      /\ queue[d] \in Seq(Chunk) /\ Len(queue[d]) \in Nat /\ reader[d] \in Readers
  BY DEF Inv, TypeOK, Writers, Readers, PipeInv
<1>1. CASE UNCHANGED <<writer[d], [c \in Clients |-> last[c][d]]>>
  <2>1. writer[d].c \in Clients
    BY <1>0, <1>1, Numbers DEF Bounded, Writers, Clients
  <2>2. [c \in Clients |-> last'[c][d]][writer[d].c]
          = [c \in Clients |-> last[c][d]][writer[d].c]
    BY <1>1
  <2>3. last'[writer[d].c][d] = last[writer[d].c][d] BY <2>1, <2>2
  <2> QED BY <1>1, <2>3 DEF Inv, InOrder
<1>2. CASE /\ Check(d) /\ writer'[d].c = client /\ client # 0 /\ client = epoch
           /\ writer'[d].chunk = writer[d].chunk /\ writer[d].chunk.ep = epoch
           /\ last' = last
  <2>1. First(d) = 0 /\ 0 \in Places(d) /\ At(d, 0) = writer[d].chunk
    BY <1>0, <1>2 DEF Check, First, Places, At
  <2>2. writer[d].chunk.n = Number(d, 0)
    BY <1>0, <1>2, <2>1 DEF Tracked, Aligned
  <2>3. last[client][d] # 0 => last[client][d] = Number(d, 0 - 1)
    BY <1>0, <1>2, <2>1 DEF Tracked, Aligned
  <2>4. Number(d, 0 - 1) = Number(d, 0) - 1
    <3>1. reader[d].chunk.n \in Nat /\ Got(d) \in Int
      BY <1>0, Numbers DEF Readers, Chunk, Got
    <3> QED BY <1>0, <3>1 DEF Number
  <2> QED BY <1>2, <2>2, <2>3, <2>4
<1>3. CASE Write(d)
  <2>1. writer'[d].at # "write"
    BY <1>0, <1>3 DEF Write, Writers
  <2> QED BY <2>1
<1> QED BY <1>1, <1>2, <1>3, WriterSteps

\* Every step keeps Inv.
LEMMA InvNext == Inv /\ [Next]_vars => Inv'
<1> SUFFICES ASSUME Inv, [Next]_vars PROVE Inv'
  OBVIOUS
<1>1. PipeInv' BY PipeNext DEF PipeInv, Pipe
<1>2. TypeOK' /\ AcceptInv' BY TypeNext DEF Inv
<1> QED BY <1>1, <1>2, TailNext, OrderNext, OpenNext DEF Inv

\* What a bridge receives next is the successor of what it received last.
LEMMA StreamNext ==
  ASSUME Inv, [Next]_vars, NEW c \in Clients, NEW d \in Devs, last'[c][d] # last[c][d]
  PROVE  last[c][d] = 0 \/ last'[c][d] = last[c][d] + 1
<1>0. /\ writer \in [Devs -> Writers]
      /\ last \in [Clients -> [Devs -> 0..MaxChunks]]
  BY DEF Inv, TypeOK, Writers
<1>1. ~UNCHANGED <<writer[d], [x \in Clients |-> last[x][d]]>>
  <2> SUFFICES ASSUME [x \in Clients |-> last'[x][d]] = [x \in Clients |-> last[x][d]]
               PROVE  FALSE
    OBVIOUS
  <2>1. [x \in Clients |-> last'[x][d]][c] = [x \in Clients |-> last[x][d]][c] OBVIOUS
  <2> QED BY <2>1
<1>2. /\ writer[d].at = "write"
      /\ last' = [last EXCEPT ![writer[d].c][d] = writer[d].chunk.n]
  BY <1>1, WriterSteps DEF Write
<1>3. writer[d].c = c /\ last'[c][d] = writer[d].chunk.n BY <1>0, <1>2
<1>4. last[c][d] \in {0, writer[d].chunk.n - 1} BY <1>2, <1>3 DEF Inv, InOrder
<1>5. writer[d].chunk.n \in Nat BY <1>0, Numbers DEF Writers, Chunk
<1> QED BY <1>3, <1>4, <1>5

\* The inductive invariant: where every chunk is, by number and by epoch.
THEOREM DrainInvariant == Spec => []Inv
  BY InvInit, InvNext, PTL DEF Spec

\* The chunks on their way stay numbered, stamped and in order.
THEOREM AlwaysInLine == Spec => []PipeInv
<1>1. Inv => PipeInv BY DEF Inv
<1> QED BY <1>1, DrainInvariant, PTL

\* chardevWriteLoop never writes a chunk to a bridge that it was not stamped for.
THEOREM EpochKept == Spec => []EpochRespected
<1>1. Inv => EpochRespected BY DEF Inv, PipeInv, Bounded, EpochRespected
<1> QED BY <1>1, DrainInvariant, PTL

\* A bridge receives at most one chunk that was read before it connected.
THEOREM TailKept == Spec => []TailBounded
<1>1. Inv => TailBounded BY DEF Inv
<1> QED BY <1>1, DrainInvariant, PTL

\* setClient, clearClient and the Close after each of them never leave a connection
\* open that is neither the hub's client nor about to be closed.
THEOREM OpenKept == Spec => []OpenIsAttached
<1>1. Inv => OpenIsAttached BY DEF Inv
<1> QED BY <1>1, DrainInvariant, PTL

\* What a bridge receives of a start of the VM has no gap, however full the queue
\* gets and whoever connects in between.
THEOREM StreamHasNoGap == Spec => StreamContiguous
<1>1. Inv /\ [Next]_vars =>
        [\A c \in Clients, d \in Devs :
           last'[c][d] # last[c][d] => \/ last[c][d] = 0
                                       \/ last'[c][d] = last[c][d] + 1]_vars
  BY StreamNext
<1> QED BY <1>1, DrainInvariant, PTL DEF Spec, StreamContiguous

=============================================================================
