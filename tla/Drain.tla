------------------------------- MODULE Drain -------------------------------
(***************************************************************************)
(* The host-side chardev drainer of cmd/opnsensectl/opnsense_drain.go: one *)
(* goroutine reads the qemu chardev into a bounded queue, one forwards the *)
(* queue to the attached bridge, one per bridge connection copies the      *)
(* other way.  Either side comes and goes without tearing the other down.  *)
(*                                                                         *)
(* A step is what one goroutine does between two points where another one  *)
(* can be seen: a critical section of drainHub.mu, a channel operation, or *)
(* a read or write of a connection.  setClient is the only place that      *)
(* installs a client and it advances the epoch, so the client of epoch e   *)
(* is called e here.                                                       *)
(***************************************************************************)
EXTENDS Integers, Sequences

CONSTANTS
  Depth,       \* drainQueueDepth
  MaxClients,  \* bound on bridge connections
  MaxDevs,     \* bound on chardev sessions, one per start of the VM
  MaxChunks,   \* bound on what the guest writes per chardev session
  MaxUp        \* bound on what a bridge sends per connection

ASSUME DrainAssumption ==
  /\ Depth \in Nat \ {0}
  /\ MaxClients \in Nat \ {0} /\ MaxDevs \in Nat \ {0}
  /\ MaxChunks \in Nat /\ MaxUp \in Nat

Clients == 1..MaxClients
Devs    == 1..MaxDevs

VARIABLES
  epoch,   \* drainHub.epoch
  client,  \* drainHub.client: epoch, or 0 for nil
  dev,     \* drainHub.chardev and .toClient: the chardev session, or 0
  devs,    \* chardev sessions opened so far
  open,    \* open[c]: connection c has not been closed by the drainer
  accept,  \* acceptLoop: [at, old], old being the client that setClient replaced
  queue,   \* queue[d]: the channel between reader and writer of session d
  reader,  \* reader[d]: [at, chunk, c]
  writer,  \* writer[d]: [at, chunk, c]
  last,    \* last[c][d]: the last chunk of session d that client c received
  pump,    \* pump[c]: [at, d]
  sent     \* sent[c]: what bridge c has sent

hub  == <<epoch, client, dev, devs, open, accept>>
down == <<queue, reader, writer, last>>
up   == <<pump, sent>>
vars == <<hub, down, up>>

\* n numbers the chunks of one session; seen is the epoch when it was read, ep
\* the epoch it is stamped with.
Chunk   == [n : 0..MaxChunks, seen : 0..MaxClients, ep : 0..MaxClients]
NoChunk == [n |-> 0, seen |-> 0, ep |-> 0]

-----------------------------------------------------------------------------
(* The hub                                                                 *)

\* clearClient(c).
Clear(c) == client' = IF client = c THEN 0 ELSE client

\* c.Close(), always after the mutex has been released.
Close(c) == open' = [x \in Clients |-> open[x] /\ x # c]

\* Mutant of Attach: the epoch is not advanced.
AttachSameEpoch ==
  /\ accept.at = "accept"
  /\ epoch < MaxClients
  /\ client' = epoch + 1
  /\ open' = [open EXCEPT ![epoch + 1] = TRUE]
  /\ queue' = [d \in Devs |-> IF d = dev THEN <<>> ELSE queue[d]]
  /\ accept' = [at |-> "close", old |-> client]
  /\ UNCHANGED <<epoch, dev, devs, reader, writer, last, up>>

\* What setClient does under the mutex: swap, advance the epoch, flush the queue.
Attach ==
  /\ accept.at = "accept"
  /\ epoch < MaxClients
  /\ epoch' = epoch + 1
  /\ client' = epoch + 1
  /\ open' = [open EXCEPT ![epoch + 1] = TRUE]
  /\ queue' = [d \in Devs |-> IF d = dev THEN <<>> ELSE queue[d]]
  /\ accept' = [at |-> "close", old |-> client]
  /\ UNCHANGED <<dev, devs, reader, writer, last, up>>

\* Mutant of CloseOld: the client that was replaced is left open.
LeaveOld ==
  /\ accept.at = "close"
  /\ accept' = [at |-> "accept", old |-> 0]
  /\ pump' = [pump EXCEPT ![epoch].at = "read"]
  /\ UNCHANGED <<epoch, client, dev, devs, open, down, sent>>

\* After the unlock: setClient closes the client it replaced, and acceptLoop starts
\* the pump of the new one and accepts again.
CloseOld ==
  /\ accept.at = "close"
  /\ Close(accept.old)
  /\ accept' = [at |-> "accept", old |-> 0]
  /\ pump' = [pump EXCEPT ![epoch].at = "read"]
  /\ UNCHANGED <<epoch, client, dev, devs, down, sent>>

\* runDrainRelay has opened the chardev; drainChardev makes a queue and starts a
\* reader and a writer for it.  The hub learns of the chardev and of the queue in
\* two critical sections, here and in DevClose; they are one step because pumps
\* look at the first only, setClient at the second only, and the queue is empty
\* before its reader runs and is never taken up by another session.
DevOpen ==
  /\ dev = 0 /\ devs < MaxDevs
  /\ devs' = devs + 1
  /\ dev' = devs + 1
  /\ reader' = [reader EXCEPT ![devs + 1].at = "read"]
  /\ writer' = [writer EXCEPT ![devs + 1].at = "take"]
  /\ UNCHANGED <<epoch, client, open, accept, queue, last, up>>

\* The reader has reported an error.  The writer is told to stop and the chardev is
\* closed, which ends a write to it that has not returned.
DevClose ==
  /\ dev # 0 /\ reader[dev].at = "end"
  /\ dev' = 0
  /\ UNCHANGED <<epoch, client, devs, open, accept, down, up>>

-----------------------------------------------------------------------------
(* chardevReadLoop                                                         *)

\* The chardev delivers the guest's next chunk, or an error when the VM is down.
Read(d) ==
  /\ reader[d].at = "read"
  /\ \/ /\ reader[d].chunk.n < MaxChunks
        /\ reader' = [reader EXCEPT ![d].at = "stamp", ![d].chunk.n = @ + 1,
                                    ![d].chunk.seen = epoch]
     \/ reader' = [reader EXCEPT ![d].at = "end"]
  /\ UNCHANGED <<hub, queue, writer, last, up>>

Stamp(d) ==
  /\ reader[d].at = "stamp"
  /\ reader' = [reader EXCEPT ![d].at = "put", ![d].chunk.ep = epoch]
  /\ UNCHANGED <<hub, queue, writer, last, up>>

\* Mutant of Put: on overflow the chunk is dropped and not the client.
PutOrLose(d) ==
  /\ reader[d].at = "put"
  /\ queue' = [queue EXCEPT ![d] = IF Len(@) < Depth
                                   THEN Append(@, reader[d].chunk) ELSE @]
  /\ reader' = [reader EXCEPT ![d].at = "read"]
  /\ UNCHANGED <<hub, writer, last, up>>

\* Mutant of Put: a plain send, which waits for room.
PutOrWait(d) ==
  /\ reader[d].at = "put"
  /\ Len(queue[d]) < Depth
  /\ queue' = [queue EXCEPT ![d] = Append(@, reader[d].chunk)]
  /\ reader' = [reader EXCEPT ![d].at = "read"]
  /\ UNCHANGED <<hub, writer, last, up>>

\* Never waits for room: a full queue costs the client its connection.
Put(d) ==
  /\ reader[d].at = "put"
  /\ \/ /\ Len(queue[d]) < Depth
        /\ queue' = [queue EXCEPT ![d] = Append(@, reader[d].chunk)]
        /\ reader' = [reader EXCEPT ![d].at = "read"]
     \/ /\ Len(queue[d]) >= Depth
        /\ reader' = [reader EXCEPT ![d].at = "overflow"]
        /\ UNCHANGED queue
  /\ UNCHANGED <<hub, writer, last, up>>

\* getClient, clearClient and the Close are three steps.
Overflow(d) ==
  /\ reader[d].at = "overflow"
  /\ reader' = [reader EXCEPT ![d].at = IF client = 0 THEN "read" ELSE "clear",
                              ![d].c = client]
  /\ UNCHANGED <<hub, queue, writer, last, up>>

OverflowClear(d) ==
  /\ reader[d].at = "clear"
  /\ Clear(reader[d].c)
  /\ reader' = [reader EXCEPT ![d].at = "close"]
  /\ UNCHANGED <<epoch, dev, devs, open, accept, queue, writer, last, up>>

OverflowClose(d) ==
  /\ reader[d].at = "close"
  /\ Close(reader[d].c)
  /\ reader' = [reader EXCEPT ![d].at = "read", ![d].c = 0]
  /\ UNCHANGED <<epoch, client, dev, devs, accept, queue, writer, last, up>>

\* What the reader does with what it has read.
Deal(d) == Stamp(d) \/ Put(d) \/ Overflow(d) \/ OverflowClear(d) \/ OverflowClose(d)

ReadStep(d) == Read(d) \/ Deal(d)

-----------------------------------------------------------------------------
(* chardevWriteLoop                                                        *)

\* After the session has ended, the select may still choose the queue.
Take(d) ==
  /\ writer[d].at = "take"
  /\ queue[d] # <<>>
  /\ writer' = [writer EXCEPT ![d].at = "check", ![d].chunk = Head(queue[d])]
  /\ queue' = [queue EXCEPT ![d] = Tail(@)]
  /\ UNCHANGED <<hub, reader, last, up>>

Stop(d) ==
  /\ writer[d].at = "take"
  /\ dev # d
  /\ writer' = [writer EXCEPT ![d].at = "off"]
  /\ UNCHANGED <<hub, queue, reader, last, up>>

\* Mutant of Check: no epoch; the queue flush is trusted.
CheckNoEpoch(d) ==
  /\ writer[d].at = "check"
  /\ writer' = [writer EXCEPT ![d].at = IF client = 0 THEN "take" ELSE "write",
                              ![d].c = client]
  /\ UNCHANGED <<hub, queue, reader, last, up>>

\* A chunk of another epoch, or of no client, is discarded.
Check(d) ==
  /\ writer[d].at = "check"
  /\ LET mine == client # 0 /\ writer[d].chunk.ep = epoch IN
     writer' = [writer EXCEPT ![d].at = IF mine THEN "write" ELSE "take",
                              ![d].c = IF mine THEN client ELSE 0]
  /\ UNCHANGED <<hub, queue, reader, last, up>>

\* The write succeeds only while the connection is open, and may fail at any time.
Write(d) ==
  /\ writer[d].at = "write"
  /\ \/ /\ open[writer[d].c]
        /\ last' = [last EXCEPT ![writer[d].c][d] = writer[d].chunk.n]
        /\ writer' = [writer EXCEPT ![d].at = "take", ![d].c = 0]
     \/ /\ writer' = [writer EXCEPT ![d].at = "clear"]
        /\ UNCHANGED last
  /\ UNCHANGED <<hub, queue, reader, up>>

WriteClear(d) ==
  /\ writer[d].at = "clear"
  /\ Clear(writer[d].c)
  /\ writer' = [writer EXCEPT ![d].at = "close"]
  /\ UNCHANGED <<epoch, dev, devs, open, accept, queue, reader, last, up>>

WriteClose(d) ==
  /\ writer[d].at = "close"
  /\ Close(writer[d].c)
  /\ writer' = [writer EXCEPT ![d].at = "take", ![d].c = 0]
  /\ UNCHANGED <<epoch, client, dev, devs, accept, queue, reader, last, up>>

\* What the writer does after a failed write.
Unwind(d) == WriteClear(d) \/ WriteClose(d)

WriteStep(d) == Take(d) \/ Stop(d) \/ Check(d) \/ Write(d) \/ Unwind(d)

-----------------------------------------------------------------------------
(* clientPump                                                              *)

\* The bridge sends data, or hangs up.
PumpRead(c) ==
  /\ pump[c].at = "read"
  /\ open[c]
  /\ \/ /\ sent[c] < MaxUp
        /\ sent' = [sent EXCEPT ![c] = @ + 1]
        /\ pump' = [pump EXCEPT ![c].at = "dev"]
     \/ pump' = [pump EXCEPT ![c].at = "exit"] /\ UNCHANGED sent
  /\ UNCHANGED <<hub, down>>

\* A read of a connection the drainer has closed returns an error.
PumpClosed(c) ==
  /\ pump[c].at = "read"
  /\ ~open[c]
  /\ pump' = [pump EXCEPT ![c].at = "exit"]
  /\ UNCHANGED <<hub, down, sent>>

\* With no chardev the data is discarded.
PumpDev(c) ==
  /\ pump[c].at = "dev"
  /\ pump' = [pump EXCEPT ![c].at = IF dev = 0 THEN "loop" ELSE "write", ![c].d = dev]
  /\ UNCHANGED <<hub, down, sent>>

\* The write has no deadline: while the guest does not read, it may never return.
PumpWrite(c) ==
  /\ pump[c].at = "write"
  /\ dev = pump[c].d
  /\ \E a \in {"loop", "exit"} : pump' = [pump EXCEPT ![c] = [at |-> a, d |-> 0]]
  /\ UNCHANGED <<hub, down, sent>>

\* When the chardev has been closed it returns, with an error unless the bytes had
\* already gone.
PumpCut(c) ==
  /\ pump[c].at = "write"
  /\ dev # pump[c].d
  /\ \E a \in {"loop", "exit"} : pump' = [pump EXCEPT ![c] = [at |-> a, d |-> 0]]
  /\ UNCHANGED <<hub, down, sent>>

PumpLoop(c) ==
  /\ pump[c].at = "loop"
  /\ pump' = [pump EXCEPT ![c].at = IF client = c THEN "read" ELSE "exit"]
  /\ UNCHANGED <<hub, down, sent>>

PumpClear(c) ==
  /\ pump[c].at = "exit"
  /\ Clear(c)
  /\ pump' = [pump EXCEPT ![c].at = "close"]
  /\ UNCHANGED <<epoch, dev, devs, open, accept, down, sent>>

PumpClose(c) ==
  /\ pump[c].at = "close"
  /\ Close(c)
  /\ pump' = [pump EXCEPT ![c].at = "off"]
  /\ UNCHANGED <<epoch, client, dev, devs, accept, down, sent>>

\* What a pump does when neither the bridge nor the guest keeps it waiting.
PumpStep(c) == \/ PumpClosed(c) \/ PumpDev(c) \/ PumpCut(c) \/ PumpLoop(c)
               \/ PumpClear(c) \/ PumpClose(c)

-----------------------------------------------------------------------------
Init ==
  /\ epoch = 0 /\ client = 0 /\ dev = 0 /\ devs = 0
  /\ open = [c \in Clients |-> FALSE]
  /\ accept = [at |-> "accept", old |-> 0]
  /\ queue = [d \in Devs |-> <<>>]
  /\ reader = [d \in Devs |-> [at |-> "off", chunk |-> NoChunk, c |-> 0]]
  /\ writer = [d \in Devs |-> [at |-> "off", chunk |-> NoChunk, c |-> 0]]
  /\ last = [c \in Clients |-> [d \in Devs |-> 0]]
  /\ pump = [c \in Clients |-> [at |-> "off", d |-> 0]]
  /\ sent = [c \in Clients |-> 0]

Next == \/ Attach \/ CloseOld \/ DevOpen \/ DevClose
        \/ \E d \in Devs : ReadStep(d) \/ WriteStep(d)
        \/ \E c \in Clients : PumpRead(c) \/ PumpWrite(c) \/ PumpStep(c)

Spec == Init /\ [][Next]_vars

\* A goroutine goes on unless it waits for a peer: nothing is assumed of the reads
\* of the chardev and of bridges, and the writes to either may hang for ever.
LiveSpec == /\ Spec
            /\ WF_vars(CloseOld) /\ WF_vars(DevClose)
            /\ \A d \in Devs : WF_vars(Deal(d)) /\ WF_vars(Unwind(d))
            /\ \A c \in Clients : WF_vars(PumpStep(c))

-----------------------------------------------------------------------------
(* Properties                                                              *)

\* Each variable and goroutine is in one of its states; a queue keeps its bound.
TypeOK ==
  /\ epoch \in 0..MaxClients /\ client \in {0, epoch}
  /\ dev \in 0..MaxDevs /\ devs \in 0..MaxDevs
  /\ open \in [Clients -> BOOLEAN]
  /\ accept \in [at : {"accept", "close"}, old : 0..MaxClients]
  /\ queue \in [Devs -> Seq(Chunk)] /\ \A d \in Devs : Len(queue[d]) <= Depth
  /\ reader \in [Devs -> [at : {"off", "read", "stamp", "put", "overflow", "clear", "close",
                                "end"},
                          chunk : Chunk, c : 0..MaxClients]]
  /\ writer \in [Devs -> [at : {"off", "take", "check", "write", "clear", "close"},
                          chunk : Chunk, c : 0..MaxClients]]
  /\ last \in [Clients -> [Devs -> 0..MaxChunks]]
  /\ pump \in [Clients -> [at : {"off", "read", "dev", "write", "loop", "exit", "close"},
                           d : 0..MaxDevs]]
  /\ sent \in [Clients -> 0..MaxUp]

\* The client is dropped, never bytes: what a bridge receives of a chardev
\* session has no gap, however slow it is and whoever connects in between.
StreamContiguous ==
  [][ \A c \in Clients, d \in Devs :
        last'[c][d] # last[c][d] => \/ last[c][d] = 0
                                    \/ last'[c][d] = last[c][d] + 1 ]_vars

\* A chunk is only ever written to the bridge of the epoch it is stamped with,
\* also when it had been dequeued before another bridge connected.
EpochRespected ==
  \A d \in Devs : writer[d].at = "write" => writer[d].chunk.ep = writer[d].c

\* Of what was read before a bridge connected, that bridge receives at most one
\* chunk, the one the reader held at that moment, and receives it first.
TailBounded ==
  \A d \in Devs : writer[d].at = "write" /\ writer[d].chunk.seen # writer[d].c
                 => last[writer[d].c][d] = 0

\* Some goroutine's next step closes c.
Closing(c) ==
  \/ accept.at = "close" /\ accept.old = c
  \/ \E d \in Devs : \/ reader[d].at = "close" /\ reader[d].c = c
                     \/ writer[d].at = "close" /\ writer[d].c = c
  \/ pump[c].at = "close"

\* No connection is forgotten: a bridge that is connected is the hub's client, or
\* the goroutine that took that from it is about to close the connection.
OpenIsAttached == \A c \in Clients : open[c] => client = c \/ Closing(c)

\* What makes the above inductive.  The chunks of session d on their way: the one
\* the writer holds, at place 0, and the queue.
Got(d)   == reader[d].chunk.n - IF reader[d].at \in {"stamp", "put", "overflow", "clear"}
                                THEN 1 ELSE 0
First(d) == IF writer[d].at \in {"check", "write", "clear"} THEN 0 ELSE 1
Places(d) == First(d)..Len(queue[d])
At(d, i) == IF i = 0 THEN writer[d].chunk ELSE queue[d][i]
Number(d, i) == Got(d) + i - Len(queue[d])

\* From place i on, everything was read and stamped in this epoch.
SettledFrom(d, i) ==
  /\ \A j \in Places(d) : j >= i => At(d, j).ep = epoch /\ At(d, j).seen = epoch
  /\ reader[d].at \in {"stamp", "put"} => reader[d].chunk.seen = epoch
  /\ reader[d].at = "put" => reader[d].chunk.ep = epoch

\* The chunks stamped for the client are numbered up to what the reader has queued,
\* all but the first were read for it, and the last one it received precedes them.
Aligned(d) ==
  /\ \A i \in Places(d) : At(d, i).ep = epoch =>
       At(d, i).n = Number(d, i) /\ SettledFrom(d, i + 1)
  /\ last[client][d] # 0 =>
       last[client][d] = Number(d, First(d) - 1) /\ SettledFrom(d, First(d))

\* A reader that is about to clear an older client has not lost a chunk of this one.
Tracked(d) ==
  /\ Aligned(d)
  /\ reader[d].at = "clear" /\ reader[d].c # client =>
       last[client][d] = 0 /\ \A i \in Places(d) : At(d, i).ep # epoch

\* No chunk, write or goroutine of a time that has not come.
Bounded(d) ==
  /\ \A i \in Places(d) : At(d, i).ep <= epoch
  /\ reader[d].at = "put" => reader[d].chunk.ep <= epoch
  /\ writer[d].at \in {"write", "clear"} =>
       writer[d].c # 0 /\ writer[d].chunk.ep = writer[d].c
  /\ d > devs => reader[d].at = "off" /\ writer[d].at = "off"
  /\ \A c \in Clients : c > epoch => last[c][d] = 0

\* What is being written to a client, even to one that has been cleared since, is
\* its first chunk or follows what it received last.
InOrder ==
  \A d \in Devs : writer[d].at = "write" =>
    last[writer[d].c][d] \in {0, writer[d].chunk.n - 1}

PipeInv == \A d \in Devs : Bounded(d) /\ (client # 0 => Tracked(d))

\* A hung bridge never stalls the guest: what was read of the chardev is dealt
\* with and the next read follows, whether or not any write to a bridge returns.
GuestNeverStalled ==
  \A d \in Devs : reader[d].at \notin {"off", "read", "end"} ~> reader[d].at = "read"

\* The guest does not take what pump c writes, and the VM is up.
Blocked(c) == pump[c].at = "write" /\ dev = pump[c].d /\ reader[dev].at # "end"

\* The pump of a superseded bridge ends, also when that bridge never sends another
\* byte and never hangs up, unless the guest never takes the write it is in.
SupersededPumpEnds ==
  \A c \in Clients : epoch > c ~> (pump[c].at = "off" \/ []Blocked(c))

=============================================================================
