------------------------------ MODULE Download ------------------------------
(***************************************************************************)
(* A download beside the uploads of module Transfer: serveRead of          *)
(* internal/svc/transfer.go with its client (runFilePull, ReadConfigXML).  *)
(* The server opens the file once and reads it chunk by chunk, while       *)
(* uploads rename other files over its name; nothing is locked.  The       *)
(* stream keeps the order of what it carries, and may break.               *)
(***************************************************************************)
EXTENDS Transfer

VARIABLE pull  \* the call: [at, t, got], what it has read of transfer t's file

pullVars == <<vars, pull>>

NoPull == [at |-> "off", t |-> None, got |-> <<>>]

\* The client appends what it receives to its own copy.
Receive(b) == pull' = [pull EXCEPT !.got = Append(@, b)]

\* A file that is not there, or not allowed, ends the call at once.
OpenForRead(s) ==
  /\ pull.at # "read" /\ dest[s] # None
  /\ pull' = [at |-> "read", t |-> dest[s], got |-> <<>>]
  /\ UNCHANGED vars

\* Mutant of ReadChunk: each chunk is read from the file that has the name now.
ReadByName ==
  LET n == Len(pull.got) IN
  /\ pull.at = "read"
  /\ \E s \in Slots :
       /\ dest[s] # None /\ n < Len(file[dest[s]])
       /\ Receive(file[dest[s]][n + 1])
  /\ UNCHANGED vars

\* The open file is read, whatever has its name by now.
ReadChunk ==
  LET n == Len(pull.got) IN
  /\ pull.at = "read" /\ n < Len(file[pull.t])
  /\ Receive(file[pull.t][n + 1])
  /\ UNCHANGED vars

\* At the end of the file the server sends the hash of what it has read; the
\* client has received the same, since the stream keeps its order.
Terminal ==
  /\ pull.at = "read" /\ Len(pull.got) = Len(file[pull.t])
  /\ pull' = [pull EXCEPT !.at = "done", !.t = None]
  /\ UNCHANGED vars

\* A failed read, a broken stream, or the client's stall watchdog.
PullFails ==
  /\ pull.at = "read"
  /\ pull' = NoPull
  /\ UNCHANGED vars

Pull == (\E s \in Slots : OpenForRead(s)) \/ ReadChunk \/ Terminal \/ PullFails

PullInit == Init /\ pull = NoPull

PullNext ==
  \/ (\E k \in Streams : Serve(k) \/ Client(k)) /\ UNCHANGED pull
  \/ Restart /\ pull' = IF pull.at = "read" THEN NoPull ELSE pull
  \/ Pull

PullSpec == PullInit /\ [][PullNext]_pullVars

-----------------------------------------------------------------------------
(* Properties                                                              *)

\* A pull that succeeds leaves one client's whole content, although uploads put
\* other files under the name that it reads and the daemon may die at any time.
PulledWhole == pull.at = "done" => \E v \in Versions : pull.got = Full(v)

=============================================================================
