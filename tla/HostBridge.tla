----------------------------- MODULE HostBridge -----------------------------
(***************************************************************************)
(* The bridge on the Proxmox host (cmd/opnsensectl/opnsense_host.go): it   *)
(* keeps one yamux session over the drainer's socket, opens a stream on it *)
(* for every operator that connects, and watches it with a heartbeat.      *)
(* openStream holds sessionState.mu while it dials, backs off and dials    *)
(* again; dropSession waits for the same mutex.                            *)
(*                                                                         *)
(* A step is one call on a socket or a session, or one take of the mutex.  *)
(* Sessions are numbered in the order in which they are dialled.           *)
(***************************************************************************)
EXTENDS Naturals

CONSTANTS
  Clients,  \* connections of operators
  Faults,   \* bound: only the first Faults sessions break, hang or fail
  None

ASSUME BridgeAssumption ==
  /\ Faults \in Nat
  /\ None \notin Clients \cup 1..(Faults + 1) /\ Clients \cap 1..(Faults + 1) = {}

Sessions == 1..(Faults + 1)
Faulty   == 1..Faults

VARIABLES
  up,       \* the drainer accepts a connection
  session,  \* sessionState.session, or None
  dialled,  \* sessions that were ever dialled, a number
  open,     \* open[s]: session s is not closed
  hung,     \* hung[s]: the far end of s does not answer
  mu,       \* the client, or the session of the heartbeat, that holds mu, or None
  client,   \* client[c]: where handleClient of c is
  stream,   \* stream[c]: the session of c's stream, or None
  beat      \* beat[s]: where runHeartbeat of s is

vars == <<up, session, dialled, open, hung, mu, client, stream, beat>>

GoClient(c, at) == client' = [client EXCEPT ![c] = at]
GoBeat(s, at)   == beat' = [beat EXCEPT ![s] = at]

Usable == session # None /\ open[session]

-----------------------------------------------------------------------------
(* handleClient, openStream                                                *)

Accept(c) ==
  /\ client[c] = "off" /\ GoClient(c, "lock")
  /\ UNCHANGED <<up, session, dialled, open, hung, mu, stream, beat>>

Lock(c) ==
  /\ client[c] = "lock" /\ mu = None
  /\ mu' = c /\ GoClient(c, "check")
  /\ UNCHANGED <<up, session, dialled, open, hung, stream, beat>>

Check(c) ==
  /\ client[c] = "check"
  /\ GoClient(c, IF Usable THEN "open" ELSE "dial")
  /\ UNCHANGED <<up, session, dialled, open, hung, mu, stream, beat>>

\* dialLocked, and the start of the new session's heartbeat.
Dial(c) ==
  LET s == dialled + 1 IN
  /\ client[c] = "dial"
  /\ IF up /\ s \in Sessions
     THEN /\ session' = s /\ dialled' = s
          /\ open' = [open EXCEPT ![s] = TRUE]
          /\ GoBeat(s, "wait") /\ GoClient(c, "open")
     ELSE GoClient(c, "backoff") /\ UNCHANGED <<session, dialled, open, beat>>
  /\ UNCHANGED <<up, hung, mu, stream>>

\* The mutex stays taken.
Backoff(c) ==
  /\ client[c] = "backoff" /\ GoClient(c, "check")
  /\ UNCHANGED <<up, session, dialled, open, hung, mu, stream, beat>>

\* Mutant of OpenStream: a failure leaves the session as it is.
OpenStreamKeeps(c) ==
  /\ client[c] = "open"
  /\ \/ /\ open[session]
        /\ stream' = [stream EXCEPT ![c] = session]
        /\ mu' = None /\ GoClient(c, "copy")
     \/ /\ ~open[session] \/ session \in Faulty
        /\ GoClient(c, "open")
        /\ UNCHANGED <<mu, stream>>
  /\ UNCHANGED <<up, session, dialled, open, hung, beat>>

\* A stream is opened without an answer from the far end; a failure closes the
\* session and starts over.
OpenStream(c) ==
  /\ client[c] = "open"
  /\ \/ /\ open[session]
        /\ stream' = [stream EXCEPT ![c] = session]
        /\ mu' = None /\ GoClient(c, "copy")
        /\ UNCHANGED <<session, open>>
     \/ /\ ~open[session] \/ session \in Faulty
        /\ open' = [open EXCEPT ![session] = FALSE]
        /\ session' = None
        /\ GoClient(c, "check")
        /\ UNCHANGED <<mu, stream>>
  /\ UNCHANGED <<up, dialled, hung, beat>>

\* Mutant of CopyEnds: the stream is left open.
CopyEndsLeaks(c) ==
  /\ client[c] = "copy" /\ GoClient(c, "off")
  /\ UNCHANGED <<up, session, dialled, open, hung, mu, stream, beat>>

\* The operator, or the far end of the stream, hangs up, or the session is closed.
CopyEnds(c) ==
  /\ client[c] = "copy"
  /\ stream' = [stream EXCEPT ![c] = None] /\ GoClient(c, "off")
  /\ UNCHANGED <<up, session, dialled, open, hung, mu, beat>>

-----------------------------------------------------------------------------
(* runHeartbeat, dropSession                                               *)

BeatTimer(s) ==
  /\ beat[s] = "wait" /\ open[s] /\ GoBeat(s, "call")
  /\ UNCHANGED <<up, session, dialled, open, hung, mu, client, stream>>

BeatStops(s) ==
  /\ beat[s] = "wait" /\ ~open[s] /\ GoBeat(s, "off")
  /\ UNCHANGED <<up, session, dialled, open, hung, mu, client, stream>>

\* Mutant of Version: a call that times out is tried again later.
VersionRetries(s) ==
  /\ beat[s] = "call" /\ GoBeat(s, "wait")
  /\ UNCHANGED <<up, session, dialled, open, hung, mu, client, stream>>

\* Version on a stream of the session, with a timeout that a slow guest may miss.
Version(s) ==
  /\ beat[s] = "call"
  /\ \/ open[s] /\ ~hung[s] /\ GoBeat(s, "wait")
     \/ (~open[s] \/ s \in Faulty) /\ GoBeat(s, "drop")
  /\ UNCHANGED <<up, session, dialled, open, hung, mu, client, stream>>

BeatLock(s) ==
  /\ beat[s] = "drop" /\ mu = None
  /\ mu' = s /\ GoBeat(s, "locked")
  /\ UNCHANGED <<up, session, dialled, open, hung, client, stream>>

\* Mutant of DropSession: whatever session there is is forgotten.
DropAnySession(s) ==
  /\ beat[s] = "locked"
  /\ session' = None
  /\ open' = [open EXCEPT ![s] = FALSE]
  /\ mu' = None /\ GoBeat(s, "off")
  /\ UNCHANGED <<up, dialled, hung, client, stream>>

\* A newer session than the one that was watched stays.
DropSession(s) ==
  /\ beat[s] = "locked"
  /\ session' = IF session = s THEN None ELSE session
  /\ open' = [open EXCEPT ![s] = FALSE]
  /\ mu' = None /\ GoBeat(s, "off")
  /\ UNCHANGED <<up, dialled, hung, client, stream>>

-----------------------------------------------------------------------------
(* The drainer and the guest                                               *)

Upstream ==
  /\ up' = ~up
  /\ UNCHANGED <<session, dialled, open, hung, mu, client, stream, beat>>

\* The connection is closed by the drainer, or what arrives on it is no yamux.
Break(s) ==
  /\ open[s] /\ s \in Faulty
  /\ open' = [open EXCEPT ![s] = FALSE]
  /\ UNCHANGED <<up, session, dialled, hung, mu, client, stream, beat>>

\* The guest is gone, or its session is of another time, and nothing says so.
Hang(s) ==
  /\ open[s] /\ s \in Faulty
  /\ hung' = [hung EXCEPT ![s] = TRUE]
  /\ UNCHANGED <<up, session, dialled, open, mu, client, stream, beat>>

Init ==
  /\ up \in BOOLEAN /\ session = None /\ dialled = 0
  /\ open = [s \in Sessions |-> FALSE] /\ hung = [s \in Sessions |-> FALSE]
  /\ mu = None
  /\ client = [c \in Clients |-> "off"] /\ stream = [c \in Clients |-> None]
  /\ beat = [s \in Sessions |-> "off"]

\* What openStream does between two waits for the mutex.
Holder(c) == Check(c) \/ Dial(c) \/ Backoff(c) \/ OpenStream(c)
Beat(s)   == BeatTimer(s) \/ BeatStops(s) \/ Version(s) \/ DropSession(s)

Next ==
  \/ \E c \in Clients : Accept(c) \/ Lock(c) \/ Holder(c) \/ CopyEnds(c)
  \/ \E s \in Sessions : Beat(s) \/ BeatLock(s) \/ Break(s) \/ Hang(s)
  \/ Upstream

\* Calls return, timers fire, and sync.Mutex starves nobody.
Fairness ==
  /\ \A c \in Clients : WF_vars(Holder(c)) /\ SF_vars(Lock(c))
  /\ \A s \in Sessions : WF_vars(Beat(s)) /\ SF_vars(BeatLock(s))

Spec == Init /\ [][Next]_vars /\ Fairness

-----------------------------------------------------------------------------
(* Properties                                                              *)

Holding == {"check", "dial", "backoff", "open"}

\* Each variable holds a value of its kind; only a client that copies has a stream.
TypeOK ==
  /\ up \in BOOLEAN /\ session \in Sessions \cup {None} /\ dialled \in 0..(Faults + 1)
  /\ open \in [Sessions -> BOOLEAN] /\ hung \in [Sessions -> BOOLEAN]
  /\ mu \in Clients \cup Sessions \cup {None}
  /\ client \in [Clients -> {"off", "lock", "copy"} \cup Holding]
  /\ stream \in [Clients -> Sessions \cup {None}]
  /\ \A c \in Clients : stream[c] # None <=> client[c] = "copy"
  /\ beat \in [Sessions -> {"off", "wait", "call", "drop", "locked"}]

\* bridgeLoop: "maintains one yamux session at a time": a session that is open is
\* the one that the next client gets, so two of them never share the serial line.
OneSession == \A s \in Sessions : open[s] => session = s

\* What makes it inductive: mu is held by whoever is past it, a client dials only
\* when nothing is open, and no session comes back.
BridgeInv ==
  /\ \A c \in Clients : client[c] \in Holding <=> mu = c
  /\ \A s \in Sessions : beat[s] = "locked" <=> mu = s
  /\ \A c \in Clients : client[c] = "dial" => ~Usable
  /\ \A c \in Clients : client[c] = "open" => session # None
  /\ \A s \in Sessions : s > dialled => ~open[s] /\ beat[s] = "off"
  /\ session # None => session <= dialled

\* A session whose far end does not answer is closed: the heartbeat that watches it
\* is not kept from it by a client that holds the mutex.
HungSessionDropped == \A s \in Sessions : open[s] /\ hung[s] ~> ~open[s]

\* An operator who connects gets a stream once the drainer is back for good.
ClientServed ==
  <>[]up => \A c \in Clients : client[c] = "lock" ~> client[c] = "copy"

=============================================================================
