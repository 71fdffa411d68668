---------------------------- MODULE BridgeProofs ----------------------------
(***************************************************************************)
(* Proofs about HostBridge for any number of operators and of faults: the  *)
(* mutex makes the bridge keep one session, whoever closes it and whenever *)
(* the heartbeat of an older one gets its turn.                            *)
(***************************************************************************)
EXTENDS HostBridge, TLAPS

Inv == TypeOK /\ OneSession /\ BridgeInv

\* The bridge starts with no session and a free mutex.
LEMMA InvInit == Init => Inv
  BY BridgeAssumption
  DEF Init, Inv, TypeOK, OneSession, BridgeInv, Holding, Sessions

-----------------------------------------------------------------------------
(* The steps of a client                                                   *)

\* The steps of a client that neither dial nor open a stream keep Inv.
LEMMA ClientMoves ==
  ASSUME Inv, NEW c \in Clients
  PROVE  (Accept(c) \/ Lock(c) \/ Check(c) \/ Backoff(c) \/ CopyEnds(c)) => Inv'
<1>1. ASSUME Accept(c) PROVE Inv'
  BY <1>1 DEF Accept, GoClient, Inv, TypeOK, OneSession, BridgeInv, Holding, Usable
<1>2. ASSUME Lock(c) PROVE Inv'
  BY <1>2, BridgeAssumption
  DEF Lock, GoClient, Inv, TypeOK, OneSession, BridgeInv, Holding, Usable, Sessions
<1>3. ASSUME Check(c) PROVE Inv'
  BY <1>3 DEF Check, GoClient, Inv, TypeOK, OneSession, BridgeInv, Holding, Usable
<1>4. ASSUME Backoff(c) PROVE Inv'
  BY <1>4 DEF Backoff, GoClient, Inv, TypeOK, OneSession, BridgeInv, Holding, Usable
<1>5. ASSUME CopyEnds(c) PROVE Inv'
  BY <1>5 DEF CopyEnds, GoClient, Inv, TypeOK, OneSession, BridgeInv, Holding, Usable
<1> QED BY <1>1, <1>2, <1>3, <1>4, <1>5

\* A client that dials holds the mutex and saw no usable session.
LEMMA ClientDials ==
  ASSUME Inv, NEW c \in Clients, Dial(c)
  PROVE  Inv'
<1>1. CASE up /\ dialled + 1 \in Sessions
  <2>1. \A s \in Sessions : ~open[s]
    BY BridgeAssumption DEF Dial, Inv, OneSession, BridgeInv, Usable, TypeOK, Sessions
  <2>2. dialled \in Nat /\ dialled + 1 \in 0..(Faults + 1)
    BY <1>1, BridgeAssumption DEF Inv, TypeOK, Sessions
  <2>0. /\ session' = dialled + 1 /\ dialled' = dialled + 1
        /\ open' = [open EXCEPT ![dialled + 1] = TRUE]
        /\ beat' = [beat EXCEPT ![dialled + 1] = "wait"]
    BY <1>1 DEF Dial, GoBeat
  <2>3. TypeOK' BY <1>1, <2>2 DEF Dial, GoClient, GoBeat, Inv, TypeOK, Holding
  <2>4. OneSession' BY <1>1, <2>0, <2>1 DEF Inv, TypeOK, OneSession
  <2>5. \A s \in Sessions : s > dialled + 1 => ~open'[s] /\ beat'[s] = "off"
    <3> SUFFICES ASSUME NEW s \in Sessions, s > dialled + 1
                 PROVE  ~open'[s] /\ beat'[s] = "off"
      OBVIOUS
    <3>1. s \in Nat /\ s > dialled /\ s # dialled + 1
      BY <2>2, BridgeAssumption DEF Sessions
    <3>2. ~open[s] /\ beat[s] = "off" BY <3>1 DEF Inv, BridgeInv
    <3> QED BY <1>1, <2>0, <3>1, <3>2 DEF Inv, TypeOK
  <2>6. \A q \in Clients : q # c => client[q] \notin Holding
    BY DEF Dial, Inv, BridgeInv, Holding
  <2>7. client' = [client EXCEPT ![c] = "open"] /\ mu' = mu /\ mu = c
        /\ beat[dialled + 1] = "off"
    BY <1>1, <2>2 DEF Dial, GoClient, Inv, BridgeInv, Holding
  <2>8. \A q \in Clients : client'[q] \in Holding <=> mu' = q
    BY <2>6, <2>7 DEF Inv, TypeOK, Holding
  <2>9. \A s \in Sessions : beat'[s] = "locked" <=> mu' = s
    BY <1>1, <2>0, <2>7, BridgeAssumption DEF Inv, TypeOK, BridgeInv, Sessions
  <2>10. \A q \in Clients : client'[q] # "dial"
    BY <2>6, <2>7 DEF Inv, TypeOK, Holding
  <2>11. session' # None BY <1>1, <2>0, BridgeAssumption DEF Sessions
  <2>12. BridgeInv' BY <2>0, <2>2, <2>5, <2>8, <2>9, <2>10, <2>11 DEF BridgeInv
  <2> QED BY <2>3, <2>4, <2>12 DEF Inv
<1>2. CASE ~(up /\ dialled + 1 \in Sessions)
  BY <1>2 DEF Dial, GoClient, Inv, TypeOK, OneSession, BridgeInv, Holding, Usable
<1> QED BY <1>1, <1>2

\* Opening a stream frees the mutex, or drops the session that failed.
LEMMA ClientOpens ==
  ASSUME Inv, NEW c \in Clients, OpenStream(c)
  PROVE  Inv'
<1>1. session \in Sessions /\ mu = c /\ client[c] = "open"
      /\ \A q \in Clients : q # c => client[q] \notin Holding
  BY DEF OpenStream, Inv, TypeOK, BridgeInv, Holding
<1>2. TypeOK'
  <2>0. TypeOK /\ stream[c] = None BY <1>1 DEF Inv, TypeOK
  <2>1. CASE /\ open[session] /\ stream' = [stream EXCEPT ![c] = session]
             /\ mu' = None /\ client' = [client EXCEPT ![c] = "copy"]
             /\ UNCHANGED <<up, session, dialled, open, hung, beat>>
    <3>1. session # None BY <1>1, BridgeAssumption DEF Sessions
    <3>2. client' \in [Clients -> {"off", "lock", "copy"} \cup Holding]
      BY <2>0, <2>1 DEF TypeOK
    <3>3. stream' \in [Clients -> Sessions \cup {None}] BY <1>1, <2>0, <2>1 DEF TypeOK
    <3>4. \A q \in Clients : stream'[q] # None <=> client'[q] = "copy"
      BY <2>0, <2>1, <3>1 DEF TypeOK
    <3> QED BY <2>0, <2>1, <3>2, <3>3, <3>4 DEF TypeOK
  <2>2. CASE /\ open' = [open EXCEPT ![session] = FALSE] /\ session' = None
             /\ client' = [client EXCEPT ![c] = "check"]
             /\ UNCHANGED <<up, dialled, hung, mu, stream, beat>>
    <3>1. open' \in [Sessions -> BOOLEAN] BY <2>0, <2>2 DEF TypeOK
    <3>2. client' \in [Clients -> {"off", "lock", "copy"} \cup Holding]
      BY <2>0, <2>2 DEF TypeOK, Holding
    <3>3. \A q \in Clients : stream'[q] # None <=> client'[q] = "copy"
      BY <2>0, <2>2 DEF TypeOK
    <3> QED BY <2>0, <2>2, <3>1, <3>2, <3>3 DEF TypeOK
  <2> QED BY <2>1, <2>2 DEF OpenStream, GoClient
<1>3. OneSession'
  <2>1. CASE UNCHANGED <<session, open>> BY <2>1 DEF Inv, OneSession
  <2>2. CASE open' = [open EXCEPT ![session] = FALSE]
    <3>1. \A s \in Sessions : ~open'[s] BY <1>1, <2>2 DEF Inv, TypeOK, OneSession
    <3> QED BY <3>1 DEF OneSession
  <2> QED BY <2>1, <2>2 DEF OpenStream
<1>4. BridgeInv'
  <2>1. \A q \in Clients : client'[q] \in Holding <=> mu' = q
    BY <1>1, BridgeAssumption DEF OpenStream, GoClient, Inv, TypeOK, Holding
  <2>2. \A s \in Sessions : beat'[s] = "locked" <=> mu' = s
    BY <1>1, BridgeAssumption DEF OpenStream, Inv, BridgeInv, Sessions
  <2>3. \A q \in Clients : client'[q] \notin {"dial", "open"}
    BY <1>1 DEF OpenStream, GoClient, Inv, TypeOK, Holding
  <2>4. \A s \in Sessions : s > dialled' => ~open'[s] /\ beat'[s] = "off"
    BY <1>1 DEF OpenStream, Inv, TypeOK, BridgeInv
  <2>5. session' # None => session' <= dialled'
    BY <1>1 DEF OpenStream, Inv, BridgeInv
  <2> QED BY <2>1, <2>2, <2>3, <2>4, <2>5 DEF BridgeInv
<1> QED BY <1>2, <1>3, <1>4 DEF Inv

-----------------------------------------------------------------------------
(* The steps of a heartbeat, and the rest of the world                     *)

\* The steps of a heartbeat that do not drop its session keep Inv.
LEMMA BeatMoves ==
  ASSUME Inv, NEW s \in Sessions
  PROVE  (BeatTimer(s) \/ BeatStops(s) \/ Version(s) \/ BeatLock(s)) => Inv'
<1>1. ASSUME BeatTimer(s) \/ BeatStops(s) \/ Version(s) PROVE Inv'
  BY <1>1
  DEF BeatTimer, BeatStops, Version, GoBeat, Inv, TypeOK, OneSession, BridgeInv, Usable
<1>2. ASSUME BeatLock(s) PROVE Inv'
  BY SMTT(40), <1>2, BridgeAssumption
  DEF BeatLock, GoBeat, Inv, TypeOK, OneSession, BridgeInv, Usable, Sessions
<1> QED BY <1>1, <1>2

\* A heartbeat drops its session under the mutex, and only its own.
LEMMA BeatDrops ==
  ASSUME Inv, NEW s \in Sessions, DropSession(s)
  PROVE  Inv'
<1>1. mu = s /\ s \notin Clients /\ None \notin Sessions /\ None \notin Clients
  BY BridgeAssumption DEF DropSession, Inv, BridgeInv, Sessions
<1>2. TypeOK' BY DEF DropSession, GoBeat, Inv, TypeOK
<1>3. OneSession' BY DEF DropSession, Inv, TypeOK, OneSession
<1>4. \A c \in Clients : client[c] \notin Holding BY <1>1 DEF Inv, BridgeInv
<1>5. BridgeInv'
  BY <1>1, <1>4 DEF DropSession, GoBeat, Inv, TypeOK, BridgeInv, Holding
<1> QED BY <1>2, <1>3, <1>5 DEF Inv

\* What breaks or hangs a session moves nobody past the mutex.
LEMMA WorldMoves ==
  ASSUME Inv
  PROVE  (Upstream \/ \E s \in Sessions : Break(s) \/ Hang(s)) => Inv'
<1>1. ASSUME Upstream PROVE Inv'
  BY <1>1 DEF Upstream, Inv, TypeOK, OneSession, BridgeInv, Usable
<1>2. ASSUME NEW s \in Sessions, Break(s) PROVE Inv'
  BY <1>2 DEF Break, Inv, TypeOK, OneSession, BridgeInv, Usable
<1>3. ASSUME NEW s \in Sessions, Hang(s) PROVE Inv'
  BY <1>3 DEF Hang, Inv, TypeOK, OneSession, BridgeInv, Usable
<1> QED BY <1>1, <1>2, <1>3

\* Every step keeps Inv.
LEMMA InvNext == Inv /\ [Next]_vars => Inv'
<1> SUFFICES ASSUME Inv, [Next]_vars PROVE Inv'
  OBVIOUS
<1>1. ASSUME NEW c \in Clients, Accept(c) \/ Lock(c) \/ Holder(c) \/ CopyEnds(c)
      PROVE  Inv'
  BY <1>1, ClientMoves, ClientDials, ClientOpens DEF Holder
<1>2. ASSUME NEW s \in Sessions, Beat(s) \/ BeatLock(s) PROVE Inv'
  BY <1>2, BeatMoves, BeatDrops DEF Beat
<1>3. CASE UNCHANGED vars
  BY <1>3 DEF vars, Inv, TypeOK, OneSession, BridgeInv, Usable
<1> QED BY <1>1, <1>2, <1>3, WorldMoves DEF Next

-----------------------------------------------------------------------------
\* The inductive invariant holds in every reachable state.
THEOREM BridgeInvariant == Spec => []Inv
  BY InvInit, InvNext, PTL DEF Spec

\* Every reachable state is well typed.
THEOREM TypeCorrect == Spec => []TypeOK
<1>1. Inv => TypeOK BY DEF Inv
<1> QED BY <1>1, BridgeInvariant, PTL

\* The mutex is held by whoever is past it, and nobody dials beside an open session.
THEOREM AlwaysHeld == Spec => []BridgeInv
<1>1. Inv => BridgeInv BY DEF Inv
<1> QED BY <1>1, BridgeInvariant, PTL

\* The bridge maintains one session at a time.
THEOREM AlwaysOne == Spec => []OneSession
<1>1. Inv => OneSession BY DEF Inv
<1> QED BY <1>1, BridgeInvariant, PTL
=============================================================================
