--------------------------- MODULE ChannelProofs ---------------------------
(***************************************************************************)
(* Proofs about module Channel, for every number of connections, starts of *)
(* the VM and ends of the drainer, and without fairness.                   *)
(*                                                                         *)
(* The inductive invariant has two parts.  Secured says where the          *)
(* descriptor of each connection is, whatever the environment does: qemu   *)
(* never hangs up a connection unless it was exposed.  Single says which   *)
(* live connections systemd and the drainer hold when systemd prunes in    *)
(* time and what it passes is usable.                                      *)
(***************************************************************************)
EXTENDS Channel, TLAPS

Running == drain.at # "off"

\* A connection that is served, or was passed by systemd, is in the store or
\* exposed unless its qemu is gone; the one that qemu serves lives, and somebody
\* holds it unless it was exposed.
Placed ==
  /\ \A c \in Conns : made[c] <= vm.boot
  /\ drain.at = "serve" => drain.conn \in store \cup exposed \/ ~Alive(drain.conn)
  /\ \A c \in drain.passed : c \in store \/ ~Alive(c)
  /\ qemu # 0 => qemu \in 1..dials /\ Alive(qemu) /\ (Held(qemu) \/ qemu \in exposed)

Secured == Placed /\ NoStrandedWrite

\* The live connections in the store are one; it is the one the drainer has, or it
\* is among those the drainer has still to adopt.
Single ==
  /\ \A c, d \in store : Alive(c) /\ Alive(d) => c = d
  /\ \A c, d \in drain.passed : c = d
  /\ drain.at = "listen" => drain.first
  /\ drain.conn # 0 => ~drain.first
  /\ \A c \in store : Alive(c) =>
       /\ drain.conn # 0 => c = drain.conn
       /\ Running /\ drain.first => c \in drain.passed
       /\ Running /\ ~drain.first => drain.conn # 0

USE DEF Conns

-----------------------------------------------------------------------------
(* Types                                                                   *)

TypeWire ==
  /\ env \in [prompt : BOOLEAN, usable : BOOLEAN]
  /\ vm \in [boot : 1..MaxBoots, up : BOOLEAN]
  /\ qemu \in 0..MaxConns /\ dials \in 0..MaxConns
  /\ made \in [Conns -> 0..MaxBoots]

TypeStore == store \subseteq 1..dials /\ exposed \subseteq 1..dials

TypeDrain ==
  /\ drain \in [at : {"off", "listen", "loop", "open", "store", "serve", "pause"},
                conn : 0..dials, passed : SUBSET (1..dials),
                first : BOOLEAN, stop : BOOLEAN]
  /\ drain.conn # 0 <=> drain.at \in {"store", "serve"}

TypeGuest ==
  /\ daemon \in [at : {"down", "start", "ended", "serve", "pause", "stopping", "parked",
                        "stranded"},
                 left : 0..MaxPieces, rc : BOOLEAN]
  /\ stale \in BOOLEAN

TypeUsed == used \in [ends : 0..MaxEnds, events : 0..MaxEvents]

\* TypeOK in the parts that a step of one process can disturb.
LEMMA TypeSplit == TypeOK <=> TypeWire /\ TypeStore /\ TypeDrain /\ TypeGuest /\ TypeUsed
BY DEF TypeOK, TypeWire, TypeStore, TypeDrain, TypeGuest, TypeUsed

\* The parts after a step make TypeOK after it.
LEMMA TypeJoined ==
  TypeWire' /\ TypeStore' /\ TypeDrain' /\ TypeGuest' /\ TypeUsed' => TypeOK'
BY DEF TypeOK, TypeWire, TypeStore, TypeDrain, TypeGuest, TypeUsed

\* Steps that only the guest sees, and how they leave the daemon.
GuestStep ==
  \/ OpenSerial \/ OpenFails \/ Respawn \/ WritePiece \/ SessionEnds \/ Rebuild \/ GracefulStop \/ ParkedEnds
  \/ WriteFrame \/ RcKill \/ StopDaemon \/ StartDaemon \/ ReExec \/ DaemonCrashes
  \/ GuestReboots \/ BridgeChanges

Outside == <<env, wire, store, drain, exposed>>

\* A step in the guest, or of a bridge, touches none of the ends on the host.
LEMMA GuestStepOutside == GuestStep => UNCHANGED Outside
BY DEF GuestStep, OpenSerial, OpenFails, Respawn, WritePiece, SessionEnds, Rebuild,
       GracefulStop, ParkedEnds, WriteFrame, RcKill, StopDaemon, StartDaemon, ReExec, DaemonCrashes, GuestReboots,
       BridgeChanges, Outside

\* It keeps the types of its own part.
LEMMA GuestStepTypes ==
  ASSUME TypeGuest, TypeUsed, GuestStep PROVE TypeGuest' /\ TypeUsed'
<1> USE ChannelAssumption DEF ChannelAssumption
<1> DEFINE Daemons == [at : {"down", "start", "ended", "serve", "pause", "stopping",
                             "parked", "stranded"},
                       left : 0..MaxPieces, rc : BOOLEAN]
<1>0. /\ daemon \in Daemons /\ stale \in BOOLEAN
      /\ \A rc \in BOOLEAN : Down(rc) \in Daemons
      /\ daemon.rc \in BOOLEAN
  BY DEF TypeGuest, Down
<1>1. ASSUME Event PROVE TypeUsed' BY <1>1 DEF Event, TypeUsed
<1>2. ASSUME UNCHANGED used PROVE TypeUsed' BY <1>2 DEF TypeUsed
<1>3. ASSUME daemon' \in Daemons, stale' \in BOOLEAN PROVE TypeGuest' BY <1>3 DEF TypeGuest
<1>4. CASE OpenSerial BY <1>0, <1>2, <1>3, <1>4 DEF OpenSerial
<1>5. CASE WritePiece BY <1>0, <1>2, <1>3, <1>5 DEF WritePiece
<1>6. CASE SessionEnds BY <1>0, <1>2, <1>3, <1>6 DEF SessionEnds
<1>7. CASE Rebuild BY <1>0, <1>2, <1>3, <1>7 DEF Rebuild
<1>8. CASE GracefulStop BY <1>0, <1>2, <1>3, <1>8 DEF GracefulStop
<1>9. CASE ParkedEnds
  <2>1. daemon' \in Daemons
    BY <1>0, <1>9 DEF ParkedEnds
  <2> QED BY <1>0, <1>2, <1>3, <1>9, <2>1 DEF ParkedEnds
<1>10. CASE WriteFrame BY <1>0, <1>2, <1>3, <1>10 DEF WriteFrame
<1>11. CASE RcKill BY <1>0, <1>2, <1>3, <1>11 DEF RcKill
<1>12. CASE StopDaemon
  <2>1. daemon' \in Daemons BY <1>0, <1>12 DEF StopDaemon
  <2> QED BY <1>0, <1>1, <1>3, <1>12, <2>1 DEF StopDaemon
<1>13. CASE StartDaemon BY <1>0, <1>2, <1>3, <1>13 DEF StartDaemon
<1>14. CASE ReExec
  <2>1. \/ daemon' = [daemon EXCEPT !.at = "start", !.left = 0]
        \/ daemon' = daemon
        \/ daemon' = [daemon EXCEPT !.at = "stopping"]
    BY <1>14 DEF ReExec, reExecCurrent
  <2>2. 0 \in 0..MaxPieces OBVIOUS
  <2>3. daemon' \in Daemons BY <1>0, <2>1, <2>2
  <2> QED BY <1>0, <1>1, <1>3, <1>14, <2>3 DEF ReExec
<1>15. CASE DaemonCrashes BY <1>0, <1>1, <1>3, <1>15 DEF DaemonCrashes
<1>16. CASE GuestReboots BY <1>0, <1>1, <1>3, <1>16 DEF GuestReboots
<1>17. CASE BridgeChanges BY <1>0, <1>1, <1>3, <1>17 DEF BridgeChanges
<1>18. CASE OpenFails BY <1>0, <1>2, <1>3, <1>18 DEF OpenFails
<1>19. CASE Respawn BY <1>0, <1>2, <1>3, <1>19 DEF Respawn
<1> QED
  BY <1>4, <1>5, <1>6, <1>7, <1>8, <1>9, <1>10, <1>11, <1>12, <1>13, <1>14, <1>15,
     <1>16, <1>17, <1>18, <1>19 DEF GuestStep

\* A step that leaves the host alone keeps the types of its parts.
LEMMA OutsideTypes ==
  ASSUME TypeWire, TypeStore, TypeDrain, UNCHANGED Outside
  PROVE  TypeWire' /\ TypeStore' /\ TypeDrain'
<1>1. UNCHANGED <<env, vm, qemu, dials, made, store, drain, exposed>> BY DEF Outside, wire
<1>2. TypeWire' BY <1>1 DEF TypeWire
<1>3. TypeStore' BY <1>1 DEF TypeStore
<1>4. TypeDrain' BY <1>1 DEF TypeDrain
<1> QED BY <1>2, <1>3, <1>4

\* A step of the drainer's process, but for the dial, changes the place, the
\* connection or the flags only.
DrainStep ==
  \/ AcquireListener \/ RelayLoop \/ Adopt \/ DialFails \/ StoreChardevFD
  \/ CloseChardev \/ Reopen \/ StopDrainer \/ KillDrainer \/ Start

\* The drainer touches nothing in the guest.
LEMMA DrainStepOutside == DrainStep => UNCHANGED <<env, wire, daemon, stale>>
BY DEF DrainStep, AcquireListener, RelayLoop, Adopt, DialFails, StoreChardevFD,
       CloseChardev, Reopen, StopDrainer, KillDrainer, Start, guest

\* It keeps the types of the wire, of the store and of its own state.
LEMMA DrainTypes ==
  ASSUME TypeWire, TypeStore, TypeDrain, DrainStep
  PROVE  TypeWire' /\ TypeStore' /\ TypeDrain'
<1>w. UNCHANGED <<env, vm, qemu, dials, made>> BY DrainStepOutside DEF wire
<1>0. dials \in Nat /\ dials' = dials BY <1>w DEF TypeWire
<1>1. TypeWire' BY <1>w DEF TypeWire
<1>3. /\ Off \in [at : {"off", "listen", "loop", "open", "store", "serve", "pause"},
                  conn : 0..dials, passed : SUBSET (1..dials),
                  first : BOOLEAN, stop : BOOLEAN]
      /\ Off.conn = 0 /\ Off.at = "off"
  BY <1>0 DEF Off
<1>4. CASE AcquireListener
  BY <1>0, <1>1, <1>4 DEF AcquireListener, Goto, TypeStore, TypeDrain
<1>5. CASE RelayLoop
  BY <1>0, <1>1, <1>3, <1>5 DEF RelayLoop, Goto, TypeStore, TypeDrain
<1>6. CASE Adopt
  <2>1. PICK c \in drain.passed :
           drain' = [drain EXCEPT !.at = "serve", !.conn = c, !.first = FALSE]
    BY <1>6 DEF Adopt
  <2>2. c \in 1..dials BY <2>1 DEF TypeDrain
  <2>3. c \in 0..dials /\ c # 0 BY <1>0, <2>2
  <2>4. TypeDrain' BY <1>0, <2>1, <2>3 DEF TypeDrain
  <2> QED BY <1>0, <1>1, <1>6, <2>4 DEF Adopt, TypeStore
<1>7. CASE DialFails
  BY <1>0, <1>1, <1>7 DEF DialFails, MayDial, TypeStore, TypeDrain
<1>8. CASE StoreChardevFD
  <2>1. TypeDrain' BY <1>0, <1>8 DEF StoreChardevFD, Goto, TypeDrain
  <2>2. drain.conn \in 1..dials BY <1>0, <1>8 DEF StoreChardevFD, TypeDrain
  <2>3. TypeStore' BY <1>0, <1>8, <2>2 DEF StoreChardevFD, TypeStore
  <2> QED BY <1>1, <2>1, <2>3
<1>9. CASE CloseChardev
  BY <1>0, <1>1, <1>3, <1>9 DEF CloseChardev, TypeStore, TypeDrain
<1>10. CASE Reopen
  BY <1>0, <1>1, <1>3, <1>10 DEF Reopen, Goto, TypeStore, TypeDrain
<1>11. CASE StopDrainer
  <2>1. TypeDrain' BY <1>0, <1>3, <1>11 DEF StopDrainer, TypeDrain
  <2> QED BY <1>0, <1>1, <1>11, <2>1 DEF StopDrainer, TypeStore
<1>12. CASE KillDrainer
  <2>1. TypeDrain' BY <1>0, <1>3, <1>12 DEF KillDrainer, TypeDrain
  <2>2. drain.at = "store" => drain.conn \in 1..dials BY <1>0 DEF TypeDrain
  <2>3. TypeStore' BY <1>0, <1>12, <2>2 DEF KillDrainer, TypeStore
  <2> QED BY <1>1, <2>1, <2>3
<1>13. CASE Start
  BY <1>0, <1>1, <1>3, <1>13 DEF Start, Off, TypeStore, TypeDrain
<1> QED BY <1>4, <1>5, <1>6, <1>7, <1>8, <1>9, <1>10, <1>11, <1>12, <1>13 DEF DrainStep

\* So does a dial, which creates a connection.
LEMMA DialTypes ==
  ASSUME TypeWire, TypeStore, TypeDrain, Dial
  PROVE  TypeWire' /\ TypeStore' /\ TypeDrain'
<1>0. /\ dials \in Nat /\ MaxConns \in Nat /\ dials < MaxConns /\ dials' = dials + 1
      /\ made' = [made EXCEPT ![dials + 1] = vm.boot]
      /\ drain' = [drain EXCEPT !.at = "store", !.conn = dials + 1, !.first = FALSE]
      /\ UNCHANGED <<env, vm, qemu, store, exposed>>
  BY ChannelAssumption DEF ChannelAssumption, Dial, TypeWire
<1>1. vm.boot \in 0..MaxBoots /\ dials + 1 \in 1..MaxConns
  BY <1>0, ChannelAssumption DEF TypeWire, ChannelAssumption
<1>2. TypeWire' BY <1>0, <1>1 DEF TypeWire
<1>3. 1..dials \subseteq 1..dials' /\ 0..dials \subseteq 0..dials' BY <1>0
<1>4. TypeStore' BY <1>0, <1>3 DEF TypeStore
<1>5. drain.passed \in SUBSET (1..dials') BY <1>3 DEF TypeDrain
<1>6. dials + 1 \in 0..dials' /\ dials + 1 # 0 BY <1>0
<1>7. TypeDrain' BY <1>0, <1>5, <1>6 DEF TypeDrain
<1> QED BY <1>2, <1>4, <1>7

\* The initial state is well typed.
LEMMA TypeInit == Init => TypeOK
<1> SUFFICES ASSUME Init PROVE TypeOK OBVIOUS
<1> USE ChannelAssumption DEF ChannelAssumption, Init
<1>1. TypeWire BY DEF TypeWire
<1>2. TypeStore BY DEF TypeStore
<1>3. TypeDrain BY DEF TypeDrain, Off
<1>4. TypeGuest
  <2>1. daemon = [at |-> "start", left |-> 0, rc |-> FALSE] BY DEF Down
  <2>2. 0 \in 0..MaxPieces OBVIOUS
  <2>3. stale = FALSE OBVIOUS
  <2> QED BY ONLY <2>1, <2>2, <2>3 DEF TypeGuest
<1>5. TypeUsed BY DEF TypeUsed
<1> QED BY <1>1, <1>2, <1>3, <1>4, <1>5, TypeSplit

\* Every step keeps the types.
LEMMA TypeNext == TypeOK /\ [Next]_vars => TypeOK'
<1> SUFFICES ASSUME TypeOK, [Next]_vars PROVE TypeOK' OBVIOUS
<1>0. TypeWire /\ TypeStore /\ TypeDrain /\ TypeGuest /\ TypeUsed BY TypeSplit
<1>m. 0 \in 0..MaxConns /\ 0 \in 0..MaxPieces
  BY ChannelAssumption DEF ChannelAssumption
<1>1. CASE GuestStep
  BY <1>0, <1>1, GuestStepTypes, GuestStepOutside, OutsideTypes, TypeJoined
<1>2. CASE UNCHANGED vars
  <2>1. UNCHANGED <<Outside, daemon, stale, used>> BY <1>2 DEF vars, Outside, guest
  <2>2. TypeGuest' /\ TypeUsed' BY <1>0, <2>1 DEF TypeGuest, TypeUsed
  <2> QED BY <1>0, <2>1, <2>2, OutsideTypes, TypeJoined
<1>3. CASE DrainStep
  <2>1. TypeGuest' BY <1>0, <1>3, DrainStepOutside DEF TypeGuest
  <2>2. CASE UNCHANGED used
    <3>1. TypeUsed' BY <1>0, <2>2 DEF TypeUsed
    <3> QED BY <1>0, <1>3, <2>1, <3>1, DrainTypes, TypeJoined
  <2>3. CASE used.ends < MaxEnds /\ used' = [used EXCEPT !.ends = @ + 1]
    <3>1. TypeUsed' BY <1>0, <2>3, ChannelAssumption DEF TypeUsed, ChannelAssumption
    <3> QED BY <1>0, <1>3, <2>1, <3>1, DrainTypes, TypeJoined
  <2> QED
    BY <1>3, <2>2, <2>3
    DEF DrainStep, AcquireListener, RelayLoop, Adopt, DialFails, StoreChardevFD,
        CloseChardev, Reopen, StopDrainer, KillDrainer, Start
<1>4. CASE Dial
  <2>1. TypeGuest' /\ TypeUsed' BY <1>0, <1>4 DEF Dial, TypeGuest, TypeUsed, guest
  <2> QED BY <1>0, <1>4, <2>1, DialTypes, TypeJoined
<1>5. CASE QemuAccepts
  <2>1. TypeWire' BY <1>0, <1>5 DEF QemuAccepts, TypeWire
  <2>2. TypeStore' /\ TypeDrain' BY <1>0, <1>5 DEF QemuAccepts, TypeStore, TypeDrain
  <2>3. TypeGuest' /\ TypeUsed' BY <1>0, <1>5 DEF QemuAccepts, TypeGuest, TypeUsed, guest
  <2> QED BY <2>1, <2>2, <2>3, TypeJoined
<1>6. CASE QemuHangsUp
  <2>1. TypeWire' BY <1>0, <1>6, <1>m DEF QemuHangsUp, TypeWire
  <2>2. TypeStore' /\ TypeDrain' BY <1>0, <1>6 DEF QemuHangsUp, TypeStore, TypeDrain
  <2>3. TypeGuest' /\ TypeUsed' BY <1>0, <1>6 DEF QemuHangsUp, TypeGuest, TypeUsed
  <2> QED BY <2>1, <2>2, <2>3, TypeJoined
<1>7. CASE VMStops
  <2>1. TypeWire' BY <1>0, <1>7, <1>m DEF VMStops, TypeWire
  <2>2. TypeStore' /\ TypeDrain' BY <1>0, <1>7 DEF VMStops, TypeStore, TypeDrain
  <2>3. TypeGuest' /\ TypeUsed'
    <3>1. daemon' = [at |-> "down", left |-> 0, rc |-> FALSE] /\ stale' = FALSE
      BY <1>7 DEF VMStops, Down
    <3>2. TypeGuest' BY <1>m, <3>1 DEF TypeGuest
    <3> QED BY <1>0, <1>7, <3>2 DEF VMStops, TypeUsed
  <2> QED BY <2>1, <2>2, <2>3, TypeJoined
<1>8. CASE VMStarts
  <2>1. TypeWire'
    BY <1>0, <1>8, ChannelAssumption DEF VMStarts, TypeWire, ChannelAssumption
  <2>2. TypeStore' /\ TypeDrain' BY <1>0, <1>8 DEF VMStarts, TypeStore, TypeDrain
  <2>3. TypeGuest' /\ TypeUsed' BY <1>0, <1>8 DEF VMStarts, TypeGuest, TypeUsed
  <2> QED BY <2>1, <2>2, <2>3, TypeJoined
<1>9. CASE Prune
  <2>1. TypeWire' BY <1>0, <1>9 DEF Prune, TypeWire, wire
  <2>2. TypeStore' /\ TypeDrain' BY <1>0, <1>9 DEF Prune, TypeStore, TypeDrain, wire
  <2>3. TypeGuest' /\ TypeUsed' BY <1>0, <1>9 DEF Prune, TypeGuest, TypeUsed, guest
  <2> QED BY <2>1, <2>2, <2>3, TypeJoined
<1> QED
  BY <1>1, <1>2, <1>3, <1>4, <1>5, <1>6, <1>7, <1>8, <1>9
  DEF Next, Relay, Serve, GuestStep, DrainStep

\* Every reachable state is well typed, for any number of connections, starts of
\* the VM and pieces of a frame (opnsense_drain.go, serve.go).
THEOREM TypeCorrect == Spec => []TypeOK
BY TypeInit, TypeNext, PTL DEF Spec

-----------------------------------------------------------------------------
(* What a step of the drainer does to its connection and to the store      *)

GoesOn ==
  /\ UNCHANGED <<store, exposed>>
  /\ drain.at # "off" /\ drain'.at \notin {"off", "listen"}
  /\ drain'.at = "serve" => drain.at = "serve"
  /\ drain'.conn = drain.conn /\ drain'.passed = drain.passed /\ drain'.first = drain.first

Ends ==
  /\ store' = store /\ exposed \subseteq exposed'
  /\ drain.at = "store" => drain.conn \in exposed'
  /\ drain'.at = "off" /\ drain'.conn = 0 /\ drain'.passed = {}

Adopts ==
  /\ UNCHANGED <<store, exposed>>
  /\ drain.at = "open" /\ drain.first
  /\ drain'.at = "serve" /\ drain'.conn \in drain.passed
  /\ drain'.passed = drain.passed /\ ~drain'.first

GivesUp ==
  /\ UNCHANGED <<store, exposed>>
  /\ MayDial
  /\ drain'.at = "pause" /\ drain'.conn = drain.conn
  /\ drain'.passed = drain.passed /\ ~drain'.first

Stores ==
  /\ drain.at = "store"
  /\ \/ store' = store \cup {drain.conn} /\ exposed' = exposed
     \/ exposed' = exposed \cup {drain.conn} /\ store' = store
  /\ drain'.at = "serve" /\ drain'.conn = drain.conn
  /\ drain'.passed = drain.passed /\ drain'.first = drain.first

Closes ==
  /\ UNCHANGED <<store, exposed>>
  /\ drain.at = "serve" /\ ~Alive(drain.conn)
  /\ drain'.at = "pause" /\ drain'.conn = 0
  /\ drain'.passed = drain.passed /\ drain'.first = drain.first

Starts ==
  /\ UNCHANGED <<store, exposed>>
  /\ drain.at = "off" /\ (env.prompt => \A c \in store : Alive(c))
  /\ drain'.at = "listen" /\ drain'.conn = 0 /\ drain'.passed = store /\ drain'.first

\* What a step of the drainer does with descriptors is one of seven moves.
LEMMA DrainMoves ==
  ASSUME TypeDrain, DrainStep
  PROVE  GoesOn \/ Ends \/ Adopts \/ GivesUp \/ Stores \/ Closes \/ Starts
<1>0. Off.at = "off" /\ Off.conn = 0 /\ Off.passed = {} /\ Off.first BY DEF Off
<1>1. ASSUME drain' = Off, UNCHANGED <<store, exposed>>, drain.at # "store" PROVE Ends
  BY <1>0, <1>1 DEF Ends
<1>2. CASE AcquireListener BY <1>2 DEF AcquireListener, Goto, GoesOn, TypeDrain
<1>3. CASE RelayLoop
  BY <1>1, <1>3 DEF RelayLoop, Goto, GoesOn, TypeDrain
<1>4. CASE Adopt BY <1>4 DEF Adopt, Adopts, TypeDrain
<1>5. CASE DialFails BY <1>5 DEF DialFails, GivesUp, TypeDrain
<1>6. CASE StoreChardevFD BY <1>6 DEF StoreChardevFD, Goto, Stores, TypeDrain
<1>7. CASE CloseChardev BY <1>1, <1>7 DEF CloseChardev, Closes, TypeDrain
<1>8. CASE Reopen BY <1>1, <1>8 DEF Reopen, Goto, GoesOn, TypeDrain
<1>9. CASE StopDrainer
  <2>1. CASE drain.at = "listen" BY <1>1, <1>9, <2>1 DEF StopDrainer
  <2>2. CASE drain.at # "listen" BY <1>9, <2>2 DEF StopDrainer, GoesOn, TypeDrain
  <2> QED BY <2>1, <2>2
<1>10. CASE KillDrainer BY <1>0, <1>10 DEF KillDrainer, Ends
<1>11. CASE Start
  <2>1. drain' = [at |-> "listen", conn |-> 0, passed |-> store, first |-> TRUE,
                  stop |-> FALSE]
    BY <1>11 DEF Start, Off
  <2>2. /\ drain'.at = "listen" /\ drain'.conn = 0 /\ drain'.passed = store
        /\ drain'.first
    BY <2>1
  <2>3. /\ UNCHANGED <<store, exposed>> /\ drain.at = "off"
        /\ env.prompt => \A c \in store : Alive(c)
    BY <1>11 DEF Start
  <2> QED BY ONLY <2>2, <2>3 DEF Starts
<1> QED
  BY <1>2, <1>3, <1>4, <1>5, <1>6, <1>7, <1>8, <1>9, <1>10, <1>11 DEF DrainStep

-----------------------------------------------------------------------------
(* Where the descriptors are                                               *)

\* The two parts of Secured make it after a step.
LEMMA SecuredJoined == Placed' /\ NoStrandedWrite' => Secured'
BY DEF Secured

\* Its two parts before one.
LEMMA SecuredParts == Secured => Placed /\ NoStrandedWrite
BY DEF Secured

\* Whoever was stranded stays so while the exposed connection lives.
LEMMA StrandedStays ==
  ASSUME NoStrandedWrite, UNCHANGED <<vm, made>>, exposed \subseteq exposed',
         daemon'.at = "stranded" => daemon.at = "stranded"
  PROVE  NoStrandedWrite'
BY DEF NoStrandedWrite, Alive

\* The daemon does not strand a write by itself.
LEMMA GuestStepStrands ==
  ASSUME TypeGuest, GuestStep, daemon'.at = "stranded" PROVE daemon.at = "stranded"
<1>1. \A rc \in BOOLEAN : Down(rc).at = "down" /\ [Down(rc) EXCEPT !.at = "start"].at = "start"
                          /\ [Down(rc) EXCEPT !.at = "down"].at = "down"
                          /\ [Down(rc) EXCEPT !.at = "ended"].at = "ended"
  BY DEF Down
<1>2. \A x \in STRING : [daemon EXCEPT !.at = x].at = x BY DEF TypeGuest
<1>3. daemon.rc \in BOOLEAN BY DEF TypeGuest
<1>4. CASE OpenSerial BY <1>2, <1>4 DEF OpenSerial
<1>5. CASE WritePiece BY <1>5 DEF WritePiece, TypeGuest
<1>6. CASE SessionEnds BY <1>2, <1>6 DEF SessionEnds
<1>7. CASE Rebuild BY <1>2, <1>7 DEF Rebuild
<1>8. CASE GracefulStop BY <1>2, <1>8 DEF GracefulStop
<1>9. CASE ParkedEnds BY <1>1, <1>3, <1>9 DEF ParkedEnds
<1>10. CASE WriteFrame BY <1>10 DEF WriteFrame, TypeGuest
<1>11. CASE RcKill BY <1>1, <1>11 DEF RcKill
<1>12. CASE StopDaemon BY <1>1, <1>12 DEF StopDaemon, TypeGuest
<1>13. CASE StartDaemon BY <1>1, <1>13 DEF StartDaemon
<1>14. CASE ReExec BY <1>14 DEF ReExec, reExecCurrent, TypeGuest
<1>15. CASE DaemonCrashes BY <1>1, <1>15 DEF DaemonCrashes
<1>16. CASE GuestReboots BY <1>1, <1>16 DEF GuestReboots
<1>17. CASE BridgeChanges BY <1>17 DEF BridgeChanges
<1>18. CASE OpenFails BY <1>2, <1>18 DEF OpenFails
<1>19. CASE Respawn BY <1>2, <1>19 DEF Respawn
<1> QED
  BY <1>4, <1>5, <1>6, <1>7, <1>8, <1>9, <1>10, <1>11, <1>12, <1>13, <1>14, <1>15,
     <1>16, <1>17, <1>18, <1>19 DEF GuestStep

\* Nothing is connected at the start.
LEMMA SecuredInit == Init => Secured
<1> SUFFICES ASSUME Init PROVE Secured OBVIOUS
<1>1. /\ vm.boot = 1 /\ made = [c \in Conns |-> 0] /\ qemu = 0
      /\ drain.at = "off" /\ drain.passed = {} /\ daemon.at = "start"
  BY DEF Init, Off, Down
<1> QED BY <1>1 DEF Secured, Placed, NoStrandedWrite

\* Every step keeps Secured.
LEMMA SecuredNext ==
  ASSUME TypeOK, Secured, [Next]_vars PROVE Secured'
<1>0. /\ TypeWire /\ TypeStore /\ TypeDrain /\ TypeGuest /\ Placed /\ NoStrandedWrite
  BY TypeSplit, SecuredParts
<1>1. ASSUME UNCHANGED Outside, daemon'.at = "stranded" => daemon.at = "stranded"
      PROVE  Secured'
  <2>1. UNCHANGED <<env, vm, qemu, dials, made, store, drain, exposed>>
    BY <1>1 DEF Outside, wire
  <2>2. Placed' BY <1>0, <2>1 DEF Placed, Alive, Held
  <2> QED BY <1>0, <1>1, <2>1, <2>2, StrandedStays, SecuredJoined
<1>2. CASE GuestStep BY <1>0, <1>1, <1>2, GuestStepOutside, GuestStepStrands
<1>3. CASE UNCHANGED vars BY <1>1, <1>3 DEF vars, Outside, guest
<1>4. CASE DrainStep
  <2>1. UNCHANGED <<vm, qemu, dials, made, daemon>> BY <1>4, DrainStepOutside DEF wire
  <2>2. GoesOn \/ Ends \/ Adopts \/ GivesUp \/ Stores \/ Closes \/ Starts
    BY <1>0, <1>4, DrainMoves
  <2>3. store \subseteq store' /\ exposed \subseteq exposed'
    BY <2>2 DEF GoesOn, Ends, Adopts, GivesUp, Stores, Closes, Starts
  <2>4. \A c : Alive(c)' <=> Alive(c) BY <2>1 DEF Alive
  <2>5. drain'.at = "serve" => drain'.conn \in store' \cup exposed' \/ ~Alive(drain'.conn)
    BY <1>0, <2>2 DEF Placed, GoesOn, Ends, Adopts, GivesUp, Stores, Closes, Starts
  <2>6. drain'.passed \in {drain.passed, {}, store}
    BY <2>2 DEF GoesOn, Ends, Adopts, GivesUp, Stores, Closes, Starts
  <2>7. \A c \in drain'.passed : c \in store' \/ ~Alive(c)
    BY <1>0, <2>3, <2>6 DEF Placed
  <2>8. drain'.conn = drain.conn \/ drain.conn = 0 \/ drain.conn \in store' \cup exposed'
          \/ ~Alive(drain.conn)
    BY <1>0, <2>2, <2>3
    DEF Placed, TypeDrain, GoesOn, Ends, Adopts, GivesUp, Stores, Closes, Starts
  <2>9. qemu # 0 => qemu \in 1..dials /\ Alive(qemu)
                    /\ (qemu \in store' \/ drain'.conn = qemu \/ qemu \in exposed')
    BY <1>0, <2>3, <2>8 DEF Placed, Held
  <2>10. Placed' BY <1>0, <2>1, <2>4, <2>5, <2>7, <2>9 DEF Placed, Held, Alive
  <2> QED BY <1>0, <2>1, <2>3, <2>10, StrandedStays, SecuredJoined
<1>5. CASE Dial
  <2>1. /\ dials \in Nat /\ dials' = dials + 1 /\ dials < MaxConns
        /\ made' = [made EXCEPT ![dials + 1] = vm.boot]
        /\ drain'.at = "store" /\ drain'.conn = dials + 1 /\ drain'.passed = drain.passed
        /\ drain.conn = 0
        /\ UNCHANGED <<vm, qemu, store, exposed, daemon>>
    BY <1>0, <1>5 DEF Dial, MayDial, TypeWire, TypeDrain, guest
  <2>2. vm.boot \in Nat /\ \A c \in Conns : made'[c] = made[c] \/ made'[c] = vm.boot
    BY <1>0, <2>1 DEF TypeWire
  <2>3. \A c \in 1..dials : Alive(c)' <=> Alive(c) BY <1>0, <2>1 DEF Alive, TypeWire
  <2>4. \A c \in Conns : made'[c] <= vm'.boot BY <1>0, <2>1, <2>2 DEF Placed
  <2>5. \A c \in drain'.passed : c \in store' \/ ~Alive(c)'
    BY <1>0, <2>1, <2>3 DEF Placed, TypeDrain
  <2>6. qemu # 0 => qemu \in 1..dials' /\ Alive(qemu)' /\ (qemu \in store \/ qemu \in exposed)
    BY <1>0, <2>1, <2>3 DEF Placed, Held
  <2>7. Placed' BY <2>1, <2>4, <2>5, <2>6 DEF Placed, Held, Alive
  <2>8. NoStrandedWrite' BY <1>0, <2>1, <2>3 DEF NoStrandedWrite, TypeStore
  <2> QED BY <2>7, <2>8, SecuredJoined
<1>6. CASE QemuAccepts
  <2>1. PICK c \in Conns : Alive(c) /\ Held(c) /\ qemu' = c BY <1>6 DEF QemuAccepts
  <2>2. UNCHANGED <<vm, dials, made, store, drain, exposed, daemon>>
    BY <1>6 DEF QemuAccepts, guest
  <2>3. c \in 1..dials BY <1>0, <2>1 DEF Held, TypeStore, TypeDrain, TypeWire
  <2>4. Placed' BY <1>0, <2>1, <2>2, <2>3 DEF Placed, Held, Alive
  <2> QED BY <1>0, <2>2, <2>4, StrandedStays, SecuredJoined
<1>7. CASE QemuHangsUp
  <2>1. /\ qemu # 0 /\ ~Held(qemu) /\ qemu' = 0
        /\ UNCHANGED <<vm, dials, made, store, drain, exposed>>
    BY <1>7 DEF QemuHangsUp
  <2>2. qemu \in exposed /\ Alive(qemu) BY <1>0, <2>1 DEF Placed
  <2>3. Placed' BY <1>0, <2>1 DEF Placed, Held, Alive
  <2>4. NoStrandedWrite' BY <2>1, <2>2 DEF NoStrandedWrite, Alive
  <2> QED BY <2>3, <2>4, SecuredJoined
<1>8. CASE VMStops
  <2>1. /\ vm' = [vm EXCEPT !.up = FALSE] /\ qemu' = 0 /\ daemon' = Down(FALSE)
        /\ UNCHANGED <<dials, made, store, drain, exposed>>
    BY <1>8 DEF VMStops
  <2>2. ~vm'.up /\ vm'.boot = vm.boot BY <1>0, <2>1 DEF TypeWire
  <2>3. \A c : ~Alive(c)' BY <2>2 DEF Alive
  <2>4. Placed' BY <1>0, <2>1, <2>2, <2>3 DEF Placed
  <2>5. daemon'.at = "down" BY <2>1 DEF Down
  <2> QED BY <2>4, <2>5, SecuredJoined DEF NoStrandedWrite
<1>9. CASE VMStarts
  <2>1. /\ ~vm.up /\ vm'.boot = vm.boot + 1 /\ vm.boot \in Nat
        /\ daemon' = [daemon EXCEPT !.at = "start"]
        /\ UNCHANGED <<qemu, dials, made, store, drain, exposed>>
    BY <1>0, <1>9 DEF VMStarts, TypeWire
  <2>2. qemu = 0 BY <1>0, <2>1 DEF Placed, Alive
  <2>3. \A c \in Conns : made[c] \in Nat /\ made[c] <= vm.boot BY <1>0 DEF Placed, TypeWire
  <2>4. \A c \in Conns : made'[c] <= vm'.boot /\ ~Alive(c)' BY <2>1, <2>3 DEF Alive
  <2>5. drain.passed \subseteq Conns /\ (drain.conn # 0 => drain.conn \in Conns)
    <3>1. dials \in 0..MaxConns BY <1>0 DEF TypeWire
    <3>2. 1..dials \subseteq Conns /\ \A c \in 0..dials : c # 0 => c \in Conns
      BY <3>1, ChannelAssumption DEF ChannelAssumption
    <3> QED BY <1>0, <3>2 DEF TypeDrain
  <2>6. drain.at = "serve" => drain.conn # 0 BY <1>0 DEF TypeDrain
  <2>7. Placed' BY <2>1, <2>2, <2>4, <2>5, <2>6 DEF Placed, Alive
  <2>8. daemon'.at = "start" BY <1>0, <2>1 DEF TypeGuest
  <2> QED BY <2>7, <2>8, SecuredJoined DEF NoStrandedWrite
<1>10. CASE Prune
  <2>1. PICK c \in store : ~Alive(c) /\ store' = store \ {c} BY <1>10 DEF Prune
  <2>2. UNCHANGED <<vm, qemu, dials, made, drain, exposed, daemon>>
    BY <1>10 DEF Prune, wire, guest
  <2>3. Placed' BY <1>0, <2>1, <2>2 DEF Placed, Held, Alive
  <2> QED BY <1>0, <2>2, <2>3, StrandedStays, SecuredJoined
<1> QED
  BY <1>2, <1>3, <1>4, <1>5, <1>6, <1>7, <1>8, <1>9, <1>10
  DEF Next, Relay, Serve, GuestStep, DrainStep

\* NoStrandedWrite: a guest write is stranded only by a connection that was not
\* handed to systemd, with any environment.
THEOREM OnlyExposedStrand == Spec => []NoStrandedWrite
<1>1. TypeOK /\ Secured /\ [Next]_vars => Secured' BY SecuredNext
<1>2. Secured => NoStrandedWrite BY DEF Secured
<1> QED BY <1>1, <1>2, SecuredInit, TypeCorrect, PTL DEF Spec

-----------------------------------------------------------------------------
(* One live connection                                                     *)

\* Nothing is held at the start.
LEMMA SingleInit == Init => Single
<1> SUFFICES ASSUME Init PROVE Single OBVIOUS
<1>1. store = {} /\ drain.passed = {} /\ drain.at = "off" /\ drain.conn = 0
  BY DEF Init, Off
<1> QED BY <1>1 DEF Single

\* What is not live any more need not be looked at.
LEMMA SingleShrinks ==
  ASSUME Single, UNCHANGED drain, store' \subseteq store,
         \A c \in store' : Alive(c)' => Alive(c)
  PROVE  Single'
BY DEF Single, Running

\* Where systemd is prompt and its descriptors usable, every step keeps Single.
LEMMA SingleNext ==
  ASSUME TypeOK, Secured, Single, env.prompt, env.usable, [Next]_vars PROVE Single'
<1>0. TypeWire /\ TypeStore /\ TypeDrain /\ Placed BY TypeSplit, SecuredParts
<1>1. CASE GuestStep \/ UNCHANGED vars \/ QemuAccepts \/ QemuHangsUp
  <2>1. UNCHANGED <<vm, made, store, drain>>
    BY <1>1, GuestStepOutside DEF Outside, wire, vars, QemuAccepts, QemuHangsUp
  <2> QED BY <2>1, SingleShrinks DEF Alive
<1>2. CASE VMStops
  <2>1. vm' = [vm EXCEPT !.up = FALSE] /\ UNCHANGED <<store, drain>> BY <1>2 DEF VMStops
  <2>2. ~vm'.up BY <1>0, <2>1 DEF TypeWire
  <2> QED BY <2>1, <2>2, SingleShrinks DEF Alive
<1>3. CASE VMStarts
  <2>1. /\ vm'.boot = vm.boot + 1 /\ vm.boot \in Nat /\ UNCHANGED <<made, store, drain>>
    BY <1>0, <1>3 DEF VMStarts, TypeWire
  <2>2. \A c \in Conns : made[c] \in Nat /\ made[c] <= vm.boot
    BY <1>0 DEF Placed, TypeWire
  <2>3. store \subseteq Conns
    <3>1. dials \in 0..MaxConns BY <1>0 DEF TypeWire
    <3>2. 1..dials \subseteq Conns BY <3>1, ChannelAssumption DEF ChannelAssumption
    <3> QED BY <1>0, <3>2 DEF TypeStore
  <2>4. \A c \in store : ~Alive(c)' BY <2>1, <2>2, <2>3 DEF Alive
  <2> QED BY <2>1, <2>4, SingleShrinks
<1>4. CASE Prune
  <2>1. UNCHANGED <<vm, made, drain>> /\ store' \subseteq store BY <1>4 DEF Prune, wire
  <2> QED BY <2>1, SingleShrinks DEF Alive
<1>5. CASE Dial
  <2>1. /\ dials \in Nat /\ drain'.conn = dials + 1 /\ drain'.at = "store"
        /\ drain'.passed = drain.passed /\ ~drain'.first
        /\ made' = [made EXCEPT ![dials + 1] = vm.boot] /\ UNCHANGED <<vm, store>>
        /\ drain.at = "open" /\ drain.conn = 0 /\ (drain.first => drain.passed = {})
    BY <1>0, <1>5 DEF Dial, MayDial, TypeWire, TypeDrain
  <2>2. \A c \in store : ~Alive(c) BY <2>1 DEF Single, Running
  <2>3. \A c \in store : ~Alive(c)' BY <1>0, <2>1, <2>2 DEF Alive, TypeStore, TypeWire
  <2> QED BY <2>1, <2>3 DEF Single
<1>6. CASE DrainStep
  <2>1. UNCHANGED <<vm, made>> BY <1>6, DrainStepOutside DEF wire
  <2>2. \A c : Alive(c)' <=> Alive(c) BY <2>1 DEF Alive
  <2>3. CASE GoesOn BY <2>2, <2>3 DEF GoesOn, Single, Running
  <2>4. CASE Ends BY <2>2, <2>4 DEF Ends, Single, Running
  <2>5. CASE Adopts
    <3>1. \A c \in store : Alive(c) => c = drain'.conn
      BY <2>5 DEF Adopts, Single, Running
    <3>2. drain'.conn # 0 BY <1>0, <2>5 DEF Adopts, TypeDrain, TypeWire
    <3> QED BY <2>2, <2>5, <3>1, <3>2 DEF Adopts, Single, Running
  <2>6. CASE GivesUp
    <3>1. drain.at = "open" /\ drain.conn = 0 /\ (drain.first => drain.passed = {})
      BY <1>0, <2>6 DEF GivesUp, MayDial, TypeDrain
    <3>2. \A c \in store : ~Alive(c) BY <3>1 DEF Single, Running
    <3> QED BY <2>2, <2>6, <3>2 DEF GivesUp, Single
  <2>7. CASE Stores
    <3>1. drain.conn # 0 BY <1>0, <2>7 DEF Stores, TypeDrain
    <3>2. \A c \in store' : Alive(c) => c = drain.conn BY <2>7, <3>1 DEF Stores, Single
    <3> QED BY <2>2, <2>7, <3>1, <3>2 DEF Stores, Single, Running
  <2>8. CASE Closes
    <3>1. drain.conn # 0 BY <1>0, <2>8 DEF Closes, TypeDrain
    <3>2. \A c \in store : ~Alive(c) BY <2>8, <3>1 DEF Closes, Single
    <3> QED BY <2>2, <2>8, <3>2 DEF Closes, Single
  <2>9. CASE Starts
    <3>1. \A c \in store : Alive(c) BY <2>9 DEF Starts
    <3> QED BY <2>2, <2>9, <3>1 DEF Starts, Single, Running
  <2> QED BY <1>0, <1>6, <2>3, <2>4, <2>5, <2>6, <2>7, <2>8, <2>9, DrainMoves
<1> QED
  BY <1>1, <1>2, <1>3, <1>4, <1>5, <1>6
  DEF Next, Relay, Serve, GuestStep, DrainStep

\* Who holds what says that two live held connections are one.
LEMMA OneFromSingle ==
  Single => \A c, d \in Conns : Alive(c) /\ Held(c) /\ Alive(d) /\ Held(d) => c = d
BY ChannelAssumption DEF Single, Held, ChannelAssumption

\* The environment is chosen once.
LEMMA EnvStays == [Next]_vars => env' = env
<1>1. GuestStep => env' = env BY GuestStepOutside DEF Outside
<1>2. DrainStep => env' = env BY DrainStepOutside
<1> QED
  BY <1>1, <1>2
  DEF Next, Relay, Serve, GuestStep, DrainStep, vars, Dial, QemuAccepts, QemuHangsUp,
      VMStops, VMStarts, Prune

\* OneLiveConnection: while systemd prunes in time and what it passes is usable, no
\* order of kills, stops and starts gives qemu a second live connection.
THEOREM AlwaysOne == Spec => []OneLiveConnection
<1> DEFINE Inv == TypeOK /\ Secured /\ (env.prompt /\ env.usable => Single)
<1>1. Init => Inv BY TypeInit, SecuredInit, SingleInit
<1>2. Inv /\ [Next]_vars => Inv' BY TypeNext, SecuredNext, SingleNext, EnvStays
<1>3. Inv => OneLiveConnection BY OneFromSingle DEF OneLiveConnection
<1> QED BY <1>1, <1>2, <1>3, PTL DEF Spec

=============================================================================
