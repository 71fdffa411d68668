------------------------------ MODULE Channel ------------------------------
(***************************************************************************)
(* The byte channel between the Proxmox host and the guest's daemon.  On   *)
(* the host the drainer process (opnsense_drain.go) holds the connection   *)
(* to the qemu chardev, and systemd's file descriptor store holds it while *)
(* the drainer is restarted.  In the guest the serve loop (svc/serve.go,   *)
(* serial_open_freebsd.go) runs one yamux session after the other over the *)
(* serial device.  A guest write that waits while qemu sees its last       *)
(* host-side holder close is stranded in the guest's kernel.               *)
(*                                                                         *)
(* A step is one system call or message that another process can see.      *)
(* What the drainer relays to which bridge is module Drain.                *)
(***************************************************************************)
EXTENDS Integers, FiniteSets

CONSTANTS
  MaxBoots,   \* bound: starts of the VM
  MaxConns,   \* bound: connections to the chardev
  MaxEnds,    \* bound: ends of a drainer process
  MaxEvents,  \* bound: re-execs, crashes, stops and reboots in the guest, and
              \* bridges that leave bytes behind
  MaxPieces   \* bound: writes of at most serialMaxWrite bytes in one frame

ASSUME ChannelAssumption ==
  MaxBoots \in Nat \ {0} /\ MaxConns \in Nat /\ MaxEnds \in Nat
    /\ MaxEvents \in Nat /\ MaxPieces \in Nat \ {0}

Conns == 1..MaxConns

VARIABLES
  env,      \* [prompt, usable], see Start and AcquireChardev
  vm,       \* [boot, up]: the qemu process
  qemu,     \* the connection that qemu serves, 0 for none
  dials,    \* connections made so far
  made,     \* made[c]: the start of the VM that connection c was dialled to
  store,    \* systemd's file descriptor store, entries named "chardev"
  drain,    \* the drainer process: [at, conn, passed, first, stop]
  exposed,  \* connections whose hand-over to the store failed
  daemon,   \* the guest's daemon: [at, left, rc]
  stale,    \* bytes of an earlier session wait for the guest
  used      \* [ends, events], what is used up of the bounds

guest == <<daemon, stale>>
wire  == <<vm, qemu, dials, made>>
vars  == <<env, wire, store, drain, exposed, guest, used>>

\* left counts the writes of a frame that are not through yet; rc says that
\* rc.d is stopping the daemon.
Down(rc) == [at |-> "down", left |-> 0, rc |-> rc]
Off      == [at |-> "off", conn |-> 0, passed |-> {}, first |-> TRUE, stop |-> FALSE]

Held(c)  == c \in store \/ drain.conn = c
Alive(c) == vm.up /\ made[c] = vm.boot

-----------------------------------------------------------------------------
(* qemu: it serves one connection at a time, the next one waits            *)

QemuAccepts ==
  /\ qemu = 0
  /\ \E c \in Conns : Alive(c) /\ Held(c) /\ qemu' = c
  /\ UNCHANGED <<env, vm, dials, made, store, drain, exposed, guest, used>>

\* The host side is closed.
QemuHangsUp ==
  /\ qemu # 0 /\ ~Held(qemu)
  /\ qemu' = 0
  /\ daemon' = IF daemon.left > 0 THEN [daemon EXCEPT !.at = "stranded"] ELSE daemon
  /\ UNCHANGED <<env, vm, dials, made, store, drain, exposed, stale, used>>

VMStops ==
  /\ vm.up
  /\ vm' = [vm EXCEPT !.up = FALSE] /\ qemu' = 0
  /\ daemon' = Down(FALSE) /\ stale' = FALSE
  /\ UNCHANGED <<env, dials, made, store, drain, exposed, used>>

VMStarts ==
  /\ ~vm.up /\ vm.boot < MaxBoots
  /\ vm' = [boot |-> vm.boot + 1, up |-> TRUE]
  /\ daemon' = [daemon EXCEPT !.at = "start"]
  /\ UNCHANGED <<env, qemu, dials, made, store, drain, exposed, stale, used>>

-----------------------------------------------------------------------------
(* systemd                                                                 *)

\* An entry that hangs up is dropped (FDPOLL).
Prune ==
  /\ \E c \in store : ~Alive(c) /\ store' = store \ {c}
  /\ UNCHANGED <<env, wire, drain, exposed, guest, used>>

\* The unit is started again with the stored descriptors.  With env.prompt what
\* has hung up is dropped before that, as makeChardevOpener's comment has it.
Start ==
  /\ drain.at = "off"
  /\ env.prompt => \A c \in store : Alive(c)
  /\ drain' = [Off EXCEPT !.at = "listen", !.passed = store]
  /\ UNCHANGED <<env, wire, store, exposed, guest, used>>

-----------------------------------------------------------------------------
(* The drainer                                                             *)

Goto(at) == drain' = [drain EXCEPT !.at = at]

\* acquireListener; a failure ends the process like any kill.
AcquireListener ==
  /\ drain.at = "listen" /\ Goto("loop")
  /\ UNCHANGED <<env, wire, store, exposed, guest, used>>

RelayLoop ==
  /\ drain.at = "loop"
  /\ IF drain.stop THEN drain' = Off ELSE Goto("open")
  /\ UNCHANGED <<env, wire, store, exposed, guest, used>>

\* acquireChardev: the first call in a process adopts what systemd has passed.
\* Without env.usable a passed descriptor may turn out not to be usable.
Adopt ==
  /\ drain.at = "open" /\ drain.first /\ drain.passed # {}
  /\ \E c \in drain.passed :
       drain' = [drain EXCEPT !.at = "serve", !.conn = c, !.first = FALSE]
  /\ UNCHANGED <<env, wire, store, exposed, guest, used>>

\* Mutant of MayDial: what systemd has passed is ignored.
MayAlwaysDial == drain.at = "open"

MayDial == drain.at = "open" /\ (drain.first /\ drain.passed # {} => ~env.usable)

Dial ==
  /\ MayDial /\ vm.up /\ ~drain.stop /\ dials < MaxConns
  /\ dials' = dials + 1 /\ made' = [made EXCEPT ![dials + 1] = vm.boot]
  /\ drain' = [drain EXCEPT !.at = "store", !.conn = dials + 1, !.first = FALSE]
  /\ UNCHANGED <<env, vm, qemu, store, exposed, guest, used>>

DialFails ==
  /\ MayDial /\ (~vm.up \/ drain.stop)
  /\ drain' = [drain EXCEPT !.at = "pause", !.first = FALSE]
  /\ UNCHANGED <<env, wire, store, exposed, guest, used>>

\* Mutant of StoreChardevFD: the descriptor is stored only when the chardev is
\* closed, so never.
StoreLater ==
  /\ drain.at = "store" /\ Goto("serve")
  /\ UNCHANGED <<env, wire, store, exposed, guest, used>>

\* storeChardevFD; a failure is logged and the drainer serves all the same.
StoreChardevFD ==
  /\ drain.at = "store" /\ Goto("serve")
  /\ \/ store' = store \cup {drain.conn} /\ UNCHANGED exposed
     \/ exposed' = exposed \cup {drain.conn} /\ UNCHANGED store
  /\ UNCHANGED <<env, wire, guest, used>>

\* Mutant of CloseChardev: the closed connection is kept.
CloseKeeps ==
  /\ drain.at = "serve" /\ (~Alive(drain.conn) \/ drain.stop)
  /\ drain' = IF drain.stop THEN Off ELSE [drain EXCEPT !.at = "pause"]
  /\ UNCHANGED <<env, wire, store, exposed, guest, used>>

\* drainChardev returns when the chardev is at its end or the process is stopped.
\* runDrainRelay closes it; the store keeps its own descriptor.
CloseChardev ==
  /\ drain.at = "serve" /\ (~Alive(drain.conn) \/ drain.stop)
  /\ drain' = IF drain.stop THEN Off ELSE [drain EXCEPT !.at = "pause", !.conn = 0]
  /\ UNCHANGED <<env, wire, store, exposed, guest, used>>

\* sleepCtxOK(drainReconnectBackoff)
Reopen ==
  /\ drain.at = "pause"
  /\ IF drain.stop THEN drain' = Off ELSE Goto("loop")
  /\ UNCHANGED <<env, wire, store, exposed, guest, used>>

StopDrainer ==
  /\ drain.at # "off" /\ ~drain.stop /\ used.ends < MaxEnds
  /\ drain' = IF drain.at = "listen" THEN Off ELSE [drain EXCEPT !.stop = TRUE]
  /\ used' = [used EXCEPT !.ends = @ + 1]
  /\ UNCHANGED <<env, wire, store, exposed, guest>>

\* A kill before the connection is stored exposes it.
KillDrainer ==
  /\ drain.at # "off" /\ used.ends < MaxEnds
  /\ drain' = Off
  /\ exposed' = IF drain.at = "store" THEN exposed \cup {drain.conn} ELSE exposed
  /\ used' = [used EXCEPT !.ends = @ + 1]
  /\ UNCHANGED <<env, wire, store, guest>>

-----------------------------------------------------------------------------
(* The guest's daemon                                                      *)

\* OpenVirtioSerial flushes what an earlier process has left in the tty queue.
OpenSerial ==
  /\ daemon.at = "start"
  /\ daemon' = [daemon EXCEPT !.at = "serve"] /\ stale' = FALSE
  /\ UNCHANGED <<env, wire, store, drain, exposed, used>>

\* Without the device Serve returns its error and the process exits.  The last check
\* of OpenVirtioSerial comes after the flush.
OpenFails ==
  /\ daemon.at = "start"
  /\ daemon' = [daemon EXCEPT !.at = "ended"] /\ stale' \in {stale, FALSE}
  /\ UNCHANGED <<env, wire, store, drain, exposed, used>>

\* daemon(8) starts a process that has ended again.
Respawn ==
  /\ daemon.at = "ended"
  /\ daemon' = [daemon EXCEPT !.at = "start"]
  /\ UNCHANGED <<env, wire, store, drain, exposed, stale, used>>

\* serialStream.Write cuts a frame into writes that fit the tty queue.
WriteFrame ==
  /\ daemon.at = "serve" /\ daemon.left = 0
  /\ \E n \in 1..MaxPieces : daemon' = [daemon EXCEPT !.left = n]
  /\ UNCHANGED <<env, wire, store, drain, exposed, stale, used>>

Drained == qemu # 0 /\ drain.at = "serve" /\ drain.conn = qemu

\* A write is through when the drainer has read it; qemu discards it when no
\* host side is open.
WritePiece ==
  /\ daemon.at # "stranded" /\ daemon.left > 0 /\ (Drained \/ qemu = 0)
  /\ daemon' = [daemon EXCEPT !.left = @ - 1]
  /\ UNCHANGED <<env, wire, store, drain, exposed, stale, used>>

\* serveOneSession ends with an error on bytes that no session of its own sent;
\* Serve pauses and builds the next session over the same descriptor.
SessionEnds ==
  /\ daemon.at = "serve" /\ stale
  /\ daemon' = [daemon EXCEPT !.at = "pause"] /\ stale' = FALSE
  /\ UNCHANGED <<env, wire, store, drain, exposed, used>>

Rebuild ==
  /\ daemon.at = "pause"
  /\ daemon' = [daemon EXCEPT !.at = "serve"]
  /\ UNCHANGED <<env, wire, store, drain, exposed, stale, used>>

\* After StopTimeout the gRPC server is stopped; session.Close then waits for a
\* read of the serial device that nothing interrupts.
GracefulStop ==
  /\ daemon.at = "stopping" /\ daemon' = [daemon EXCEPT !.at = "parked"]
  /\ UNCHANGED <<env, wire, store, drain, exposed, stale, used>>

\* A parked process ends on bytes that break its session.
ParkedEnds ==
  /\ daemon.at = "parked" /\ stale
  /\ daemon' = [Down(daemon.rc) EXCEPT !.at = IF daemon.rc THEN "down" ELSE "ended"]
  /\ UNCHANGED <<env, wire, store, drain, exposed, stale, used>>

\* Mutant of RcKill: the forced path kills a process that is still stopping.
RcKillStopping ==
  /\ daemon.rc /\ daemon.at = "stopping"
  /\ daemon' = Down(TRUE)
  /\ UNCHANGED <<env, wire, store, drain, exposed, stale, used>>

\* mwan_opnsense_stop kills the supervisor and its process group after its
\* timeout.
RcKill ==
  /\ daemon.rc /\ daemon.at \in {"stopping", "parked"}
  /\ daemon' = Down(TRUE)
  /\ UNCHANGED <<env, wire, store, drain, exposed, stale, used>>

Event == used.events < MaxEvents /\ used' = [used EXCEPT !.events = @ + 1]

\* mwan_opnsense_stop sends SIGTERM: the context of Serve ends, and the supervisor
\* does not start the process again.
StopDaemon ==
  /\ ~daemon.rc /\ Event
  /\ \/ daemon.at = "serve" /\ daemon' = [daemon EXCEPT !.at = "stopping", !.rc = TRUE]
     \/ daemon.at = "parked" /\ daemon' = [daemon EXCEPT !.rc = TRUE]
     \/ daemon.at \in {"start", "ended", "pause"} /\ daemon' = Down(TRUE)
  /\ UNCHANGED <<env, wire, store, drain, exposed, stale>>

StartDaemon ==
  /\ vm.up /\ daemon.at = "down" /\ daemon' = [Down(FALSE) EXCEPT !.at = "start"]
  /\ UNCHANGED <<env, wire, store, drain, exposed, stale, used>>

\* execve takes every goroutine and the descriptor with it; without an executable
\* .current it is not tried.
reExecCurrent == {[daemon EXCEPT !.at = "start", !.left = 0], daemon}

\* RestartDaemon's hook: when the re-exec fails the context is cancelled.
ReExec ==
  /\ daemon.at = "serve" /\ Event
  /\ \E image \in reExecCurrent :
       daemon' = IF image # daemon THEN image ELSE [daemon EXCEPT !.at = "stopping"]
  /\ UNCHANGED <<env, wire, store, drain, exposed, stale>>

\* The daemon crashes, or the guest reboots inside its VM.
DaemonCrashes ==
  /\ daemon.at \in {"serve", "pause"} /\ Event
  /\ daemon' = [Down(FALSE) EXCEPT !.at = "ended"]
  /\ UNCHANGED <<env, wire, store, drain, exposed, stale>>

GuestReboots ==
  /\ vm.up /\ Event
  /\ daemon' = [Down(FALSE) EXCEPT !.at = "start"]
  /\ UNCHANGED <<env, wire, store, drain, exposed, stale>>

\* A bridge is replaced in the middle of a frame.
BridgeChanges ==
  /\ vm.up /\ ~stale /\ Event
  /\ stale' = TRUE
  /\ UNCHANGED <<env, wire, store, drain, exposed, daemon>>

-----------------------------------------------------------------------------
Init ==
  /\ env \in [prompt : BOOLEAN, usable : BOOLEAN]
  /\ vm = [boot |-> 1, up |-> TRUE] /\ qemu = 0
  /\ dials = 0 /\ made = [c \in Conns |-> 0]
  /\ store = {} /\ drain = Off /\ exposed = {}
  /\ daemon = [Down(FALSE) EXCEPT !.at = "start"] /\ stale = FALSE
  /\ used = [ends |-> 0, events |-> 0]

Relay == AcquireListener \/ RelayLoop \/ Adopt \/ Dial \/ DialFails
           \/ StoreChardevFD \/ CloseChardev \/ Reopen

Serve == Respawn \/ WritePiece \/ SessionEnds \/ Rebuild \/ GracefulStop \/ ParkedEnds

Next == \/ QemuAccepts \/ QemuHangsUp \/ VMStops \/ VMStarts
        \/ Prune \/ Start \/ Relay \/ StopDrainer \/ KillDrainer
        \/ OpenSerial \/ OpenFails \/ Serve \/ WriteFrame \/ RcKill \/ StopDaemon \/ StartDaemon
        \/ ReExec \/ DaemonCrashes \/ GuestReboots \/ BridgeChanges

Spec == Init /\ [][Next]_vars

\* qemu, systemd, daemon(8) and rc.d do their part, the drainer and the daemon go on.
\* Nothing says that the serial device can ever be opened.
Fairness ==
  /\ WF_vars(QemuAccepts) /\ WF_vars(QemuHangsUp) /\ WF_vars(Prune) /\ WF_vars(Start)
  /\ WF_vars(Relay) /\ WF_vars(Serve) /\ WF_vars(RcKill)

LiveSpec == Spec /\ Fairness

-----------------------------------------------------------------------------
(* Properties                                                              *)

\* Each variable holds a value of its kind; the drainer has a connection exactly
\* while it hands one over or serves it.
TypeOK ==
  /\ env \in [prompt : BOOLEAN, usable : BOOLEAN]
  /\ vm \in [boot : 1..MaxBoots, up : BOOLEAN]
  /\ qemu \in 0..MaxConns /\ dials \in 0..MaxConns
  /\ made \in [Conns -> 0..MaxBoots]
  /\ store \subseteq 1..dials /\ exposed \subseteq 1..dials
  /\ drain \in [at : {"off", "listen", "loop", "open", "store", "serve", "pause"},
                conn : 0..dials, passed : SUBSET (1..dials),
                first : BOOLEAN, stop : BOOLEAN]
  /\ drain.conn # 0 <=> drain.at \in {"store", "serve"}
  /\ daemon \in [at : {"down", "start", "ended", "serve", "pause", "stopping", "parked",
                        "stranded"},
                 left : 0..MaxPieces, rc : BOOLEAN]
  /\ stale \in BOOLEAN
  /\ used \in [ends : 0..MaxEnds, events : 0..MaxEvents]

\* The host never has two connections to one qemu, of which the second would wait
\* for ever and the first be read by nobody: whatever kills the drainer or stops
\* the VM, the process that follows adopts or dials, never both
\* (opnsense_drain.go:192, makeChardevOpener).  It rests on systemd and on the
\* descriptors it passes, see env.
OneLiveConnection ==
  env.prompt /\ env.usable =>
    \A c, d \in Conns : Alive(c) /\ Held(c) /\ Alive(d) /\ Held(d) => c = d

\* A guest write is stranded only if a connection to the running qemu was not
\* handed to the store (opnsense_drain.go:195, "the only window").
NoStrandedWrite ==
  daemon.at = "stranded" => \E c \in exposed : Alive(c)

\* A guest write ends, however often the drainer is stopped, killed and started
\* again, unless it is stranded.
WriteEnds ==
  (env.prompt /\ env.usable) =>
    (daemon.left > 0 ~> daemon.left = 0 \/ daemon.at = "stranded")

\* A stop of the daemon ends although Serve does not return (serve.go:56), and
\* after a session or a process that ends there is another one.
DaemonSettles ==
  daemon.at \in {"ended", "pause"} \/ daemon.rc
    ~> daemon.at \in {"start", "serve", "down", "stranded"}

=============================================================================
