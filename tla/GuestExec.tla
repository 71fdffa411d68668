----------------------------- MODULE GuestExec -----------------------------
(***************************************************************************)
(* What a caller on the Proxmox host learns about a command it runs in the *)
(* guest, and what the command may have done by then: the daemon's Exec    *)
(* RPC (svc/exec.go, svc/server.go), the client that drives its stream     *)
(* (opnsense/rpc_typed.go), upgrade's GRPCExecutor and guestRunner.        *)
(* Everything here is a constant expression.                               *)
(***************************************************************************)
EXTENDS Integers

\* What becomes of one command.  Its process is never started; exits 0; exits 0
\* and leaves a process behind that holds its stdout or stderr open; or exits
\* with another status, a signal and the kill at the per-call timeout included.
\* Its stream is refused before the command starts; stays whole; is cut, which
\* cancels the RPC in the daemon and kills the process group; or is lost without
\* the daemon noticing.
Fates == [ends : {"unstarted", "zero", "held", "nonzero"},
          link : {"refused", "whole", "cut", "lost"}]

Error           == [err |-> TRUE, exit |-> 0, timedOut |-> FALSE]
Result(exit, t) == [err |-> FALSE, exit |-> exit, timedOut |-> t]

\* runExec.  A held pipe ends in ErrWaitDelay, which is an error unless the
\* timeout has passed as well.
runExec(fate) ==
  CASE fate.ends = "unstarted" -> {Error}
    [] fate.ends = "zero"      -> {Result(0, FALSE)}
    [] fate.ends = "held"      -> {Error, Result(-1, TRUE)}
    [] fate.ends = "nonzero"   -> {Result(1, FALSE), Result(-1, TRUE)}

\* Server.Exec: without the header and the end of stdin nothing is run.
Exec(fate) == IF fate.link = "refused" THEN {Error} ELSE runExec(fate)

\* RPC.Exec: only a stream that stays whole brings the terminal message.
RPCExec(fate) == IF fate.link = "whole" THEN Exec(fate) ELSE {Error}

\* GRPCExecutor: a timeout shows in the text of stderr and in the exit status.
Replies == {"zero", "nonzero", "error"}

GuestExec(fate) ==
  {IF res.err THEN "error" ELSE IF res.exit = 0 THEN "zero" ELSE "nonzero" :
      res \in RPCExec(fate)}

\* guestRunner: run fails on an error alone, output and value on any other exit
\* than 0 too.
runFails(reply)    == reply = "error"
outputFails(reply) == reply # "zero"

\* How much of its work a command has done when the caller stops waiting for it,
\* and whether its process goes on in the guest after that.
Amounts == {"none", "part", "all"}

Started(fate) == fate.link # "refused" /\ fate.ends # "unstarted"

Work(fate) ==
  CASE ~Started(fate) \/ fate.link = "lost"                   -> {"none"}
    [] fate.ends \in {"zero", "held"} /\ fate.link = "whole"  -> {"all"}
    [] OTHER                                                  -> Amounts

GoesOn(fate) == Started(fate) /\ fate.link = "lost"

=============================================================================
