---------------------------- MODULE SftpBackend ----------------------------
(***************************************************************************)
(* The one SFTP server behind the SFTP sessions of an SSH connection:      *)
(* SandboxSftpBackend (src/gateway/backend.py), the operations of          *)
(* GatewaySFTPServer (gateway/sftp.py) that use it, and its process in the *)
(* sandbox (SbxExecProcess, providers/docker_sbx/process.py).              *)
(*                                                                         *)
(* The coroutines are the operations of the caller, the idle closer and    *)
(* the cleanup of connection_lost.  They share an asyncio.Lock; a step     *)
(* goes from one await to the next.                                        *)
(*                                                                         *)
(* A definition whose comment says "Mutation" is no part of the system.    *)
(***************************************************************************)
EXTENDS Integers, FiniteSets

CONSTANTS
    Op,        \* SFTP operations at the same time
    Closer,    \* _idle_closer
    Cleanup,   \* the aclose that connection_lost starts
    Exec,      \* bound: sbx exec processes at the same time
    NoExec

ASSUME SftpAssumption ==
    /\ Closer \notin Op /\ Cleanup \notin Op /\ Closer # Cleanup /\ NoExec \notin Exec

VARIABLES
    conn,       \* the caller's connection
    at,         \* where each coroutine is
    exec,       \* the processes in the sandbox; a dead one is not reaped yet
    stored,     \* _process
    handler,    \* the process whose handler _handler is
    inFlight,   \* _in_flight
    closed      \* _closed

sftp == <<at, exec, stored, handler, inFlight, closed>>

Coroutine == Op \cup {Closer, Cleanup}

\* Where a coroutine awaits with the lock in its hands.
Holding == {"opening", "handshake", "undo", "teardown"}

Free == \A x \in Coroutine : at[x] \notin Holding

Live(e) == e \in Exec /\ exec[e] = "live"

\* The count is that of the operations between acquire and release, while none is cancelled.
SftpTypeOK ==
    /\ conn \in {"up", "lost"} /\ closed \in BOOLEAN
    /\ at \in [Coroutine -> Holding \cup {"none", "acquire", "using", "release", "asleep",
                                          "wake", "done"}]
    /\ exec \in [Exec -> {"none", "live", "dead"}]
    /\ stored \in Exec \cup {NoExec} /\ handler \in {stored, NoExec}
    /\ inFlight \in Nat
    /\ conn = "up" => inFlight = Cardinality({o \in Op : at[o] \in {"using", "release"}})

SftpInit ==
    /\ conn = "up"
    /\ at = [x \in Coroutine |-> "none"]
    /\ exec = [e \in Exec |-> "none"]
    /\ stored = NoExec /\ handler = NoExec
    /\ inFlight = 0 /\ closed = FALSE

Goes(x, pc) == at' = [at EXCEPT ![x] = pc]

\* One ends or begins while the idle closer is cancelled.
GoesAndCancels(x, pc) == at' = [at EXCEPT ![x] = pc, ![Closer] = "none"]

-----------------------------------------------------------------------------
(* Operations.                                                             *)

\* GatewaySFTPServer: every operation asks for the backend's handler.
Use(o) ==
    /\ conn = "up" /\ at[o] = "none" /\ Goes(o, "acquire")
    /\ UNCHANGED <<conn, exec, stored, handler, inFlight, closed>>

\* _acquire, up to the handler or the start of its process.
Acquire(o) ==
    /\ at[o] = "acquire" /\ Free
    /\ \/ closed /\ Goes(o, "none") /\ UNCHANGED inFlight
       \/ ~closed /\ handler = NoExec /\ GoesAndCancels(o, "opening") /\ UNCHANGED inFlight
       \/ ~closed /\ handler # NoExec /\ GoesAndCancels(o, "using") /\ inFlight' = inFlight + 1
    /\ UNCHANGED <<conn, exec, stored, handler, closed>>

\* "Store the process before the handshake" (_open)
StoredAtOnce(e) == e

ExecStarts(o) ==
    /\ at[o] = "opening" /\ Goes(o, "handshake")
    /\ \E e \in Exec : /\ exec[e] = "none" /\ exec' = [exec EXCEPT ![e] = "live"]
                       /\ stored' = StoredAtOnce(e)
    /\ UNCHANGED <<conn, handler, inFlight, closed>>

ExecDoesNotStart(o) ==
    /\ at[o] = "opening" /\ Goes(o, "none")
    /\ UNCHANGED <<conn, exec, stored, handler, inFlight, closed>>

\* Mutation: the operation that opens is not counted.
CountedUnlessOpener == inFlight

Counted == inFlight + 1

Handshake(o) ==
    /\ at[o] = "handshake" /\ Live(stored) /\ Goes(o, "using")
    /\ handler' = stored /\ inFlight' = Counted
    /\ UNCHANGED <<conn, exec, stored, closed>>

HandshakeFails(o) ==
    /\ at[o] = "handshake" /\ Goes(o, "undo")
    /\ UNCHANGED <<conn, exec, stored, handler, inFlight, closed>>

\* The sandbox answers, or the handler finds that its process is dead.
Finish(o) ==
    /\ at[o] = "using" /\ Goes(o, "release")
    /\ UNCHANGED <<conn, exec, stored, handler, inFlight, closed>>

\* Mutation: the count is read before it falls.
LastOutBefore == inFlight = 0

LastOut == inFlight = 1

Release(o) ==
    /\ at[o] = "release" /\ Free
    /\ inFlight' = inFlight - 1
    /\ at' = [at EXCEPT ![o] = "none", ![Closer] = IF LastOut /\ ~closed THEN "asleep" ELSE @]
    /\ UNCHANGED <<conn, exec, stored, handler, closed>>

-----------------------------------------------------------------------------
(* The idle closer, the cleanup, and what they do with the lock.           *)

CloserWakes ==
    /\ at[Closer] = "asleep" /\ Goes(Closer, "wake")
    /\ UNCHANGED <<conn, exec, stored, handler, inFlight, closed>>

CloserCloses ==
    /\ at[Closer] = "wake" /\ Free
    /\ Goes(Closer, IF inFlight = 0 /\ ~closed THEN "teardown" ELSE "none")
    /\ UNCHANGED <<conn, exec, stored, handler, inFlight, closed>>

Closed == TRUE

\* aclose
CleanupCloses ==
    /\ at[Cleanup] = "wake" /\ Free
    /\ closed' = Closed /\ GoesAndCancels(Cleanup, "teardown")
    /\ UNCHANGED <<conn, exec, stored, handler, inFlight>>

\* _teardown: the receive task has ended, and SbxExecProcess.aclose has reaped the process.
TornDown(x) ==
    /\ at[x] \in {"undo", "teardown"}
    /\ Goes(x, IF x = Cleanup THEN "done" ELSE "none")
    /\ exec' = [e \in Exec |-> IF e = stored THEN "none" ELSE exec[e]]
    /\ stored' = NoExec /\ handler' = NoExec
    /\ UNCHANGED <<conn, inFlight, closed>>

\* The sandbox stops, or its SFTP server ends.
ExecDies(e) ==
    /\ Live(e) /\ exec' = [exec EXCEPT ![e] = "dead"]
    /\ UNCHANGED <<conn, at, stored, handler, inFlight, closed>>

\* connection_lost; the SSH library cancels the operations that are under way, or none.
\* A cancelled release leaves the count, a cancelled handshake the process it stored.
BackendLosesConnection ==
    \E cancels \in BOOLEAN :
        at' = [x \in Coroutine |->
                 IF x = Cleanup THEN "wake"
                 ELSE IF x \in Op /\ cancels
                 THEN CASE at[x] = "using" -> "release"
                        [] at[x] = "undo" -> "undo"
                        [] OTHER -> "none"
                 ELSE at[x]]

OpStep(o) ==
    \/ Acquire(o) \/ ExecStarts(o) \/ ExecDoesNotStart(o) \/ Handshake(o)
    \/ HandshakeFails(o) \/ Finish(o) \/ Release(o) \/ TornDown(o)

CloserStep == CloserWakes \/ CloserCloses \/ TornDown(Closer)

CleanupStep == CleanupCloses \/ TornDown(Cleanup)

SftpNext ==
    \/ \E o \in Op : Use(o) \/ OpStep(o)
    \/ CloserStep \/ CleanupStep
    \/ \E e \in Exec : ExecDies(e)

\* An operation, a timer and a cleanup go on; an asyncio.Lock is granted in order.
SftpFairness ==
    /\ \A o \in Op : WF_<<conn, sftp>>(OpStep(o)) /\ SF_<<conn, sftp>>(Acquire(o) \/ Release(o))
    /\ WF_<<conn, sftp>>(CloserStep) /\ SF_<<conn, sftp>>(CloserCloses)
    /\ WF_<<conn, sftp>>(CleanupStep) /\ SF_<<conn, sftp>>(CleanupCloses)

-----------------------------------------------------------------------------
\* "SFTP runs the sandbox's own SFTP server over one persistent session for each SSH
\* connection" (docs/deploy.md): however openings fail and closers and operations take
\* turns, there is never a second server.
OneServer == Cardinality({e \in Exec : exec[e] = "live"}) <= 1

\* "The idle timer runs only when no operation is in flight" (session).
TimerOnlyWhenIdle == ~closed /\ inFlight > 0 => at[Closer] = "none"

\* While the connection lasts, nobody takes the server from an operation that uses it.
UserKeepsServer == ~closed => \A o \in Op : at[o] = "using" => handler # NoExec

\* "Close the backend, so its exec process ends and the sandbox can sleep"
\* (connection_lost): after the cleanup no operation that was under way leaves or starts
\* a process.
CleanupIsFinal == at[Cleanup] = "done" => \A e \in Exec : exec[e] = "none"

\* "It closes after an idle time" (SandboxSftpBackend): a process does not stay when
\* operations have stopped coming, a dead one neither.
IdleCloses == stored # NoExec ~> stored = NoExec \/ \E o \in Op : at[o] # "none"

=============================================================================
