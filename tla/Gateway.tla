------------------------------ MODULE Gateway ------------------------------
(***************************************************************************)
(* One caller's connection to the SSH gateway, src/gateway/server.py: its  *)
(* SFTP backend (module SftpBackend), the tunnel its forwarding channels   *)
(* share (GatewayConnection.connection_requested), and a session bridged   *)
(* to a process in the sandbox (_bridge).  The three meet only where the   *)
(* connection is lost, so a behaviour has one of them, chosen in Init.     *)
(*                                                                         *)
(* Coroutines of one event loop: what happens between two awaits is one    *)
(* step.  A future that is done is awaited without a pause, and those who  *)
(* waited for it wake one after the other with nothing in between.         *)
(*                                                                         *)
(* A definition whose comment says "Mutation" is no part of the system.    *)
(***************************************************************************)
EXTENDS SftpBackend

CONSTANTS
    Channel,   \* forwarding channels the caller opens
    Tunnel,    \* bound: tunnels into the sandbox
    NoTunnel

ASSUME TunnelAssumption == NoTunnel \notin Tunnel

VARIABLES
    part,      \* what the caller uses the connection for
    chan,      \* the tunnel each channel waits for or goes through
    tunnel,    \* self._tunnel
    link,      \* the tunnels
    forgot,    \* history: a tunnel was dropped from self._tunnel that had not failed
    bridge,    \* the coroutine of _bridge
    sandbox,   \* its process: with a PTY or pipes, and how far it is
    pump       \* the tasks that feed its input and its error stream

forward == <<chan, tunnel, link, forgot>>
shell == <<bridge, sandbox, pump>>
vars == <<conn, part, sftp, forward, shell>>

TypeOK ==
    /\ SftpTypeOK
    /\ part \in {"sftp", "forward", "shell"}
    /\ chan \in [Channel -> {"new", "refused", "open"} \cup Tunnel]
    /\ tunnel \in Tunnel \cup {NoTunnel}
    /\ link \in [Tunnel -> {"none", "opening", "open", "failed", "ended"}]
    /\ forgot \in BOOLEAN
    /\ bridge \in {"none", "opening", "relays", "drains", "closes", "over"}
    /\ sandbox \in [pty : BOOLEAN, state : {"none", "live", "fed", "exited", "reaped"}]
    /\ pump \in [{"input", "stderr"} -> {"none", "runs", "ended", "failed"}]
    /\ bridge \in {"none", "opening"} <=> pump["input"] = "none" /\ bridge # "over"

Init ==
    /\ SftpInit
    /\ part \in {"sftp", "forward", "shell"}
    /\ chan = [c \in Channel |-> "new"] /\ tunnel = NoTunnel
    /\ link = [t \in Tunnel |-> "none"] /\ forgot = FALSE
    /\ bridge = "none" /\ \E pty \in BOOLEAN : sandbox = [pty |-> pty, state |-> "none"]
    /\ pump = [p \in {"input", "stderr"} |-> "none"]

-----------------------------------------------------------------------------
(* Forwarding.                                                             *)

LiveTunnels == {t \in Tunnel : link[t] \in {"opening", "open"}}

Waiting(t) == {c \in Channel : chan[c] = t}

\* Mutation: the tunnel is shared once it is open.
SharedWhenOpen == IF tunnel # NoTunnel /\ link[tunnel] = "opening" THEN NoTunnel ELSE tunnel

Shared == tunnel

\* connection_requested, up to where it waits for the tunnel: the first channel starts it;
\* one that finds it failed drops it, as do those that waited (TunnelFailsChannels).
Request(c) ==
    /\ conn = "up" /\ part = "forward" /\ chan[c] = "new"
    /\ \/ /\ Shared = NoTunnel
          /\ \E t \in Tunnel :
                /\ link[t] = "none" /\ link' = [link EXCEPT ![t] = "opening"]
                /\ tunnel' = t /\ chan' = [chan EXCEPT ![c] = t]
          /\ UNCHANGED forgot
       \/ /\ Shared # NoTunnel /\ link[tunnel] = "opening"
          /\ chan' = [chan EXCEPT ![c] = tunnel] /\ UNCHANGED <<tunnel, link, forgot>>
       \/ /\ Shared # NoTunnel /\ link[tunnel] = "open"
          /\ chan' = [chan EXCEPT ![c] = "open"] /\ UNCHANGED <<tunnel, link, forgot>>
       \/ /\ Shared # NoTunnel /\ link[tunnel] = "failed"
          /\ chan' = [chan EXCEPT ![c] = "refused"] /\ tunnel' = NoTunnel
          /\ UNCHANGED <<link, forgot>>
       \/ /\ Shared # NoTunnel /\ link[tunnel] = "ended"
          /\ chan' = [chan EXCEPT ![c] = "refused"] /\ UNCHANGED <<tunnel, link, forgot>>
    /\ UNCHANGED <<conn, part, sftp, shell>>

\* open_gateway_tunnel ends.
TunnelOpensOrFails(t) ==
    /\ link[t] = "opening"
    /\ \E outcome \in {"open", "failed"} : link' = [link EXCEPT ![t] = outcome]
    /\ UNCHANGED <<conn, part, sftp, chan, tunnel, forgot, shell>>

TunnelServesChannels(t) ==
    /\ link[t] \in {"open", "ended"} /\ Waiting(t) # {}
    /\ chan' = [c \in Channel |-> IF chan[c] = t
                                  THEN IF link[t] = "open" THEN "open" ELSE "refused" ELSE chan[c]]
    /\ UNCHANGED <<conn, part, sftp, tunnel, link, forgot, shell>>

TunnelFailsChannels(t) ==
    /\ link[t] = "failed" /\ Waiting(t) # {}
    /\ chan' = [c \in Channel |-> IF chan[c] = t THEN "refused" ELSE chan[c]]
    /\ tunnel' = NoTunnel /\ forgot' = (forgot \/ tunnel \notin {t, NoTunnel})
    /\ UNCHANGED <<conn, part, sftp, link, shell>>

\* The sandbox or its daemon stops.
TunnelEnds(t) ==
    /\ link[t] = "open" /\ link' = [link EXCEPT ![t] = "ended"]
    /\ UNCHANGED <<conn, part, sftp, chan, tunnel, forgot, shell>>

\* connection_lost: "A tunnel that is still opening stops; an open one closes."
EndsWithConnection(t) == t = tunnel /\ t \in LiveTunnels

-----------------------------------------------------------------------------
(* A bridged session.                                                      *)

Exited == sandbox.state = "exited"

BridgeBecomes(pc) == bridge' = pc /\ UNCHANGED <<conn, part, sftp, forward>>

BridgeOpens ==
    /\ conn = "up" /\ part = "shell" /\ bridge = "none"
    /\ BridgeBecomes("opening") /\ UNCHANGED <<sandbox, pump>>

\* SbxExecProcess.open, and the two pumps.
BridgeStarts ==
    /\ bridge = "opening" /\ BridgeBecomes("relays")
    /\ sandbox' = [sandbox EXCEPT !.state = "live"]
    /\ pump' = [p \in {"input", "stderr"} |-> "runs"]

BridgeDoesNotStart ==
    /\ bridge = "opening" /\ BridgeBecomes("over") /\ UNCHANGED <<sandbox, pump>>

PumpBecomes(p, state) ==
    /\ pump[p] = "runs" /\ pump' = [pump EXCEPT ![p] = state]
    /\ UNCHANGED <<conn, part, sftp, forward, bridge>>

\* Mutation: the end of the input is kept from the process.
AfterInputKept == sandbox.state

\* send_eof, which a PTY does not have.
AfterInput == IF sandbox.state = "live" /\ ~sandbox.pty THEN "fed" ELSE sandbox.state

\* The caller ends its input, or leaves in order.
InputEnds == PumpBecomes("input", "ended") /\ sandbox' = [sandbox EXCEPT !.state = AfterInput]

\* stdin.read raises more than _pump_channel_to_process handles, a signal of the caller or
\* the error its connection was lost with: no send_eof.
InputFails ==
    /\ bridge \in {"relays", "drains"} /\ PumpBecomes("input", "failed")
    /\ UNCHANGED sandbox

ErrorsEnd == (Exited \/ sandbox.pty) /\ PumpBecomes("stderr", "ended") /\ UNCHANGED sandbox

\* A write to a channel that is gone raises.
ErrorsFail ==
    conn = "lost" /\ ~sandbox.pty /\ PumpBecomes("stderr", "failed") /\ UNCHANGED sandbox

ProcessExits ==
    /\ sandbox.state \in {"live", "fed"} /\ sandbox' = [sandbox EXCEPT !.state = "exited"]
    /\ UNCHANGED <<conn, part, sftp, forward, bridge, pump>>

\* The end of the process's output.
OutputEnds == bridge = "relays" /\ Exited /\ BridgeBecomes("drains") /\ UNCHANGED <<sandbox, pump>>

\* The write of what the process says to a channel that is gone raises, or the library
\* cancels the coroutine of a connection that is lost.
RelayFails ==
    /\ bridge \in {"relays", "drains"} /\ conn = "lost"
    /\ BridgeBecomes("closes") /\ UNCHANGED <<sandbox, pump>>

AfterDrain == "closes"

\* await stderr_pump, wait and exit
Drained ==
    /\ bridge = "drains" /\ pump["stderr"] \in {"ended", "failed"}
    /\ BridgeBecomes(AfterDrain) /\ UNCHANGED <<sandbox, pump>>

\* Of the tasks awaited under finally, only a cancelled one is forgiven.
PumpFailed == \E p \in {"input", "stderr"} : pump[p] = "failed"

BridgeCloses ==
    /\ bridge = "closes" /\ BridgeBecomes("over")
    /\ pump' = [p \in {"input", "stderr"} |-> IF pump[p] = "runs" THEN "ended" ELSE pump[p]]
    /\ sandbox' = [sandbox EXCEPT !.state = IF PumpFailed THEN @ ELSE "reaped"]

-----------------------------------------------------------------------------
\* connection_lost: the backend's cleanup starts, the tunnel ends with its channels.
Lose ==
    /\ conn = "up" /\ conn' = "lost"
    /\ \/ part = "sftp" /\ BackendLosesConnection
       \/ part # "sftp" /\ UNCHANGED at
    /\ link' = [t \in Tunnel |-> IF EndsWithConnection(t) THEN "ended" ELSE link[t]]
    /\ UNCHANGED <<part, exec, stored, handler, inFlight, closed, chan, tunnel, forgot, shell>>

SftpStep == part = "sftp" /\ SftpNext /\ UNCHANGED <<part, forward, shell>>

ForwardStep ==
    \/ \E c \in Channel : Request(c)
    \/ \E t \in Tunnel : \/ TunnelOpensOrFails(t) \/ TunnelServesChannels(t)
                         \/ TunnelFailsChannels(t) \/ TunnelEnds(t)

BridgeStep == BridgeStarts \/ BridgeDoesNotStart \/ OutputEnds \/ RelayFails \/ Drained \/ BridgeCloses

PumpStep == InputEnds \/ InputFails \/ ErrorsEnd \/ ErrorsFail

Next == Lose \/ SftpStep \/ ForwardStep \/ BridgeOpens \/ BridgeStep \/ PumpStep \/ ProcessExits

Spec == Init /\ [][Next]_vars

\* Coroutines go on, a caller that is gone is noticed, and a process whose input has ended
\* ends; one that may read on need not.
FairSpec ==
    /\ Spec /\ SftpFairness
    /\ WF_vars(BridgeStarts \/ BridgeDoesNotStart) /\ WF_vars(OutputEnds) /\ WF_vars(Drained)
    /\ WF_vars(BridgeCloses)
    /\ WF_vars(conn = "lost" /\ (InputEnds \/ InputFails))
    /\ WF_vars(ErrorsEnd)
    /\ WF_vars(sandbox.state = "fed" /\ ProcessExits)

-----------------------------------------------------------------------------
\* "Every channel of this connection shares one tunnel into the sandbox"
\* (connection_requested): while channels come and tunnels fail there are never two, unless
\* one was forgotten.
OneTunnelUnlessForgotten == forgot \/ Cardinality(LiveTunnels) <= 1

\* "It closes when the caller disconnects" (docs/deploy.md), opening or open, unless it was
\* forgotten.
TunnelEndsUnlessForgotten == conn = "lost" /\ ~forgot => LiveTunnels = {}

\* One SFTP server for a connection, under none of its users and not after its end, however
\* operations, the idle closer and the cleanup take turns (SandboxSftpBackend).
SftpInv == TypeOK /\ OneServer /\ TimerOnlyWhenIdle /\ UserKeepsServer /\ CleanupIsFinal

\* The process of a session that is over has been ended and reaped, and its PTY closed,
\* however the session ended, unless a pump had failed.
BridgeReapsUnlessPumpFailed ==
    bridge = "over" /\ ~PumpFailed => sandbox.state \in {"none", "reaped"}

\* What a connection opened in a sandbox is shared while it lasts and gone after it
\* (GatewayConnection and _bridge), but for the two windows its parts name.
ConnectionInv ==
    OneTunnelUnlessForgotten /\ TunnelEndsUnlessForgotten /\ BridgeReapsUnlessPumpFailed

\* The session of a caller that is gone ends when its process reads from a pipe, unless
\* the input pump fails: nothing then tells the process, and the session of a caller whose
\* connection broke off (no end of input but an error) lasts until the process says
\* something or ends (_pump_channel_to_process and _bridge).
BridgeEnds ==
    conn = "lost" /\ bridge = "relays" /\ ~sandbox.pty
        ~> bridge = "over" \/ pump["input"] = "failed"

=============================================================================
