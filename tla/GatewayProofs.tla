--------------------------- MODULE GatewayProofs ---------------------------
(***************************************************************************)
(* The safety invariants of one caller's connection, for any number of     *)
(* operations, processes, channels and tunnels.                            *)
(*                                                                         *)
(* The SFTP server: every process that is not reaped is the stored one,    *)
(* because whoever starts one has found that none is stored and holds the  *)
(* lock until it is.  The count of operations bounds from above those that *)
(* use the server, so at zero nobody does, and the idle closer, which has  *)
(* the lock, may end it.                                                   *)
(*                                                                         *)
(* The tunnels: while none has been forgotten, a tunnel that lives is the  *)
(* stored one.  The session: its process lives only between the start of   *)
(* the bridge and the clean-up at its end.                                 *)
(***************************************************************************)
EXTENDS Gateway, FiniteSetTheorems, TLAPS

\* The operations between _acquire and _release.
InUse == {o \in Op : at[o] \in {"using", "release"}}

Opening == {"opening", "handshake", "undo"}

\* What each coroutine can be at.
Places ==
    /\ \A o \in Op : at[o] \in {"none", "acquire", "using", "release"} \cup Opening
    /\ at[Closer] \in {"none", "asleep", "wake", "teardown"}
    /\ at[Cleanup] \in {"none", "wake", "teardown", "done"}

\* The count is never below the number of users; a cancelled release leaves it above.
UsersAreCounted == IsFiniteSet(InUse) /\ Cardinality(InUse) <= inFlight

OneHolds == \A x, y \in Coroutine : at[x] \in Holding /\ at[y] \in Holding => x = y

ServerIsStored == \A e \in Exec : exec[e] # "none" => e = stored

\* Who opens has found neither a handler nor a process.
OpenerIsAlone ==
    \A o \in Op : at[o] \in Opening =>
        handler = NoExec /\ at[Closer] = "none" /\ (at[o] = "opening" => stored = NoExec)

\* A process without a handler is in its handshake, or was left by one that was cancelled,
\* and then nobody will open another.
HandlerOrHandshake ==
    handler = NoExec /\ stored # NoExec =>
        \/ \E o \in Op : at[o] \in {"handshake", "undo"}
        \/ conn = "lost" /\ \A o \in Op : at[o] \in {"none", "release", "undo"}

CloserFindsNobody == at[Closer] = "teardown" => inFlight = 0

CleanupCameLast ==
    /\ at[Cleanup] # "none" => conn = "lost"
    /\ closed <=> at[Cleanup] \in {"teardown", "done"}
    /\ closed => \A x \in Op \cup {Closer} : at[x] \notin Holding

LockInv == Places /\ OneHolds /\ CleanupCameLast

ServerInv == ServerIsStored /\ OpenerIsAlone /\ HandlerOrHandshake

CountInv == UsersAreCounted /\ TimerOnlyWhenIdle /\ CloserFindsNobody

BackendInv ==
    SftpTypeOK /\ LockInv /\ ServerInv /\ CountInv /\ UserKeepsServer /\ CleanupIsFinal

LiveIsStored == ~forgot => LiveTunnels \subseteq {tunnel}

NoProcessBefore == bridge \in {"none", "opening"} => sandbox.state = "none"

IInv ==
    /\ TypeOK /\ BackendInv
    /\ LiveIsStored /\ TunnelEndsUnlessForgotten
    /\ NoProcessBefore /\ BridgeReapsUnlessPumpFailed

-----------------------------------------------------------------------------
(* The count.                                                              *)

\* Before anything happens nobody uses the server (__init__).
LEMMA NobodyUses == InUse = {} /\ inFlight \in Nat => UsersAreCounted
  BY FS_EmptySet DEF UsersAreCounted

\* _acquire counts the operation that it lets in.
LEMMA UserJoins ==
    ASSUME SftpTypeOK, UsersAreCounted, NEW o \in Op \ InUse, InUse' = InUse \cup {o},
           inFlight' = inFlight + 1
    PROVE  /\ UsersAreCounted' /\ inFlight' \in Nat
           /\ inFlight = Cardinality(InUse) => inFlight' = Cardinality(InUse')
  <1>1. IsFiniteSet(InUse) /\ Cardinality(InUse) \in Nat /\ inFlight \in Nat
    BY FS_CardinalityType DEF UsersAreCounted, SftpTypeOK
  <1>2. IsFiniteSet(InUse') /\ Cardinality(InUse') = Cardinality(InUse) + 1
    BY <1>1, FS_AddElement
  <1>. QED  BY <1>1, <1>2 DEF UsersAreCounted

\* session, on the way out: the count falls by the one that leaves.
LEMMA UserLeaves ==
    ASSUME SftpTypeOK, UsersAreCounted, NEW o \in InUse, InUse' = InUse \ {o},
           inFlight' = inFlight - 1
    PROVE  /\ UsersAreCounted' /\ inFlight' \in Nat
           /\ inFlight = Cardinality(InUse) => inFlight' = Cardinality(InUse')
  <1>1. IsFiniteSet(InUse) /\ Cardinality(InUse) \in Nat /\ inFlight \in Nat
    BY FS_CardinalityType DEF UsersAreCounted, SftpTypeOK
  <1>2. IsFiniteSet(InUse') /\ Cardinality(InUse') = Cardinality(InUse) - 1
    BY <1>1, FS_RemoveElement
  <1>3. Cardinality(InUse') \in Nat
    BY <1>2, FS_CardinalityType
  <1>. QED  BY <1>1, <1>2, <1>3 DEF UsersAreCounted

\* While the count is right, zero means that nobody uses the server.
LEMMA ZeroIsNobody ==
    ASSUME UsersAreCounted, inFlight = 0
    PROVE  InUse = {}
  <1>1. IsFiniteSet(InUse) /\ Cardinality(InUse) \in Nat
    BY FS_CardinalityType DEF UsersAreCounted
  <1>2. Cardinality(InUse) = 0
    BY <1>1 DEF UsersAreCounted
  <1>. QED  BY <1>1, <1>2, FS_EmptySet

-----------------------------------------------------------------------------
(* The SFTP backend, step by step.                                         *)

\* An operation asks for the handler (GatewaySFTPServer).
LEMMA UseKeeps ==
    ASSUME BackendInv, NEW o \in Op, Use(o)
    PROVE  BackendInv'
  <1>. USE SftpAssumption DEF BackendInv
  <1>1. InUse' = InUse
    BY DEF InUse, Use, Goes
  <1>2. UsersAreCounted'
    BY <1>1 DEF UsersAreCounted, CountInv, Use
  <1>3. SftpTypeOK'
    BY <1>1 DEF SftpTypeOK, Coroutine, Use, Goes
  <1>4. LockInv'
    BY DEF Holding, Places, OneHolds, CleanupCameLast, LockInv, Use, Goes
  <1>5. ServerInv'
    BY DEF Opening, ServerIsStored, OpenerIsAlone, HandlerOrHandshake, ServerInv, Use, Goes
  <1>6. CountInv'
    BY <1>2 DEF TimerOnlyWhenIdle, CloserFindsNobody, CountInv, Use, Goes
  <1>7. UserKeepsServer' /\ CleanupIsFinal'
    BY DEF UserKeepsServer, CleanupIsFinal, Use, Goes
  <1>. QED  BY <1>3, <1>4, <1>5, <1>6, <1>7

\* The first operation starts the process (_acquire).
LEMMA AcquireOpens ==
    ASSUME BackendInv, NEW o \in Op, at[o] = "acquire", Free, ~closed, handler = NoExec,
           GoesAndCancels(o, "opening"),
           UNCHANGED <<conn, exec, stored, handler, inFlight, closed>>
    PROVE  BackendInv'
  <1>. USE SftpAssumption DEF BackendInv
  <1>1. InUse' = InUse
    BY DEF InUse, SftpTypeOK, Coroutine, GoesAndCancels
  <1>2. UsersAreCounted'
    BY <1>1 DEF UsersAreCounted, CountInv
  <1>3. SftpTypeOK'
    BY <1>1 DEF SftpTypeOK, Coroutine, Holding, GoesAndCancels
  <1>4. LockInv'
    BY DEF SftpTypeOK, Coroutine, Holding, Opening, Places, OneHolds, CleanupCameLast, LockInv,
       Free, GoesAndCancels
  <1>5. ServerInv'
    BY DEF SftpTypeOK, Coroutine, ServerIsStored, OpenerIsAlone, HandlerOrHandshake, ServerInv,
       Free, GoesAndCancels
  <1>6. CountInv'
    BY <1>2
    DEF SftpTypeOK, Coroutine, TimerOnlyWhenIdle, CloserFindsNobody, CountInv, GoesAndCancels
  <1>7. UserKeepsServer' /\ CleanupIsFinal'
    BY DEF SftpTypeOK, Coroutine, UserKeepsServer, CleanupIsFinal, GoesAndCancels
  <1>. QED  BY <1>3, <1>4, <1>5, <1>6, <1>7

\* A later one finds the handler (_acquire).
LEMMA AcquireJoins ==
    ASSUME BackendInv, NEW o \in Op, at[o] = "acquire", Free, ~closed, handler # NoExec,
           GoesAndCancels(o, "using"),
           inFlight' = inFlight + 1, UNCHANGED <<conn, exec, stored, handler, closed>>
    PROVE  BackendInv'
  <1>. USE SftpAssumption DEF BackendInv
  <1>1. o \in Op \ InUse /\ InUse' = InUse \cup {o} /\ inFlight' = inFlight + 1
    BY DEF SftpTypeOK, Coroutine, InUse, GoesAndCancels
  <1>2. /\ UsersAreCounted' /\ inFlight' \in Nat
        /\ inFlight = Cardinality(InUse) => inFlight' = Cardinality(InUse')
    BY <1>1, UserJoins DEF CountInv
  <1>3. SftpTypeOK'
    BY <1>1, <1>2 DEF SftpTypeOK, InUse, GoesAndCancels
  <1>4. LockInv'
    BY DEF SftpTypeOK, Coroutine, Holding, Places, OneHolds, CleanupCameLast, LockInv,
       GoesAndCancels
  <1>5. ServerInv'
    BY DEF SftpTypeOK, Coroutine, Opening, ServerIsStored, OpenerIsAlone, HandlerOrHandshake,
       ServerInv, GoesAndCancels
  <1>6. CountInv'
    BY <1>2
    DEF SftpTypeOK, Coroutine, TimerOnlyWhenIdle, CloserFindsNobody, CountInv, GoesAndCancels
  <1>7. UserKeepsServer' /\ CleanupIsFinal'
    BY DEF SftpTypeOK, Coroutine, UserKeepsServer, CleanupIsFinal, GoesAndCancels
  <1>. QED  BY <1>3, <1>4, <1>5, <1>6, <1>7

\* One after the cleanup is refused (_acquire).
LEMMA AcquireRefused ==
    ASSUME BackendInv, NEW o \in Op, at[o] = "acquire", Free, closed, Goes(o, "none"),
           UNCHANGED <<conn, exec, stored, handler, inFlight, closed>>
    PROVE  BackendInv'
  <1>. USE SftpAssumption DEF BackendInv
  <1>1. InUse' = InUse
    BY DEF InUse, Goes
  <1>2. UsersAreCounted'
    BY <1>1 DEF UsersAreCounted, CountInv
  <1>3. SftpTypeOK'
    BY <1>1 DEF SftpTypeOK, Coroutine, Goes
  <1>4. LockInv'
    BY DEF Holding, Places, OneHolds, CleanupCameLast, LockInv, Goes
  <1>5. ServerInv'
    BY DEF Opening, ServerIsStored, OpenerIsAlone, HandlerOrHandshake, ServerInv, Goes
  <1>6. CountInv'
    BY <1>2 DEF TimerOnlyWhenIdle, CloserFindsNobody, CountInv, Goes
  <1>7. UserKeepsServer' /\ CleanupIsFinal'
    BY DEF UserKeepsServer, CleanupIsFinal, Goes
  <1>. QED  BY <1>3, <1>4, <1>5, <1>6, <1>7

\* The process is stored as it starts (_open).
LEMMA ExecStartsKeeps ==
    ASSUME BackendInv, NEW o \in Op, ExecStarts(o)
    PROVE  BackendInv'
  <1>. USE SftpAssumption DEF BackendInv
  <1>1. InUse' = InUse
    BY DEF InUse, ExecStarts, Goes
  <1>2. UsersAreCounted'
    BY <1>1 DEF UsersAreCounted, CountInv, ExecStarts
  <1>3. SftpTypeOK'
    BY <1>1 DEF SftpTypeOK, Holding, InUse, LockInv, Places, OpenerIsAlone, ServerInv, 
              ExecStarts, StoredAtOnce, Goes
  <1>4. LockInv'
    BY DEF Holding, Opening, Places, OneHolds, CleanupCameLast, LockInv, ExecStarts, Goes
  <1>5. ServerInv'
    BY DEF SftpTypeOK, Coroutine, Places, OneHolds, LockInv, ServerIsStored, OpenerIsAlone,
       HandlerOrHandshake, ServerInv, ExecStarts, StoredAtOnce, Goes
  <1>6. CountInv'
    BY <1>2 DEF TimerOnlyWhenIdle, CloserFindsNobody, CountInv, ExecStarts, Goes
  <1>7. UserKeepsServer' /\ CleanupIsFinal'
    BY DEF Holding, CleanupCameLast, LockInv, UserKeepsServer, CleanupIsFinal, ExecStarts, Goes
  <1>. QED  BY <1>3, <1>4, <1>5, <1>6, <1>7

\* It does not start (_open).
LEMMA ExecDoesNotStartKeeps ==
    ASSUME BackendInv, NEW o \in Op, ExecDoesNotStart(o)
    PROVE  BackendInv'
  <1>. USE SftpAssumption DEF BackendInv
  <1>1. InUse' = InUse
    BY DEF InUse, ExecDoesNotStart, Goes
  <1>2. UsersAreCounted'
    BY <1>1 DEF UsersAreCounted, CountInv, ExecDoesNotStart
  <1>3. SftpTypeOK'
    BY <1>1 DEF SftpTypeOK, Coroutine, ExecDoesNotStart, Goes
  <1>4. LockInv'
    BY DEF Holding, Places, OneHolds, CleanupCameLast, LockInv, ExecDoesNotStart, Goes
  <1>5. ServerInv'
    BY DEF Places, LockInv, ServerIsStored, OpenerIsAlone, HandlerOrHandshake, ServerInv,
       ExecDoesNotStart, Goes
  <1>6. CountInv'
    BY <1>2 DEF TimerOnlyWhenIdle, CloserFindsNobody, CountInv, ExecDoesNotStart, Goes
  <1>7. UserKeepsServer' /\ CleanupIsFinal'
    BY DEF UserKeepsServer, CleanupIsFinal, ExecDoesNotStart, Goes
  <1>. QED  BY <1>3, <1>4, <1>5, <1>6, <1>7

\* The handshake makes the handler (_open).
LEMMA HandshakeKeeps ==
    ASSUME BackendInv, NEW o \in Op, Handshake(o)
    PROVE  BackendInv'
  <1>. USE SftpAssumption DEF BackendInv
  <1>1. o \in Op \ InUse /\ InUse' = InUse \cup {o} /\ inFlight' = inFlight + 1
    BY DEF SftpTypeOK, Coroutine, InUse, Handshake, Counted, Goes
  <1>2. /\ UsersAreCounted' /\ inFlight' \in Nat
        /\ inFlight = Cardinality(InUse) => inFlight' = Cardinality(InUse')
    BY <1>1, UserJoins DEF CountInv
  <1>3. SftpTypeOK'
    BY <1>1, <1>2 DEF SftpTypeOK, InUse, Handshake, Goes
  <1>4. LockInv'
    BY DEF Holding, Places, OneHolds, CleanupCameLast, LockInv, Handshake, Goes
  <1>5. ServerInv'
    BY DEF SftpTypeOK, Coroutine, Opening, OneHolds, LockInv, ServerIsStored, OpenerIsAlone,
       HandlerOrHandshake, ServerInv, Handshake, Goes
  <1>6. CountInv'
    BY <1>2
    DEF Opening, OpenerIsAlone, ServerInv, TimerOnlyWhenIdle, CloserFindsNobody, CountInv,
        Handshake, Goes
  <1>7. UserKeepsServer' /\ CleanupIsFinal'
    BY DEF UserKeepsServer, CleanupIsFinal, Handshake, Live, Goes
  <1>. QED  BY <1>3, <1>4, <1>5, <1>6, <1>7

\* It fails (_open).
LEMMA HandshakeFailsKeeps ==
    ASSUME BackendInv, NEW o \in Op, HandshakeFails(o)
    PROVE  BackendInv'
  <1>. USE SftpAssumption DEF BackendInv
  <1>1. InUse' = InUse
    BY DEF InUse, HandshakeFails, Goes
  <1>2. UsersAreCounted'
    BY <1>1 DEF UsersAreCounted, CountInv, HandshakeFails
  <1>3. SftpTypeOK'
    BY <1>1 DEF SftpTypeOK, Coroutine, Holding, HandshakeFails, Goes
  <1>4. LockInv'
    BY DEF Holding, Opening, Places, OneHolds, CleanupCameLast, LockInv, HandshakeFails, Goes
  <1>5. ServerInv'
    BY DEF Places, LockInv, ServerIsStored, OpenerIsAlone, HandlerOrHandshake, ServerInv,
       HandshakeFails, Goes
  <1>6. CountInv'
    BY <1>2 DEF TimerOnlyWhenIdle, CloserFindsNobody, CountInv, HandshakeFails, Goes
  <1>7. UserKeepsServer' /\ CleanupIsFinal'
    BY DEF UserKeepsServer, CleanupIsFinal, HandshakeFails, Goes
  <1>. QED  BY <1>3, <1>4, <1>5, <1>6, <1>7

\* The sandbox has answered (session).
LEMMA FinishKeeps ==
    ASSUME BackendInv, NEW o \in Op, Finish(o)
    PROVE  BackendInv'
  <1>. USE SftpAssumption DEF BackendInv
  <1>1. InUse' = InUse
    BY DEF InUse, Finish, Goes
  <1>2. UsersAreCounted'
    BY <1>1 DEF UsersAreCounted, CountInv, Finish
  <1>3. SftpTypeOK'
    BY <1>1 DEF SftpTypeOK, Coroutine, Finish, Goes
  <1>4. LockInv'
    BY DEF Holding, Places, OneHolds, CleanupCameLast, LockInv, Finish, Goes
  <1>5. ServerInv'
    BY DEF Opening, ServerIsStored, OpenerIsAlone, HandlerOrHandshake, ServerInv, Finish, Goes
  <1>6. CountInv'
    BY <1>2 DEF TimerOnlyWhenIdle, CloserFindsNobody, CountInv, Finish, Goes
  <1>7. UserKeepsServer' /\ CleanupIsFinal'
    BY DEF UserKeepsServer, CleanupIsFinal, Finish, Goes
  <1>. QED  BY <1>3, <1>4, <1>5, <1>6, <1>7

\* The last one out starts the timer (_release).
LEMMA ReleaseKeeps ==
    ASSUME BackendInv, NEW o \in Op, Release(o)
    PROVE  BackendInv'
  <1>. USE SftpAssumption DEF BackendInv
  <1>1. o \in InUse /\ InUse' = InUse \ {o} /\ inFlight' = inFlight - 1
    BY DEF SftpTypeOK, Coroutine, InUse, Release
  <1>2. /\ UsersAreCounted' /\ inFlight' \in Nat
        /\ inFlight = Cardinality(InUse) => inFlight' = Cardinality(InUse')
    BY <1>1, UserLeaves DEF CountInv
  <1>3. SftpTypeOK'
    BY <1>1, <1>2 DEF SftpTypeOK, InUse, Release
  <1>4. LockInv'
    BY DEF SftpTypeOK, Coroutine, Holding, Places, OneHolds, CleanupCameLast, LockInv, Release
  <1>5. ServerInv'
    BY DEF SftpTypeOK, Coroutine, Opening, ServerIsStored, OpenerIsAlone, HandlerOrHandshake,
       ServerInv, Release, Free
  <1>6. CountInv'
    BY <1>2
    DEF SftpTypeOK, Coroutine, TimerOnlyWhenIdle, CloserFindsNobody, CountInv, Release, LastOut
  <1>7. UserKeepsServer' /\ CleanupIsFinal'
    BY DEF SftpTypeOK, Coroutine, UserKeepsServer, CleanupIsFinal, Release
  <1>. QED  BY <1>3, <1>4, <1>5, <1>6, <1>7

\* An opening that failed has taken its process down (_teardown).
LEMMA UndoKeeps ==
    ASSUME BackendInv, NEW o \in Op, TornDown(o)
    PROVE  BackendInv'
  <1>. USE SftpAssumption DEF BackendInv
  <1>1. InUse' = InUse
    BY DEF InUse, TornDown, Goes
  <1>2. UsersAreCounted'
    BY <1>1 DEF UsersAreCounted, CountInv, TornDown
  <1>3. SftpTypeOK'
    BY <1>1 DEF SftpTypeOK, Coroutine, TornDown, Goes
  <1>4. LockInv'
    BY DEF Holding, Places, OneHolds, CleanupCameLast, LockInv, TornDown, Goes
  <1>5. ServerInv'
    BY DEF Places, LockInv, ServerIsStored, OpenerIsAlone, HandlerOrHandshake, ServerInv,
       TornDown, Goes
  <1>6. CountInv'
    BY <1>2 DEF TimerOnlyWhenIdle, CloserFindsNobody, CountInv, TornDown, Goes
  <1>7. UserKeepsServer' /\ CleanupIsFinal'
    BY DEF Places, LockInv, OpenerIsAlone, ServerInv, UserKeepsServer, CleanupIsFinal, TornDown,
       Goes
  <1>. QED  BY <1>3, <1>4, <1>5, <1>6, <1>7

\* The idle time is over (_close_when_idle).
LEMMA CloserWakesKeeps ==
    ASSUME BackendInv, CloserWakes
    PROVE  BackendInv'
  <1>. USE SftpAssumption DEF BackendInv
  <1>1. InUse' = InUse
    BY DEF InUse, CloserWakes, Goes
  <1>2. UsersAreCounted'
    BY <1>1 DEF UsersAreCounted, CountInv, CloserWakes
  <1>3. SftpTypeOK'
    BY <1>1 DEF SftpTypeOK, Coroutine, CloserWakes, Goes
  <1>4. LockInv'
    BY DEF Holding, Places, OneHolds, CleanupCameLast, LockInv, CloserWakes, Goes
  <1>5. ServerInv'
    BY DEF ServerIsStored, OpenerIsAlone, HandlerOrHandshake, ServerInv, CloserWakes, Goes
  <1>6. CountInv'
    BY <1>2 DEF TimerOnlyWhenIdle, CloserFindsNobody, CountInv, CloserWakes, Goes
  <1>7. UserKeepsServer' /\ CleanupIsFinal'
    BY DEF UserKeepsServer, CleanupIsFinal, CloserWakes, Goes
  <1>. QED  BY <1>3, <1>4, <1>5, <1>6, <1>7

\* The idle closer has the lock and looks at the count again.
LEMMA CloserClosesKeeps ==
    ASSUME BackendInv, CloserCloses
    PROVE  BackendInv'
  <1>. USE SftpAssumption DEF BackendInv
  <1>1. InUse' = InUse
    BY DEF InUse, CloserCloses, Goes
  <1>2. UsersAreCounted'
    BY <1>1 DEF UsersAreCounted, CountInv, CloserCloses
  <1>3. SftpTypeOK'
    BY <1>1 DEF SftpTypeOK, Coroutine, Holding, CloserCloses, Goes
  <1>4. LockInv'
    BY DEF Holding, Places, OneHolds, CleanupCameLast, LockInv, CloserCloses, Free, Goes
  <1>5. ServerInv'
    BY DEF ServerIsStored, OpenerIsAlone, HandlerOrHandshake, ServerInv, CloserCloses, Goes
  <1>6. CountInv'
    BY <1>2 DEF TimerOnlyWhenIdle, CloserFindsNobody, CountInv, CloserCloses, Goes
  <1>7. UserKeepsServer' /\ CleanupIsFinal'
    BY DEF UserKeepsServer, CleanupIsFinal, CloserCloses, Goes
  <1>. QED  BY <1>3, <1>4, <1>5, <1>6, <1>7

\* The idle closer has taken the process down (_teardown).
LEMMA CloserTearsDown ==
    ASSUME BackendInv, TornDown(Closer)
    PROVE  BackendInv'
  <1>. USE SftpAssumption DEF BackendInv
  <1>1. InUse' = InUse
    BY DEF InUse, TornDown, Goes
  <1>2. UsersAreCounted'
    BY <1>1 DEF UsersAreCounted, CountInv, TornDown
  <1>3. SftpTypeOK'
    BY <1>1 DEF SftpTypeOK, Coroutine, TornDown, Goes
  <1>4. LockInv'
    BY DEF Holding, Places, OneHolds, CleanupCameLast, LockInv, TornDown, Goes
  <1>5. ServerInv'
    BY DEF ServerIsStored, OpenerIsAlone, HandlerOrHandshake, ServerInv, TornDown, Goes
  <1>6. CountInv'
    BY <1>2 DEF TimerOnlyWhenIdle, CloserFindsNobody, CountInv, TornDown, Goes
  <1>7. InUse = {}
    BY ZeroIsNobody DEF CountInv, CloserFindsNobody, TornDown, LockInv, Places
  <1>8. UserKeepsServer' /\ CleanupIsFinal'
    BY <1>1, <1>7 DEF InUse, UserKeepsServer, 
                      CleanupIsFinal, TornDown, Goes
  <1>. QED  BY <1>3, <1>4, <1>5, <1>6, <1>8

\* The cleanup closes the backend (aclose).
LEMMA CleanupClosesKeeps ==
    ASSUME BackendInv, CleanupCloses
    PROVE  BackendInv'
  <1>. USE SftpAssumption DEF BackendInv
  <1>1. InUse' = InUse
    BY DEF InUse, SftpTypeOK, Coroutine, CleanupCloses, GoesAndCancels
  <1>2. UsersAreCounted'
    BY <1>1 DEF UsersAreCounted, CountInv, CleanupCloses
  <1>3. SftpTypeOK'
    BY <1>1 DEF SftpTypeOK, Coroutine, Holding, CleanupCloses, Closed, GoesAndCancels
  <1>4. LockInv'
    BY DEF SftpTypeOK, Coroutine, Holding, Places, OneHolds, CleanupCameLast, LockInv,
       CleanupCloses, Closed, Free, GoesAndCancels
  <1>5. ServerInv'
    BY DEF SftpTypeOK, Coroutine, ServerIsStored, OpenerIsAlone, HandlerOrHandshake, ServerInv,
       CleanupCloses, GoesAndCancels
  <1>6. CountInv'
    BY <1>2
    DEF SftpTypeOK, Coroutine, TimerOnlyWhenIdle, CloserFindsNobody, CountInv, CleanupCloses,
        GoesAndCancels
  <1>7. UserKeepsServer' /\ CleanupIsFinal'
    BY DEF SftpTypeOK, Coroutine, UserKeepsServer, CleanupIsFinal, CleanupCloses, Closed,
       GoesAndCancels
  <1>. QED  BY <1>3, <1>4, <1>5, <1>6, <1>7

\* The cleanup has taken the process down (aclose).
LEMMA CleanupTearsDown ==
    ASSUME BackendInv, TornDown(Cleanup)
    PROVE  BackendInv'
  <1>. USE SftpAssumption DEF BackendInv
  <1>1. InUse' = InUse
    BY DEF InUse, TornDown, Goes
  <1>2. UsersAreCounted'
    BY <1>1 DEF UsersAreCounted, CountInv, TornDown
  <1>3. SftpTypeOK'
    BY <1>1 DEF SftpTypeOK, Coroutine, TornDown, Goes
  <1>4. LockInv'
    BY DEF Holding, Places, OneHolds, CleanupCameLast, LockInv, TornDown, Goes
  <1>5. ServerInv'
    BY DEF ServerIsStored, OpenerIsAlone, HandlerOrHandshake, ServerInv, TornDown, Goes
  <1>6. CountInv'
    BY <1>2 DEF TimerOnlyWhenIdle, CloserFindsNobody, CountInv, TornDown, Goes
  <1>7. UserKeepsServer' /\ CleanupIsFinal'
    BY DEF Places, CleanupCameLast, LockInv, ServerIsStored, ServerInv, UserKeepsServer,
       CleanupIsFinal, TornDown
  <1>. QED  BY <1>3, <1>4, <1>5, <1>6, <1>7

\* A process dies and is not reaped (SbxExecProcess).
LEMMA ExecDiesKeeps ==
    ASSUME BackendInv, NEW e \in Exec, ExecDies(e)
    PROVE  BackendInv'
  <1>. USE SftpAssumption DEF BackendInv
  <1>1. InUse' = InUse
    BY DEF InUse, ExecDies
  <1>2. UsersAreCounted'
    BY <1>1 DEF UsersAreCounted, CountInv, ExecDies
  <1>3. SftpTypeOK'
    BY <1>1 DEF SftpTypeOK, ExecDies
  <1>4. LockInv'
    BY DEF Places, OneHolds, CleanupCameLast, LockInv, ExecDies
  <1>5. ServerInv'
    BY DEF ServerIsStored, OpenerIsAlone, HandlerOrHandshake, ServerInv, ExecDies, Live
  <1>6. CountInv'
    BY <1>2 DEF TimerOnlyWhenIdle, CloserFindsNobody, CountInv, ExecDies
  <1>7. UserKeepsServer' /\ CleanupIsFinal'
    BY DEF UserKeepsServer, CleanupIsFinal, ExecDies, Live
  <1>. QED  BY <1>3, <1>4, <1>5, <1>6, <1>7

\* The connection is lost: operations are cancelled or not, none of them begins to hold the
\* lock, and the count stays (connection_lost).
LEMMA LoseKeepsBackend ==
    ASSUME BackendInv, conn = "up", conn' = "lost", BackendLosesConnection \/ UNCHANGED at,
           UNCHANGED <<exec, stored, handler, inFlight, closed>>
    PROVE  BackendInv'
  <1>. USE SftpAssumption DEF BackendInv
  <1>1. /\ at' \in [Coroutine -> Holding \cup {"none", "acquire", "using", "release", "asleep",
                                               "wake", "done"}]
        /\ at'[Closer] = at[Closer] /\ at'[Cleanup] \in {"none", "wake"}
        /\ at[Cleanup] = "none" /\ ~closed
        /\ \A o \in Op : /\ at'[o] \in {"none", "release", "undo", at[o]}
                         /\ at'[o] = "release" => at[o] \in {"using", "release"}
                         /\ at'[o] = "undo" => at[o] = "undo"
        /\ (\A o \in Op : at'[o] \in {"none", "release", "undo"}) \/ \A o \in Op : at'[o] = at[o]
    <2>1. at[Cleanup] = "none" /\ ~closed
      BY DEF LockInv, Places, CleanupCameLast
    <2>2. CASE UNCHANGED at
      BY <2>1, <2>2 DEF SftpTypeOK
    <2>3. CASE BackendLosesConnection
      <3>1. PICK cancels \in BOOLEAN :
              at' = [x \in Coroutine |->
                       IF x = Cleanup THEN "wake"
                       ELSE IF x \in Op /\ cancels
                       THEN CASE at[x] = "using" -> "release"
                              [] at[x] = "undo" -> "undo"
                              [] OTHER -> "none"
                       ELSE at[x]]
        BY <2>3 DEF BackendLosesConnection
      <3>2. /\ at'[Closer] = at[Closer] /\ at'[Cleanup] = "wake"
            /\ \A o \in Op :
                  at'[o] = IF cancels
                           THEN IF at[o] = "using" THEN "release"
                                ELSE IF at[o] = "undo" THEN "undo" ELSE "none"
                           ELSE at[o]
        BY <3>1 DEF Coroutine
      <3>3. \A x \in Coroutine : at'[x] \in Holding \cup {"none", "acquire", "using", "release",
                                                          "asleep", "wake", "done"}
        BY <3>2 DEF Coroutine, SftpTypeOK, Holding
      <3>. QED  BY <2>1, <3>1, <3>2, <3>3
    <2>. QED  BY <2>2, <2>3
  <1>2. UsersAreCounted'
    <2>1. InUse' \in SUBSET InUse
      BY <1>1 DEF InUse, Places, LockInv, Opening
    <2>2. /\ IsFiniteSet(InUse') /\ Cardinality(InUse') <= Cardinality(InUse)
          /\ Cardinality(InUse) \in Nat /\ Cardinality(InUse') \in Nat
      BY <2>1, FS_Subset, FS_CardinalityType DEF CountInv, UsersAreCounted
    <2>. QED  BY <2>2 DEF CountInv, UsersAreCounted, SftpTypeOK
  <1>3. SftpTypeOK'
    BY <1>1 DEF SftpTypeOK
  <1>4. LockInv'
    BY <1>1 DEF Coroutine, Holding, Opening, Places, OneHolds, CleanupCameLast, LockInv
  <1>5. ServerInv'
    BY <1>1 DEF Opening, ServerIsStored, OpenerIsAlone, HandlerOrHandshake, ServerInv
  <1>6. CountInv'
    BY <1>1, <1>2 DEF TimerOnlyWhenIdle, CloserFindsNobody, CountInv
  <1>7. UserKeepsServer' /\ CleanupIsFinal'
    BY <1>1 DEF UserKeepsServer, CleanupIsFinal
  <1>. QED  BY <1>3, <1>4, <1>5, <1>6, <1>7

\* What leaves the backend alone (the two other parts).
LEMMA BackendRests ==
    ASSUME BackendInv, UNCHANGED <<conn, sftp>>
    PROVE  BackendInv'
  <1>1. InUse' = InUse
    BY DEF InUse, sftp
  <1>2. SftpTypeOK' /\ UsersAreCounted'
    BY <1>1 DEF BackendInv, CountInv, UsersAreCounted, SftpTypeOK, InUse, sftp
  <1>3. LockInv'
    BY DEF BackendInv, LockInv, Places, OneHolds, CleanupCameLast, sftp
  <1>4. /\ ServerInv' /\ TimerOnlyWhenIdle' /\ CloserFindsNobody'
        /\ UserKeepsServer' /\ CleanupIsFinal'
    BY DEF BackendInv, ServerInv, ServerIsStored, OpenerIsAlone, HandlerOrHandshake, CountInv,
           TimerOnlyWhenIdle, CloserFindsNobody, UserKeepsServer, CleanupIsFinal, sftp
  <1>. QED  BY <1>2, <1>3, <1>4 DEF BackendInv, CountInv

\* Any step of the backend (SandboxSftpBackend).
LEMMA SftpStepKeeps ==
    ASSUME BackendInv, SftpNext
    PROVE  BackendInv' /\ UNCHANGED conn
  <1>1. ASSUME NEW o \in Op, Acquire(o)
        PROVE  BackendInv' /\ UNCHANGED conn
    <2>1. CASE closed /\ Goes(o, "none") /\ UNCHANGED inFlight
      BY <1>1, <2>1, AcquireRefused DEF Acquire
    <2>2. CASE ~closed /\ handler = NoExec /\ GoesAndCancels(o, "opening") /\ UNCHANGED inFlight
      BY <1>1, <2>2, AcquireOpens DEF Acquire
    <2>3. CASE ~closed /\ handler # NoExec /\ GoesAndCancels(o,
    "using") /\ inFlight' = inFlight + 1
      BY <1>1, <2>3, AcquireJoins DEF Acquire
    <2>. QED  BY <1>1, <2>1, <2>2, <2>3 DEF Acquire
  <1>2. ASSUME NEW o \in Op, Use(o) \/ OpStep(o)
        PROVE  BackendInv' /\ UNCHANGED conn
    <2>1. CASE Use(o)
      BY <2>1, UseKeeps DEF Use
    <2>2. CASE ExecStarts(o)
      BY <2>2, ExecStartsKeeps DEF ExecStarts
    <2>3. CASE ExecDoesNotStart(o)
      BY <2>3, ExecDoesNotStartKeeps DEF ExecDoesNotStart
    <2>4. CASE Handshake(o)
      BY <2>4, HandshakeKeeps DEF Handshake
    <2>5. CASE HandshakeFails(o)
      BY <2>5, HandshakeFailsKeeps DEF HandshakeFails
    <2>6. CASE Finish(o)
      BY <2>6, FinishKeeps DEF Finish
    <2>7. CASE Release(o)
      BY <2>7, ReleaseKeeps DEF Release
    <2>8. CASE TornDown(o)
      BY <2>8, UndoKeeps DEF TornDown
    <2>. QED  BY <1>1, <1>2, <2>1, <2>2, <2>3, <2>4, <2>5, <2>6, <2>7, <2>8 DEF OpStep
  <1>3. CASE CloserStep
    BY <1>3, CloserWakesKeeps, CloserClosesKeeps, CloserTearsDown
       DEF CloserStep, CloserWakes, CloserCloses, TornDown
  <1>4. CASE CleanupStep
    BY <1>4, CleanupClosesKeeps, CleanupTearsDown DEF CleanupStep, CleanupCloses, TornDown
  <1>5. ASSUME NEW e \in Exec, ExecDies(e)
        PROVE  BackendInv' /\ UNCHANGED conn
    BY <1>5, ExecDiesKeeps DEF ExecDies
  <1>. QED  BY <1>2, <1>3, <1>4, <1>5 DEF SftpNext

-----------------------------------------------------------------------------
(* The tunnels and the session.                                            *)

\* The rest of the state's types.
GatewayTypeOK ==
    /\ part \in {"sftp", "forward", "shell"}
    /\ chan \in [Channel -> {"new", "refused", "open"} \cup Tunnel]
    /\ tunnel \in Tunnel \cup {NoTunnel}
    /\ link \in [Tunnel -> {"none", "opening", "open", "failed", "ended"}]
    /\ forgot \in BOOLEAN
    /\ bridge \in {"none", "opening", "relays", "drains", "closes", "over"}
    /\ sandbox \in [pty : BOOLEAN, state : {"none", "live", "fed", "exited", "reaped"}]
    /\ pump \in [{"input", "stderr"} -> {"none", "runs", "ended", "failed"}]
    /\ bridge \in {"none", "opening"} <=> pump["input"] = "none" /\ bridge # "over"

LEMMA TypeOKParts == TypeOK <=> SftpTypeOK /\ GatewayTypeOK
  BY DEF TypeOK, GatewayTypeOK

ForwardInv == LiveIsStored /\ TunnelEndsUnlessForgotten

ShellInv == NoProcessBefore /\ BridgeReapsUnlessPumpFailed

\* A channel asks for the tunnel and may start it (connection_requested).
LEMMA RequestKeeps ==
    ASSUME GatewayTypeOK, ForwardInv, NEW c \in Channel, Request(c)
    PROVE  GatewayTypeOK' /\ ForwardInv'
  <1>. USE TunnelAssumption DEF Shared
  <1>1. GatewayTypeOK'
    BY DEF GatewayTypeOK, Request, shell
  <1>2. ForwardInv'
    BY DEF GatewayTypeOK, Request, ForwardInv, LiveIsStored, TunnelEndsUnlessForgotten,
       LiveTunnels
  <1>. QED  BY <1>1, <1>2

\* The tunnel opens or does not, serves those who waited, ends (open_gateway_tunnel).
LEMMA TunnelKeeps ==
    ASSUME GatewayTypeOK, ForwardInv, NEW t \in Tunnel,
           TunnelOpensOrFails(t) \/ TunnelServesChannels(t) \/ TunnelEnds(t)
    PROVE  GatewayTypeOK' /\ ForwardInv'
  <1>1. CASE TunnelOpensOrFails(t)
    <2>1. PICK outcome \in {"open", "failed"} : link' = [link EXCEPT ![t] = outcome]
      BY <1>1 DEF TunnelOpensOrFails
    <2>. QED
      BY <1>1, <2>1 DEF TunnelOpensOrFails, GatewayTypeOK, ForwardInv, LiveIsStored,
                        TunnelEndsUnlessForgotten, LiveTunnels, shell
  <1>2. CASE TunnelServesChannels(t)
    BY <1>2 DEF TunnelServesChannels, GatewayTypeOK, ForwardInv, LiveIsStored,
                TunnelEndsUnlessForgotten, LiveTunnels, shell
  <1>3. CASE TunnelEnds(t)
    BY <1>3 DEF TunnelEnds, GatewayTypeOK, ForwardInv, LiveIsStored,
                TunnelEndsUnlessForgotten, LiveTunnels, shell
  <1>. QED  BY <1>1, <1>2, <1>3

\* Those who waited for a tunnel that failed unset the stored one: if that was another one,
\* it is forgotten (connection_requested).
LEMMA TunnelFailsKeeps ==
    ASSUME GatewayTypeOK, ForwardInv, NEW t \in Tunnel, TunnelFailsChannels(t)
    PROVE  GatewayTypeOK' /\ ForwardInv'
  <1>. USE TunnelAssumption
  <1>1. GatewayTypeOK'
    BY DEF GatewayTypeOK, TunnelFailsChannels, shell
  <1>2. LiveTunnels' = LiveTunnels /\ t \notin LiveTunnels /\ UNCHANGED conn
    BY DEF TunnelFailsChannels, LiveTunnels
  <1>3. ~forgot' => LiveTunnels = {}
    <2>1. forgot' <=> forgot \/ tunnel \notin {t, NoTunnel}
      BY Zenon DEF TunnelFailsChannels
    <2>2. LiveTunnels \subseteq Tunnel
      BY DEF LiveTunnels
    <2>3. ~forgot => LiveTunnels \subseteq {tunnel}
      BY DEF ForwardInv, LiveIsStored
    <2>. QED  BY <1>2, <2>1, <2>2, <2>3
  <1>4. ForwardInv'
    BY <1>2, <1>3 DEF ForwardInv, LiveIsStored, TunnelEndsUnlessForgotten
  <1>. QED  BY <1>1, <1>4

\* The stored tunnel ends with the connection (connection_lost).
LEMMA LoseKeepsTunnels ==
    ASSUME GatewayTypeOK, ForwardInv, Lose
    PROVE  GatewayTypeOK' /\ ForwardInv'
  <1>1. GatewayTypeOK'
    BY DEF GatewayTypeOK, Lose, shell
  <1>2. ForwardInv'
    BY DEF GatewayTypeOK, Lose, EndsWithConnection, ForwardInv, LiveIsStored,
           TunnelEndsUnlessForgotten, LiveTunnels
  <1>. QED  BY <1>1, <1>2

\* The coroutine of _bridge, from its start to its clean-up.
LEMMA BridgeKeeps ==
    ASSUME GatewayTypeOK, ShellInv, BridgeOpens \/ BridgeStep
    PROVE  GatewayTypeOK' /\ ShellInv' /\ UNCHANGED <<conn, sftp, forward>>
  <1>. USE DEF GatewayTypeOK, ShellInv, NoProcessBefore, BridgeReapsUnlessPumpFailed, PumpFailed,
               BridgeBecomes, forward
  <1>1. CASE BridgeOpens
    BY <1>1 DEF BridgeOpens
  <1>2. CASE BridgeStarts
    BY <1>2 DEF BridgeStarts
  <1>3. CASE BridgeDoesNotStart
    BY <1>3 DEF BridgeDoesNotStart
  <1>4. CASE OutputEnds
    BY <1>4 DEF OutputEnds
  <1>5. CASE RelayFails
    BY <1>5 DEF RelayFails
  <1>6. CASE Drained
    BY <1>6 DEF Drained, AfterDrain
  <1>7. CASE BridgeCloses
    BY <1>7 DEF BridgeCloses
  <1>. QED  BY <1>1, <1>2, <1>3, <1>4, <1>5, <1>6, <1>7 DEF BridgeStep

\* The two pumps and the process (_pump_channel_to_process, SbxExecProcess).
LEMMA PumpKeeps ==
    ASSUME GatewayTypeOK, ShellInv, PumpStep \/ ProcessExits
    PROVE  GatewayTypeOK' /\ ShellInv' /\ UNCHANGED <<conn, sftp, forward>>
  <1>. USE DEF GatewayTypeOK, ShellInv, NoProcessBefore, BridgeReapsUnlessPumpFailed, PumpFailed,
               PumpBecomes, forward
  <1>1. CASE InputEnds
    BY <1>1 DEF InputEnds, AfterInput
  <1>2. CASE InputFails
    BY <1>2 DEF InputFails
  <1>3. CASE ErrorsEnd
    BY <1>3 DEF ErrorsEnd
  <1>4. CASE ErrorsFail
    BY <1>4 DEF ErrorsFail
  <1>5. CASE ProcessExits
    BY <1>5 DEF ProcessExits
  <1>. QED  BY <1>1, <1>2, <1>3, <1>4, <1>5 DEF PumpStep

-----------------------------------------------------------------------------
LEMMA InitIInv == Init => IInv
  <1>. SUFFICES ASSUME Init
                PROVE  IInv
    OBVIOUS
  <1>. USE SftpAssumption, TunnelAssumption DEF Init, SftpInit
  <1>1. InUse = {} /\ UsersAreCounted
    BY NobodyUses DEF InUse, Coroutine
  <1>2. SftpTypeOK
    BY <1>1, FS_EmptySet DEF SftpTypeOK, InUse, Holding
  <1>3. PICK pty \in BOOLEAN : sandbox = [pty |-> pty, state |-> "none"]
    OBVIOUS
  <1>4. GatewayTypeOK
    BY <1>3 DEF GatewayTypeOK
  <1>5. LockInv /\ ServerInv
    BY DEF LockInv, Places, OneHolds, CleanupCameLast, Coroutine, Holding, ServerInv,
           ServerIsStored, OpenerIsAlone, HandlerOrHandshake, Opening
  <1>6. CountInv /\ UserKeepsServer /\ CleanupIsFinal
    BY <1>1 DEF CountInv, TimerOnlyWhenIdle, CloserFindsNobody, UserKeepsServer, CleanupIsFinal,
                Coroutine
  <1>7. ForwardInv /\ ShellInv
    BY DEF ForwardInv, LiveIsStored, LiveTunnels, TunnelEndsUnlessForgotten, ShellInv,
           NoProcessBefore, BridgeReapsUnlessPumpFailed
  <1>. QED
    BY <1>2, <1>4, <1>5, <1>6, <1>7, TypeOKParts DEF IInv, BackendInv, ForwardInv, ShellInv

\* No step of the connection breaks the invariant.
LEMMA NextIInv == IInv /\ [Next]_vars => IInv'
  <1>. SUFFICES ASSUME IInv, [Next]_vars
                PROVE  IInv'
    OBVIOUS
  <1>. DEFINE Parts == BackendInv /\ GatewayTypeOK /\ ForwardInv /\ ShellInv
  <1>1. Parts
    BY TypeOKParts DEF IInv, ForwardInv, ShellInv
  <1>2. Parts' => IInv'
    BY TypeOKParts DEF IInv, BackendInv, ForwardInv, ShellInv, TypeOK, GatewayTypeOK
  <1>3. UNCHANGED shell => ShellInv'
    BY <1>1 DEF ShellInv, shell, NoProcessBefore, BridgeReapsUnlessPumpFailed, PumpFailed
  <1>4. UNCHANGED <<conn, forward>> => ForwardInv'
    BY <1>1 DEF ForwardInv, forward, LiveIsStored, TunnelEndsUnlessForgotten, LiveTunnels
  <1>5. UNCHANGED <<conn, sftp>> => BackendInv'
    BY <1>1, BackendRests
  <1>6. CASE Lose
    <2>1. BackendInv'
      BY <1>1, <1>6, LoseKeepsBackend DEF Lose
    <2>. QED  BY <1>1, <1>2, <1>3, <1>6, <2>1, LoseKeepsTunnels DEF Lose
  <1>7. CASE SftpStep
    <2>1. BackendInv' /\ UNCHANGED conn
      BY <1>1, <1>7, SftpStepKeeps DEF SftpStep
    <2>2. GatewayTypeOK'
      BY <1>1, <1>7 DEF SftpStep, GatewayTypeOK, forward, shell
    <2>. QED  BY <1>2, <1>3, <1>4, <1>7, <2>1, <2>2 DEF SftpStep
  <1>8. CASE ForwardStep
    <2>1. GatewayTypeOK' /\ ForwardInv'
      BY <1>1, <1>8, RequestKeeps, TunnelKeeps, TunnelFailsKeeps DEF ForwardStep
    <2>2. UNCHANGED <<conn, sftp, shell>>
      BY <1>8 DEF ForwardStep, Request, TunnelOpensOrFails, TunnelServesChannels,
                  TunnelFailsChannels, TunnelEnds
    <2>. QED  BY <1>2, <1>3, <1>5, <2>1, <2>2
  <1>9. CASE BridgeOpens \/ BridgeStep \/ PumpStep \/ ProcessExits
    BY <1>1, <1>2, <1>4, <1>5, <1>9, BridgeKeeps, PumpKeeps
  <1>10. CASE UNCHANGED vars
    BY <1>1, <1>2, <1>3, <1>4, <1>5, <1>10 DEF vars, GatewayTypeOK, forward, shell
  <1>. QED  BY <1>6, <1>7, <1>8, <1>9, <1>10 DEF Next

\* The invariant holds of every connection, whatever its part does and in whatever order the
\* coroutines of SandboxSftpBackend, GatewayConnection and _bridge go on.
THEOREM ConnectionIsInductive == Spec => []IInv
  BY InitIInv, NextIInv, PTL DEF Spec

\* One server: the processes that live are the stored one (SandboxSftpBackend).
LEMMA StoredIsOnly == BackendInv => OneServer
  <1>. SUFFICES ASSUME BackendInv
                PROVE  Cardinality({e \in Exec : exec[e] = "live"}) <= 1
    BY DEF OneServer
  <1>1. \/ {e \in Exec : exec[e] = "live"} = {}
        \/ {e \in Exec : exec[e] = "live"} = {stored}
    BY DEF BackendInv, ServerInv, ServerIsStored
  <1>2. Cardinality({}) = 0
    BY FS_EmptySet
  <1>3. Cardinality({stored}) = 1
    BY FS_Singleton
  <1>. QED  BY <1>1, <1>2, <1>3

\* One tunnel: those that live are the stored one (connection_requested).
LEMMA LiveIsOne == LiveIsStored => OneTunnelUnlessForgotten
  <1>. SUFFICES ASSUME LiveIsStored, ~forgot
                PROVE  Cardinality(LiveTunnels) <= 1
    BY DEF OneTunnelUnlessForgotten
  <1>1. LiveTunnels = {} \/ LiveTunnels = {tunnel}
    BY DEF LiveIsStored
  <1>2. Cardinality({}) = 0
    BY FS_EmptySet
  <1>3. Cardinality({tunnel}) = 1
    BY FS_Singleton
  <1>. QED  BY <1>1, <1>2, <1>3

\* However many operations, timers and cleanups take turns at the backend, there is one SFTP
\* server, nobody takes it from a user, the timer runs only when it is idle, and nothing is
\* left after the cleanup (SandboxSftpBackend).
THEOREM OneSftpServer == Spec => []SftpInv
  <1>1. IInv => SftpInv
    BY StoredIsOnly DEF IInv, BackendInv, CountInv, SftpInv
  <1>. QED  BY <1>1, ConnectionIsInductive, PTL

\* Whatever channels, failures and ends of tunnels and sessions come in whatever order: one
\* tunnel, that ends with the connection, and a process that is reaped, but for the two
\* windows the property names (GatewayConnection, _bridge).
THEOREM ConnectionLeavesNothing == Spec => []ConnectionInv
  <1>1. IInv => ConnectionInv
    BY LiveIsOne DEF IInv, ConnectionInv
  <1>. QED  BY <1>1, ConnectionIsInductive, PTL

=============================================================================
