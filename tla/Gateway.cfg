\* Three SFTP operations with room for a second server; four channels and three tunnels, so
\* that one can fail, be dropped and be replaced while others wait; one session.
SPECIFICATION FairSpec
CONSTANTS
    Op = {o1, o2, o3}
    Closer = closer
    Cleanup = cleanup
    Exec = {e1, e2}
    NoExec = NoExec
    Channel = {c1, c2, c3, c4}
    Tunnel = {t1, t2, t3}
    NoTunnel = NoTunnel
INVARIANTS
    SftpInv ConnectionInv
PROPERTIES
    IdleCloses BridgeEnds
CHECK_DEADLOCK FALSE
