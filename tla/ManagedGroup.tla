---------------------------- MODULE ManagedGroup ----------------------------
(***************************************************************************)
(* The security group that AwsProvider keeps for its hosts: several        *)
(* create_vm calls, in one process that caches the group's id or in        *)
(* several that do not share it, look the group up, make it if it is       *)
(* missing, and add and revoke rules to make it match.                     *)
(*                                                                         *)
(* A definition whose comment says "Mutation" is no part of the system.    *)
(***************************************************************************)
EXTENDS FiniteSets

CONSTANTS Creator,   \* create_vm calls
          Cidr,      \* address ranges
          World,     \* 0.0.0.0/0
          Wanted     \* AWS_SSH_CIDRS, or the address this deployment leaves from

ASSUME GroupAssumption ==
    World \in Cidr /\ Wanted \subseteq Cidr /\ Wanted # {} /\ World \notin Wanted

VARIABLES
    made,      \* the group is there
    rules,     \* its SSH ingress
    cached,    \* _cached_sg_id is set
    resolve,   \* _resolve_security_group_id of each create
    fellBack   \* history: a create could not tell its address

group == <<made, rules, cached, resolve, fellBack>>

Fresh == [at |-> "new", want |-> {}, read |-> {}]

GroupTypeOK ==
    /\ made \in BOOLEAN /\ cached \in BOOLEAN /\ fellBack \in BOOLEAN
    /\ rules \subseteq Cidr /\ (rules # {} => made)
    /\ resolve \in [Creator -> [at : {"new", "find", "make", "read", "authorize", "revoke",
                                      "done", "failed"},
                                want : SUBSET Cidr, read : SUBSET Cidr]]

\* The group may be there from earlier settings.
GroupInit ==
    /\ rules \in SUBSET Cidr /\ made \in {rules # {}, TRUE}
    /\ cached = FALSE /\ fellBack = FALSE
    /\ resolve = [c \in Creator |-> Fresh]

-----------------------------------------------------------------------------
Goes(c, at) == resolve' = [resolve EXCEPT ![c].at = at]

\* The first creates of a process may all find nothing cached.
UseCached(c) ==
    /\ resolve[c].at = "new" /\ cached /\ Goes(c, "done")
    /\ UNCHANGED <<made, rules, cached, fellBack>>

\* A failed detection opens the group to the world.
Detect(c) ==
    /\ resolve[c].at = "new"
    /\ \E want \in {Wanted, {World}} :
          /\ resolve' = [resolve EXCEPT ![c] = [@ EXCEPT !.at = "find", !.want = want]]
          /\ fellBack' = (fellBack \/ want = {World})
    /\ UNCHANGED <<made, rules, cached>>

Find(c) ==
    /\ resolve[c].at = "find" /\ Goes(c, IF made THEN "read" ELSE "make")
    /\ UNCHANGED <<made, rules, cached, fellBack>>

\* A group that another create has made since is as good.
Make(c) ==
    /\ resolve[c].at = "make" /\ made' = TRUE /\ Goes(c, "read")
    /\ UNCHANGED <<rules, cached, fellBack>>

Read(c) ==
    /\ resolve[c].at = "read"
    /\ resolve' = [resolve EXCEPT ![c] = [@ EXCEPT !.at = "authorize", !.read = rules]]
    /\ UNCHANGED <<made, rules, cached, fellBack>>

ToAdd(c) == resolve[c].want \ resolve[c].read

\* Mutation: every rule that was read is revoked.
ToRevokeAll(c) == resolve[c].read

ToRevoke(c) == resolve[c].read \ resolve[c].want

\* One call with every rule: EC2 refuses them all if one is there already, which is no error.
Authorize(c) ==
    /\ resolve[c].at = "authorize" /\ Goes(c, "revoke")
    /\ rules' = IF ToAdd(c) \cap rules = {} THEN rules \cup ToAdd(c) ELSE rules
    /\ UNCHANGED <<made, cached, fellBack>>

\* Likewise: EC2 refuses them all if one is not there.  A group that fits is cached, by its
\* process, unless it is open to the world.
Revoke(c) ==
    /\ resolve[c].at = "revoke" /\ Goes(c, "done")
    /\ rules' = IF ToRevoke(c) \subseteq rules THEN rules \ ToRevoke(c) ELSE rules
    /\ cached' \in {cached, cached \/ resolve[c].want # {World}}
    /\ UNCHANGED <<made, fellBack>>

\* A call fails, its effect there or not, or the create is cancelled.
ResolveFails(c) ==
    /\ resolve[c].at \in {"find", "make", "read", "authorize", "revoke"} /\ Goes(c, "failed")
    /\ \/ UNCHANGED <<made, rules>>
       \/ resolve[c].at = "make" /\ made' = TRUE /\ UNCHANGED rules
       \/ resolve[c].at = "authorize" /\ ToAdd(c) \cap rules = {}
             /\ rules' = rules \cup ToAdd(c) /\ UNCHANGED made
       \/ resolve[c].at = "revoke" /\ ToRevoke(c) \subseteq rules
             /\ rules' = rules \ ToRevoke(c) /\ UNCHANGED made
    /\ UNCHANGED <<cached, fellBack>>

\* The next create takes the place of one that is over.
Again(c) ==
    /\ resolve[c].at \in {"done", "failed"} /\ resolve' = [resolve EXCEPT ![c] = Fresh]
    /\ UNCHANGED <<made, rules, cached, fellBack>>

GroupNext ==
    \E c \in Creator :
        \/ UseCached(c) \/ Detect(c) \/ Find(c) \/ Make(c) \/ Read(c) \/ Authorize(c)
        \/ Revoke(c) \/ ResolveFails(c) \/ Again(c)

-----------------------------------------------------------------------------
\* As long as every create could tell its address, the group lets that address in once any
\* create is over, and keeps doing so while others reconcile it; what was there before is
\* revoked by then ("make tcp/22 IPv4 ingress match exactly", aws/api.py).
GroupServesAlike ==
    ~fellBack => \A c \in Creator : resolve[c].at = "done" => rules = Wanted

=============================================================================
