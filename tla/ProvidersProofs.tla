-------------------------- MODULE ProvidersProofs --------------------------
(***************************************************************************)
(* The invariants of Providers, for any number of actors: the creates that *)
(* reconcile the AWS security group from reads that may be stale, the PUT, *)
(* the DELETE and the alarm of a Cloudflare sandbox, and the deletes of a  *)
(* VM at every provider, whichever calls failed or were cut off before.    *)
(*                                                                         *)
(* The group: rules that are wanted and missing, or there and not wanted,  *)
(* can only be those that every create that is about to call has read, for *)
(* the first call that is carried out ends this for good.                  *)
(*                                                                         *)
(* The VM: a delete starts once nothing can put any more, so what a call   *)
(* has found gone or has dropped stays gone, and every call that a delete  *)
(* has passed without an error has left gone what it drops.  A create that *)
(* fails: before the first answer nothing is there, and what a program     *)
(* makes before the server it drops again, or the name finds it.           *)
(***************************************************************************)
EXTENDS Providers, TLAPS

AllWant ==
    \A c \in Creator :
        resolve[c].at \in {"find", "make", "read", "authorize", "revoke"} => resolve[c].want = Wanted

LetsIn ==
    \/ Wanted \subseteq rules
    \/ /\ ~cached
       /\ \A c \in Creator :
             /\ resolve[c].at \notin {"revoke", "done"}
             /\ resolve[c].at = "authorize" => resolve[c].read \cap Wanted = rules \cap Wanted

LetsNoOtherIn ==
    \/ rules \subseteq Wanted
    \/ /\ ~cached
       /\ \A c \in Creator :
             /\ resolve[c].at # "done"
             /\ resolve[c].at \in {"authorize", "revoke"} => resolve[c].read \ Wanted = rules \ Wanted

MadeFirst == \A c \in Creator : resolve[c].at \in {"read", "authorize", "revoke"} => made

GroupInv == GroupTypeOK /\ MadeFirst /\ (~fellBack => AllWant /\ LetsIn /\ LetsNoOtherIn)

\* The PUT that set the alarm goes on only while the alarm is set or rings.
PutKeepsUp == put \in {"script", "exit"} /\ running /\ status = "creating" => armed \/ renewing

PutOwnsStatus ==
    put \in {"claim", "inactivity", "script", "exit"} => status \in {"creating", "deleted"}

WorkerInv == WorkerTypeOK /\ PutOwnsStatus /\ PutKeepsUp /\ ActiveStaysUp

-----------------------------------------------------------------------------
(* The security group.                                                     *)

\* Goes moves one create and nothing else of it (_ensure_ssh_ingress).
LEMMA GoesValue ==
    ASSUME GroupTypeOK, NEW c \in Creator, NEW at, Goes(c, at)
    PROVE  /\ resolve'[c].at = at /\ resolve'[c].want = resolve[c].want
           /\ resolve'[c].read = resolve[c].read
           /\ \A d \in Creator : d # c => resolve'[d] = resolve[d]
  BY DEF GroupTypeOK, Goes

\* What a step makes of its create (_resolve_security_group_id).
LEMMA CreateStep ==
    ASSUME GroupTypeOK, NEW c \in Creator,
           \/ UseCached(c) \/ Detect(c) \/ Find(c) \/ Make(c) \/ Read(c) \/ Authorize(c)
           \/ Revoke(c) \/ ResolveFails(c) \/ Again(c)
    PROVE  /\ resolve' \in [Creator ->
                   [at : {"new", "find", "make", "read", "authorize", "revoke", "done", "failed"},
                    want : SUBSET Cidr, read : SUBSET Cidr]]
           /\ \A d \in Creator : d # c => resolve'[d] = resolve[d]
<1> USE GroupAssumption DEF GroupTypeOK
<1>1. CASE UseCached(c) \/ Find(c) \/ Make(c) \/ Authorize(c) \/ Revoke(c) \/ ResolveFails(c)
  BY <1>1 DEF UseCached, Find, Make, Authorize, Revoke, ResolveFails, Goes
<1>2. CASE Detect(c)
  <2>1. PICK want \in {Wanted, {World}} :
           resolve' = [resolve EXCEPT ![c] = [@ EXCEPT !.at = "find", !.want = want]]
    BY <1>2 DEF Detect
  <2>2. [[resolve[c] EXCEPT !.at = "find"] EXCEPT !.want = want]
           \in [at : {"new", "find", "make", "read", "authorize", "revoke", "done", "failed"},
                want : SUBSET Cidr, read : SUBSET Cidr]
    BY <2>1
  <2> QED BY <2>1, <2>2
<1>3. CASE Read(c)
  <2>1. [[resolve[c] EXCEPT !.at = "authorize"] EXCEPT !.read = rules]
           \in [at : {"new", "find", "make", "read", "authorize", "revoke", "done", "failed"},
                want : SUBSET Cidr, read : SUBSET Cidr]
    OBVIOUS
  <2> QED BY <1>3, <2>1 DEF Read
<1>4. CASE Again(c)
  BY <1>4 DEF Again, Fresh
<1> QED BY <1>1, <1>2, <1>3, <1>4

\* What a read keeps (get_security_group's answer).
LEMMA ReadValue ==
    ASSUME GroupTypeOK, NEW c \in Creator, Read(c)
    PROVE  /\ resolve'[c].at = "authorize" /\ resolve'[c].read = rules
           /\ \A d \in Creator : d # c => resolve'[d] = resolve[d]
           /\ rules' = rules /\ cached' = cached
<1>1. resolve[c] \in [at : {"new", "find", "make", "read", "authorize", "revoke", "done", "failed"},
                      want : SUBSET Cidr, read : SUBSET Cidr]
  BY DEF GroupTypeOK
<1>2. resolve'[c] = [[resolve[c] EXCEPT !.at = "authorize"] EXCEPT !.read = rules]
  BY DEF Read, GroupTypeOK
<1>3. /\ [[resolve[c] EXCEPT !.at = "authorize"] EXCEPT !.read = rules].at = "authorize"
      /\ [[resolve[c] EXCEPT !.at = "authorize"] EXCEPT !.read = rules].read = rules
  BY <1>1
<1> QED BY <1>2, <1>3 DEF Read, GroupTypeOK

\* The steps that call nothing that changes a rule.
LEMMA QuietValue ==
    ASSUME GroupTypeOK, NEW c \in Creator,
           Detect(c) \/ Find(c) \/ Make(c) \/ Again(c)
    PROVE  /\ resolve'[c].at \in {"new", "find", "make", "read"}
           /\ resolve'[c].at = "read" => made'
           /\ \A d \in Creator : d # c => resolve'[d] = resolve[d]
           /\ rules' = rules /\ cached' = cached
<1>1. CASE Detect(c)
  <2>1. PICK want \in {Wanted, {World}} :
           resolve' = [resolve EXCEPT ![c] = [@ EXCEPT !.at = "find", !.want = want]]
    BY <1>1 DEF Detect
  <2>2. resolve[c] \in [at : {"new", "find", "make", "read", "authorize", "revoke", "done", "failed"},
                        want : SUBSET Cidr, read : SUBSET Cidr]
    BY DEF GroupTypeOK
  <2>3. [[resolve[c] EXCEPT !.at = "find"] EXCEPT !.want = want].at = "find"
    BY <2>2
  <2> QED BY <1>1, <2>1, <2>3 DEF Detect, GroupTypeOK
<1>2. CASE Find(c)
  BY <1>2 DEF Find, Goes, GroupTypeOK
<1>3. CASE Make(c) \/ Again(c)
  BY <1>3 DEF Make, Again, Goes, Fresh, GroupTypeOK
<1> QED BY <1>1, <1>2, <1>3

\* The group exists before anyone calls for its rules.
LEMMA GroupTypes ==
    ASSUME GroupTypeOK, MadeFirst, GroupNext
    PROVE  GroupTypeOK' /\ MadeFirst'
<1>1. PICK c \in Creator :
         \/ UseCached(c) \/ Detect(c) \/ Find(c) \/ Make(c) \/ Read(c) \/ Authorize(c)
         \/ Revoke(c) \/ ResolveFails(c) \/ Again(c)
  BY DEF GroupNext
<1>2. ToAdd(c) \subseteq Cidr
  BY <1>1 DEF ToAdd, GroupTypeOK
<1>3. rules' \subseteq Cidr
  <2>1. CASE Authorize(c)
    BY <2>1, <1>2 DEF Authorize, GroupTypeOK
  <2>2. CASE Revoke(c)
    BY <2>2 DEF Revoke, GroupTypeOK
  <2>3. CASE ResolveFails(c)
    BY <2>3, <1>2 DEF ResolveFails, GroupTypeOK
  <2> QED
    BY <1>1, <2>1, <2>2, <2>3 DEF UseCached, Detect, Find, Make, Read, Again, GroupTypeOK
<1>4. /\ made' \in BOOLEAN /\ (made => made')
      /\ cached' \in BOOLEAN /\ fellBack' \in BOOLEAN
  <2>1. CASE Make(c)
    BY <2>1 DEF Make, GroupTypeOK
  <2>2. CASE Revoke(c)
    BY <2>2 DEF Revoke, GroupTypeOK
  <2>3. CASE Detect(c)
    BY <2>3 DEF Detect, GroupTypeOK
  <2>4. CASE ResolveFails(c)
    <3>1. UNCHANGED <<cached, fellBack>> /\ (made' = made \/ made' = TRUE)
      BY <2>4 DEF ResolveFails
    <3> QED BY <3>1 DEF GroupTypeOK
  <2>5. CASE UseCached(c) \/ Find(c) \/ Read(c) \/ Authorize(c) \/ Again(c)
    BY <2>5 DEF UseCached, Find, Read, Authorize, Again, GroupTypeOK
  <2> QED BY <1>1, <2>1, <2>2, <2>3, <2>4, <2>5
<1>5. rules' # {} => made'
  <2>1. CASE Authorize(c) \/ Revoke(c)
    BY <2>1, <1>1 DEF Authorize, Revoke, MadeFirst
  <2>2. CASE ResolveFails(c)
    BY <2>2, <1>4 DEF ResolveFails, MadeFirst, GroupTypeOK
  <2> QED
    BY <1>1, <1>4, <2>1, <2>2 DEF UseCached, Detect, Find, Make, Read, Again, GroupTypeOK
<1>6. GroupTypeOK'
  BY <1>1, <1>3, <1>4, <1>5, CreateStep DEF GroupTypeOK
<1>7. resolve'[c].at \in {"read", "authorize", "revoke"} => made'
  <2>1. CASE UseCached(c) \/ Authorize(c) \/ Revoke(c) \/ ResolveFails(c)
    BY <2>1, <1>4, GoesValue DEF UseCached, Authorize, Revoke, ResolveFails, MadeFirst
  <2>2. CASE Detect(c) \/ Find(c) \/ Make(c) \/ Again(c)
    BY <2>2, QuietValue
  <2>3. CASE Read(c)
    BY <2>3, <1>4, ReadValue DEF Read, MadeFirst
  <2> QED BY <1>1, <2>1, <2>2, <2>3
<1>8. MadeFirst'
  BY <1>1, <1>4, <1>7, CreateStep DEF MadeFirst
<1> QED BY <1>6, <1>8

\* A create that found its address goes on with it (_ssh_ingress_cidrs).
LEMMA WantKept ==
    ASSUME GroupInv, GroupNext, ~fellBack'
    PROVE  ~fellBack /\ AllWant'
<1>1. PICK c \in Creator :
         \/ UseCached(c) \/ Detect(c) \/ Find(c) \/ Make(c) \/ Read(c) \/ Authorize(c)
         \/ Revoke(c) \/ ResolveFails(c) \/ Again(c)
  BY DEF GroupNext
<1>2. ~fellBack
  <2>1. CASE Detect(c)
    BY <2>1 DEF Detect
  <2>2. CASE ~Detect(c)
    BY <2>2, <1>1 DEF UseCached, Find, Make, Read, Authorize, Revoke, ResolveFails, Again
  <2> QED BY <2>1, <2>2
<1>3. GroupTypeOK /\ AllWant
  BY <1>2 DEF GroupInv
<1>4. resolve'[c].at \in {"find", "make", "read", "authorize", "revoke"} => resolve'[c].want = Wanted
  <2>1. CASE UseCached(c) \/ Find(c) \/ Make(c) \/ Authorize(c) \/ Revoke(c) \/ ResolveFails(c)
    BY <2>1, <1>3, GoesValue DEF UseCached, Find, Make, Authorize, Revoke, ResolveFails, AllWant
  <2>2. CASE Detect(c)
    <3>1. PICK want \in {Wanted, {World}} :
             /\ resolve' = [resolve EXCEPT ![c] = [@ EXCEPT !.at = "find", !.want = want]]
             /\ fellBack' = (fellBack \/ want = {World})
      BY <2>2 DEF Detect
    <3>2. want = Wanted
      BY <3>1
    <3>3. resolve[c] \in [at : {"new", "find", "make", "read", "authorize", "revoke", "done", "failed"},
                          want : SUBSET Cidr, read : SUBSET Cidr]
      BY <1>3 DEF GroupTypeOK
    <3>4. [[resolve[c] EXCEPT !.at = "find"] EXCEPT !.want = want].want = want
      BY <3>3
    <3> QED BY <1>3, <3>1, <3>2, <3>4 DEF GroupTypeOK
  <2>3. CASE Read(c)
    <3>1. resolve[c] \in [at : {"new", "find", "make", "read", "authorize", "revoke", "done", "failed"},
                          want : SUBSET Cidr, read : SUBSET Cidr]
      BY <1>3 DEF GroupTypeOK
    <3>2. [[resolve[c] EXCEPT !.at = "authorize"] EXCEPT !.read = rules].want = resolve[c].want
      BY <3>1
    <3> QED BY <2>3, <3>2, <1>3 DEF Read, AllWant, GroupTypeOK
  <2>4. CASE Again(c)
    BY <2>4, <1>3 DEF Again, Fresh, GroupTypeOK
  <2> QED BY <1>1, <2>1, <2>2, <2>3, <2>4
<1>5. AllWant'
  BY <1>1, <1>3, <1>4, CreateStep DEF AllWant
<1> QED BY <1>2, <1>5

\* What the two calls that change rules add and remove, if they take effect.
LEMMA RuleCalls ==
    ASSUME GroupInv, ~fellBack, NEW c \in Creator
    PROVE  /\ resolve[c].at \in {"authorize", "revoke"} =>
                 /\ ToAdd(c) = Wanted \ resolve[c].read /\ ToRevoke(c) = resolve[c].read \ Wanted
           /\ resolve[c].at = "authorize" =>
                 Wanted \subseteq (IF ToAdd(c) \cap rules = {} THEN rules \cup ToAdd(c) ELSE rules)
           /\ resolve[c].at = "authorize" =>
                 (IF ToAdd(c) \cap rules = {} THEN rules \cup ToAdd(c) ELSE rules) \ Wanted = rules \ Wanted
           /\ resolve[c].at = "revoke" =>
                 (IF ToRevoke(c) \subseteq rules THEN rules \ ToRevoke(c) ELSE rules) \cap Wanted
                     = rules \cap Wanted
           /\ resolve[c].at = "revoke" =>
                 (IF ToRevoke(c) \subseteq rules THEN rules \ ToRevoke(c) ELSE rules) \subseteq Wanted
<1>1. resolve[c].at \in {"authorize", "revoke"} => resolve[c].want = Wanted
  BY DEF GroupInv, AllWant
<1>2. resolve[c].at = "authorize" =>
         Wanted \subseteq rules \/ resolve[c].read \cap Wanted = rules \cap Wanted
  BY DEF GroupInv, LetsIn
<1>3. resolve[c].at = "revoke" =>
         rules \subseteq Wanted \/ resolve[c].read \ Wanted = rules \ Wanted
  BY DEF GroupInv, LetsNoOtherIn
<1>4. resolve[c].at \in {"authorize", "revoke"} =>
         /\ ToAdd(c) = Wanted \ resolve[c].read /\ ToRevoke(c) = resolve[c].read \ Wanted
  BY <1>1 DEF ToAdd, ToRevoke
<1> QED BY <1>2, <1>3, <1>4

\* The wanted rules, once there, stay (authorize_ssh_ingress).
LEMMA LetsInKept ==
    ASSUME GroupInv, GroupNext, ~fellBack'
    PROVE  LetsIn'
<1>1. PICK c \in Creator :
         \/ UseCached(c) \/ Detect(c) \/ Find(c) \/ Make(c) \/ Read(c) \/ Authorize(c)
         \/ Revoke(c) \/ ResolveFails(c) \/ Again(c)
  BY DEF GroupNext
<1>2. ~fellBack /\ GroupTypeOK /\ LetsIn
  BY WantKept DEF GroupInv
<1>3. \A d \in Creator : d # c => resolve'[d] = resolve[d]
  BY <1>1, <1>2, CreateStep
<1>4. CASE UseCached(c)
  BY <1>4, <1>2 DEF UseCached, LetsIn
<1>5. CASE Detect(c) \/ Find(c) \/ Make(c) \/ Again(c)
  BY <1>5, <1>2, <1>3, QuietValue DEF LetsIn
<1>6. CASE Read(c)
  BY <1>6, <1>2, <1>3, ReadValue DEF LetsIn
<1>7. CASE Authorize(c)
  BY <1>7, <1>2, RuleCalls DEF Authorize, LetsIn
<1>8. CASE Revoke(c)
  BY <1>8, <1>2, RuleCalls DEF Revoke, LetsIn
<1>9. CASE ResolveFails(c)
  <2>1. resolve'[c].at = "failed" /\ cached' = cached
    BY <1>9, <1>2, GoesValue DEF ResolveFails
  <2>2. CASE rules' = rules
    BY <2>1, <2>2, <1>2, <1>3 DEF LetsIn
  <2>3. CASE resolve[c].at = "authorize" /\ ToAdd(c) \cap rules = {} /\ rules' = rules \cup ToAdd(c)
    BY <2>3, <1>2, RuleCalls DEF LetsIn
  <2>4. CASE resolve[c].at = "revoke" /\ ToRevoke(c) \subseteq rules /\ rules' = rules \ ToRevoke(c)
    BY <2>4, <1>2, RuleCalls DEF LetsIn
  <2> QED BY <1>9, <2>2, <2>3, <2>4 DEF ResolveFails
<1> QED BY <1>1, <1>4, <1>5, <1>6, <1>7, <1>8, <1>9

\* The rules nobody wants, once gone, stay away (revoke_ssh_ingress).
LEMMA LetsNoOtherInKept ==
    ASSUME GroupInv, GroupNext, ~fellBack'
    PROVE  LetsNoOtherIn'
<1>1. PICK c \in Creator :
         \/ UseCached(c) \/ Detect(c) \/ Find(c) \/ Make(c) \/ Read(c) \/ Authorize(c)
         \/ Revoke(c) \/ ResolveFails(c) \/ Again(c)
  BY DEF GroupNext
<1>2. ~fellBack /\ GroupTypeOK /\ LetsNoOtherIn
  BY WantKept DEF GroupInv
<1>3. \A d \in Creator : d # c => resolve'[d] = resolve[d]
  BY <1>1, <1>2, CreateStep
<1>4. CASE UseCached(c)
  BY <1>4, <1>2 DEF UseCached, LetsNoOtherIn
<1>5. CASE Detect(c) \/ Find(c) \/ Make(c) \/ Again(c)
  BY <1>5, <1>2, <1>3, QuietValue DEF LetsNoOtherIn
<1>6. CASE Read(c)
  BY <1>6, <1>2, <1>3, ReadValue DEF LetsNoOtherIn
<1>7. CASE Authorize(c)
  <2>1. /\ resolve'[c].at = "revoke" /\ resolve'[c].read = resolve[c].read
        /\ resolve[c].at = "authorize" /\ cached' = cached
    BY <1>7, <1>2, GoesValue DEF Authorize
  <2>2. rules' \ Wanted = rules \ Wanted
    BY <1>7, <1>2, RuleCalls DEF Authorize
  <2> QED BY <2>1, <2>2, <1>2, <1>3 DEF LetsNoOtherIn
<1>8. CASE Revoke(c)
  BY <1>8, <1>2, RuleCalls DEF Revoke, LetsNoOtherIn
<1>9. CASE ResolveFails(c)
  <2>1. resolve'[c].at = "failed" /\ cached' = cached
    BY <1>9, <1>2, GoesValue DEF ResolveFails
  <2>2. CASE rules' = rules
    BY <2>1, <2>2, <1>2, <1>3 DEF LetsNoOtherIn
  <2>3. CASE resolve[c].at = "authorize" /\ ToAdd(c) \cap rules = {} /\ rules' = rules \cup ToAdd(c)
    <3>1. rules' \ Wanted = rules \ Wanted
      BY <2>3, <1>2, RuleCalls
    <3> QED BY <3>1, <2>1, <1>2, <1>3 DEF LetsNoOtherIn
  <2>4. CASE resolve[c].at = "revoke" /\ ToRevoke(c) \subseteq rules /\ rules' = rules \ ToRevoke(c)
    BY <2>4, <1>2, RuleCalls DEF LetsNoOtherIn
  <2> QED BY <1>9, <2>2, <2>3, <2>4 DEF ResolveFails
<1> QED BY <1>1, <1>4, <1>5, <1>6, <1>7, <1>8, <1>9

LEMMA GroupStep == GroupInv /\ [GroupNext]_group => GroupInv'
<1> SUFFICES ASSUME GroupInv, [GroupNext]_group PROVE GroupInv'
  OBVIOUS
<1>1. CASE GroupNext
  BY <1>1, GroupTypes, WantKept, LetsInKept, LetsNoOtherInKept DEF GroupInv
<1>2. CASE UNCHANGED group
  BY <1>2 DEF group, GroupInv, GroupTypeOK, MadeFirst, AllWant, LetsIn, LetsNoOtherIn
<1> QED BY <1>1, <1>2

LEMMA GroupStarts == GroupInit => GroupInv
<1> SUFFICES ASSUME GroupInit PROVE GroupInv
  OBVIOUS
<1>1. \A c \in Creator : resolve[c] = Fresh
  BY DEF GroupInit
<1>2. GroupTypeOK
  BY DEF GroupInit, GroupTypeOK, Fresh
<1> QED BY <1>1, <1>2 DEF GroupInit, GroupInv, Fresh, MadeFirst, AllWant, LetsIn, LetsNoOtherIn

-----------------------------------------------------------------------------
(* The worker.                                                             *)

LEMMA WorkerStarts == WorkerInit => WorkerInv
  BY DEF WorkerInit, WorkerInv, WorkerTypeOK, PutOwnsStatus, PutKeepsUp, ActiveStaysUp

\* The PUT's own steps (worker.js, createSandbox).
LEMMA PutSteps == ASSUME WorkerInv, Claim \/ PutNext PROVE WorkerInv'
<1> USE DEF WorkerInv, WorkerTypeOK, PutOwnsStatus, PutKeepsUp, ActiveStaysUp
<1>1. CASE Claim
  BY <1>1 DEF Claim
<1>2. CASE Start
  BY <1>2 DEF Start
<1>3. CASE Bootstrap
  BY <1>3 DEF Bootstrap
<1>4. CASE ScriptExits
  BY <1>4 DEF ScriptExits
<1>5. CASE Settle
  BY <1>5 DEF Settle
<1>6. CASE PutFails
  BY <1>6 DEF PutFails
<1>7. CASE PutDestroys
  <2>1. CASE running' = FALSE /\ armed' = (armed /\ put = "destroy")
    <3>1. armed' \in BOOLEAN
      BY <2>1
    <3> QED BY <1>7, <2>1, <3>1 DEF PutDestroys
  <2>2. CASE UNCHANGED <<running, armed>>
    BY <1>7, <2>2 DEF PutDestroys
  <2> QED BY <1>7, <2>1, <2>2 DEF PutDestroys
<1> QED BY <1>1, <1>2, <1>3, <1>4, <1>5, <1>6, <1>7 DEF PutNext

\* The DELETE, the alarm and the platform (worker.js).
LEMMA OtherSteps ==
    ASSUME WorkerInv,
           DeleteSandbox \/ DeleteDestroys \/ AlarmRings \/ Renew \/ InactivityStop
              \/ ContainerDies \/ Restart
    PROVE  WorkerInv'
<1> USE DEF WorkerInv, WorkerTypeOK, PutOwnsStatus, PutKeepsUp, ActiveStaysUp
<1>1. CASE DeleteSandbox
  BY <1>1 DEF DeleteSandbox
<1>2. CASE DeleteDestroys
  <2>1. CASE running' = FALSE /\ armed' = FALSE /\ deleted' = TRUE
    BY <1>2, <2>1 DEF DeleteDestroys
  <2>2. CASE UNCHANGED <<running, armed, deleted>>
    BY <1>2, <2>2 DEF DeleteDestroys
  <2> QED BY <1>2, <2>1, <2>2 DEF DeleteDestroys
<1>3. CASE AlarmRings
  BY <1>3 DEF AlarmRings, KeepsUp
<1>4. CASE Renew
  BY <1>4 DEF Renew
<1>5. CASE InactivityStop
  BY <1>5 DEF InactivityStop
<1>6. CASE ContainerDies
  BY <1>6 DEF ContainerDies
<1>7. CASE Restart
  <2>1. /\ put' \in {"none", "over"} /\ (put' = "none" <=> put = "none")
        /\ UNCHANGED <<status, running, deleted>>
        /\ deleting' = FALSE /\ renewing' = FALSE /\ armed' = (armed \/ renewing)
    BY <1>7 DEF Restart
  <2>2. armed' \in BOOLEAN
    BY <2>1
  <2>3. WorkerTypeOK'
    BY <2>1, <2>2
  <2> QED BY <2>1, <2>3
<1> QED BY <1>1, <1>2, <1>3, <1>4, <1>5, <1>6, <1>7

LEMMA WorkerStep == WorkerInv /\ [WorkerNext]_worker => WorkerInv'
<1> SUFFICES ASSUME WorkerInv, [WorkerNext]_worker PROVE WorkerInv'
  OBVIOUS
<1>1. CASE WorkerNext
  BY <1>1, PutSteps, OtherSteps DEF WorkerNext
<1>2. CASE UNCHANGED worker
  BY <1>2 DEF worker, WorkerInv, WorkerTypeOK, PutOwnsStatus, PutKeepsUp, ActiveStaysUp
<1> QED BY <1>1, <1>2

-----------------------------------------------------------------------------
(* What the calls of each provider are like.                               *)

\* What contextlib.suppress makes of a call.
LEMMA ForgivenValue ==
    ASSUME NEW does, NEW missing
    PROVE  /\ Forgiven(Call(does, missing)).does = does
           /\ Forgiven(Call(does, missing)).missing = "ok"
  <1>1. Forgiven(Call(does, missing)).does = does
    BY DEF Call, Forgiven
  <1>2. Forgiven(Call(does, missing)).missing = "ok"
    BY DEF Call, Forgiven
  <1>. QED  BY <1>1, <1>2

\* The calls of which "ok" says that the server is gone.
EndsServer == {"dropServer", "dropById", "awaitGone"}

\* What delete_vm's calls can do: they put nothing, say "gone" only where they have looked for
\* the server, and forgive only what leaves the server alone.
DeleteCallOK(call) ==
    /\ call.does \in {"find", "askDrop", "awaitGone"} \cup Drops
    /\ call.missing = "gone" => call.does \in {"find", "askDrop", "dropServer", "dropById"}
    /\ call.forgiven \in BOOLEAN
    /\ call.forgiven => call.does \in {"dropKey", "dropFiles"}

\* A delete: calls like these, one of which tells that the server is gone.
DeleteOK(calls) ==
    /\ Len(calls) \in 1 .. 3
    /\ \A i \in 1 .. Len(calls) : DeleteCallOK(calls[i])
    /\ \E i \in 1 .. Len(calls) : calls[i].does \in EndsServer

\* Deletes of one call, of two and of three.
LEMMA DeletesOfOne ==
    ASSUME NEW a, DeleteCallOK(a), a.does \in EndsServer
    PROVE  DeleteOK(<<a>>)
  BY DEF DeleteOK

LEMMA DeletesOfTwo ==
    ASSUME NEW a, NEW b, DeleteCallOK(a), DeleteCallOK(b), {a.does, b.does} \cap EndsServer # {}
    PROVE  DeleteOK(<<a, b>>)
  BY DEF DeleteOK

LEMMA DeletesOfThree ==
    ASSUME NEW a, NEW b, NEW c, DeleteCallOK(a), DeleteCallOK(b), DeleteCallOK(c),
           {a.does, b.does, c.does} \cap EndsServer # {}
    PROVE  DeleteOK(<<a, b, c>>)
  BY DEF DeleteOK

\* The delete_vm of every provider, and what is special to some.
LEMMA DeleteCalls ==
    ASSUME NEW k \in Kind
    PROVE  /\ DeleteOK(DeleteOf(k))
           /\ k \in {"hetzner", "exoscale"} =>
                 LET calls == DeleteOf(k) IN
                 Len(calls) = 3 /\ calls[1].does = "dropKey" /\ ~calls[1].forgiven
           /\ k = "docker-sbx" =>
                 LET calls == DeleteOf(k) IN
                 /\ Len(calls) = 2 /\ calls[1].missing # "gone" /\ ~calls[1].forgiven
                 /\ calls[2].does = "dropFiles" /\ calls[2].missing # "gone"
  <1>1. CASE k \in {"aws", "awsTailnet"}
    <2>1. DeleteOf(k) = << Call("find", "gone"), Call("dropServer", "gone"),
                           Forgiven(Call("dropKey", "ok")) >>
      BY <1>1 DEF DeleteOf, AwsDelete, AwsFindInstance, AwsTerminate, AwsDeleteKeyPair
    <2>2. /\ DeleteCallOK(Call("find", "gone"))
          /\ DeleteCallOK(Call("dropServer", "gone"))
          /\ DeleteCallOK(Forgiven(Call("dropKey", "ok")))
      BY DEF DeleteCallOK, Drops, Call, Forgiven
    <2>3. Call("dropServer", "gone").does \in EndsServer
      BY DEF EndsServer, Call
    <2>4. DeleteOK(DeleteOf(k))
      BY <2>1, <2>2, <2>3, DeletesOfThree
    <2>. QED  BY <1>1, <2>4
  <1>2. CASE k = "hetzner"
    <2>1. DeleteOf(k) = << Call("dropKey", "ok"), Call("find", "gone"),
                           Call("dropServer", "ok") >>
      BY <1>2
      DEF DeleteOf, HetznerDelete, HetznerDeleteKey, HetznerFindServer, HetznerDeleteServer
    <2>2. /\ DeleteCallOK(Call("dropKey", "ok"))
          /\ DeleteCallOK(Call("find", "gone"))
          /\ DeleteCallOK(Call("dropServer", "ok"))
      BY DEF DeleteCallOK, Drops, Call, Forgiven
    <2>3. Call("dropServer", "ok").does \in EndsServer
      BY DEF EndsServer, Call
    <2>4. DeleteOK(DeleteOf(k))
      BY <2>1, <2>2, <2>3, DeletesOfThree
    <2>. QED  BY <1>2, <2>1, <2>4 DEF Call, Forgiven
  <1>3. CASE k = "exoscale"
    <2>1. DeleteOf(k) = << Call("dropKey", "ok"), Call("find", "gone"),
                           Call("dropServer", "ok") >>
      BY <1>3
      DEF DeleteOf, ExoscaleDelete, ExoscaleDeleteKey, ExoscaleFindInstance,
          ExoscaleDeleteInstance
    <2>2. /\ DeleteCallOK(Call("dropKey", "ok"))
          /\ DeleteCallOK(Call("find", "gone"))
          /\ DeleteCallOK(Call("dropServer", "ok"))
      BY DEF DeleteCallOK, Drops, Call, Forgiven
    <2>3. Call("dropServer", "ok").does \in EndsServer
      BY DEF EndsServer, Call
    <2>4. DeleteOK(DeleteOf(k))
      BY <2>1, <2>2, <2>3, DeletesOfThree
    <2>. QED  BY <1>3, <2>1, <2>4 DEF Call, Forgiven
  <1>4. CASE k = "docker-sbx"
    <2>1. DeleteOf(k) = << Call("dropServer", "ok"), Forgiven(Call("dropFiles", "ok")) >>
      BY <1>4 DEF DeleteOf, SbxDelete, SbxRemove, SbxRemoveFiles
    <2>2. /\ DeleteCallOK(Call("dropServer", "ok"))
          /\ DeleteCallOK(Forgiven(Call("dropFiles", "ok")))
      BY DEF DeleteCallOK, Drops, Call, Forgiven
    <2>3. Call("dropServer", "ok").does \in EndsServer
      BY DEF EndsServer, Call
    <2>4. DeleteOK(DeleteOf(k))
      BY <2>1, <2>2, <2>3, DeletesOfTwo
    <2>5. Len(DeleteOf(k)) = 2 /\ DeleteOf(k)[1].missing = "ok" /\ DeleteOf(k)[1].forgiven = FALSE
      BY <2>1 DEF Call
    <2>6. DeleteOf(k)[2].does = "dropFiles" /\ DeleteOf(k)[2].missing = "ok"
      BY <2>1, ForgivenValue
    <2>. QED  BY <1>4, <2>4, <2>5, <2>6
  <1>5. CASE k = "boat"
    <2>1. DeleteOf(k) = << Call("find", "gone"), Call("dropById", "gone") >>
      BY <1>5 DEF DeleteOf, BoatDelete, BoatFindSandbox, BoatDeleteSandbox, BoatNotThere
    <2>2. /\ DeleteCallOK(Call("find", "gone"))
          /\ DeleteCallOK(Call("dropById", "gone"))
      BY DEF DeleteCallOK, Drops, Call, Forgiven
    <2>3. Call("dropById", "gone").does \in EndsServer
      BY DEF EndsServer, Call
    <2>4. DeleteOK(DeleteOf(k))
      BY <2>1, <2>2, <2>3, DeletesOfTwo
    <2>. QED  BY <1>5, <2>4
  <1>6. CASE k = "daytona"
    <2>1. DeleteOf(k) = << Call("find", "gone"), Call("askDrop", "gone"),
                           Call("awaitGone", "ok") >>
      BY <1>6 DEF DeleteOf, DaytonaDelete, DaytonaNotThere
    <2>2. /\ DeleteCallOK(Call("find", "gone"))
          /\ DeleteCallOK(Call("askDrop", "gone"))
          /\ DeleteCallOK(Call("awaitGone", "ok"))
      BY DEF DeleteCallOK, Drops, Call, Forgiven
    <2>3. Call("awaitGone", "ok").does \in EndsServer
      BY DEF EndsServer, Call
    <2>4. DeleteOK(DeleteOf(k))
      BY <2>1, <2>2, <2>3, DeletesOfThree
    <2>. QED  BY <1>6, <2>4
  <1>7. CASE k = "e2b"
    <2>1. DeleteOf(k) = << Call("find", "gone"), Call("dropServer", "ok") >>
      BY <1>7 DEF DeleteOf, E2bDelete, E2bNotThere
    <2>2. /\ DeleteCallOK(Call("find", "gone"))
          /\ DeleteCallOK(Call("dropServer", "ok"))
      BY DEF DeleteCallOK, Drops, Call, Forgiven
    <2>3. Call("dropServer", "ok").does \in EndsServer
      BY DEF EndsServer, Call
    <2>4. DeleteOK(DeleteOf(k))
      BY <2>1, <2>2, <2>3, DeletesOfTwo
    <2>. QED  BY <1>7, <2>4
  <1>8. CASE k = "docker"
    <2>1. DeleteOf(k) = << Call("dropServer", "gone") >>
      BY <1>8 DEF DeleteOf, DockerDelete, DockerRemoveContainer
    <2>2. DeleteCallOK(Call("dropServer", "gone"))
      BY DEF DeleteCallOK, Drops, Call, Forgiven
    <2>3. Call("dropServer", "gone").does \in EndsServer
      BY DEF EndsServer, Call
    <2>4. DeleteOK(DeleteOf(k))
      BY <2>1, <2>2, <2>3, DeletesOfOne
    <2>. QED  BY <1>8, <2>4
  <1>9. CASE k = "vercel"
    <2>1. DeleteOf(k) = << Call("dropServer", "gone") >>
      BY <1>9 DEF DeleteOf, VercelDelete, VercelDeleteSandbox, VercelNotThere
    <2>2. DeleteCallOK(Call("dropServer", "gone"))
      BY DEF DeleteCallOK, Drops, Call, Forgiven
    <2>3. Call("dropServer", "gone").does \in EndsServer
      BY DEF EndsServer, Call
    <2>4. DeleteOK(DeleteOf(k))
      BY <2>1, <2>2, <2>3, DeletesOfOne
    <2>. QED  BY <1>9, <2>4
  <1>10. CASE k = "cloudflare"
    <2>1. DeleteOf(k) = << Call("dropServer", "ok") >>
      BY <1>10 DEF DeleteOf, CloudflareDelete, CloudflareDeleteSandbox, CloudflareNotThere
    <2>2. DeleteCallOK(Call("dropServer", "ok"))
      BY DEF DeleteCallOK, Drops, Call, Forgiven
    <2>3. Call("dropServer", "ok").does \in EndsServer
      BY DEF EndsServer, Call
    <2>4. DeleteOK(DeleteOf(k))
      BY <2>1, <2>2, <2>3, DeletesOfOne
    <2>. QED  BY <1>10, <2>4
  <1>11. CASE k = "exe"
    <2>1. DeleteOf(k) = << Call("dropServer", "gone") >>
      BY <1>11 DEF DeleteOf, ExeDelete, ExeDeleteVM, ExeNotThere
    <2>2. DeleteCallOK(Call("dropServer", "gone"))
      BY DEF DeleteCallOK, Drops, Call, Forgiven
    <2>3. Call("dropServer", "gone").does \in EndsServer
      BY DEF EndsServer, Call
    <2>4. DeleteOK(DeleteOf(k))
      BY <2>1, <2>2, <2>3, DeletesOfOne
    <2>. QED  BY <1>11, <2>4
  <1>. QED
    BY <1>1, <1>2, <1>3, <1>4, <1>5, <1>6, <1>7, <1>8, <1>9, <1>10, <1>11 DEF Kind

\* The providers that are given the host's SSH key.
KeyKinds == {"aws", "hetzner", "exoscale"}

\* What create_vm's calls can do at each provider: files are made by docker-sbx only, a sandbox
\* without a name by Boat only, a key by three, and a clean-up only removes.
CreateStepOK(k, step) ==
    /\ step.call.does = "putFiles" => k = "docker-sbx"
    /\ step.call.does = "putUnnamed" => k = "boat"
    /\ step.call.does = "putKey" => k \in KeyKinds
    /\ step.call.does # "askDrop"
    /\ Len(step.undo) \in 0 .. 2
    /\ step.undo # <<>> => Len(step.undo) # 0
    /\ \A j \in 1 .. Len(step.undo) : step.undo[j].does \in Drops

CreateOK(k, steps) ==
    /\ Len(steps) \in 1 .. 5
    /\ \A i \in 1 .. Len(steps) : CreateStepOK(k, steps[i])

\* A call of create_vm with no clean-up, with one call of it and with two.
LEMMA StepWithoutUndo ==
    ASSUME NEW k, NEW does, NEW missing, does # "askDrop", does = "putFiles" => k = "docker-sbx",
           does = "putUnnamed" => k = "boat", does = "putKey" => k \in KeyKinds
    PROVE  CreateStepOK(k, Step(Call(does, missing), <<>>))
  BY DEF CreateStepOK, Step, Call

LEMMA StepWithUndo ==
    ASSUME NEW k, NEW does, NEW missing, does # "askDrop", does = "putFiles" => k = "docker-sbx",
           does = "putUnnamed" => k = "boat", does = "putKey" => k \in KeyKinds,
           NEW a, a.does \in Drops
    PROVE  CreateStepOK(k, Step(Call(does, missing), <<a>>))
  BY DEF CreateStepOK, Step, Call

LEMMA StepWithTwoUndos ==
    ASSUME NEW k, NEW does, NEW missing, does # "askDrop", does = "putFiles" => k = "docker-sbx",
           does = "putUnnamed" => k = "boat", does = "putKey" => k \in KeyKinds,
           NEW a, NEW b, a.does \in Drops, b.does \in Drops
    PROVE  CreateStepOK(k, Step(Call(does, missing), <<a, b>>))
  BY DEF CreateStepOK, Step, Call

\* Creates of one call to five.
LEMMA CreatesOfOne ==
    ASSUME NEW k, NEW a,
           CreateStepOK(k, a)
    PROVE  CreateOK(k, <<a>>)
  BY DEF CreateOK

LEMMA CreatesOfTwo ==
    ASSUME NEW k, NEW a, NEW b,
           CreateStepOK(k, a), CreateStepOK(k, b)
    PROVE  CreateOK(k, <<a, b>>)
  BY DEF CreateOK

LEMMA CreatesOfThree ==
    ASSUME NEW k, NEW a, NEW b, NEW c,
           CreateStepOK(k, a), CreateStepOK(k, b), CreateStepOK(k, c)
    PROVE  CreateOK(k, <<a, b, c>>)
  BY DEF CreateOK

LEMMA CreatesOfFour ==
    ASSUME NEW k, NEW a, NEW b, NEW c, NEW d,
           CreateStepOK(k, a), CreateStepOK(k, b), CreateStepOK(k, c), CreateStepOK(k, d)
    PROVE  CreateOK(k, <<a, b, c, d>>)
  BY DEF CreateOK

LEMMA CreatesOfFive ==
    ASSUME NEW k, NEW a, NEW b, NEW c, NEW d, NEW e,
           CreateStepOK(k, a), CreateStepOK(k, b), CreateStepOK(k, c), CreateStepOK(k, d), CreateStepOK(k, e)
    PROVE  CreateOK(k, <<a, b, c, d, e>>)
  BY DEF CreateOK

\* The create_vm of every provider.
LEMMA CreateCalls ==
    ASSUME NEW k \in Kind
    PROVE  CreateOK(k, CreateOf(k))
  <1>1. CASE k = "aws"
    <2>1. CreateOf(k) = << Step(Call("check", "ok"), <<>>),
                           Step(Call("putKey", "ok"), <<>>),
                           Step(Call("check", "ok"), <<Forgiven(Call("dropKey", "ok"))>>),
                           Step(Call("putServer", "ok"), <<Forgiven(Call("dropKey", "ok"))>>),
                           Step(Call("await", "error"), <<>>) >>
      BY <1>1 DEF CreateOf, AwsCreate, AwsResolveImage, AwsImportKeyPair, AwsGroup,
             AwsDeleteKeyPair, AwsRunInstance, AwsWaitForRunning
    <2>0. Forgiven(Call("dropKey", "ok")).does \in Drops
      BY ForgivenValue DEF Drops
    <2>2. CreateStepOK(k, Step(Call("check", "ok"), <<>>))
      BY StepWithoutUndo
    <2>3. CreateStepOK(k, Step(Call("putKey", "ok"), <<>>))
      BY <1>1, StepWithoutUndo DEF KeyKinds
    <2>4. CreateStepOK(k, Step(Call("check", "ok"), <<Forgiven(Call("dropKey", "ok"))>>))
      BY <2>0, StepWithUndo
    <2>5. CreateStepOK(k, Step(Call("putServer", "ok"), <<Forgiven(Call("dropKey", "ok"))>>))
      BY <2>0, StepWithUndo
    <2>6. CreateStepOK(k, Step(Call("await", "error"), <<>>))
      BY StepWithoutUndo
    <2>. QED  BY <2>1, <2>2, <2>3, <2>4, <2>5, <2>6, CreatesOfFive
  <1>2. CASE k = "awsTailnet"
    <2>1. CreateOf(k) = << Step(Call("check", "ok"), <<>>),
                           Step(Call("putServer", "ok"), <<>>) >>
      BY <1>2 DEF CreateOf, AwsTailnetCreate, AwsResolveImage, AwsRunInstance
    <2>2. CreateStepOK(k, Step(Call("check", "ok"), <<>>))
      BY StepWithoutUndo
    <2>3. CreateStepOK(k, Step(Call("putServer", "ok"), <<>>))
      BY StepWithoutUndo
    <2>. QED  BY <2>1, <2>2, <2>3, CreatesOfTwo
  <1>3. CASE k = "hetzner"
    <2>1. CreateOf(k) = << Step(Call("putKey", "ok"), <<>>),
                           Step(Call("putServer", "ok"), <<Call("dropKey", "ok")>>),
                           Step(Call("await", "error"), <<>>) >>
      BY <1>3 DEF CreateOf, HetznerCreate, HetznerEnsureKey, HetznerCreateServer,
             HetznerDeleteKey, HetznerWaitForRunning, HetznerNotThere
    <2>0. Call("dropKey", "ok").does \in Drops
      BY DEF Drops, Call
    <2>2. CreateStepOK(k, Step(Call("putKey", "ok"), <<>>))
      BY <1>3, StepWithoutUndo DEF KeyKinds
    <2>3. CreateStepOK(k, Step(Call("putServer", "ok"), <<Call("dropKey", "ok")>>))
      BY <2>0, StepWithUndo
    <2>4. CreateStepOK(k, Step(Call("await", "error"), <<>>))
      BY StepWithoutUndo
    <2>. QED  BY <2>1, <2>2, <2>3, <2>4, CreatesOfThree
  <1>4. CASE k = "exoscale"
    <2>1. CreateOf(k) = << Step(Call("putKey", "ok"), <<>>),
                           Step(Call("check", "ok"), <<Call("dropKey", "ok")>>),
                           Step(Call("putServer", "ok"), <<Call("dropKey", "ok")>>),
                           Step(Call("await", "error"), <<>>) >>
      BY <1>4 DEF CreateOf, ExoscaleCreate, ExoscaleEnsureKey, ExoscaleResolveNames,
             ExoscaleDeleteKey, ExoscaleCreateInstance, ExoscaleWaitForRunning,
             ExoscaleNotThere
    <2>0. Call("dropKey", "ok").does \in Drops
      BY DEF Drops, Call
    <2>2. CreateStepOK(k, Step(Call("putKey", "ok"), <<>>))
      BY <1>4, StepWithoutUndo DEF KeyKinds
    <2>3. CreateStepOK(k, Step(Call("check", "ok"), <<Call("dropKey", "ok")>>))
      BY <2>0, StepWithUndo
    <2>4. CreateStepOK(k, Step(Call("putServer", "ok"), <<Call("dropKey", "ok")>>))
      BY <2>0, StepWithUndo
    <2>5. CreateStepOK(k, Step(Call("await", "error"), <<>>))
      BY StepWithoutUndo
    <2>. QED  BY <2>1, <2>2, <2>3, <2>4, <2>5, CreatesOfFour
  <1>5. CASE k = "docker-sbx"
    <2>1. CreateOf(k) = << Step(Call("putFiles", "ok"), <<>>),
                           Step(Call("putServer", "ok"), <<Forgiven(Call("dropServer", "ok")), Forgiven(Call("dropFiles", "ok"))>>),
                           Step(Call("await", "error"), <<Forgiven(Call("dropServer", "ok")), Forgiven(Call("dropFiles", "ok"))>>) >>
      BY <1>5 DEF CreateOf, SbxCreate, SbxWorkspace, SbxCreateSandbox, SbxBootstrap,
             SbxRemove, SbxRemoveFiles, SbxNotThere
    <2>0. /\ Forgiven(Call("dropServer", "ok")).does \in Drops
          /\ Forgiven(Call("dropFiles", "ok")).does \in Drops
      BY ForgivenValue DEF Drops
    <2>2. CreateStepOK(k, Step(Call("putFiles", "ok"), <<>>))
      BY <1>5, StepWithoutUndo
    <2>3. CreateStepOK(k, Step(Call("putServer", "ok"), <<Forgiven(Call("dropServer", "ok")), Forgiven(Call("dropFiles", "ok"))>>))
      BY <2>0, StepWithTwoUndos
    <2>4. CreateStepOK(k, Step(Call("await", "error"), <<Forgiven(Call("dropServer", "ok")), Forgiven(Call("dropFiles", "ok"))>>))
      BY <2>0, StepWithTwoUndos
    <2>. QED  BY <2>1, <2>2, <2>3, <2>4, CreatesOfThree
  <1>6. CASE k = "docker"
    <2>1. CreateOf(k) = << Step(Call("putServer", "ok"), <<>>),
                           Step(Call("await", "error"), <<Forgiven(Call("dropServer", "gone"))>>) >>
      BY <1>6 DEF CreateOf, DockerCreate, DockerRunContainer, DockerPublishedPort,
             DockerRemoveContainer
    <2>0. Forgiven(Call("dropServer", "gone")).does \in Drops
      BY ForgivenValue DEF Drops
    <2>2. CreateStepOK(k, Step(Call("putServer", "ok"), <<>>))
      BY StepWithoutUndo
    <2>3. CreateStepOK(k, Step(Call("await", "error"), <<Forgiven(Call("dropServer", "gone"))>>))
      BY <2>0, StepWithUndo
    <2>. QED  BY <2>1, <2>2, <2>3, CreatesOfTwo
  <1>7. CASE k = "boat"
    <2>1. CreateOf(k) = << Step(Call("putUnnamed", "ok"), <<>>),
                           Step(Call("name", "gone"), <<Forgiven(Call("dropById", "gone"))>>),
                           Step(Call("await", "gone"), <<Forgiven(Call("dropById", "gone"))>>),
                           Step(Call("await", "gone"), <<Forgiven(Call("dropById", "gone"))>>),
                           Step(Call("await", "gone"), <<Forgiven(Call("dropById", "gone"))>>) >>
      BY <1>7 DEF CreateOf, BoatCreate, BoatCreateSandbox, BoatNameSandbox, BoatWaitReady,
             BoatRunCommand, BoatConfigureSsh, BoatDeleteSandbox, BoatNotThere
    <2>0. Forgiven(Call("dropById", "gone")).does \in Drops
      BY ForgivenValue DEF Drops
    <2>2. CreateStepOK(k, Step(Call("putUnnamed", "ok"), <<>>))
      BY <1>7, StepWithoutUndo
    <2>3. CreateStepOK(k, Step(Call("name", "gone"), <<Forgiven(Call("dropById", "gone"))>>))
      BY <2>0, StepWithUndo
    <2>4. CreateStepOK(k, Step(Call("await", "gone"), <<Forgiven(Call("dropById", "gone"))>>))
      BY <2>0, StepWithUndo
    <2>. QED  BY <2>1, <2>2, <2>3, <2>4, CreatesOfFive
  <1>8. CASE k = "vercel"
    <2>1. CreateOf(k) = << Step(Call("putServer", "ok"), <<>>),
                           Step(Call("await", "gone"), <<>>) >>
      BY <1>8 DEF CreateOf, VercelCreate, VercelCreateSandbox, VercelBootstrap,
             VercelNotThere
    <2>2. CreateStepOK(k, Step(Call("putServer", "ok"), <<>>))
      BY StepWithoutUndo
    <2>3. CreateStepOK(k, Step(Call("await", "gone"), <<>>))
      BY StepWithoutUndo
    <2>. QED  BY <2>1, <2>2, <2>3, CreatesOfTwo
  <1>9. CASE k = "daytona"
    <2>1. CreateOf(k) = << Step(Call("check", "ok"), <<>>),
                           Step(Call("putServer", "ok"), <<>>),
                           Step(Call("await", "gone"), <<>>),
                           Step(Call("await", "gone"), <<>>) >>
      BY <1>9 DEF CreateOf, DaytonaCreate, DaytonaCheckSnapshot, DaytonaCreateSandbox,
             DaytonaWaitForStarted, DaytonaBootstrap, DaytonaNotThere
    <2>2. CreateStepOK(k, Step(Call("check", "ok"), <<>>))
      BY StepWithoutUndo
    <2>3. CreateStepOK(k, Step(Call("putServer", "ok"), <<>>))
      BY StepWithoutUndo
    <2>4. CreateStepOK(k, Step(Call("await", "gone"), <<>>))
      BY StepWithoutUndo
    <2>. QED  BY <2>1, <2>2, <2>3, <2>4, CreatesOfFour
  <1>10. CASE k = "e2b"
    <2>1. CreateOf(k) = << Step(Call("putServer", "ok"), <<>>),
                           Step(Call("await", "gone"), <<>>) >>
      BY <1>10 DEF CreateOf, E2bCreate, E2bCreateSandbox, E2bBootstrap, E2bNotThere
    <2>2. CreateStepOK(k, Step(Call("putServer", "ok"), <<>>))
      BY StepWithoutUndo
    <2>3. CreateStepOK(k, Step(Call("await", "gone"), <<>>))
      BY StepWithoutUndo
    <2>. QED  BY <2>1, <2>2, <2>3, CreatesOfTwo
  <1>11. CASE k = "cloudflare"
    <2>1. CreateOf(k) = << Step(Call("putServer", "ok"), <<>>) >>
      BY <1>11 DEF CreateOf, CloudflareCreate, CloudflareCreateSandbox
    <2>2. CreateStepOK(k, Step(Call("putServer", "ok"), <<>>))
      BY StepWithoutUndo
    <2>. QED  BY <2>1, <2>2, CreatesOfOne
  <1>12. CASE k = "exe"
    <2>1. CreateOf(k) = << Step(Call("putServer", "ok"), <<>>) >>
      BY <1>12 DEF CreateOf, ExeCreate, ExeCreateVM
    <2>2. CreateStepOK(k, Step(Call("putServer", "ok"), <<>>))
      BY StepWithoutUndo
    <2>. QED  BY <2>1, <2>2, CreatesOfOne
  <1>. QED
    BY <1>1, <1>2, <1>3, <1>4, <1>5, <1>6, <1>7, <1>8, <1>9, <1>10, <1>11, <1>12 DEF Kind

-----------------------------------------------------------------------------
(* The VM.                                                                 *)

\* The record of create_vm.
CreateKnown ==
    /\ create \in [state : {"new", "calls", "undoes", "made", "failed", "cut"}, at : Nat, undo : Nat]
    /\ create.at \in 0 .. Len(Steps) /\ create.undo \in 0 .. 2
    /\ create.state \in {"calls", "undoes"} => create.at # 0
    /\ create.state = "undoes" => create.undo \in 1 .. Len(Steps[create.at].undo)

\* Files are docker-sbx's, a sandbox without a name is Boat's, and three have a key.
OwnArtifacts ==
    /\ "files" \in there \/ "putFiles" \in late => kind = "docker-sbx"
    /\ "unnamed" \in there \/ "putUnnamed" \in late => kind = "boat"
    /\ "key" \in there \/ "putKey" \in late => kind \in KeyKinds

\* A delete has begun.
Deleting == reported \/ \E t \in Task : delete[t] # 0

Over == {"made", "failed", "cut"}

\* While a delete runs and after one has reported, create_vm is over.
DeletesComeLast == Deleting => create.state \in Over

\* What a delete has passed without an error is gone, and comes back only if it is stray.
PassedIsGone ==
    ~stray => \A t \in Task : \A i \in 1 .. delete[t] - 1 :
        /\ Calls[i].does \in EndsServer => "server" \notin there
        /\ Calls[i].does = "dropKey" /\ ~Calls[i].forgiven => "key" \notin there

VMInv ==
    /\ VMTypeOK /\ CreateKnown /\ OwnArtifacts /\ DeletesComeLast /\ PassedIsGone
    /\ NothingOutlivesDelete /\ FilesGo

Artifacts == {"server", "unnamed", "key", "files"}

\* What a call's effect adds and takes away.
LEMMA EffectValue ==
    ASSUME there \subseteq Artifacts, NEW does
    PROVE  /\ Effect(does) \subseteq Artifacts
           /\ "files" \in Effect(does) => "files" \in there \/ does = "putFiles"
           /\ "unnamed" \in Effect(does) => "unnamed" \in there \/ does = "putUnnamed"
           /\ "key" \in Effect(does) => "key" \in there \/ does = "putKey"
           /\ does \notin Puts => Effect(does) \subseteq there
           /\ does \in {"dropServer", "dropById"} => "server" \notin Effect(does)
           /\ does = "dropKey" => "key" \notin Effect(does)
           /\ does = "dropFiles" => "files" \notin Effect(does)
  BY DEF Effect, Artifacts, Puts

\* What any outcome of a call can have changed.
Bounded(does) ==
    /\ there' \subseteq Artifacts /\ late' \subseteq Puts \cup Drops
    /\ "files" \in there' \/ "putFiles" \in late' =>
          "files" \in there \/ "putFiles" \in late \/ does = "putFiles"
    /\ "unnamed" \in there' \/ "putUnnamed" \in late' =>
          "unnamed" \in there \/ "putUnnamed" \in late \/ does = "putUnnamed"
    /\ "key" \in there' \/ "putKey" \in late' =>
          "key" \in there \/ "putKey" \in late \/ does = "putKey"
    /\ does \notin Puts => there' \subseteq there /\ late' \cap Puts \subseteq late

\* A call that fails or that nobody waits for.
LEMMA TookValue ==
    ASSUME VMTypeOK, NEW does, Took(does)
    PROVE  Bounded(does)
  <1>. USE DEF VMTypeOK, Artifacts, Bounded
  <1>1. CASE UNCHANGED <<there, late>>
    BY <1>1
  <1>2. CASE there' = Effect(does) /\ UNCHANGED late
    BY <1>2, EffectValue
  <1>3. CASE does \in Puts \cup Drops /\ late' = late \cup {does} /\ UNCHANGED there
    BY <1>3 DEF Puts, Drops
  <1>. QED  BY <1>1, <1>2, <1>3 DEF Took

\* A call that is answered: "ok" means that what it drops is gone, and "gone" that it was.
LEMMA AnswersValue ==
    ASSUME VMTypeOK, NEW call, NEW answer, Answers(call, answer)
    PROVE  /\ Bounded(call.does) /\ UNCHANGED <<cut, kept, stray>>
           /\ answer = "ok" =>
                 /\ call.does \in EndsServer => "server" \notin there'
                 /\ call.does = "dropKey" => "key" \notin there'
                 /\ call.does = "dropFiles" => "files" \notin there'
           /\ answer = "gone" =>
                 /\ call.missing = "gone"
                 /\ call.does \in {"find", "askDrop", "dropServer", "dropById"} =>
                       "server" \notin there'
  <1>. USE DEF VMTypeOK, Artifacts
  <1>1. CASE ~Present(call.does)
    <2>1. answer = call.missing /\ UNCHANGED <<there, late, cut, kept, stray>>
      BY <1>1 DEF Answers
    <2>2. Bounded(call.does)
      BY <2>1 DEF Bounded
    <2>3. /\ call.does \in EndsServer \cup {"find", "askDrop"} => "server" \notin there
          /\ call.does \notin {"dropKey", "dropFiles"}
      BY <1>1 DEF Present, EndsServer
    <2>. QED  BY <2>1, <2>2, <2>3 DEF EndsServer
  <1>2. CASE Present(call.does)
    <2>1. /\ answer = "ok" /\ call.does # "awaitGone" /\ there' = Effect(call.does)
          /\ late' = IF call.does = "askDrop" THEN late \cup {"dropServer"} ELSE late
          /\ UNCHANGED <<cut, kept, stray>>
      BY <1>2 DEF Answers
    <2>2. Bounded(call.does)
      BY <2>1, EffectValue DEF Bounded, Puts, Drops
    <2>. QED  BY <2>1, <2>2, EffectValue DEF EndsServer
  <1>. QED  BY <1>1, <1>2

\* What Steps and Calls are like at every provider.
LEMMA ProgramsOK ==
    ASSUME VMTypeOK
    PROVE  CreateOK(kind, Steps) /\ DeleteOK(Calls)
  BY CreateCalls, DeleteCalls DEF VMTypeOK, Steps, Calls

\* As long as create_vm runs no delete does, so only what it has made and its place matter.
LEMMA WhileItCreates ==
    ASSUME VMInv, create.state \in {"new", "calls", "undoes"}, UNCHANGED <<kind, delete,
           reported, stray>>,
           there' \subseteq Artifacts, late' \subseteq Puts \cup Drops, OwnArtifacts',
           CreateKnown', cut' \in BOOLEAN, kept' \in BOOLEAN
    PROVE  VMInv'
  <1>1. Steps' = Steps /\ Calls' = Calls
    BY DEF Steps, Calls
  <1>2. ~reported /\ \A t \in Task : delete[t] = 0
    BY DEF VMInv, DeletesComeLast, Deleting, Over
  <1>3. VMTypeOK'
    BY <1>1 DEF VMInv, VMTypeOK, CreateKnown, OwnArtifacts, Artifacts
  <1>4. DeletesComeLast' /\ PassedIsGone' /\ NothingOutlivesDelete' /\ FilesGo'
    BY <1>2 DEF DeletesComeLast, Deleting, PassedIsGone, NothingOutlivesDelete, FilesGo
  <1>. QED  BY <1>3, <1>4 DEF VMInv

\* create_vm raises, after its clean-up or without one.
LEMMA RaisesValue ==
    ASSUME VMInv, create.state = "calls", Raises, UNCHANGED kind
    PROVE  CreateKnown'
  <1>1. CreateOK(kind, Steps) /\ Steps' = Steps
    BY ProgramsOK DEF VMInv, Steps
  <1>2. create.at \in 1 .. Len(Steps) /\ Len(Steps) \in Nat
    BY <1>1 DEF VMInv, CreateKnown, CreateOK
  <1>3. /\ Len(Steps[create.at].undo) \in 0 .. 2
        /\ Steps[create.at].undo # <<>> => Len(Steps[create.at].undo) # 0
    BY <1>1, <1>2 DEF CreateOK, CreateStepOK
  <1>4. CASE Steps[create.at].undo = <<>>
    BY <1>1, <1>2, <1>4 DEF Raises, Creates, CreateKnown
  <1>5. CASE Steps[create.at].undo # <<>>
    <2>1. create' = [state |-> "undoes", at |-> create.at, undo |-> 1]
      BY <1>5 DEF Raises, Creates
    <2>. QED  BY <1>1, <1>2, <1>3, <1>5, <2>1 DEF CreateKnown
  <1>. QED  BY <1>4, <1>5

\* It goes on to the next call of its clean-up.
LEMMA NextUndoValue ==
    ASSUME VMInv, create.state = "undoes", NextUndo, UNCHANGED kind
    PROVE  CreateKnown'
  <1>. DEFINE n == Len(Steps[create.at].undo)
  <1>1. CreateOK(kind, Steps) /\ Steps' = Steps
    BY ProgramsOK DEF VMInv, Steps
  <1>2. create.at \in 1 .. Len(Steps) /\ Len(Steps) \in Nat /\ create.undo \in 1 .. n
    BY <1>1 DEF VMInv, CreateKnown, CreateOK
  <1>3. n \in 0 .. 2
    BY <1>1, <1>2 DEF CreateOK, CreateStepOK
  <1>4. CASE create.undo = n
    BY <1>1, <1>2, <1>4 DEF NextUndo, Creates, CreateKnown
  <1>5. CASE create.undo # n
    <2>1. create' = [state |-> "undoes", at |-> create.at, undo |-> create.undo + 1]
      BY <1>5 DEF NextUndo, Creates
    <2>2. n' = n
      BY <1>1, <2>1
    <2>. HIDE DEF n
    <2>3. create.undo + 1 \in 1 .. n /\ create.undo + 1 \in 0 .. 2
      BY <1>2, <1>3, <1>5
    <2>4. create'.undo \in 1 .. n' /\ create'.undo \in 0 .. 2 /\ create'.at = create.at
          /\ create'.state = "undoes"
          /\ create' \in [state : {"new", "calls", "undoes", "made", "failed", "cut"}, at : Nat, undo : Nat]
      BY <1>2, <2>1, <2>2, <2>3
    <2>. QED  BY <1>1, <1>2, <2>4 DEF CreateKnown, n
  <1>. QED  BY <1>4, <1>5

\* A call of create_vm or of its clean-up makes only what is this provider's.
LEMMA CreateMakesItsOwn ==
    ASSUME VMInv, create.state \in {"calls", "undoes"}, UNCHANGED kind,
           \/ create.state = "calls" /\ Bounded(Steps[create.at].call.does)
           \/ create.state = "undoes" /\ Bounded(Steps[create.at].undo[create.undo].does)
    PROVE  there' \subseteq Artifacts /\ late' \subseteq Puts \cup Drops /\ OwnArtifacts'
  <1>1. create.at \in 1 .. Len(Steps) /\ CreateStepOK(kind, Steps[create.at])
    BY ProgramsOK DEF VMInv, CreateKnown, CreateOK
  <1>2. CASE create.state = "calls" /\ Bounded(Steps[create.at].call.does)
    BY <1>1, <1>2 DEF CreateStepOK, Bounded, VMInv, OwnArtifacts
  <1>3. CASE create.state = "undoes" /\ Bounded(Steps[create.at].undo[create.undo].does)
    <2>1. Steps[create.at].undo[create.undo].does \in Drops
      BY <1>1, <1>3 DEF CreateStepOK, VMInv, CreateKnown
    <2>. QED  BY <1>3, <2>1 DEF Bounded, VMInv, OwnArtifacts, Drops
  <1>. QED  BY <1>2, <1>3

\* Every step of create_vm (HostService.provision).
LEMMA CreateSteps ==
    ASSUME VMInv,
           Provision \/ CreateAnswered \/ CreateFails \/ UndoAnswered \/ UndoFails \/ CreateIsCut
    PROVE  VMInv'
  <1>1. CreateOK(kind, Steps)
    BY ProgramsOK DEF VMInv
  <1>2. cut \in BOOLEAN /\ kept \in BOOLEAN
    BY DEF VMInv, VMTypeOK
  <1>3. ASSUME create.state \in {"calls", "undoes"}, UNCHANGED kind,
               Creates("failed", create.at, 0) \/ Creates("cut", create.at, 0)
        PROVE  CreateKnown'
    BY <1>1, <1>3 DEF VMInv, CreateKnown, Creates, Steps
  <1>4. CASE Provision
    <2>1. CreateKnown'
      <3>1. create' = [state |-> "calls", at |-> 1, undo |-> 0] /\ Steps' = Steps
        BY <1>4 DEF Provision, Creates, Steps
      <3>2. 1 \in 0 .. Len(Steps)
        BY <1>1 DEF CreateOK
      <3>. QED  BY <3>1, <3>2 DEF CreateKnown
    <2>2. /\ there' \subseteq Artifacts /\ late' \subseteq Puts \cup Drops /\ OwnArtifacts'
          /\ create.state = "new" /\ UNCHANGED <<kind, delete, reported, cut, kept, stray>>
      BY <1>4 DEF Provision, VMInv, VMTypeOK, Artifacts, OwnArtifacts
    <2>. QED  BY <1>2, <2>1, <2>2, WhileItCreates
  <1>5. CASE CreateAnswered
    <2>1. PICK answer \in {"ok", "gone", "error"} :
            /\ Answers(Steps[create.at].call, answer)
            /\ IF answer # "ok" THEN Raises
               ELSE IF create.at = Len(Steps) THEN Creates("made", create.at, 0)
               ELSE Creates("calls", create.at + 1, 0)
      BY <1>5 DEF CreateAnswered
    <2>2. create.state = "calls" /\ UNCHANGED <<kind, delete, reported>>
      BY <1>5 DEF CreateAnswered
    <2>3. Bounded(Steps[create.at].call.does) /\ UNCHANGED <<cut, kept, stray>>
      BY <2>1, AnswersValue DEF VMInv
    <2>4. CreateKnown'
      <3>1. CASE answer # "ok"
        <4>1. Raises
          BY <2>1, <3>1
        <4>. QED  BY <2>2, <4>1, RaisesValue
      <3>2. CASE answer = "ok" /\ create.at = Len(Steps)
        BY <1>1, <2>1, <2>2, <3>2 DEF Creates, CreateKnown, CreateOK, Steps, VMInv
      <3>3. CASE answer = "ok" /\ create.at # Len(Steps)
        BY <1>1, <2>1, <2>2, <3>3 DEF Creates, CreateKnown, CreateOK, Steps, VMInv
      <3>. QED  BY <3>1, <3>2, <3>3
    <2>. QED  BY <1>2, <2>2, <2>3, <2>4, CreateMakesItsOwn, WhileItCreates
  <1>6. CASE CreateFails
    <2>1. /\ create.state = "calls" /\ Raises /\ UNCHANGED <<kind, delete, reported, kept, stray>>
          /\ Took(Steps[create.at].call.does) /\ cut' \in BOOLEAN
      BY <1>2, <1>6 DEF CreateFails
    <2>2. Bounded(Steps[create.at].call.does)
      BY <2>1, TookValue DEF VMInv
    <2>3. CreateKnown'
      BY <2>1, RaisesValue
    <2>4. there' \subseteq Artifacts /\ late' \subseteq Puts \cup Drops /\ OwnArtifacts'
      BY <2>1, <2>2, CreateMakesItsOwn
    <2>. QED  BY <1>2, <2>1, <2>3, <2>4, WhileItCreates
  <1>7. CASE UndoAnswered
    <2>1. PICK answer \in {"ok", "gone"} : Answers(Steps[create.at].undo[create.undo], answer)
      BY <1>7 DEF UndoAnswered
    <2>2. create.state = "undoes" /\ NextUndo /\ UNCHANGED <<kind, delete, reported>>
      BY <1>7 DEF UndoAnswered
    <2>3. Bounded(Steps[create.at].undo[create.undo].does) /\ UNCHANGED <<cut, kept, stray>>
      BY <2>1, AnswersValue DEF VMInv
    <2>4. CreateKnown'
      BY <2>2, NextUndoValue
    <2>. QED  BY <1>2, <2>2, <2>3, <2>4, CreateMakesItsOwn, WhileItCreates
  <1>8. CASE UndoFails
    <2>1. /\ create.state = "undoes" /\ UNCHANGED <<kind, delete, reported, stray>>
          /\ Took(Steps[create.at].undo[create.undo].does) /\ cut' = TRUE /\ kept' = TRUE
          /\ NextUndo \/ Creates("failed", create.at, 0)
      BY <1>8 DEF UndoFails
    <2>2. Bounded(Steps[create.at].undo[create.undo].does)
      BY <2>1, TookValue DEF VMInv
    <2>3. CreateKnown'
      BY <1>3, <2>1, NextUndoValue
    <2>. QED  BY <2>1, <2>2, <2>3, CreateMakesItsOwn, WhileItCreates
  <1>9. CASE CreateIsCut
    <2>1. /\ create.state \in {"calls", "undoes"} /\ Creates("cut", create.at, 0)
          /\ UNCHANGED <<kind, delete, reported, kept, stray>> /\ cut' = TRUE
          /\ create.state = "calls" => Took(Steps[create.at].call.does)
          /\ create.state = "undoes" => Took(Steps[create.at].undo[create.undo].does)
      BY <1>9 DEF CreateIsCut
    <2>2. \/ create.state = "calls" /\ Bounded(Steps[create.at].call.does)
          \/ create.state = "undoes" /\ Bounded(Steps[create.at].undo[create.undo].does)
      BY <2>1, TookValue DEF VMInv
    <2>. QED  BY <1>2, <1>3, <2>1, <2>2, CreateMakesItsOwn, WhileItCreates
  <1>. QED  BY <1>4, <1>5, <1>6, <1>7, <1>8, <1>9

-----------------------------------------------------------------------------
(* delete_vm.                                                              *)

\* Moves takes one delete on, back, or to its report.
LEMMA MovesValue ==
    ASSUME VMTypeOK, NEW t \in Task, delete[t] # 0, NEW answer \in {"ok", "gone", "error"},
           Moves(t, answer)
    PROVE  /\ delete[t] \in 1 .. Len(Calls)
           /\ delete' \in [Task -> 0 .. Len(Calls)]
           /\ \A u \in Task : u # t => delete'[u] = delete[u]
           /\ delete'[t] # 0 => answer = "ok" /\ delete'[t] = delete[t] + 1
           /\ reported' \in BOOLEAN
           /\ reported => reported'
           /\ reported' => \/ reported
                           \/ answer = "gone"
                           \/ answer = "ok" /\ delete[t] = Len(Calls)
  <1>1. delete[t] \in 1 .. Len(Calls) /\ Len(Calls) \in 1 .. 3
    BY ProgramsOK DEF VMTypeOK, DeleteOK
  <1>2. CASE answer = "gone" \/ (answer = "ok" /\ delete[t] = Len(Calls))
    <2>1. delete' = [delete EXCEPT ![t] = 0] /\ reported' = TRUE
      BY <1>2 DEF Moves, VMTypeOK
    <2>. QED  BY <1>1, <1>2, <2>1 DEF VMTypeOK
  <1>3. CASE answer = "error"
    <2>1. delete' = [delete EXCEPT ![t] = 0] /\ reported' = reported
      BY <1>3 DEF Moves, VMTypeOK
    <2>. QED  BY <1>1, <1>3, <2>1 DEF VMTypeOK
  <1>4. CASE answer = "ok" /\ delete[t] # Len(Calls)
    <2>1. delete' = [delete EXCEPT ![t] = delete[t] + 1] /\ reported' = reported
      BY <1>4 DEF Moves, VMTypeOK
    <2>. QED  BY <1>1, <1>4, <2>1 DEF VMTypeOK
  <1>. QED  BY <1>2, <1>3, <1>4

\* Once deletes run nothing comes back, so what was gone stays so.
LEMMA NothingComesBack ==
    ASSUME VMInv, create.state \in Over, UNCHANGED <<kind, create, stray>>,
           there' \subseteq there, late' \subseteq Puts \cup Drops, late' \cap Puts \subseteq late, delete' \in [Task -> 0 .. Len(Calls)],
           reported' \in BOOLEAN, cut' \in BOOLEAN, kept' \in BOOLEAN,
           PassedIsGone', NothingOutlivesDelete', FilesGo'
    PROVE  VMInv'
  <1>1. Steps' = Steps /\ Calls' = Calls
    BY DEF Steps, Calls
  <1>2. VMTypeOK' /\ CreateKnown'
    BY <1>1 DEF VMInv, VMTypeOK, CreateKnown
  <1>3. OwnArtifacts'
    BY DEF VMInv, OwnArtifacts, Puts
  <1>4. DeletesComeLast'
    BY DEF DeletesComeLast
  <1>. QED  BY <1>2, <1>3, <1>4 DEF VMInv

\* A delete that goes on from its call, whatever the outcome of the call: what the call drops
\* is gone if the delete takes the next one, and everything if it reports (delete_vm).
LEMMA DeleteMoves ==
    ASSUME VMInv, NEW t \in Task, delete[t] # 0, NEW answer \in {"ok", "gone", "error"},
           Moves(t, answer), Bounded(Calls[delete[t]].does), UNCHANGED <<kind, create, stray>>,
           cut' \in BOOLEAN, kept' \in BOOLEAN, kept => kept',
           answer = "ok" =>
              /\ Calls[delete[t]].does \in EndsServer => "server" \notin there'
              /\ Calls[delete[t]].does = "dropKey" =>
                    "key" \notin there' \/ Calls[delete[t]].forgiven
              /\ Calls[delete[t]].does = "dropFiles" => "files" \notin there' \/ kept',
           answer = "gone" => Calls[delete[t]].missing = "gone" /\ "server" \notin there'
    PROVE  VMInv'
  <1>. DEFINE i == delete[t]
              call == Calls[delete[t]]
  <1>1. Calls' = Calls /\ Calls = DeleteOf(kind) /\ kind \in Kind
    BY DEF VMInv, VMTypeOK, Calls
  <1>2. DeleteOK(Calls) /\ VMTypeOK
    BY ProgramsOK DEF VMInv
  <1>3. /\ i \in 1 .. Len(Calls) /\ delete' \in [Task -> 0 .. Len(Calls)]
        /\ \A u \in Task : u # t => delete'[u] = delete[u]
        /\ delete'[t] # 0 => answer = "ok" /\ delete'[t] = i + 1
        /\ reported' \in BOOLEAN
        /\ reported => reported'
        /\ reported' => reported \/ answer = "gone" \/ (answer = "ok" /\ i = Len(Calls))
    BY <1>2, MovesValue
  <1>4. create.state \in Over
    BY DEF VMInv, DeletesComeLast, Deleting
  <1>5. Len(Calls) \in 1 .. 3 /\ DeleteCallOK(call)
    BY <1>2, <1>3 DEF DeleteOK
  <1>6. there' \subseteq there /\ late' \subseteq Puts \cup Drops /\ late' \cap Puts \subseteq late
    BY <1>5 DEF Bounded, DeleteCallOK, Puts, Drops
  <1>7. PassedIsGone'
    <2>. SUFFICES ASSUME ~stray, NEW u \in Task, NEW j \in 1 .. delete'[u] - 1
                  PROVE  /\ Calls[j].does \in EndsServer => "server" \notin there'
                         /\ Calls[j].does = "dropKey" /\ ~Calls[j].forgiven => "key" \notin there'
      BY <1>1 DEF PassedIsGone
    <2>1. CASE u = t /\ j = i
      BY <1>3, <2>1
    <2>2. CASE u # t \/ j # i
      <3>1. j \in 1 .. delete[u] - 1
        BY <1>3, <1>5, <2>2
      <3>. QED  BY <1>6, <3>1 DEF VMInv, PassedIsGone
    <2>. QED  BY <2>1, <2>2
  <1>8. NothingOutlivesDelete'
    <2>. SUFFICES ASSUME reported', ~stray
                  PROVE  /\ "server" \notin there'
                         /\ kind \in {"hetzner", "exoscale"} => "key" \notin there'
      BY DEF NothingOutlivesDelete
    <2>1. CASE reported
      BY <1>6, <2>1 DEF VMInv, NothingOutlivesDelete
    <2>2. CASE answer = "gone"
      <3>1. call.does \in {"find", "askDrop", "dropServer", "dropById"}
        BY <1>5, <2>2 DEF DeleteCallOK
      <3>2. ASSUME kind \in {"hetzner", "exoscale"}
            PROVE  "key" \notin there
        <4>1. Calls[1].does = "dropKey" /\ ~Calls[1].forgiven
          BY <1>1, <3>2, DeleteCalls
        <4>2. 1 \in 1 .. i - 1
          BY <1>3, <1>5, <3>1, <4>1
        <4>. QED  BY <4>1, <4>2 DEF VMInv, PassedIsGone
      <3>. QED  BY <1>6, <2>2, <3>2
    <2>3. CASE answer = "ok" /\ i = Len(Calls)
      <3>1. PICK j \in 1 .. Len(Calls) : Calls[j].does \in EndsServer
        BY <1>2 DEF DeleteOK
      <3>2. "server" \notin there'
        <4>1. CASE j = i
          BY <2>3, <3>1, <4>1
        <4>2. CASE j # i
          <5>1. j \in 1 .. i - 1
            BY <1>3, <1>5, <2>3, <3>1, <4>2
          <5>. QED  BY <1>6, <3>1, <5>1 DEF VMInv, PassedIsGone
        <4>. QED  BY <4>1, <4>2
      <3>3. ASSUME kind \in {"hetzner", "exoscale"}
            PROVE  "key" \notin there'
        <4>1. Len(Calls) = 3 /\ Calls[1].does = "dropKey" /\ ~Calls[1].forgiven
          BY <1>1, <3>3, DeleteCalls
        <4>2. 1 \in 1 .. i - 1
          BY <2>3, <4>1
        <4>. QED  BY <1>6, <4>1, <4>2 DEF VMInv, PassedIsGone
      <3>. QED  BY <3>2, <3>3
    <2>. QED  BY <1>3, <2>1, <2>2, <2>3
  <1>9. FilesGo'
    <2>. SUFFICES ASSUME reported', ~kept', ~stray
                  PROVE  "files" \notin there'
      BY DEF FilesGo
    <2>1. CASE reported
      BY <1>6, <2>1 DEF VMInv, FilesGo
    <2>2. CASE kind # "docker-sbx"
      BY <1>6, <2>2 DEF VMInv, OwnArtifacts
    <2>3. CASE ~reported /\ kind = "docker-sbx"
      <3>1. /\ Len(Calls) = 2 /\ Calls[1].missing # "gone"
            /\ Calls[2].does = "dropFiles" /\ Calls[2].missing # "gone"
        BY <1>1, <2>3, DeleteCalls
      <3>2. answer = "ok" /\ i = 2
        BY <1>3, <2>3, <3>1
      <3>. QED  BY <3>1, <3>2
    <2>. QED  BY <2>1, <2>2, <2>3
  <1>. QED  BY <1>3, <1>4, <1>6, <1>7, <1>8, <1>9, NothingComesBack

\* Every step of a delete (delete_host and the janitor).
LEMMA DeleteSteps ==
    ASSUME VMInv, NEW t \in Task,
           Delete(t) \/ DeleteAnswered(t) \/ DeleteFails(t) \/ DeleteIsCut(t)
    PROVE  VMInv'
  <1>1. VMTypeOK /\ DeleteOK(Calls) /\ cut \in BOOLEAN /\ kept \in BOOLEAN
    BY ProgramsOK DEF VMInv, VMTypeOK
  <1>2. ASSUME delete[t] # 0
        PROVE  /\ delete[t] \in 1 .. Len(Calls) /\ DeleteCallOK(Calls[delete[t]])
    BY <1>1, <1>2 DEF VMTypeOK, DeleteOK
  <1>3. CASE Delete(t)
    <2>1. /\ create.state \in Over /\ ~reported
          /\ delete' = [delete EXCEPT ![t] = 1]
          /\ UNCHANGED <<kind, there, late, create, reported, cut, kept, stray>>
      BY <1>3 DEF Delete, Over
    <2>2. Calls' = Calls /\ late' \subseteq Puts \cup Drops
      BY <1>1, <2>1 DEF Calls, VMTypeOK
    <2>3. delete' \in [Task -> 0 .. Len(Calls)]
      BY <1>1, <2>1 DEF DeleteOK, VMTypeOK
    <2>4. PassedIsGone'
      BY <1>1, <2>1, <2>2 DEF VMInv, PassedIsGone, VMTypeOK
    <2>5. NothingOutlivesDelete' /\ FilesGo'
      BY <2>1 DEF NothingOutlivesDelete, FilesGo
    <2>. QED  BY <1>1, <2>1, <2>2, <2>3, <2>4, <2>5, NothingComesBack DEF VMTypeOK
  <1>4. CASE DeleteAnswered(t)
    <2>1. PICK answer \in {"ok", "gone", "error"} :
            Answers(Calls[delete[t]], answer) /\ Moves(t, answer)
      BY <1>4 DEF DeleteAnswered
    <2>2. delete[t] # 0 /\ UNCHANGED <<kind, create>>
      BY <1>4 DEF DeleteAnswered
    <2>3. DeleteCallOK(Calls[delete[t]])
      BY <1>2, <2>2
    <2>4. /\ Bounded(Calls[delete[t]].does) /\ UNCHANGED <<cut, kept, stray>>
          /\ answer = "ok" =>
                /\ Calls[delete[t]].does \in EndsServer => "server" \notin there'
                /\ Calls[delete[t]].does = "dropKey" => "key" \notin there'
                /\ Calls[delete[t]].does = "dropFiles" => "files" \notin there'
          /\ answer = "gone" =>
                /\ Calls[delete[t]].missing = "gone"
                /\ Calls[delete[t]].does \in {"find", "askDrop", "dropServer", "dropById"} =>
                      "server" \notin there'
      BY <1>1, <2>1, AnswersValue
    <2>5. answer = "gone" => Calls[delete[t]].missing = "gone" /\ "server" \notin there'
      BY <2>3, <2>4 DEF DeleteCallOK
    <2>. QED  BY <1>1, <2>1, <2>2, <2>4, <2>5, DeleteMoves
  <1>5. CASE DeleteFails(t)
    <2>. DEFINE call == Calls[delete[t]]
    <2>1. /\ delete[t] # 0 /\ Took(call.does) /\ Moves(t, IF call.forgiven THEN "ok" ELSE "error")
          /\ kept' = (kept \/ call.forgiven) /\ UNCHANGED <<kind, create, cut, stray>>
      BY <1>5 DEF DeleteFails
    <2>2. Bounded(call.does) /\ DeleteCallOK(call)
      BY <1>1, <1>2, <2>1, TookValue
    <2>3. kept' \in BOOLEAN /\ (kept => kept') /\ (call.forgiven => kept')
      BY <1>1, <2>1, <2>2 DEF DeleteCallOK
    <2>4. CASE call.forgiven
      <3>1. Moves(t, "ok")
        BY <2>1, <2>4
      <3>2. call.does \notin EndsServer
        BY <2>2, <2>4 DEF DeleteCallOK, EndsServer
      <3>. QED  BY <1>1, <2>1, <2>2, <2>3, <2>4, <3>1, <3>2, DeleteMoves
    <2>5. CASE ~call.forgiven
      <3>1. Moves(t, "error")
        BY <2>1, <2>5
      <3>. QED  BY <1>1, <2>1, <2>2, <2>3, <3>1, DeleteMoves
    <2>. QED  BY <2>4, <2>5
  <1>6. CASE DeleteIsCut(t)
    <2>1. /\ delete[t] # 0 /\ delete' = [delete EXCEPT ![t] = 0] /\ Took(Calls[delete[t]].does)
          /\ UNCHANGED <<kind, create, reported, cut, kept, stray>>
      BY <1>6 DEF DeleteIsCut
    <2>2. Bounded(Calls[delete[t]].does)
      BY <1>1, <2>1, TookValue
    <2>3. Moves(t, "error")
      <3>1. reported' <=> reported \/ FALSE
        BY <2>1
      <3>. QED  BY <1>1, <2>1, <3>1 DEF Moves, VMTypeOK
    <2>. QED  BY <1>1, <2>1, <2>2, <2>3, DeleteMoves
  <1>. QED  BY <1>3, <1>4, <1>5, <1>6

-----------------------------------------------------------------------------
\* A late effect (a call that nobody waits for), and the provider's own doing.
LEMMA OtherVMSteps ==
    ASSUME VMInv, LateEffect \/ Evicted
    PROVE  VMInv'
  <1>1. CASE LateEffect
    <2>1. PICK does \in late :
            /\ late' = late \ {does} /\ (there' = Effect(does) \/ UNCHANGED there)
            /\ stray' = (stray \/ (does \in Puts /\ Deleting))
      BY <1>1 DEF LateEffect, Deleting
    <2>2. UNCHANGED <<kind, create, delete, reported, cut, kept>>
      BY <1>1 DEF LateEffect
    <2>3. Calls' = Calls /\ Steps' = Steps
      BY <2>2 DEF Calls, Steps
    <2>4. Bounded(does)
      BY <2>1, EffectValue DEF Bounded, VMInv, VMTypeOK, Artifacts
    <2>5. OwnArtifacts'
      BY <2>1, <2>2, <2>4 DEF Bounded, VMInv, OwnArtifacts
    <2>6. VMTypeOK' /\ CreateKnown'
      BY <2>1, <2>2, <2>3, <2>4, <2>5 DEF Bounded, VMInv, VMTypeOK, CreateKnown, OwnArtifacts, Artifacts
    <2>7. Deleting /\ ~stray' => ~stray /\ there' \subseteq there
      BY <2>1, <2>4 DEF Bounded, VMInv, VMTypeOK
    <2>8. DeletesComeLast'
      BY <2>2 DEF VMInv, DeletesComeLast, Deleting
    <2>9. PassedIsGone'
      <3>. SUFFICES ASSUME ~stray', NEW u \in Task, NEW j \in 1 .. delete[u] - 1
                    PROVE  /\ Calls[j].does \in EndsServer => "server" \notin there'
                           /\ Calls[j].does = "dropKey" /\ ~Calls[j].forgiven => "key" \notin there'
        BY <2>2, <2>3 DEF PassedIsGone
      <3>1. delete[u] # 0
        BY DEF VMInv, VMTypeOK
      <3>2. ~stray /\ there' \subseteq there
        BY <2>7, <3>1 DEF Deleting
      <3>. QED  BY <3>2 DEF VMInv, PassedIsGone
    <2>10. NothingOutlivesDelete' /\ FilesGo'
      BY <2>2, <2>7 DEF VMInv, Deleting, NothingOutlivesDelete, FilesGo
    <2>. QED  BY <2>5, <2>6, <2>8, <2>9, <2>10 DEF VMInv
  <1>2. CASE Evicted
    <2>1. /\ there' = there \ {"server"} /\ cut' = TRUE
          /\ UNCHANGED <<kind, late, create, delete, reported, kept, stray>>
      BY <1>2 DEF Evicted
    <2>2. Calls' = Calls /\ Steps' = Steps
      BY <2>1 DEF Calls, Steps
    <2>3. VMTypeOK' /\ CreateKnown' /\ OwnArtifacts' /\ DeletesComeLast'
      BY <2>1, <2>2 DEF VMInv, VMTypeOK, CreateKnown, OwnArtifacts, DeletesComeLast, Deleting
    <2>4. PassedIsGone' /\ NothingOutlivesDelete' /\ FilesGo'
      BY <2>1, <2>2 DEF VMInv, PassedIsGone, NothingOutlivesDelete, FilesGo
    <2>. QED  BY <2>3, <2>4 DEF VMInv
  <1>. QED  BY <1>1, <1>2

\* Any step of a VM at its provider.
LEMMA VMStep == VMInv /\ [VMNext]_vm => VMInv'
  <1>. SUFFICES ASSUME VMInv, [VMNext]_vm
                PROVE  VMInv'
    OBVIOUS
  <1>1. CASE VMNext
    BY <1>1, CreateSteps, DeleteSteps, OtherVMSteps DEF VMNext
  <1>2. CASE UNCHANGED vm
    BY <1>2 DEF vm, VMInv, VMTypeOK, CreateKnown, OwnArtifacts, DeletesComeLast, Deleting,
                PassedIsGone, NothingOutlivesDelete, FilesGo, Steps, Calls
  <1>. QED  BY <1>1, <1>2

\* Before create_vm is called (HostService.provision).
LEMMA VMStarts == VMInit /\ kind \in Kind => VMInv
  <1>. SUFFICES ASSUME VMInit, kind \in Kind
                PROVE  VMInv
    OBVIOUS
  <1>1. Len(Steps) \in 1 .. 5 /\ Len(Calls) \in 1 .. 3
    BY CreateCalls, DeleteCalls DEF CreateOK, DeleteOK, Steps, Calls
  <1>2. create = [state |-> "new", at |-> 0, undo |-> 0]
    BY DEF VMInit
  <1>3. CreateKnown
    BY <1>1, <1>2 DEF CreateKnown
  <1>4. VMTypeOK
    <2>1. delete \in [Task -> 0 .. Len(Calls)]
      BY <1>1 DEF VMInit
    <2>2. create.at \in 0 .. Len(Steps) /\ create.undo \in 0 .. 2 /\ create.state = "new"
      BY <1>1, <1>2
    <2>. QED  BY <2>1, <2>2 DEF VMInit, VMTypeOK
  <1>5. OwnArtifacts /\ DeletesComeLast /\ PassedIsGone /\ NothingOutlivesDelete /\ FilesGo
    BY DEF VMInit, OwnArtifacts, DeletesComeLast, Deleting, PassedIsGone, NothingOutlivesDelete, FilesGo
  <1>. QED  BY <1>3, <1>4, <1>5 DEF VMInv

-----------------------------------------------------------------------------
(* A create_vm that fails.                                                 *)

Creating == create.state \in {"new", "calls", "undoes"}

\* What create_vm has not been answered yet is not there.
NothingYet ==
    /\ create.state = "new" \/ (create.state = "calls" /\ create.at = 1) => there = {} /\ late = {}
    /\ Creating /\ ~cut => late = {}

\* AWS makes the key after the image is resolved, and waits for a server that it has.
AwsInStep ==
    kind = "aws" /\ create.state = "calls" /\ ~cut =>
        /\ create.at = 2 => "key" \notin there
        /\ create.at = 5 => "server" \in there

FindInv == VMInv /\ NothingYet /\ AwsInStep

\* create_vm of AWS: the calls that have no clean-up, and what the clean-up of the others is.
LEMMA AwsProgram ==
    LET steps == CreateOf("aws") IN
    /\ Len(steps) = 5
    /\ \A i \in {1, 2, 5} : steps[i].undo = <<>>
    /\ \A i \in {3, 4} : Len(steps[i].undo) = 1 /\ steps[i].undo[1].does = "dropKey"
    /\ steps[1].call.does = "check" /\ steps[2].call.does = "putKey"
    /\ steps[4].call.does = "putServer"
  <1>. DEFINE steps == CreateOf("aws")
              undo == Forgiven(Call("dropKey", "ok"))
  <1>1. steps = << Step(Call("check", "ok"), <<>>), Step(Call("putKey", "ok"), <<>>),
                   Step(Call("check", "ok"), <<undo>>), Step(Call("putServer", "ok"), <<undo>>),
                   Step(Call("await", "error"), <<>>) >>
    BY DEF CreateOf, AwsCreate, AwsResolveImage, AwsImportKeyPair, AwsGroup, AwsDeleteKeyPair,
           AwsRunInstance, AwsWaitForRunning
  <1>2. undo.does = "dropKey"
    BY ForgivenValue
  <1>. HIDE DEF undo
  <1>3. Len(steps) = 5 /\ \A i \in {1, 2, 5} : steps[i].undo = <<>>
    BY <1>1 DEF Step
  <1>4. \A i \in {3, 4} : steps[i].undo = <<undo>>
    BY <1>1 DEF Step
  <1>5. /\ steps[1].call.does = "check" /\ steps[2].call.does = "putKey"
        /\ steps[4].call.does = "putServer"
    BY <1>1 DEF Step, Call
  <1>6. \A i \in {3, 4} : Len(steps[i].undo) = 1 /\ steps[i].undo[1].does = "dropKey"
    BY <1>2, <1>4
  <1>. QED  BY <1>3, <1>5, <1>6

\* create_vm of Boat: every call but the first removes the sandbox when it fails.
LEMMA BoatProgram ==
    LET steps == CreateOf("boat") IN
    /\ Len(steps) = 5
    /\ steps[1].undo = <<>>
    /\ \A i \in 2 .. 5 : Len(steps[i].undo) = 1 /\ steps[i].undo[1].does = "dropById"
  <1>. DEFINE steps == CreateOf("boat")
              undo == Forgiven(Call("dropById", "gone"))
  <1>1. steps = << Step(Call("putUnnamed", "ok"), <<>>), Step(Call("name", "gone"), <<undo>>),
                   Step(Call("await", "gone"), <<undo>>), Step(Call("await", "gone"), <<undo>>),
                   Step(Call("await", "gone"), <<undo>>) >>
    BY DEF CreateOf, BoatCreate, BoatCreateSandbox, BoatNameSandbox, BoatWaitReady,
           BoatRunCommand, BoatConfigureSsh, BoatDeleteSandbox, BoatNotThere
  <1>2. undo.does = "dropById"
    BY ForgivenValue
  <1>. HIDE DEF undo
  <1>3. Len(steps) = 5 /\ steps[1].undo = <<>>
    BY <1>1 DEF Step
  <1>4. steps[2].undo = <<undo>> /\ steps[3].undo = <<undo>>
    BY <1>1 DEF Step
  <1>5. steps[4].undo = <<undo>> /\ steps[5].undo = <<undo>>
    BY <1>1 DEF Step
  <1>6. ASSUME NEW i \in 2 .. 5
        PROVE  Len(steps[i].undo) = 1 /\ steps[i].undo[1].does = "dropById"
    <2>1. i = 2 \/ i = 3 \/ i = 4 \/ i = 5
      OBVIOUS
    <2>2. steps[i].undo = <<undo>>
      BY <1>4, <1>5, <2>1
    <2>. QED  BY <1>2, <2>2
  <1>. QED  BY <1>3, <1>6

\* An answer changes nothing unless it is "ok", and nothing is left to come of it unless it
\* asks for a deletion.
LEMMA AnswersNow ==
    ASSUME NEW call, NEW answer, Answers(call, answer)
    PROVE  /\ answer # "ok" => there' = there /\ late' = late
           /\ call.does # "askDrop" => late' = late
           /\ call.does = "putServer" => "server" \in there'
           /\ call.does = "check" => there' = there
           /\ call.does = "dropKey" => "key" \notin there'
           /\ call.does = "dropById" => "unnamed" \notin there'
  <1>1. CASE ~Present(call.does)
    <2>1. UNCHANGED <<there, late>>
      BY <1>1 DEF Answers
    <2>2. /\ call.does \notin {"putServer", "dropKey"}
          /\ call.does = "dropById" => "unnamed" \notin there
      BY <1>1 DEF Present
    <2>. QED  BY <2>1, <2>2
  <1>2. CASE Present(call.does)
    <2>1. /\ answer = "ok" /\ there' = Effect(call.does)
          /\ late' = IF call.does = "askDrop" THEN late \cup {"dropServer"} ELSE late
      BY <1>2 DEF Answers
    <2>. QED  BY <2>1 DEF Effect
  <1>. QED  BY <1>1, <1>2

\* Where a failed call of create_vm leads: to the clean-up, or to its end where there is none.
LEMMA RaisesTo ==
    ASSUME VMInv, Raises
    PROVE  /\ create'.at = create.at
           /\ create'.state = IF Steps[create.at].undo = <<>> THEN "failed" ELSE "undoes"
  BY DEF Raises, Creates

LEMMA NextUndoTo ==
    ASSUME VMInv, NextUndo
    PROVE  create'.at = create.at /\ create'.state \in {"failed", "undoes"}
  BY DEF NextUndo, Creates

\* What a step of create_vm adds to what the VM's steps keep (HostService.provision).
LEMMA CreateKeepsTrack ==
    ASSUME FindInv,
           Provision \/ CreateAnswered \/ CreateFails \/ UndoAnswered \/ UndoFails \/ CreateIsCut
    PROVE  NothingYet' /\ AwsInStep'
  <1>1. /\ VMInv /\ cut \in BOOLEAN /\ CreateOK(kind, Steps) /\ create.at \in 0 .. Len(Steps)
        /\ create.state \in {"calls", "undoes"} => create.at # 0
        /\ Len(Steps) \in 1 .. 5
    BY ProgramsOK DEF FindInv, VMInv, VMTypeOK, CreateKnown, CreateOK
  <1>2. CASE Provision
    <2>1. /\ create.state = "new" /\ create'.state = "calls" /\ create'.at = 1
          /\ UNCHANGED <<kind, there, late, cut>>
      BY <1>2 DEF Provision, Creates
    <2>. QED  BY <2>1 DEF FindInv, NothingYet, AwsInStep, Creating
  <1>3. CASE CreateAnswered
    <2>1. PICK answer \in {"ok", "gone", "error"} :
            /\ Answers(Steps[create.at].call, answer)
            /\ IF answer # "ok" THEN Raises
               ELSE IF create.at = Len(Steps) THEN Creates("made", create.at, 0)
               ELSE Creates("calls", create.at + 1, 0)
      BY <1>3 DEF CreateAnswered
    <2>2. create.state = "calls" /\ UNCHANGED kind
      BY <1>3 DEF CreateAnswered
    <2>3. UNCHANGED cut
      BY <2>1 DEF Answers
    <2>4. create.at \in 1 .. Len(Steps) /\ Steps[create.at].call.does # "askDrop"
      BY <1>1, <2>2 DEF CreateOK, CreateStepOK
    <2>5. late' = late
      BY <2>1, <2>4, AnswersNow
    <2>6. \/ create'.state = "calls" /\ create'.at = create.at + 1 /\ answer = "ok"
          \/ create'.state \in {"made", "failed", "undoes"}
      <3>1. CASE answer # "ok"
        BY <1>1, <2>1, <3>1, RaisesTo
      <3>2. CASE answer = "ok"
        BY <2>1, <3>2 DEF Creates
      <3>. QED  BY <3>1, <3>2
    <2>7. NothingYet'
      BY <2>2, <2>3, <2>4, <2>5, <2>6 DEF FindInv, NothingYet, Creating
    <2>8. AwsInStep'
      <3>. SUFFICES ASSUME kind' = "aws", create'.state = "calls", ~cut'
                    PROVE  /\ create'.at = 2 => "key" \notin there'
                           /\ create'.at = 5 => "server" \in there'
        BY DEF AwsInStep
      <3>1. create'.at = create.at + 1
        BY <2>6
      <3>2. Steps = CreateOf("aws")
        BY <2>2 DEF Steps
      <3>3. ASSUME create'.at = 2
            PROVE  "key" \notin there'
        <4>1. create.at = 1 /\ there = {}
          BY <2>2, <2>4, <3>1, <3>3 DEF FindInv, NothingYet
        <4>2. there' = there
          BY <2>1, <3>2, <4>1, AwsProgram, AnswersNow
        <4>. QED  BY <4>1, <4>2
      <3>4. ASSUME create'.at = 5
            PROVE  "server" \in there'
        <4>1. create.at = 4
          BY <2>4, <3>1, <3>4
        <4>. QED  BY <2>1, <3>2, <4>1, AwsProgram, AnswersNow
      <3>. QED  BY <3>3, <3>4
    <2>. QED  BY <2>7, <2>8
  <1>4. CASE CreateFails
    <2>1. /\ create.state = "calls" /\ Raises /\ UNCHANGED kind
          /\ cut' = (cut \/ <<there, late>>' # <<there, late>>)
      BY <1>4 DEF CreateFails
    <2>2. create'.state \in {"failed", "undoes"}
      BY <1>1, <2>1, RaisesTo
    <2>3. ~cut' => ~cut /\ late' = late
      BY <1>1, <2>1
    <2>. QED  BY <2>1, <2>2, <2>3 DEF FindInv, NothingYet, AwsInStep, Creating
  <1>5. CASE UndoAnswered
    <2>1. PICK answer \in {"ok", "gone"} : Answers(Steps[create.at].undo[create.undo], answer)
      BY <1>5 DEF UndoAnswered
    <2>2. create.state = "undoes" /\ NextUndo /\ UNCHANGED kind
      BY <1>5 DEF UndoAnswered
    <2>3. create'.state \in {"failed", "undoes"} /\ UNCHANGED cut
      BY <1>1, <2>1, <2>2, NextUndoTo DEF Answers
    <2>4. create.at \in 1 .. Len(Steps) /\ create.undo \in 1 .. Len(Steps[create.at].undo)
      BY <1>1, <2>2 DEF VMInv, CreateKnown
    <2>5. Steps[create.at].undo[create.undo].does \in Drops
      BY <1>1, <2>4 DEF CreateOK, CreateStepOK
    <2>6. late' = late
      BY <2>1, <2>5, AnswersNow DEF Drops
    <2>. QED  BY <2>2, <2>3, <2>6 DEF FindInv, NothingYet, AwsInStep, Creating
  <1>6. CASE UndoFails
    <2>1. cut' = TRUE /\ create.state = "undoes" /\ create'.state \in {"failed", "undoes"}
      BY <1>1, <1>6, NextUndoTo DEF UndoFails, Creates
    <2>. QED  BY <2>1 DEF NothingYet, AwsInStep
  <1>7. CASE CreateIsCut
    <2>1. cut' = TRUE /\ create'.state = "cut"
      BY <1>7 DEF CreateIsCut, Creates
    <2>. QED  BY <2>1 DEF NothingYet, AwsInStep
  <1>. QED  BY <1>2, <1>3, <1>4, <1>5, <1>6, <1>7

\* No delete runs while create_vm does, and the provider cannot change what is not there.
LEMMA OthersKeepTrack ==
    ASSUME FindInv,
           \/ LateEffect \/ Evicted \/ UNCHANGED vm
           \/ \E t \in Task : Delete(t) \/ DeleteAnswered(t) \/ DeleteFails(t) \/ DeleteIsCut(t)
    PROVE  NothingYet' /\ AwsInStep' /\ create' = create
  <1>. USE DEF FindInv, NothingYet, AwsInStep, Creating
  <1>1. CASE LateEffect
    <2>1. /\ late # {} /\ UNCHANGED <<kind, create, cut>>
      BY <1>1 DEF LateEffect
    <2>. QED  BY <2>1
  <1>2. CASE Evicted
    <2>1. /\ "server" \in there /\ cut' = TRUE /\ UNCHANGED <<kind, create>>
      BY <1>2 DEF Evicted
    <2>. QED  BY <2>1
  <1>3. CASE UNCHANGED vm
    BY <1>3 DEF vm
  <1>4. ASSUME NEW t \in Task,
               Delete(t) \/ DeleteAnswered(t) \/ DeleteFails(t) \/ DeleteIsCut(t)
        PROVE  NothingYet' /\ AwsInStep' /\ create' = create
    <2>1. create' = create
      BY <1>4 DEF Delete, DeleteAnswered, DeleteFails, DeleteIsCut
    <2>2. create.state \in Over
      <3>1. CASE Delete(t)
        BY <3>1 DEF Delete, Over
      <3>2. CASE ~Delete(t)
        <4>1. delete[t] # 0
          BY <1>4, <3>2 DEF DeleteAnswered, DeleteFails, DeleteIsCut
        <4>. QED  BY <4>1 DEF VMInv, DeletesComeLast, Deleting
      <3>. QED  BY <3>1, <3>2
    <2>. QED  BY <2>1, <2>2 DEF Over
  <1>. QED  BY <1>1, <1>2, <1>3, <1>4

LEMMA FindStep == FindInv /\ [VMNext]_vm => FindInv'
  <1>. SUFFICES ASSUME FindInv, [VMNext]_vm
                PROVE  FindInv'
    OBVIOUS
  <1>1. VMInv'
    BY VMStep DEF FindInv
  <1>2. NothingYet' /\ AwsInStep'
    BY CreateKeepsTrack, OthersKeepTrack DEF VMNext
  <1>. QED  BY <1>1, <1>2 DEF FindInv

\* What a create_vm leaves that raises without a clean-up, or after its last call of one
\* (aws/provider.py:139, boat/provider.py).
LEMMA FailsFindable ==
    ASSUME FindInv, [VMNext]_vm, create.state # "failed", create'.state = "failed", ~cut'
    PROVE  /\ "unnamed" \notin there'
           /\ "key" \in there' => "server" \in there' \/ kind \in {"hetzner", "exoscale"}
  <1>1. /\ VMInv /\ cut \in BOOLEAN /\ CreateOK(kind, Steps) /\ create.at \in 0 .. Len(Steps)
        /\ create.state \in {"calls", "undoes"} => create.at # 0
        /\ Len(Steps) \in 1 .. 5
    BY ProgramsOK DEF FindInv, VMInv, VMTypeOK, CreateKnown, CreateOK
  <1>2. OwnArtifacts'
    BY <1>1, VMStep DEF VMInv
  <1>3. CreateAnswered \/ CreateFails \/ UndoAnswered
    <2>1. create' # create
      OBVIOUS
    <2>2. ~UndoFails /\ ~CreateIsCut
      BY DEF UndoFails, CreateIsCut
    <2>3. ~Provision
      BY DEF Provision, Creates
    <2>. QED  BY <2>1, <2>2, <2>3, OthersKeepTrack DEF VMNext
  <1>4. kind' = kind
    BY <1>3 DEF CreateAnswered, CreateFails, UndoAnswered
  <1>5. CASE CreateAnswered \/ CreateFails
    <2>1. create.state = "calls"
      BY <1>5 DEF CreateAnswered, CreateFails
    <2>2. Raises /\ there' = there /\ ~cut
      <3>1. CASE CreateAnswered
        <4>1. PICK answer \in {"ok", "gone", "error"} :
                /\ Answers(Steps[create.at].call, answer)
                /\ IF answer # "ok" THEN Raises
                   ELSE IF create.at = Len(Steps) THEN Creates("made", create.at, 0)
                   ELSE Creates("calls", create.at + 1, 0)
          BY <3>1 DEF CreateAnswered
        <4>2. answer # "ok"
          <5>1. ASSUME answer = "ok"
                PROVE  create'.state \in {"made", "calls"}
            BY <4>1, <5>1 DEF Creates
          <5>. QED  BY <5>1
        <4>3. cut' = cut
          BY <4>1 DEF Answers
        <4>. QED  BY <4>1, <4>2, <4>3, AnswersNow
      <3>2. CASE CreateFails
        BY <1>1, <3>2 DEF CreateFails
      <3>. QED  BY <1>5, <3>1, <3>2
    <2>3. Steps[create.at].undo = <<>>
      BY <1>1, <2>2, RaisesTo
    <2>4. create.at \in 1 .. Len(Steps)
      BY <1>1, <2>1
    <2>5. ASSUME kind = "boat"
          PROVE  there = {}
      <3>1. create.at \in 1 .. 5 /\ create.at \notin 2 .. 5
        BY <1>1, <2>3, <2>4, <2>5, BoatProgram DEF Steps
      <3>2. create.at = 1
        BY <3>1
      <3>. QED  BY <2>1, <3>2 DEF FindInv, NothingYet
    <2>6. ASSUME kind = "aws"
          PROVE  "key" \in there => "server" \in there
      <3>1. create.at \in 1 .. 5 /\ create.at \notin {3, 4}
        BY <1>1, <2>3, <2>4, <2>6, AwsProgram DEF Steps
      <3>2. create.at \in {1, 2, 5}
        BY <3>1
      <3>. QED  BY <2>1, <2>2, <2>6, <3>2 DEF FindInv, NothingYet, AwsInStep
    <2>. QED  BY <1>2, <1>4, <2>2, <2>5, <2>6 DEF OwnArtifacts, KeyKinds
  <1>6. CASE UndoAnswered
    <2>1. PICK answer \in {"ok", "gone"} : Answers(Steps[create.at].undo[create.undo], answer)
      BY <1>6 DEF UndoAnswered
    <2>2. create.state = "undoes"
      BY <1>6 DEF UndoAnswered
    <2>3. create.at \in 1 .. Len(Steps) /\ create.undo \in 1 .. Len(Steps[create.at].undo)
      BY <1>1, <2>2 DEF VMInv, CreateKnown
    <2>4. ASSUME kind = "boat"
          PROVE  "unnamed" \notin there'
      <3>1. Steps = CreateOf("boat") /\ Steps[1].undo = <<>>
        BY <2>4, BoatProgram DEF Steps
      <3>2. create.at \in 2 .. 5
        BY <1>1, <2>3, <3>1
      <3>3. Steps[create.at].undo[create.undo].does = "dropById"
        <4>1. /\ Len(Steps[create.at].undo) = 1
              /\ Steps[create.at].undo[1].does = "dropById"
          BY <3>1, <3>2, BoatProgram
        <4>2. create.undo = 1
          BY <2>3, <4>1
        <4>. QED  BY <4>1, <4>2
      <3>. QED  BY <2>1, <3>3, AnswersNow
    <2>5. ASSUME kind = "aws"
          PROVE  "key" \notin there'
      <3>1. Steps = CreateOf("aws")
        BY <2>5 DEF Steps
      <3>2. create.at \in 1 .. 5 /\ create.at \notin {1, 2, 5}
        BY <2>3, <3>1, AwsProgram
      <3>3. create.at \in {3, 4}
        BY <3>2
      <3>4. Steps[create.at].undo[create.undo].does = "dropKey"
        <4>1. /\ Len(Steps[create.at].undo) = 1
              /\ Steps[create.at].undo[1].does = "dropKey"
          BY <3>1, <3>3, AwsProgram
        <4>2. create.undo = 1
          BY <2>3, <4>1
        <4>. QED  BY <4>1, <4>2
      <3>. QED  BY <2>1, <3>4, AnswersNow
    <2>. QED  BY <1>2, <1>4, <2>4, <2>5 DEF OwnArtifacts, KeyKinds
  <1>. QED  BY <1>3, <1>5, <1>6

-----------------------------------------------------------------------------
\* As long as every create could tell its address, any number of them leave the group with
\* the wanted rules and no other, from whatever rules an earlier setting had left
\* (_resolve_security_group_id and _ensure_ssh_ingress).
THEOREM GroupIsServed == Spec => []GroupServesAlike
<1>1. Init => GroupInv
  BY GroupStarts DEF Init
<1>2. GroupInv /\ [Next]_vars => GroupInv'
  <2>1. [Next]_vars => [GroupNext]_group
    BY DEF Next, vars
  <2> QED BY <2>1, GroupStep
<1>3. GroupInv => GroupServesAlike
  BY DEF GroupInv, LetsIn, LetsNoOtherIn, GroupServesAlike
<1> QED BY <1>1, <1>2, <1>3, PTL DEF Spec

\* Whatever turns PUT, DELETE, alarm and restarts take, an active sandbox that runs has its
\* alarm set or ringing (worker.js, alarm and createSandbox).
THEOREM ActiveSandboxesStayUp == Spec => []ActiveStaysUp
<1>1. Init => WorkerInv
  BY WorkerStarts DEF Init
<1>2. WorkerInv /\ [Next]_vars => WorkerInv'
  <2>1. [Next]_vars => [WorkerNext]_worker
    BY DEF Next, vars
  <2> QED BY <2>1, WorkerStep
<1>3. WorkerInv => ActiveStaysUp
  BY DEF WorkerInv
<1> QED BY <1>1, <1>2, <1>3, PTL DEF Spec

\* Whatever call of a provider fails or is cut off, and however two deletes and the provider
\* itself overlap, a delete that is reported has left no server under the VM's name, no files
\* it did not fail to remove, and no key at Hetzner and Exoscale (delete_vm of every provider),
\* unless a call of a create that timed out took effect after the delete had begun
\* (service.py:555 and 642).
THEOREM DeletedIsGone == Spec => []ProvidersInv
<1>1. Init => VMInv /\ WorkerInv /\ GroupInv /\ part \in {"vm", "worker", "group"}
  BY VMStarts, WorkerStarts, GroupStarts DEF Init
<1>2. VMInv /\ WorkerInv /\ GroupInv /\ part \in {"vm", "worker", "group"} /\ [Next]_vars
      => (VMInv /\ WorkerInv /\ GroupInv /\ part \in {"vm", "worker", "group"})'
  <2>1. [Next]_vars => [VMNext]_vm /\ [WorkerNext]_worker /\ [GroupNext]_group /\ UNCHANGED part
    BY DEF Next, vars
  <2> QED BY <2>1, VMStep, WorkerStep, GroupStep
<1>3. VMInv /\ WorkerInv /\ GroupInv /\ part \in {"vm", "worker", "group"} => ProvidersInv
  BY DEF VMInv, WorkerInv, GroupInv, TypeOK, ProvidersInv
<1> QED BY <1>1, <1>2, <1>3, PTL DEF Spec

\* A create_vm that fails leaves nothing that a delete_vm by name could not find, at every
\* provider and whichever call failed, unless it was cut off or what failed took effect after
\* all: no key pair without its instance, no Boat sandbox without its name (create_vm of
\* every provider).
THEOREM FailuresAreFindable == Spec => FailureIsFindable
<1>1. Init => FindInv
  <2> SUFFICES ASSUME Init PROVE FindInv
    OBVIOUS
  <2>1. VMInv /\ VMInit
    BY VMStarts DEF Init
  <2>2. there = {} /\ late = {} /\ create.state = "new"
    BY <2>1 DEF VMInit
  <2> QED BY <2>1, <2>2 DEF FindInv, NothingYet, AwsInStep
<1>2. FindInv /\ [Next]_vars => FindInv'
  <2>1. [Next]_vars => [VMNext]_vm
    BY DEF Next, vars
  <2> QED BY <2>1, FindStep
<1>3. FindInv /\ [Next]_vars =>
        [create.state # "failed" /\ create'.state = "failed" /\ ~cut' =>
            /\ "unnamed" \notin there'
            /\ "key" \in there' => "server" \in there' \/ kind \in {"hetzner", "exoscale"}]_vm
  <2>1. [Next]_vars => [VMNext]_vm
    BY DEF Next, vars
  <2> QED BY <2>1, FailsFindable
<1> QED BY <1>1, <1>2, <1>3, PTL DEF Spec, FailureIsFindable

=============================================================================
