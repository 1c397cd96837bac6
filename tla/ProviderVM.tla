----------------------------- MODULE ProviderVM -----------------------------
(***************************************************************************)
(* One VM at its provider, from the call of create_vm to the delete_vm     *)
(* that reports it gone: HostService.provision and delete_host as far as   *)
(* the provider is concerned, for every provider of src/providers.         *)
(*                                                                         *)
(* A coroutine awaits one call at a time.  A call may fail, its effect     *)
(* there or not or still to come, and its coroutine may end at any call    *)
(* (a cancelled request, a killed process), without any clean-up.  A failed *)
(* create expires its row at once (mark_failed), so a delete may come      *)
(* before the effect of a call of it that timed out.                       *)
(***************************************************************************)
EXTENDS ProviderCalls, FiniteSets

CONSTANT Task    \* deletes of the host at the same time: a caller's, the janitor's

VARIABLES
    kind,      \* the provider
    there,     \* what the provider has of the VM
    late,      \* effects that are still to come of calls nobody waits for
    create,    \* create_vm: the call it is at, or the call of its clean-up
    delete,    \* delete_vm of each task: the call it is at
    reported,  \* a delete_vm has returned or raised ProviderNotFoundError
    cut,       \* history: create_vm was cut off, or a call of it failed with an effect
    kept,      \* history: a forgiven call failed
    stray      \* history: a call of create_vm that timed out took effect after a delete began

vm == <<kind, there, late, create, delete, reported, cut, kept, stray>>

Puts == {"putKey", "putServer", "putUnnamed", "putFiles", "name"}
Drops == {"dropKey", "dropServer", "dropById", "dropFiles"}

Steps == CreateOf(kind)
Calls == DeleteOf(kind)

VMTypeOK ==
    /\ kind \in Kind
    /\ there \subseteq {"server", "unnamed", "key", "files"}
    /\ late \subseteq Puts \cup Drops
    /\ create.at \in 0 .. Len(Steps) /\ create.undo \in 0 .. 2
    /\ create.state \in {"new", "calls", "undoes", "made", "failed", "cut"}
    /\ create.state = "undoes" => create.undo \in 1 .. Len(Steps[create.at].undo)
    /\ delete \in [Task -> 0 .. Len(Calls)]
    /\ reported \in BOOLEAN /\ cut \in BOOLEAN /\ kept \in BOOLEAN /\ stray \in BOOLEAN
    /\ "unnamed" \in there => kind = "boat"

VMInit ==
    /\ there = {} /\ late = {}
    /\ create = [state |-> "new", at |-> 0, undo |-> 0]
    /\ delete = [t \in Task |-> 0]
    /\ reported = FALSE /\ cut = FALSE /\ kept = FALSE /\ stray = FALSE

-----------------------------------------------------------------------------
(* A call, and what it does to the provider.                               *)

Effect(does) ==
    CASE does = "putKey" -> there \cup {"key"}
      [] does = "putServer" -> there \cup {"server"}
      [] does = "putUnnamed" -> there \cup {"unnamed"}
      [] does = "putFiles" -> there \cup {"files"}
      [] does = "name" -> IF "unnamed" \in there THEN (there \ {"unnamed"}) \cup {"server"} ELSE there
      [] does = "dropKey" -> there \ {"key"}
      [] does = "dropServer" -> there \ {"server"}
      [] does = "dropById" -> there \ {"server", "unnamed"}
      [] does = "dropFiles" -> there \ {"files"}
      [] OTHER -> there

Present(does) ==
    CASE does \in {"await", "find", "dropServer", "askDrop"} -> "server" \in there
      [] does = "name" -> "unnamed" \in there
      [] does = "dropById" -> there \cap {"server", "unnamed"} # {}
      [] does = "awaitGone" -> "server" \in there
      [] OTHER -> TRUE

\* The call is answered: with its effect, or that what it is about is not there.
Answers(call, answer) ==
    /\ UNCHANGED <<cut, kept, stray>>
    /\ IF ~Present(call.does)
       THEN answer = call.missing /\ UNCHANGED <<there, late>>
       ELSE /\ answer = "ok" /\ call.does # "awaitGone"
            /\ there' = Effect(call.does)
            /\ late' = IF call.does = "askDrop" THEN late \cup {"dropServer"} ELSE late

\* The call fails, or nobody waits for it any more.
Took(does) ==
    \/ UNCHANGED <<there, late>>
    \/ there' = Effect(does) /\ UNCHANGED late
    \/ does \in Puts \cup Drops /\ late' = late \cup {does} /\ UNCHANGED there

-----------------------------------------------------------------------------
(* create_vm.                                                              *)

Creates(state, at, undo) == create' = [state |-> state, at |-> at, undo |-> undo]

Provision ==
    /\ create.state = "new" /\ ~reported /\ Creates("calls", 1, 0)
    /\ UNCHANGED <<kind, there, late, delete, reported, cut, kept, stray>>

Raises ==
    IF Steps[create.at].undo = <<>> THEN Creates("failed", create.at, 0)
    ELSE Creates("undoes", create.at, 1)

CreateAnswered ==
    /\ create.state = "calls"
    /\ \E answer \in {"ok", "gone", "error"} :
          /\ Answers(Steps[create.at].call, answer)
          /\ IF answer # "ok" THEN Raises
             ELSE IF create.at = Len(Steps) THEN Creates("made", create.at, 0)
             ELSE Creates("calls", create.at + 1, 0)
    /\ UNCHANGED <<kind, delete, reported>>

CreateFails ==
    /\ create.state = "calls" /\ Raises
    /\ Took(Steps[create.at].call.does) /\ cut' = (cut \/ <<there, late>>' # <<there, late>>)
    /\ UNCHANGED <<kind, delete, reported, kept, stray>>

NextUndo ==
    IF create.undo = Len(Steps[create.at].undo) THEN Creates("failed", create.at, 0)
    ELSE Creates("undoes", create.at, create.undo + 1)

UndoAnswered ==
    /\ create.state = "undoes" /\ NextUndo
    /\ \E answer \in {"ok", "gone"} : Answers(Steps[create.at].undo[create.undo], answer)
    /\ UNCHANGED <<kind, delete, reported>>

UndoFails ==
    /\ create.state = "undoes"
    /\ LET call == Steps[create.at].undo[create.undo] IN
       /\ Took(call.does)
       /\ IF call.forgiven THEN NextUndo ELSE Creates("failed", create.at, 0)
    /\ cut' = TRUE /\ kept' = TRUE
    /\ UNCHANGED <<kind, delete, reported, stray>>

\* The request is cancelled or the process dies; the row keeps its safety TTL.
CreateIsCut ==
    /\ create.state \in {"calls", "undoes"} /\ Creates("cut", create.at, 0)
    /\ LET step == Steps[create.at] IN
       Took(IF create.state = "calls" THEN step.call.does ELSE step.undo[create.undo].does)
    /\ cut' = TRUE
    /\ UNCHANGED <<kind, delete, reported, kept, stray>>

-----------------------------------------------------------------------------
(* delete_vm.                                                              *)

\* delete_host does not start while the host is provisioned.  The safety TTL of a row whose
\* coroutine is gone outlasts its calls; one that was marked failed has expired already.
Delete(t) ==
    /\ create.state \in {"made", "failed", "cut"}
    /\ create.state = "cut" => late \cap Puts = {}
    /\ ~reported /\ delete[t] = 0 /\ delete' = [delete EXCEPT ![t] = 1]
    /\ UNCHANGED <<kind, there, late, create, reported, cut, kept, stray>>

Moves(t, answer) ==
    LET over == answer = "gone" \/ (answer = "ok" /\ delete[t] = Len(Calls)) IN
    /\ delete' = [delete EXCEPT ![t] = IF over \/ answer = "error" THEN 0 ELSE @ + 1]
    /\ reported' = (reported \/ over)

DeleteAnswered(t) ==
    /\ delete[t] # 0
    /\ \E answer \in {"ok", "gone", "error"} : Answers(Calls[delete[t]], answer) /\ Moves(t, answer)
    /\ UNCHANGED <<kind, create>>

\* A failure is raised, and the row stays for another delete, unless it is forgiven.
DeleteFails(t) ==
    /\ delete[t] # 0
    /\ LET call == Calls[delete[t]] IN
       /\ Took(call.does) /\ Moves(t, IF call.forgiven THEN "ok" ELSE "error")
       /\ kept' = (kept \/ call.forgiven)
    /\ UNCHANGED <<kind, create, cut, stray>>

DeleteIsCut(t) ==
    /\ delete[t] # 0 /\ delete' = [delete EXCEPT ![t] = 0]
    /\ Took(Calls[delete[t]].does)
    /\ UNCHANGED <<kind, create, reported, cut, kept, stray>>

-----------------------------------------------------------------------------
\* A call that nobody waits for takes effect after all, or never.
LateEffect ==
    /\ \E does \in late :
          /\ late' = late \ {does} /\ (there' = Effect(does) \/ UNCHANGED there)
          /\ stray' = (stray \/ (does \in Puts /\ (reported \/ \E t \in Task : delete[t] # 0)))
    /\ UNCHANGED <<kind, create, delete, reported, cut, kept>>

\* The provider stops or evicts the server.
Evicted ==
    /\ "server" \in there /\ there' = there \ {"server"} /\ cut' = TRUE
    /\ UNCHANGED <<kind, late, create, delete, reported, kept, stray>>

VMNext ==
    \/ Provision \/ CreateAnswered \/ CreateFails \/ UndoAnswered \/ UndoFails \/ CreateIsCut
    \/ \E t \in Task : Delete(t) \/ DeleteAnswered(t) \/ DeleteFails(t) \/ DeleteIsCut(t)
    \/ LateEffect \/ Evicted

\* The janitor comes back to a host whose row is still there.  A call has a timeout; one that
\* is made again and again is answered some day, and what the provider has been asked for takes effect.
VMFairness ==
    /\ WF_vm(LateEffect)
    /\ SF_vm("dropServer" \in late /\ LateEffect /\ there' = Effect("dropServer"))
    /\ \A t \in Task :
          /\ WF_vm(Delete(t))
          /\ WF_vm(DeleteAnswered(t) \/ DeleteFails(t) \/ DeleteIsCut(t))
          /\ \A i \in 1 .. 3 : SF_vm(delete[t] = i /\ DeleteAnswered(t))

-----------------------------------------------------------------------------
\* When delete_vm says that a VM is gone, no server runs under its name, whatever failed or
\* was cut off before, and at Hetzner and Exoscale, whose delete_vm takes the key first, its
\* key is gone too; unless a call of a failed create took effect only after the delete had
\* begun (service.py:555 and 642).  Nothing is said of a Boat sandbox that was never named,
\* which delete_vm does not find (boat/api.py:94), and of the key pair at AWS, which it
\* takes only once it has found the instance.
NothingOutlivesDelete ==
    reported /\ ~stray =>
        "server" \notin there /\ (kind \in {"hetzner", "exoscale"} => "key" \notin there)

\* A sandbox's files go with it, also when the sandbox itself was gone already: docker-sbx
\* removes the directories after a NotFound (docker_sbx/provider.py); unless their removal
\* failed, which is forgiven, or they were made after the delete had begun.
FilesGo == reported /\ ~kept /\ ~stray => "files" \notin there

\* A create_vm that failed leaves nothing a delete_vm by name could not find: no key without
\* a server, and no sandbox without its name.  It does so unless it was cut off or a failed
\* call took effect after all (the comment at aws/provider.py:139).
FailureIsFindable ==
    [][create.state # "failed" /\ create'.state = "failed" /\ ~cut' =>
          "unnamed" \notin there'
          /\ ("key" \in there' => "server" \in there' \/ kind \in {"hetzner", "exoscale"})]_vm

\* Once its create is over, a host's VM is reported gone in the end: no failure, cut or eviction
\* leaves a state in which every delete_vm raises.
DeleteEnds == create.state \in {"made", "failed", "cut"} ~> reported

=============================================================================
