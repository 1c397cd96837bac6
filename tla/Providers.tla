------------------------------ MODULE Providers ------------------------------
(***************************************************************************)
(* Three machines of the providers that do not meet: a VM's create and     *)
(* delete, the Cloudflare worker, and the AWS security group.  A behaviour *)
(* is one of a machine, the others at rest.                                *)
(***************************************************************************)
EXTENDS ProviderVM, CloudflareWorker, ManagedGroup

VARIABLE part    \* the machine that runs

vars == <<part, vm, worker, group>>

TypeOK == part \in {"vm", "worker", "group"} /\ VMTypeOK /\ WorkerTypeOK /\ GroupTypeOK

Init ==
    /\ part \in {"vm", "worker", "group"}
    /\ VMInit /\ WorkerInit /\ GroupInit
    /\ kind \in Kind /\ (part # "vm" => kind = "exe")
    /\ part # "group" => rules = {} /\ made = FALSE

Next ==
    /\ UNCHANGED part
    /\ \/ part = "vm" /\ VMNext /\ UNCHANGED <<worker, group>>
       \/ part = "worker" /\ WorkerNext /\ UNCHANGED <<vm, group>>
       \/ part = "group" /\ GroupNext /\ UNCHANGED <<vm, worker>>

Spec == Init /\ [][Next]_vars /\ VMFairness /\ WorkerFairness

\* A delete that counts as done has left no server under the VM's name, no files that it did
\* not fail to remove, and no key where delete_vm takes the key first, unless a create that
\* had timed out came after it (delete_vm of every provider; service.py:555 and 642).
ProvidersInv == TypeOK /\ NothingOutlivesDelete /\ FilesGo

\* Every deletion comes to its end: delete_vm of a VM, whatever failed before, and the
\* container of a Cloudflare sandbox that was deleted.
DeletesEnd == DeleteEnds /\ DeletedStops

=============================================================================
