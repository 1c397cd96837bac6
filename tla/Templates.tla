----------------------------- MODULE Templates -----------------------------
(***************************************************************************)
(* Templates, src/templates: POST /templates inserts a record or revives a *)
(* failed one and builds its image in the background; the janitor fails    *)
(* abandoned builds and reaps failed and unused templates; a caller deletes *)
(* them; a host create leases them.                                        *)
(*                                                                         *)
(* A provider names an image after the base reference and the setup script, *)
(* so a build makes the image of its key whatever record it works for, and *)
(* keys may share one.  Two columns stand for time: "old" says that        *)
(* updated_at, "unused" that the last use, is past the limit that applies. *)
(*                                                                         *)
(* A definition whose comment says "Mutation" is no part of the system.    *)
(***************************************************************************)
EXTENDS Integers, FiniteSets

CONSTANTS
    Key,        \* provider, base image, reference and script of a template
    Image,      \* image names
    ImageOf,    \* the name derive_image_name gives to a key's image
    MaxRows,    \* bound: records a key may have one after the other
    Builder,    \* POST requests and the build each runs after its answer
    Deleter,    \* janitor deletes and DELETE requests
    Lessee,     \* host creates that name a template
    Nobody

ASSUME TemplatesAssumption ==
    /\ ImageOf \in [Key -> Image] /\ MaxRows \in Nat \ {0}
    /\ Nobody \notin Deleter

VARIABLES
    row,        \* the record of each key
    records,    \* how many records a key has had
    images,     \* the images at the provider
    lock,       \* who holds a record FOR UPDATE
    build, delete, lease,    \* where each actor is
    torn        \* records whose delete took the image and not, or not yet, the record

vars == <<row, records, images, lock, build, delete, lease, torn>>

Status == {"building", "available", "failed"}

NoRow == [id |-> 0, status |-> "none", image |-> FALSE, old |-> FALSE, unused |-> FALSE]

Row == [id : 1..MaxRows, status : Status, image : BOOLEAN, old : BOOLEAN, unused : BOOLEAN]

\* An actor with nothing to do, and one that works for a record.
Idle == [pc |-> "idle"]
At(place, k) == [pc |-> place, key |-> k, id |-> row[k].id]

TypeOK ==
    /\ row \in [Key -> Row \cup {NoRow}]
    /\ records \in [Key -> 0..MaxRows] /\ \A k \in Key : row[k].id <= records[k]
    /\ images \subseteq Image
    /\ lock \in [Key -> Deleter \cup {Nobody}]
    /\ \A k \in Key : lock[k] # Nobody =>
          /\ delete[lock[k]].pc \in {"image", "drop"} /\ delete[lock[k]].key = k
          /\ delete[lock[k]].id = row[k].id
    /\ torn \subseteq Key \X (1..MaxRows)

Init ==
    /\ row = [k \in Key |-> NoRow]
    /\ records = [k \in Key |-> 0]
    /\ images = {}
    /\ lock = [k \in Key |-> Nobody]
    /\ build = [b \in Builder |-> Idle]
    /\ delete = [d \in Deleter |-> Idle]
    /\ lease = [r \in Lessee |-> Idle]
    /\ torn = {}

\* Mutation: nobody waits for a row that is held FOR UPDATE.
FreeAlways(k) == TRUE

\* A statement that writes or locks a record waits for whoever holds it.
Free(k) == lock[k] = Nobody

Exists(k) == row[k].id # 0

Building(k) == row[k].status = "building"

-----------------------------------------------------------------------------
(* POST /templates.                                                        *)

\* get_or_create: the INSERT of a new record, which the unique index admits once.
Post(b, k) ==
    /\ build[b] = Idle
    /\ IF Exists(k)
       THEN /\ build' = [build EXCEPT ![b] = At("resolve", k)]
            /\ UNCHANGED <<row, records>>
       ELSE /\ records[k] < MaxRows
            /\ records' = [records EXCEPT ![k] = @ + 1]
            /\ row' = [row EXCEPT ![k] = [NoRow EXCEPT !.id = records'[k], !.status = "building"]]
            /\ build' = [build EXCEPT ![b] =
                            [pc |-> "queued", key |-> k, id |-> records'[k]]]
    /\ UNCHANGED <<images, lock, delete, lease, torn>>

\* The INSERT lost: lock the winner, if it is still there, and revive it if it failed.
Resolve(b) ==
    LET k == build[b].key IN
    /\ build[b].pc = "resolve" /\ Free(k)
    /\ IF row[k].status = "failed"
       THEN /\ row' = [row EXCEPT ![k].status = "building", ![k].old = FALSE]
            /\ build' = [build EXCEPT ![b] = At("queued", k)]
       ELSE /\ build' = [build EXCEPT ![b] = Idle]
            /\ UNCHANGED row
    /\ UNCHANGED <<records, images, lock, delete, lease, torn>>

\* The background task reads the record and ends its transaction.  The ORM will write
\* only the columns that change from what it has read here.
StartBuild(b) ==
    LET k == build[b].key IN
    /\ build[b].pc = "queued"
    /\ build' = [build EXCEPT ![b] =
          IF row[k].id # build[b].id THEN Idle
          ELSE [pc |-> "building", key |-> k, id |-> @.id, status |-> row[k].status]]
    /\ UNCHANGED <<row, records, images, lock, delete, lease, torn>>

\* build_template_image.  One that fails may have made the image and not pushed it.
Built(b) ==
    /\ build[b].pc = "building"
    /\ \/ /\ build' = [build EXCEPT ![b].pc = "built"]
          /\ images' = images \cup {ImageOf[build[b].key]} /\ torn' = {t \in torn : t[1] # build[b].key}
       \/ /\ build' = [build EXCEPT ![b].pc = "broken"]
          /\ images' \in {images, images \cup {ImageOf[build[b].key]}} /\ UNCHANGED torn
    /\ UNCHANGED <<row, records, lock, delete, lease>>

\* The status is written if it differs from what the build read.
Outcome(b, r) ==
    LET done == IF build[b].pc = "built" THEN "available" ELSE "failed"
    IN [r EXCEPT !.image = @ \/ build[b].pc = "built",
                 !.status = IF done = build[b].status THEN @ ELSE done,
                 !.old = FALSE]

\* The commit; an UPDATE of a record that is gone is an error, and the image stays.
EndBuild(b) ==
    LET k == build[b].key IN
    /\ build[b].pc \in {"built", "broken"} /\ Free(k)
    /\ row' = IF row[k].id = build[b].id
              THEN [row EXCEPT ![k] = Outcome(b, @)]
              ELSE row
    /\ build' = [build EXCEPT ![b] = Idle]
    /\ UNCHANGED <<records, images, lock, delete, lease, torn>>

\* The process dies with its request or its build.
BuilderDies(b) ==
    /\ build[b] # Idle
    /\ build' = [build EXCEPT ![b] = Idle]
    /\ UNCHANGED <<row, records, images, lock, delete, lease, torn>>

-----------------------------------------------------------------------------
(* The janitor and DELETE /templates/{id}.                                 *)

\* Mutation: only a record that never had an image is abandoned.
AbandonedUnbuilt(k) == Building(k) /\ row[k].old /\ ~row[k].image

Abandoned(k) == Building(k) /\ row[k].old

\* reap_templates: the guarded UPDATE.
Abandon(k) ==
    /\ Abandoned(k) /\ Free(k)
    /\ row' = [row EXCEPT ![k].status = "failed", ![k].old = FALSE]
    /\ UNCHANGED <<records, images, lock, build, delete, lease, torn>>

Reapable(k) ==
    \/ row[k].status = "failed" /\ row[k].old
    \/ row[k].status = "available" /\ row[k].unused

\* A delete for a record that the janitor selects or a caller names.
Select(d, k, expired) ==
    /\ delete[d] = Idle /\ Exists(k)
    /\ expired => Reapable(k)
    /\ delete' = [delete EXCEPT ![d] =
          [pc |-> "lock", key |-> k, id |-> row[k].id, expired |-> expired]]
    /\ UNCHANGED <<row, records, images, lock, build, lease, torn>>

\* Mutation: what the janitor selected is not looked at again.
MayDeleteSelected(d, k) == ~Building(k)

\* Under the row lock: the janitor's check again, and no build is cut short.
MayDelete(d, k) == ~Building(k) /\ (delete[d].expired => Reapable(k))

Lock(d) ==
    LET k == delete[d].key IN
    /\ delete[d].pc = "lock" /\ Free(k)
    /\ IF row[k].id = delete[d].id /\ MayDelete(d, k)
       THEN /\ lock' = [lock EXCEPT ![k] = d]
            /\ delete' = [delete EXCEPT ![d].pc = IF row[k].image THEN "image" ELSE "drop"]
       ELSE /\ delete' = [delete EXCEPT ![d] = Idle]
            /\ UNCHANGED lock
    /\ UNCHANGED <<row, records, images, build, lease, torn>>

\* The provider deletes the image by its name, or has none of that name.
RemoveImage(d) ==
    LET k == delete[d].key IN
    /\ delete[d].pc = "image"
    /\ images' = images \ {ImageOf[k]}
    /\ delete' = [delete EXCEPT ![d].pc = "drop"]
    /\ torn' = torn \cup {<<k, delete[d].id>>}
    /\ UNCHANGED <<row, records, lock, build, lease>>

Drop(d) ==
    LET k == delete[d].key IN
    /\ delete[d].pc = "drop"
    /\ row' = [row EXCEPT ![k] = NoRow]
    /\ lock' = [lock EXCEPT ![k] = Nobody]
    /\ delete' = [delete EXCEPT ![d] = Idle]
    /\ torn' = torn \ {<<k, delete[d].id>>}
    /\ UNCHANGED <<records, images, build, lease>>

\* The provider fails, the commit fails or the process dies; the lock goes with it.
DeleteFails(d) ==
    /\ delete[d] # Idle
    /\ lock' = [k \in Key |-> IF lock[k] = d THEN Nobody ELSE lock[k]]
    /\ delete' = [delete EXCEPT ![d] = Idle]
    /\ UNCHANGED <<row, records, images, build, lease, torn>>

-----------------------------------------------------------------------------
(* A host create that names the template.                                  *)

\* create_host reads the record, and the image its host will boot from.
Find(r, k) ==
    /\ lease[r] = Idle /\ row[k].status = "available"
    /\ lease' = [lease EXCEPT ![r] = At("found", k)]
    /\ UNCHANGED <<row, records, images, lock, build, delete, torn>>

\* The host row and last_used_at are committed together; without the record, neither.
Lease(r) ==
    LET k == lease[r].key IN
    /\ lease[r].pc = "found" /\ Free(k)
    /\ IF row[k].id = lease[r].id
       THEN /\ row' = [row EXCEPT ![k].unused = FALSE]
            /\ lease' = [lease EXCEPT ![r].pc = "boots"]
       ELSE /\ lease' = [lease EXCEPT ![r] = Idle]
            /\ UNCHANGED row
    /\ UNCHANGED <<records, images, lock, build, delete, torn>>

\* The host has booted, or the create has failed.
Leave(r) ==
    /\ lease[r] # Idle
    /\ lease' = [lease EXCEPT ![r] = Idle]
    /\ UNCHANGED <<row, records, images, lock, build, delete, torn>>

-----------------------------------------------------------------------------
\* The host creates that are at work for a record.  None of them takes as long as
\* template_failed_retention or template_unused_ttl.
Leases(k, places) ==
    {r \in Lessee : lease[r].pc \in places /\ lease[r].key = k /\ lease[r].id = row[k].id}

\* template_build_timeout or template_failed_retention since updated_at.
GrowOld(k) ==
    /\ Building(k) \/ (row[k].status = "failed" /\ Leases(k, {"found", "boots"}) = {})
    /\ ~row[k].old
    /\ row' = [row EXCEPT ![k].old = TRUE]
    /\ UNCHANGED <<records, images, lock, build, delete, lease, torn>>

\* template_unused_ttl since the last use, or since the record was made.
GrowUnused(k) ==
    /\ Exists(k) /\ ~row[k].unused /\ Leases(k, {"boots"}) = {}
    /\ row' = [row EXCEPT ![k].unused = TRUE]
    /\ UNCHANGED <<records, images, lock, build, delete, lease, torn>>

Janitor(k) == Abandon(k) \/ \E d \in Deleter : Select(d, k, TRUE)

Deletes(d) == Lock(d) \/ RemoveImage(d) \/ Drop(d) \/ DeleteFails(d)

Builds(b) == Resolve(b) \/ StartBuild(b) \/ Built(b) \/ EndBuild(b) \/ BuilderDies(b)

Next ==
    \/ \E b \in Builder : Builds(b) \/ \E k \in Key : Post(b, k)
    \/ \E d \in Deleter : Deletes(d) \/ \E k \in Key : Select(d, k, FALSE)
    \/ \E r \in Lessee : Lease(r) \/ Leave(r) \/ \E k \in Key : Find(r, k)
    \/ \E k \in Key : Janitor(k) \/ GrowOld(k) \/ GrowUnused(k)

Spec == Init /\ [][Next]_vars

\* Time passes, the janitor runs for ever, and a delete does not stop while it holds a
\* record.  Nothing is assumed of the builds.
FairSpec ==
    /\ Spec
    /\ \A k \in Key : WF_vars(GrowOld(k)) /\ SF_vars(Abandon(k))
    /\ \A d \in Deleter : WF_vars(Deletes(d))

-----------------------------------------------------------------------------
\* A template that is offered to hosts has its image: no build, delete or reaping that
\* was overtaken by another takes it away (the lock of TemplateService.delete).  The
\* exception is a record whose own delete has removed the image and is not over, or failed.
AvailableHasImage ==
    \A k \in Key :
        row[k].status = "available" => ImageOf[k] \in images \/ <<k, row[k].id>> \in torn

\* An available record has its image, whatever builds and deletes overtake each other
\* (TemplateService.build and delete).
TemplatesInv == TypeOK /\ AvailableHasImage

\* The janitor never takes the image of a host that has leased it and still boots; a
\* caller's DELETE may
\* (reapable, and the lock that makes the lease wait for the delete or spare it).
LeaseSpares ==
    [][\A d \in Deleter, r \in Lessee :
          /\ delete[d].pc = "image" /\ delete'[d].pc = "drop" /\ delete[d].expired
          /\ lease[r].pc = "boots" /\ lease[r].key = delete[d].key
          => lease[r].id # delete[d].id]_vars

\* A record that callers poll is not taken from under its build: every build that was
\* promised leaves an outcome to read, but for what the janitor has called abandoned.
PolledIsKept ==
    [][\A k \in Key : Building(k) => row'[k].id = row[k].id]_vars

\* What a delete finds under the row lock decides: the janitor's spares a leased template,
\* and any spares one that builds, whatever was so when it was chosen
\* (TemplateService.delete).  A caller may delete a template that is leased.
DeletesSpare == LeaseSpares /\ PolledIsKept

\* No record stays "building" for ever, although its process may have died at any step
\* ("the only exit for a build whose process died", templates/janitor.py).
BuildsEnd == \A k \in Key : Building(k) ~> ~Building(k)

=============================================================================
