-------------------------- MODULE TemplatesProofs --------------------------
(***************************************************************************)
(* For every set of keys, builds, deletes and host creates: an available   *)
(* record has its image, and a delete spares what builds and what is       *)
(* leased.                                                                 *)
(*                                                                         *)
(* Neither is inductive.  BaseInv says what the actors know: a record they *)
(* work for is no newer than the last one of its key, who is past the lock *)
(* still holds it, and what is locked does not build.  LeaseInv says why   *)
(* the second look under the lock is enough: what a host create has leased *)
(* never looks reapable, and the lease itself waits for the lock.  ImageInv*)
(* adds the builds that have made their image and not yet said so.         *)
(***************************************************************************)
EXTENDS Templates, TLAPS

\* The image of k is no other key's.
OwnImage(k) == \A j \in Key \ {k} : ImageOf[j] # ImageOf[k]

\* The states of the actors.
Asking == [pc : {"resolve", "queued"}, key : Key, id : 1..MaxRows]
Working == [pc : {"building", "built", "broken"}, key : Key, id : 1..MaxRows, status : Status]
Deleting == [pc : {"lock", "image", "drop"}, key : Key, id : 1..MaxRows, expired : BOOLEAN]
Leasing == [pc : {"found", "boots"}, key : Key, id : 1..MaxRows]

ActorsOK ==
    /\ build \in [Builder -> {Idle} \cup Asking \cup Working]
    /\ delete \in [Deleter -> {Idle} \cup Deleting]
    /\ lease \in [Lessee -> {Idle} \cup Leasing]

\* No build and no lease is for a record that is still to come.
KnownIds ==
    /\ \A b \in Builder : build[b] # Idle => build[b].id <= records[build[b].key]
    /\ \A r \in Lessee : lease[r] # Idle => lease[r].id <= records[lease[r].key]

\* A delete that is past the lock still has it, and what is locked does not build.
LocksHeld ==
    /\ \A d \in Deleter : delete[d].pc \in {"image", "drop"} => lock[delete[d].key] = d
    /\ \A k \in Key : ~Free(k) => ~Building(k)

\* r works for the record that k has now.
LeaseFor(r, k) == lease[r].pc \in {"found", "boots"} /\ lease[r].key = k /\ lease[r].id = row[k].id

\* The janitor finds nothing to reap in a record that a host create has leased, and no
\* failure old enough in one that it has found.
LeasedIsFresh(k) ==
    \A r \in Lessee : LeaseFor(r, k) =>
        /\ ~(row[k].status = "failed" /\ row[k].old)
        /\ lease[r].pc = "boots" => ~row[k].unused

\* A janitor that is about to take the image takes it from no leased record.
Spares(d, r) ==
    /\ delete[d].pc = "image" /\ delete[d].expired
    /\ lease[r].pc = "boots" /\ lease[r].key = delete[d].key
    => lease[r].id # delete[d].id

\* The image is there, or the delete of this record has taken it.
HasImage(k) == ImageOf[k] \in images \/ <<k, row[k].id>> \in torn

\* A build for the record that k has now, and that has made its image.
BuiltFor(b, k) == build[b].pc = "built" /\ build[b].key = k /\ build[b].id = row[k].id

\* An available record has its image, and so has one that will be.
ImageKept(k) ==
    row[k].status = "available" \/ (\E b \in Builder : BuiltFor(b, k)) => HasImage(k)

\* Types, and who holds and knows what.
BaseInv == TypeOK /\ ActorsOK /\ KnownIds /\ LocksHeld

\* Leases and the deletes they may meet.
LeaseInv == (\A k \in Key : LeasedIsFresh(k)) /\ \A d \in Deleter, r \in Lessee : Spares(d, r)

\* Records and images, for keys that share their image with none.
ImageInv == \A k \in Key : OwnImage(k) => ImageKept(k)

Rows == [Key -> Row \cup {NoRow}]

\* What a step may do to the record of k but make or drop it.
Touched(k) ==
    /\ row'[k].id = row[k].id
    /\ row'[k].status = "building" => Building(k) \/ Free(k)
    /\ row'[k].status = "available" =>
          row[k].status = "available" \/ \E b \in Builder : BuiltFor(b, k)
    /\ row'[k].status = "failed" /\ row'[k].old =>
          (row[k].status = "failed" /\ row[k].old) \/ \A r \in Lessee : ~LeaseFor(r, k)
    /\ row'[k].unused =>
          row[k].unused \/ \A r \in Lessee : ~(LeaseFor(r, k) /\ lease[r].pc = "boots")

\* No record is made or dropped.
TouchesRows == row' \in Rows /\ \A k \in Key : Touched(k)

-----------------------------------------------------------------------------
\* A record has an id; what has none is no record.
LEMMA RowShape ==
    ASSUME TypeOK, NEW k \in Key
    PROVE  /\ row \in Rows
           /\ Exists(k) => row[k] \in Row /\ row[k].id \in 1..MaxRows
           /\ ~Exists(k) => row[k] = NoRow
           /\ row[k].status # "none" => Exists(k)
           /\ NoRow.id = 0 /\ NoRow.status = "none" /\ ~NoRow.old /\ ~NoRow.unused
<1>1. NoRow.id = 0 /\ NoRow.status = "none" /\ ~NoRow.old /\ ~NoRow.unused
  BY DEF NoRow
<1>2. row \in Rows /\ row[k] \in Row \cup {NoRow}
  BY DEF TypeOK, Rows
<1>3. \A r \in Row : r.id \in 1..MaxRows /\ r.id # 0
  BY TemplatesAssumption DEF Row
<1> QED BY <1>1, <1>2, <1>3 DEF Exists

\* A step that changes one record.
LEMMA TouchesOne ==
    ASSUME TypeOK, NEW k \in Key, Exists(k), NEW new \in Row, row' = [row EXCEPT ![k] = new],
           Touched(k)
    PROVE  TouchesRows
<1>1. row' \in Rows /\ \A j \in Key \ {k} : row'[j] = row[j]
  BY RowShape DEF Rows
<1>2. \A j \in Key \ {k} : Touched(j)
  BY <1>1 DEF Touched, Building
<1> QED BY <1>1, <1>2 DEF TouchesRows

\* A step that leaves the records alone.
LEMMA TouchesNone ==
    ASSUME TypeOK, UNCHANGED row
    PROVE  TouchesRows
BY DEF TouchesRows, Touched, Building, TypeOK, Rows

\* The janitor fails an abandoned build (reap_templates).
LEMMA AbandonRows ==
    ASSUME TypeOK, NEW k \in Key, Abandon(k)
    PROVE  TouchesRows
<1>1. row[k] \in Row /\ Exists(k)
  BY RowShape DEF Abandon, Abandoned, Building
<1> DEFINE new == [row[k] EXCEPT !.status = "failed", !.old = FALSE]
<1>2. new \in Row /\ new.id = row[k].id /\ new.status = "failed" /\ ~new.old /\ new.unused = row[k].unused
  BY <1>1 DEF Row, Status
<1>3. row' = [row EXCEPT ![k] = new]
  BY DEF Abandon
<1>4. row'[k] = new
  BY <1>3, RowShape DEF Rows
<1>5. Touched(k)
  BY <1>2, <1>4 DEF Touched
<1> QED BY <1>1, <1>2, <1>3, <1>5, TouchesOne

\* A POST revives a failed record that nobody holds (get_or_create).
LEMMA ResolveRows ==
    ASSUME TypeOK, ActorsOK, NEW b \in Builder, Resolve(b)
    PROVE  TouchesRows
<1>1. build[b].key \in Key
  BY DEF Resolve, ActorsOK, Idle, Asking, Working
<1>2. PICK k \in Key : k = build[b].key
  BY <1>1
<1>3. CASE row[k].status = "failed"
  <2>1. row[k] \in Row /\ Exists(k)
    BY <1>3, RowShape
  <2> DEFINE new == [row[k] EXCEPT !.status = "building", !.old = FALSE]
  <2>2. new \in Row /\ new.id = row[k].id /\ new.status = "building" /\ new.unused = row[k].unused
    BY <2>1 DEF Row, Status
  <2>3. row' = [row EXCEPT ![k] = new] /\ Free(k)
    BY <1>2, <1>3 DEF Resolve
  <2>4. row'[k] = new
    BY <2>3, RowShape DEF Rows
  <2>5. Touched(k)
    BY <2>2, <2>3, <2>4 DEF Touched
  <2> QED BY <2>1, <2>2, <2>3, <2>5, TouchesOne
<1>4. CASE row[k].status # "failed"
  BY <1>2, <1>4, TouchesNone DEF Resolve
<1> QED BY <1>3, <1>4

\* A build ends with its image or without it (TemplateService.build).
LEMMA EndBuildRows ==
    ASSUME TypeOK, ActorsOK, NEW b \in Builder, EndBuild(b)
    PROVE  TouchesRows
<1>1. build[b] \in Working
  BY DEF EndBuild, ActorsOK, Idle, Asking
<1>2. PICK k \in Key : k = build[b].key
  BY <1>1 DEF Working
<1>3. CASE row[k].id = build[b].id
  <2>1. row[k] \in Row /\ Exists(k)
    BY <1>1, <1>2, <1>3, RowShape, TemplatesAssumption DEF Working, Exists
  <2> DEFINE new == Outcome(b, row[k])
  <2>2. new \in Row /\ new.id = row[k].id /\ ~new.old /\ new.unused = row[k].unused
        /\ new.status \in {row[k].status, IF build[b].pc = "built" THEN "available" ELSE "failed"}
    BY <1>1, <2>1 DEF Outcome, Row, Status
  <2>3. row' = [row EXCEPT ![k] = new]
    BY <1>2, <1>3 DEF EndBuild
  <2>4. row'[k] = new
    BY <2>3, RowShape DEF Rows
  <2> HIDE DEF new
  <2>5. Touched(k)
    BY <1>2, <1>3, <2>2, <2>4 DEF Touched, Building, BuiltFor
  <2> QED BY <2>1, <2>2, <2>3, <2>5, TouchesOne
<1>4. CASE row[k].id # build[b].id
  BY <1>2, <1>4, TouchesNone DEF EndBuild
<1> QED BY <1>3, <1>4

\* A host create that commits its lease marks the record used (create_host).
LEMMA LeaseRows ==
    ASSUME TypeOK, ActorsOK, NEW r \in Lessee, Lease(r)
    PROVE  TouchesRows
<1>1. lease[r] \in Leasing
  BY DEF Lease, ActorsOK, Idle
<1>2. PICK k \in Key : k = lease[r].key
  BY <1>1 DEF Leasing
<1>3. CASE row[k].id = lease[r].id
  <2>1. row[k] \in Row /\ Exists(k)
    BY <1>1, <1>2, <1>3, RowShape, TemplatesAssumption DEF Leasing, Exists
  <2> DEFINE new == [row[k] EXCEPT !.unused = FALSE]
  <2>2. new \in Row /\ new.id = row[k].id /\ new.status = row[k].status /\ new.old = row[k].old
        /\ ~new.unused
    BY <2>1 DEF Row
  <2>3. row' = [row EXCEPT ![k] = new]
    BY <1>2, <1>3 DEF Lease
  <2>4. row'[k] = new
    BY <2>3, RowShape DEF Rows
  <2>5. Touched(k)
    BY <2>2, <2>4 DEF Touched, Building
  <2> QED BY <2>1, <2>2, <2>3, <2>5, TouchesOne
<1>4. CASE row[k].id # lease[r].id
  BY <1>2, <1>4, TouchesNone DEF Lease
<1> QED BY <1>3, <1>4

\* A record grows old or unused only while no host create is at work for it.
LEMMA GrowRows ==
    ASSUME TypeOK, NEW k \in Key, GrowOld(k) \/ GrowUnused(k)
    PROVE  TouchesRows
<1>1. row[k] \in Row /\ Exists(k)
  BY RowShape DEF GrowOld, GrowUnused, Building
<1>2. CASE GrowOld(k)
  <2> DEFINE new == [row[k] EXCEPT !.old = TRUE]
  <2>1. new \in Row /\ new.id = row[k].id /\ new.status = row[k].status /\ new.unused = row[k].unused
    BY <1>1 DEF Row
  <2>2. row' = [row EXCEPT ![k] = new]
    BY <1>2 DEF GrowOld
  <2>3. row'[k] = new
    BY <2>2, RowShape DEF Rows
  <2>4. row[k].status = "failed" => \A r \in Lessee : ~LeaseFor(r, k)
    BY <1>2 DEF GrowOld, Building, Leases, LeaseFor
  <2>5. Touched(k)
    BY <2>1, <2>3, <2>4 DEF Touched, Building
  <2> QED BY <1>1, <2>1, <2>2, <2>5, TouchesOne
<1>3. CASE GrowUnused(k)
  <2> DEFINE new == [row[k] EXCEPT !.unused = TRUE]
  <2>1. new \in Row /\ new.id = row[k].id /\ new.status = row[k].status /\ new.old = row[k].old
    BY <1>1 DEF Row
  <2>2. row' = [row EXCEPT ![k] = new]
    BY <1>3 DEF GrowUnused
  <2>3. row'[k] = new
    BY <2>2, RowShape DEF Rows
  <2>4. \A r \in Lessee : ~(LeaseFor(r, k) /\ lease[r].pc = "boots")
    BY <1>3 DEF GrowUnused, Leases, LeaseFor
  <2>5. Touched(k)
    BY <2>1, <2>3, <2>4 DEF Touched, Building
  <2> QED BY <1>1, <2>1, <2>2, <2>5, TouchesOne
<1> QED BY <1>2, <1>3

-----------------------------------------------------------------------------
(* Records, locks and what the actors know.                                *)

\* Where a delete has the lock.
Holding == {"image", "drop"}

\* d holds the lock it held, for the record it held it for.
HoldsAlike(d) ==
    /\ delete'[d].pc \in Holding <=> delete[d].pc \in Holding
    /\ delete[d].pc \in Holding =>
          delete'[d].key = delete[d].key /\ delete'[d].id = delete[d].id

\* A step that makes, drops and locks no record.
LEMMA TouchBase ==
    ASSUME BaseInv, TouchesRows, UNCHANGED <<records, lock>>, images' \subseteq Image,
           torn' \subseteq Key \X (1..MaxRows), ActorsOK', KnownIds',
           \A d \in Deleter : HoldsAlike(d)
    PROVE  BaseInv'
<1>1. \A k \in Key : row'[k].id = row[k].id /\ (row'[k].status = "building" => Building(k) \/ Free(k))
  BY DEF TouchesRows, Touched
<1>2. \A k \in Key : lock[k] # Nobody =>
         /\ lock[k] \in Deleter /\ delete'[lock[k]].pc \in Holding
         /\ delete'[lock[k]].key = k /\ delete'[lock[k]].id = row[k].id
  BY DEF BaseInv, TypeOK, HoldsAlike, Holding
<1>3. TypeOK'
  BY <1>1, <1>2 DEF BaseInv, TypeOK, TouchesRows, Rows, Holding
<1>4. \A d \in Deleter : delete'[d].pc \in {"image", "drop"} => lock'[delete'[d].key] = d
  BY DEF BaseInv, LocksHeld, HoldsAlike, Holding
<1>5. \A k \in Key : ~Free(k)' => ~Building(k)'
  BY <1>1 DEF BaseInv, LocksHeld, Free, Building
<1> QED BY <1>3, <1>4, <1>5 DEF BaseInv, LocksHeld

\* A step that leaves the deletes alone.
LEMMA SameDeletes == UNCHANGED delete => \A d \in Deleter : HoldsAlike(d)
BY DEF HoldsAlike

\* What the actors may become: they work for records that there have been.
BuildOK(b, x) == x = Idle \/ (x \in Asking \cup Working /\ x.id <= records'[x.key])

LeaseOK(r, x) == x = Idle \/ (x \in Leasing /\ x.id <= records'[x.key])

\* A request or build that moves has, or had, a record to work for.
LEMMA BuilderMoves ==
    ASSUME BaseInv, UNCHANGED <<records, delete, lease>>, NEW b \in Builder, NEW x, BuildOK(b, x),
           build' = [build EXCEPT ![b] = x]
    PROVE  ActorsOK' /\ KnownIds'
BY DEF BaseInv, ActorsOK, KnownIds, BuildOK, Idle, Asking, Working, Deleting, Leasing

\* So has a host create.
LEMMA LesseeMoves ==
    ASSUME BaseInv, UNCHANGED <<records, delete, build>>, NEW r \in Lessee, NEW x, LeaseOK(r, x),
           lease' = [lease EXCEPT ![r] = x]
    PROVE  ActorsOK' /\ KnownIds'
BY DEF BaseInv, ActorsOK, KnownIds, LeaseOK, Idle, Asking, Working, Deleting, Leasing

\* A delete is for a record that somebody named.
LEMMA DeleterMoves ==
    ASSUME BaseInv, UNCHANGED <<records, lease, build>>, NEW d \in Deleter,
           NEW x \in {Idle} \cup Deleting, delete' = [delete EXCEPT ![d] = x]
    PROVE  ActorsOK' /\ KnownIds'
BY DEF BaseInv, ActorsOK, KnownIds, Idle, Asking, Working, Deleting, Leasing

\* Where nobody moves, the actors are what they were.
LEMMA NobodyMoves ==
    ASSUME BaseInv, UNCHANGED <<records, build, delete, lease>>
    PROVE  ActorsOK' /\ KnownIds'
BY DEF BaseInv, ActorsOK, KnownIds, Idle, Asking, Working, Deleting, Leasing

\* A POST finds the record, or makes the next one of its key (get_or_create).
LEMMA PostBase ==
    ASSUME BaseInv, NEW b \in Builder, NEW k \in Key, Post(b, k)
    PROVE  BaseInv'
<1>1. UNCHANGED <<images, lock, delete, lease, torn>>
  BY DEF Post
<1>2. CASE Exists(k)
  <2>1. UNCHANGED <<row, records>> /\ build' = [build EXCEPT ![b] = At("resolve", k)]
    BY <1>2 DEF Post
  <2>2. row[k].id \in 1..MaxRows /\ row[k].id <= records[k]
    BY <1>2, RowShape DEF BaseInv, TypeOK
  <2>3. BuildOK(b, At("resolve", k))
    BY <2>1, <2>2 DEF BuildOK, At, Asking
  <2>4. ActorsOK' /\ KnownIds'
    BY <1>1, <2>1, <2>3, BuilderMoves
  <2>5. TouchesRows
    BY <2>1, TouchesNone DEF BaseInv
  <2> QED BY <1>1, <2>1, <2>4, <2>5, TouchBase, SameDeletes DEF BaseInv, TypeOK
<1>3. CASE ~Exists(k)
  <2> DEFINE n == records[k] + 1
             new == [NoRow EXCEPT !.id = n, !.status = "building"]
             x == [pc |-> "queued", key |-> k, id |-> n]
  <2>1. /\ records \in [Key -> 0..MaxRows] /\ records[k] < MaxRows /\ n \in 1..MaxRows
        /\ records' = [records EXCEPT ![k] = n]
    BY <1>3, TemplatesAssumption DEF Post, BaseInv, TypeOK
  <2>2. records' \in [Key -> 0..MaxRows] /\ records'[k] = n /\ \A j \in Key \ {k} : records'[j] = records[j]
    BY <2>1
  <2>3. row' = [row EXCEPT ![k] = new] /\ build' = [build EXCEPT ![b] = x]
    BY <1>3, <2>2 DEF Post
  <2>4. new \in Row /\ new.id = n /\ new.status = "building"
    BY <2>1 DEF NoRow, Row, Status
  <2>5. x \in Asking /\ x.id = n /\ x.key = k
    BY <2>1 DEF Asking
  <2> HIDE DEF new, x, n
  <2>6. row' \in Rows /\ row'[k] = new /\ \A j \in Key \ {k} : row'[j] = row[j]
    BY <2>3, <2>4, RowShape DEF BaseInv, Rows
  <2>7. lock[k] = Nobody
    <3>1. \A d \in Deleter : delete[d].pc \in {"image", "drop"} => delete[d].id \in 1..MaxRows
      BY DEF BaseInv, ActorsOK, Idle, Deleting
    <3> QED BY <1>3, <3>1 DEF BaseInv, TypeOK, Exists
  <2>8. TypeOK'
    BY <1>1, <2>1, <2>2, <2>4, <2>6, <2>7 DEF BaseInv, TypeOK, Rows
  <2>9. ActorsOK'
    BY <1>1, <2>3, <2>5 DEF BaseInv, ActorsOK, Idle, Asking, Working, Deleting, Leasing
  <2>10. KnownIds'
    <3>1. \A j \in Key : records[j] <= records'[j]
      BY <2>1, <2>2 DEF n
    <3>2. \A c \in Builder \ {b} : build'[c] = build[c]
      BY <2>3 DEF BaseInv, ActorsOK
    <3>3. build'[b] = x
      BY <2>3 DEF BaseInv, ActorsOK
    <3>4. \A c \in Builder : build[c] # Idle => build[c].key \in Key /\ build[c].id \in 1..MaxRows
      BY DEF BaseInv, ActorsOK, Asking, Working
    <3>5. \A r \in Lessee : lease[r] # Idle => lease[r].key \in Key /\ lease[r].id \in 1..MaxRows
      BY DEF BaseInv, ActorsOK, Leasing
    <3>6. \A c \in Builder : build'[c] # Idle => build'[c].id <= records'[build'[c].key]
      <4> SUFFICES ASSUME NEW c \in Builder, build'[c] # Idle
                   PROVE  build'[c].id <= records'[build'[c].key]
        OBVIOUS
      <4>1. CASE c = b
        BY <2>1, <2>2, <2>5, <3>3, <4>1
      <4>2. CASE c # b
        BY <2>1, <2>2, <3>1, <3>2, <3>4, <4>2 DEF BaseInv, KnownIds, Idle
      <4> QED BY <4>1, <4>2
    <3>7. \A r \in Lessee : lease'[r] # Idle => lease'[r].id <= records'[lease'[r].key]
      BY <1>1, <2>1, <2>2, <3>1, <3>5 DEF BaseInv, KnownIds, Idle
    <3> QED BY <3>6, <3>7 DEF KnownIds, Idle
  <2>11. LocksHeld'
    BY <1>1, <2>4, <2>6, <2>7 DEF BaseInv, LocksHeld, Free, Building
  <2> QED BY <2>8, <2>9, <2>10, <2>11 DEF BaseInv
<1> QED BY <1>2, <1>3

\* A build works for the record it was queued for, or not at all.
LEMMA BuildsBase ==
    ASSUME BaseInv, NEW b \in Builder, Builds(b)
    PROVE  BaseInv' /\ TouchesRows
<1>1. TypeOK /\ ActorsOK
  BY DEF BaseInv
<1>2. UNCHANGED <<records, lock, delete, lease>>
  BY DEF Builds, Resolve, StartBuild, Built, EndBuild, BuilderDies
<1>3. TouchesRows
  <2>1. CASE UNCHANGED row
    BY <1>1, <2>1, TouchesNone
  <2> QED BY <1>1, <2>1, ResolveRows, EndBuildRows DEF Builds, StartBuild, Built, BuilderDies
<1>4. images' \subseteq Image /\ torn' \subseteq Key \X (1..MaxRows)
  <2>1. CASE Built(b)
    <3>1. ImageOf[build[b].key] \in Image
      BY <1>1, <2>1, TemplatesAssumption DEF Built, ActorsOK, Idle, Asking, Working
    <3> QED BY <1>1, <2>1, <3>1 DEF Built, TypeOK
  <2>2. CASE UNCHANGED <<images, torn>>
    BY <1>1, <2>2 DEF TypeOK
  <2> QED BY <2>1, <2>2 DEF Builds, Resolve, StartBuild, EndBuild, BuilderDies
<1>5. ActorsOK' /\ KnownIds'
  <2>1. build[b] # Idle => build[b] \in Asking \cup Working /\ build[b].key \in Key
                           /\ build[b].id \in 1..MaxRows /\ build[b].id <= records'[build[b].key]
    BY <1>1, <1>2 DEF BaseInv, KnownIds, ActorsOK, Asking, Working
  <2>2. ASSUME NEW x, BuildOK(b, x), build' = [build EXCEPT ![b] = x]
        PROVE  ActorsOK' /\ KnownIds'
    BY <1>2, <2>2, BuilderMoves
  <2>3. BuildOK(b, Idle)
    BY DEF BuildOK
  <2>4. CASE Resolve(b)
    <3>1. PICK k \in Key : k = build[b].key
      BY <2>1, <2>4 DEF Resolve, Idle
    <3>2. row[k].status = "failed" => BuildOK(b, At("queued", k))
      BY <1>1, <1>2, RowShape DEF BuildOK, At, Asking, TypeOK
    <3> QED BY <2>2, <2>3, <2>4, <3>1, <3>2 DEF Resolve
  <2>5. CASE StartBuild(b)
    <3>1. build[b] # Idle
      BY <2>5 DEF StartBuild, Idle
    <3>2. PICK k \in Key : k = build[b].key
      BY <2>1, <3>1
    <3> DEFINE x == [pc |-> "building", key |-> k, id |-> build[b].id, status |-> row[k].status]
    <3>3. row[k].id = build[b].id => row[k].status \in Status
      BY <1>1, <2>1, <3>1, <3>2, RowShape, TemplatesAssumption DEF Row, Exists
    <3>4. row[k].id = build[b].id => BuildOK(b, x)
      BY <2>1, <3>1, <3>2, <3>3 DEF BuildOK, Working
    <3>5. build' = [build EXCEPT ![b] = IF row[k].id # build[b].id THEN Idle ELSE x]
      BY <2>5, <3>2 DEF StartBuild
    <3> HIDE DEF x
    <3> QED BY <2>2, <2>3, <3>4, <3>5
  <2>6. CASE Built(b)
    <3>1. build[b] \in Working
      BY <1>1, <2>6 DEF Built, ActorsOK, Idle, Asking
    <3>2. ASSUME NEW p \in {"built", "broken"} PROVE BuildOK(b, [build[b] EXCEPT !.pc = p])
      BY <2>1, <3>1 DEF BuildOK, Working, Idle
    <3>3. \E p \in {"built", "broken"} : build' = [build EXCEPT ![b] = [build[b] EXCEPT !.pc = p]]
      BY <2>6 DEF Built
    <3> QED BY <2>2, <3>2, <3>3
  <2>7. CASE EndBuild(b) \/ BuilderDies(b)
    BY <2>2, <2>3, <2>7 DEF EndBuild, BuilderDies
  <2> QED BY <2>4, <2>5, <2>6, <2>7 DEF Builds
<1> QED BY <1>2, <1>3, <1>4, <1>5, TouchBase, SameDeletes

\* A host create keeps to the record it has found.
LEMMA LesseeBase ==
    ASSUME BaseInv, NEW r \in Lessee, Lease(r) \/ Leave(r) \/ \E k \in Key : Find(r, k)
    PROVE  BaseInv' /\ TouchesRows
<1>1. TypeOK /\ ActorsOK
  BY DEF BaseInv
<1>2. UNCHANGED <<records, images, lock, build, delete, torn>>
  BY DEF Lease, Leave, Find
<1>3. TouchesRows
  <2>1. CASE UNCHANGED row
    BY <1>1, <2>1, TouchesNone
  <2> QED BY <1>1, <2>1, LeaseRows DEF Leave, Find
<1>4. ActorsOK' /\ KnownIds'
  <2>1. ASSUME NEW x, LeaseOK(r, x), lease' = [lease EXCEPT ![r] = x]
        PROVE  ActorsOK' /\ KnownIds'
    BY <1>2, <2>1, LesseeMoves
  <2>2. LeaseOK(r, Idle)
    BY DEF LeaseOK
  <2>3. CASE Lease(r)
    <3>1. lease[r] \in Leasing /\ lease[r].id <= records'[lease[r].key]
      BY <1>1, <1>2, <2>3 DEF Lease, ActorsOK, Idle, BaseInv, KnownIds
    <3>2. LeaseOK(r, [lease[r] EXCEPT !.pc = "boots"])
      BY <3>1 DEF LeaseOK, Leasing
    <3> QED BY <2>1, <2>2, <2>3, <3>2 DEF Lease
  <2>4. ASSUME NEW k \in Key, Find(r, k) PROVE ActorsOK' /\ KnownIds'
    <3>1. row[k].id \in 1..MaxRows /\ row[k].id <= records[k]
      BY <1>1, <2>4, RowShape DEF Find, TypeOK
    <3>2. LeaseOK(r, At("found", k))
      BY <1>2, <3>1 DEF LeaseOK, Leasing, At
    <3> QED BY <2>1, <2>4, <3>2 DEF Find
  <2> QED BY <2>1, <2>2, <2>3, <2>4 DEF Leave
<1> QED BY <1>1, <1>2, <1>3, <1>4, TouchBase, SameDeletes DEF TypeOK

\* The janitor's UPDATE and time move nobody.
LEMMA TimeBase ==
    ASSUME BaseInv, NEW k \in Key, Abandon(k) \/ GrowOld(k) \/ GrowUnused(k)
    PROVE  BaseInv' /\ TouchesRows
<1>1. UNCHANGED <<records, images, lock, build, delete, lease, torn>>
  BY DEF Abandon, GrowOld, GrowUnused
<1>2. TouchesRows
  BY AbandonRows, GrowRows DEF BaseInv
<1> QED BY <1>1, <1>2, NobodyMoves, TouchBase, SameDeletes DEF BaseInv, TypeOK

\* A delete is for a record that is there when it is asked for.
LEMMA SelectBase ==
    ASSUME BaseInv, NEW d \in Deleter, NEW k \in Key, NEW expired \in BOOLEAN,
           Select(d, k, expired)
    PROVE  BaseInv' /\ UNCHANGED row
<1> DEFINE x == [pc |-> "lock", key |-> k, id |-> row[k].id, expired |-> expired]
<1>1. UNCHANGED <<row, records, images, lock, build, lease, torn>>
      /\ delete' = [delete EXCEPT ![d] = x] /\ delete[d] = Idle
  BY DEF Select
<1>2. x \in Deleting /\ x.pc = "lock"
  BY RowShape DEF Select, BaseInv, Deleting
<1> HIDE DEF x
<1>3. \A e \in Deleter : HoldsAlike(e)
  BY <1>1, <1>2 DEF HoldsAlike, Holding, Idle, BaseInv, ActorsOK
<1>4. ActorsOK' /\ KnownIds'
  BY <1>1, <1>2, DeleterMoves
<1> QED BY <1>1, <1>3, <1>4, TouchBase, TouchesNone DEF BaseInv, TypeOK

\* The lock is taken for the record that was selected, if that is there and does not build.
LEMMA LockBase ==
    ASSUME BaseInv, NEW d \in Deleter, Lock(d)
    PROVE  BaseInv' /\ UNCHANGED row
<1>1. UNCHANGED <<row, records, images, build, lease, torn>> /\ delete[d] \in Deleting
      /\ delete[d].pc = "lock"
  BY DEF Lock, BaseInv, ActorsOK, Idle
<1>2. PICK k \in Key : k = delete[d].key
  BY <1>1 DEF Deleting
<1>3. CASE row[k].id = delete[d].id /\ MayDelete(d, k)
  <2> DEFINE x == [delete[d] EXCEPT !.pc = IF row[k].image THEN "image" ELSE "drop"]
  <2>1. delete' = [delete EXCEPT ![d] = x] /\ lock' = [lock EXCEPT ![k] = d] /\ lock[k] = Nobody
    BY <1>2, <1>3 DEF Lock, Free
  <2>2. x \in Deleting /\ x.pc \in Holding /\ x.key = k /\ x.id = row[k].id
    BY <1>1, <1>2, <1>3 DEF Deleting, Holding
  <2> HIDE DEF x
  <2>3. ActorsOK' /\ KnownIds'
    BY <1>1, <2>1, <2>2, DeleterMoves
  <2>4. /\ delete'[d] = x /\ \A e \in Deleter \ {d} : delete'[e] = delete[e]
        /\ lock'[k] = d /\ \A j \in Key \ {k} : lock'[j] = lock[j]
        /\ lock' \in [Key -> Deleter \cup {Nobody}]
    BY <2>1 DEF BaseInv, ActorsOK, TypeOK
  <2>5. \A j \in Key : lock[j] # Nobody => lock[j] \in Deleter \ {d}
    BY <1>1 DEF BaseInv, TypeOK
  <2>6. TypeOK'
    BY <1>1, <2>2, <2>4, <2>5 DEF BaseInv, TypeOK, Holding
  <2>7. LocksHeld'
    <3>1. \A e \in Deleter : delete'[e].pc \in {"image", "drop"} => lock'[delete'[e].key] = e
      <4> SUFFICES ASSUME NEW e \in Deleter, delete'[e].pc \in {"image", "drop"}
                   PROVE  lock'[delete'[e].key] = e
        OBVIOUS
      <4>1. CASE e = d
        BY <2>2, <2>4, <4>1
      <4>2. CASE e # d
        <5>1. delete[e] \in Deleting /\ delete[e].key \in Key /\ lock[delete[e].key] = e
          BY <2>4, <4>2 DEF BaseInv, ActorsOK, LocksHeld, Idle, Deleting
        <5>2. e # Nobody
          BY TemplatesAssumption
        <5> QED BY <2>1, <2>4, <4>2, <5>1, <5>2
      <4> QED BY <4>1, <4>2
    <3>2. \A j \in Key : ~Free(j)' => ~Building(j)'
      BY <1>1, <1>3, <2>4 DEF BaseInv, LocksHeld, Free, Building, MayDelete
    <3> QED BY <3>1, <3>2 DEF LocksHeld
  <2> QED BY <1>1, <2>3, <2>6, <2>7 DEF BaseInv
<1>4. CASE ~(row[k].id = delete[d].id /\ MayDelete(d, k))
  <2>1. delete' = [delete EXCEPT ![d] = Idle] /\ UNCHANGED lock
    BY <1>2, <1>4 DEF Lock
  <2>2. \A e \in Deleter : HoldsAlike(e)
    BY <1>1, <2>1 DEF HoldsAlike, Holding, Idle, BaseInv, ActorsOK
  <2>3. ActorsOK' /\ KnownIds'
    BY <1>1, <2>1, DeleterMoves
  <2> QED BY <1>1, <2>1, <2>2, <2>3, TouchBase, TouchesNone DEF BaseInv, TypeOK
<1> QED BY <1>1, <1>3, <1>4

\* Removing the image leaves the delete its lock.
LEMMA RemoveImageBase ==
    ASSUME BaseInv, NEW d \in Deleter, RemoveImage(d)
    PROVE  BaseInv' /\ UNCHANGED row
<1>1. UNCHANGED <<row, records, lock, build, lease>> /\ delete[d] \in Deleting /\ delete[d].pc = "image"
      /\ delete' = [delete EXCEPT ![d] = [delete[d] EXCEPT !.pc = "drop"]]
  BY DEF RemoveImage, BaseInv, ActorsOK, Idle
<1>2. [delete[d] EXCEPT !.pc = "drop"] \in Deleting /\ [delete[d] EXCEPT !.pc = "drop"].pc = "drop"
      /\ [delete[d] EXCEPT !.pc = "drop"].key = delete[d].key
      /\ [delete[d] EXCEPT !.pc = "drop"].id = delete[d].id
  BY <1>1 DEF Deleting
<1>3. \A e \in Deleter : HoldsAlike(e)
  BY <1>1, <1>2 DEF HoldsAlike, Holding, BaseInv, ActorsOK
<1>4. ActorsOK' /\ KnownIds'
  BY <1>1, <1>2, DeleterMoves
<1>5. images' \subseteq Image /\ torn' \subseteq Key \X (1..MaxRows)
  BY <1>1 DEF RemoveImage, BaseInv, TypeOK, Deleting
<1> QED BY <1>1, <1>3, <1>4, <1>5, TouchBase, TouchesNone DEF BaseInv

\* A delete that ends or fails drops its lock, and nobody else's.
LEMMA UnlockBase ==
    ASSUME BaseInv, NEW d \in Deleter, Drop(d) \/ DeleteFails(d)
    PROVE  BaseInv'
<1>1. UNCHANGED <<records, images, build, lease>> /\ delete' = [delete EXCEPT ![d] = Idle]
      /\ torn' \subseteq Key \X (1..MaxRows)
  BY DEF Drop, DeleteFails, BaseInv, TypeOK
<1>2. ActorsOK' /\ KnownIds'
  BY <1>1, DeleterMoves
<1>3. /\ delete'[d].pc = "idle" /\ \A e \in Deleter \ {d} : delete'[e] = delete[e]
  BY <1>1 DEF BaseInv, ActorsOK, Idle
<1>4. \A e \in Deleter : delete[e].pc \in Holding => delete[e].key \in Key /\ lock[delete[e].key] = e
  BY DEF BaseInv, ActorsOK, LocksHeld, Idle, Deleting, Holding
<1>5. \A j \in Key : lock[j] # Nobody => lock[j] \in Deleter /\ delete[lock[j]].key = j
                       /\ delete[lock[j]].pc \in Holding /\ delete[lock[j]].id = row[j].id
  BY DEF BaseInv, TypeOK, Holding
<1>6. lock' = [j \in Key |-> IF lock[j] = d THEN Nobody ELSE lock[j]]
  <2>1. CASE Drop(d)
    <3>1. lock' = [lock EXCEPT ![delete[d].key] = Nobody] /\ delete[d].pc \in Holding
      BY <2>1 DEF Drop, Holding
    <3> QED BY <1>4, <1>5, <3>1 DEF BaseInv, TypeOK
  <2>2. CASE DeleteFails(d)
    BY <2>2 DEF DeleteFails
  <2> QED BY <2>1, <2>2
<1>7. row' \in Rows /\ \A j \in Key : row'[j] = row[j] \/ (row'[j] = NoRow /\ lock[j] = d)
  <2>1. CASE Drop(d)
    <3>1. row' = [row EXCEPT ![delete[d].key] = NoRow] /\ delete[d].pc \in Holding
      BY <2>1 DEF Drop, Holding
    <3> QED BY <1>4, <3>1 DEF BaseInv, TypeOK, Rows
  <2>2. CASE DeleteFails(d)
    BY <2>2 DEF DeleteFails, BaseInv, TypeOK, Rows
  <2> QED BY <2>1, <2>2
<1>8. NoRow.id = 0 /\ NoRow.status = "none"
  BY DEF NoRow
<1>9. TypeOK'
  <2>1. \A j \in Key : row'[j].id <= records'[j]
    BY <1>1, <1>7, <1>8 DEF BaseInv, TypeOK
  <2>2. \A j \in Key : lock'[j] # Nobody => lock'[j] = lock[j] /\ lock[j] # d /\ row'[j] = row[j]
    BY <1>6, <1>7
  <2>3. \A j \in Key : lock'[j] # Nobody =>
            /\ delete'[lock'[j]].pc \in {"image", "drop"} /\ delete'[lock'[j]].key = j
            /\ delete'[lock'[j]].id = row'[j].id
    BY <1>3, <1>5, <2>2 DEF Holding
  <2>4. lock' \in [Key -> Deleter \cup {Nobody}]
    BY <1>6 DEF BaseInv, TypeOK
  <2> QED BY <1>1, <1>7, <2>1, <2>3, <2>4 DEF BaseInv, TypeOK, Rows
<1>10. LocksHeld'
  <2>1. \A e \in Deleter : delete'[e].pc \in {"image", "drop"} => lock'[delete'[e].key] = e
    BY <1>3, <1>4, <1>6 DEF Holding
  <2>2. \A j \in Key : ~Free(j)' => ~Building(j)'
    BY <1>6, <1>7, <1>8 DEF BaseInv, LocksHeld, Free, Building
  <2> QED BY <2>1, <2>2 DEF LocksHeld
<1> QED BY <1>2, <1>9, <1>10 DEF BaseInv

-----------------------------------------------------------------------------
(* Leases.                                                                 *)

\* r works for no record but the one it worked for.
LeasesLess(r) ==
    lease'[r] # Idle => lease'[r] = lease[r]

\* d takes the image of no record but the one whose image it was about to take.
TakesLess(d) ==
    delete'[d].pc = "image" => delete'[d] = delete[d]

\* No new lease, and no delete that comes to take an image.
LEMMA LeasesKept ==
    ASSUME BaseInv, LeaseInv, TouchesRows, \A r \in Lessee : LeasesLess(r),
           \A d \in Deleter : TakesLess(d)
    PROVE  LeaseInv'
<1>1. \A k \in Key : LeasedIsFresh(k)'
  <2> SUFFICES ASSUME NEW k \in Key, NEW r \in Lessee, LeaseFor(r, k)'
               PROVE  /\ ~(row'[k].status = "failed" /\ row'[k].old)
                      /\ lease'[r].pc = "boots" => ~row'[k].unused
    BY DEF LeasedIsFresh
  <2>1. lease'[r] = lease[r]
    BY DEF LeasesLess, LeaseFor, Idle
  <2>2. Touched(k)
    BY DEF TouchesRows
  <2>3. LeaseFor(r, k)
    BY <2>1, <2>2 DEF LeaseFor, Touched
  <2> QED BY <2>1, <2>2, <2>3 DEF LeaseInv, LeasedIsFresh, Touched
<1>2. \A d \in Deleter, r \in Lessee : Spares(d, r)'
  BY DEF LeaseInv, Spares, LeasesLess, TakesLess, Idle
<1> QED BY <1>1, <1>2 DEF LeaseInv

\* A step that leaves the host creates alone.
LEMMA SameLeases == UNCHANGED lease => \A r \in Lessee : LeasesLess(r)
BY DEF LeasesLess

\* A step that leaves the deletes alone takes nothing new.
LEMMA SameTakers == UNCHANGED delete => \A d \in Deleter : TakesLess(d)
BY DEF TakesLess

\* A new record is nobody's yet, and one that goes takes its leases' record with it.
LEMMA RowGoesLeases ==
    ASSUME BaseInv, LeaseInv, UNCHANGED lease, \A d \in Deleter : TakesLess(d),
           \A k \in Key : row'[k] = row[k] \/ \A r \in Lessee : ~LeaseFor(r, k)'
    PROVE  LeaseInv'
<1>1. \A k \in Key : LeasedIsFresh(k)'
  BY DEF LeaseInv, LeasedIsFresh, LeaseFor
<1>2. \A d \in Deleter, r \in Lessee : Spares(d, r)'
  BY DEF LeaseInv, Spares, TakesLess
<1> QED BY <1>1, <1>2 DEF LeaseInv

\* No host create is for the record that a POST makes: its id is new (get_or_create).
LEMMA PostLeases ==
    ASSUME BaseInv, LeaseInv, NEW b \in Builder, NEW k \in Key, Post(b, k)
    PROVE  LeaseInv'
<1>1. UNCHANGED <<lease, delete>>
  BY DEF Post
<1>2. ASSUME ~Exists(k), NEW r \in Lessee PROVE ~LeaseFor(r, k)'
  <2>1. records \in [Key -> 0..MaxRows] /\ row'[k].id = records[k] + 1
    <3>1. records \in [Key -> 0..MaxRows] /\ records' = [records EXCEPT ![k] = @ + 1]
          /\ row' = [row EXCEPT ![k] = [NoRow EXCEPT !.id = records'[k], !.status = "building"]]
      BY <1>2 DEF Post, BaseInv, TypeOK
    <3>2. records'[k] = records[k] + 1
      BY <3>1
    <3>3. row'[k] = [NoRow EXCEPT !.id = records'[k], !.status = "building"]
      BY <3>1 DEF BaseInv, TypeOK
    <3>4. row'[k].id = records'[k]
      BY <3>3 DEF NoRow
    <3> QED BY <3>1, <3>2, <3>4
  <2>2. lease[r] # Idle => lease[r].id <= records[lease[r].key] /\ lease[r].id \in 1..MaxRows
    BY DEF BaseInv, ActorsOK, KnownIds, Leasing
  <2> QED BY <1>1, <2>1, <2>2, TemplatesAssumption DEF LeaseFor, Idle
<1>3. \A j \in Key : row'[j] = row[j] \/ (j = k /\ ~Exists(k))
  BY DEF Post, BaseInv, TypeOK
<1> QED BY <1>1, <1>2, <1>3, RowGoesLeases, SameTakers

\* A delete that ends leaves no lease on the record that it drops (TemplateService.delete).
LEMMA UnlockLeases ==
    ASSUME BaseInv, LeaseInv, NEW d \in Deleter, Drop(d) \/ DeleteFails(d)
    PROVE  LeaseInv'
<1>1. UNCHANGED lease /\ delete' = [delete EXCEPT ![d] = Idle]
  BY DEF Drop, DeleteFails
<1>2. \A e \in Deleter : TakesLess(e)
  BY <1>1 DEF TakesLess, Idle, BaseInv, ActorsOK
<1>3. \A k \in Key : row'[k] = row[k] \/ row'[k] = NoRow
  BY DEF Drop, DeleteFails, BaseInv, TypeOK
<1>4. ASSUME NEW k \in Key, row'[k] = NoRow, NEW r \in Lessee PROVE ~LeaseFor(r, k)'
  <2>1. lease[r] # Idle => lease[r].id \in 1..MaxRows
    BY DEF BaseInv, ActorsOK, Leasing
  <2> QED BY <1>1, <1>4, <2>1, TemplatesAssumption DEF LeaseFor, Idle, NoRow
<1> QED BY <1>1, <1>2, <1>3, <1>4, RowGoesLeases

\* Under the lock the janitor looks again, and finds that a lease has touched the record
\* (reapable, asked a second time by TemplateService.delete).
LEMMA LockLeases ==
    ASSUME BaseInv, LeaseInv, NEW d \in Deleter, Lock(d)
    PROVE  LeaseInv'
<1>1. UNCHANGED <<row, lease>> /\ delete[d] \in Deleting
  BY DEF Lock, BaseInv, ActorsOK, Idle
<1>2. \A k \in Key : LeasedIsFresh(k)'
  BY <1>1 DEF LeaseInv, LeasedIsFresh, LeaseFor
<1>3. PICK k \in Key : k = delete[d].key
  BY <1>1 DEF Deleting
<1>4. \A e \in Deleter \ {d} : delete'[e] = delete[e]
  BY DEF Lock, BaseInv, ActorsOK
<1>5. ASSUME NEW r \in Lessee PROVE Spares(d, r)'
  <2> SUFFICES ASSUME delete'[d].pc = "image", delete'[d].expired, lease[r].pc = "boots",
                      lease[r].key = delete'[d].key
               PROVE  lease[r].id # delete'[d].id
    BY <1>1 DEF Spares
  <2>1. row[k].id = delete[d].id /\ MayDelete(d, k)
        /\ delete' = [delete EXCEPT ![d] = [delete[d] EXCEPT !.pc = IF row[k].image THEN "image" ELSE "drop"]]
    BY <1>3 DEF Lock, Idle, BaseInv, ActorsOK
  <2>2. delete'[d].key = k /\ delete'[d].id = row[k].id /\ delete'[d].expired = delete[d].expired
    BY <1>1, <1>3, <2>1 DEF Deleting, BaseInv, ActorsOK
  <2>3. Reapable(k)
    BY <2>1, <2>2 DEF MayDelete
  <2>4. ~LeaseFor(r, k)
    BY <2>3 DEF LeaseInv, LeasedIsFresh, Reapable
  <2> QED BY <2>2, <2>4 DEF LeaseFor
<1>6. \A e \in Deleter, r \in Lessee : Spares(e, r)'
  BY <1>1, <1>4, <1>5 DEF LeaseInv, Spares
<1> QED BY <1>2, <1>6 DEF LeaseInv

\* The lease waits for the lock: no delete is between its check and the record's end
\* (the row lock that the lease's UPDATE of last_used_at asks for).
LEMMA LeaseLeases ==
    ASSUME BaseInv, LeaseInv, NEW r \in Lessee, Lease(r)
    PROVE  LeaseInv'
<1>1. UNCHANGED delete /\ lease[r] \in Leasing /\ lease[r].pc = "found" /\ TouchesRows
  BY LesseeBase DEF Lease, BaseInv, ActorsOK, Idle
<1>2. PICK k \in Key : k = lease[r].key
  BY <1>1 DEF Leasing
<1>3. CASE row[k].id = lease[r].id
  <2>1. /\ lease' = [lease EXCEPT ![r] = [lease[r] EXCEPT !.pc = "boots"]]
        /\ row' = [row EXCEPT ![k] = [row[k] EXCEPT !.unused = FALSE]] /\ Free(k)
    BY <1>2, <1>3 DEF Lease
  <2>2. lease'[r].pc = "boots" /\ lease'[r].key = k /\ lease'[r].id = row[k].id
        /\ \A q \in Lessee \ {r} : lease'[q] = lease[q]
    BY <1>1, <1>2, <1>3, <2>1 DEF Leasing, BaseInv, ActorsOK
  <2>3. LeaseFor(r, k)
    BY <1>1, <1>2, <1>3 DEF LeaseFor
  <2>4. row[k] \in Row
    BY <1>1, <1>3, RowShape, TemplatesAssumption DEF BaseInv, Leasing, Exists
  <2>5. ~row'[k].unused
    BY <2>1, <2>4 DEF BaseInv, TypeOK, Row
  <2>6. \A j \in Key : LeasedIsFresh(j)'
    <3> SUFFICES ASSUME NEW j \in Key, NEW q \in Lessee, LeaseFor(q, j)'
                 PROVE  /\ ~(row'[j].status = "failed" /\ row'[j].old)
                        /\ lease'[q].pc = "boots" => ~row'[j].unused
      BY DEF LeasedIsFresh
    <3>1. Touched(j)
      BY <1>1 DEF TouchesRows
    <3>2. LeaseFor(q, j)
      <4>1. CASE q = r
        <5>1. j = k
          BY <2>2, <4>1 DEF LeaseFor
        <5> QED BY <2>3, <4>1, <5>1
      <4>2. CASE q # r
        <5>1. lease'[q] = lease[q] /\ row'[j].id = row[j].id
          BY <2>2, <3>1, <4>2 DEF Touched
        <5> QED BY <5>1 DEF LeaseFor
      <4> QED BY <4>1, <4>2
    <3>3. ~(row[j].status = "failed" /\ row[j].old)
      BY <3>2 DEF LeaseInv, LeasedIsFresh
    <3>4. ~(row'[j].status = "failed" /\ row'[j].old)
      BY <3>1, <3>2, <3>3 DEF Touched
    <3>5. CASE q = r
      <4>1. j = k
        BY <2>2, <3>5 DEF LeaseFor
      <4> QED BY <2>5, <3>4, <4>1
    <3>6. CASE q # r
      <4>1. lease'[q] = lease[q]
        BY <2>2, <3>6
      <4>2. lease[q].pc = "boots" => ~row[j].unused
        BY <3>2 DEF LeaseInv, LeasedIsFresh
      <4> QED BY <3>1, <3>2, <3>4, <4>1, <4>2 DEF Touched
    <3> QED BY <3>5, <3>6
  <2>7. \A d \in Deleter, q \in Lessee : Spares(d, q)'
    <3>1. ASSUME NEW d \in Deleter PROVE Spares(d, r)'
      <4>1. ~(delete[d].pc = "image" /\ delete[d].key = k)
        BY <2>1, TemplatesAssumption DEF BaseInv, LocksHeld, Free
      <4> QED BY <1>1, <2>2, <4>1 DEF Spares
    <3> QED BY <1>1, <2>2, <3>1 DEF LeaseInv, Spares
  <2> QED BY <2>6, <2>7 DEF LeaseInv
<1>4. CASE row[k].id # lease[r].id
  <2>1. lease' = [lease EXCEPT ![r] = Idle]
    BY <1>2, <1>4 DEF Lease
  <2>2. \A q \in Lessee : LeasesLess(q)
    BY <2>1 DEF LeasesLess, BaseInv, ActorsOK
  <2> QED BY <1>1, <2>2, LeasesKept, SameTakers
<1> QED BY <1>3, <1>4

\* What a host create finds is available, and nothing that it has leased.
LEMMA FindLeases ==
    ASSUME BaseInv, LeaseInv, NEW r \in Lessee, NEW k \in Key, Find(r, k)
    PROVE  LeaseInv'
<1>1. UNCHANGED <<row, delete>> /\ lease' = [lease EXCEPT ![r] = At("found", k)]
      /\ row[k].status = "available"
  BY DEF Find
<1>2. lease'[r].pc = "found" /\ lease'[r].key = k /\ \A q \in Lessee \ {r} : lease'[q] = lease[q]
  BY <1>1 DEF At, BaseInv, ActorsOK
<1>3. \A j \in Key : LeasedIsFresh(j)'
  <2> SUFFICES ASSUME NEW j \in Key, NEW q \in Lessee, LeaseFor(q, j)'
               PROVE  /\ ~(row[j].status = "failed" /\ row[j].old)
                      /\ lease'[q].pc = "boots" => ~row[j].unused
    BY <1>1 DEF LeasedIsFresh
  <2>1. CASE q = r
    BY <1>1, <1>2, <2>1 DEF LeaseFor
  <2>2. CASE q # r
    BY <1>1, <1>2, <2>2 DEF LeaseFor, LeaseInv, LeasedIsFresh
  <2> QED BY <2>1, <2>2
<1>4. \A d \in Deleter, q \in Lessee : Spares(d, q)'
  BY <1>1, <1>2 DEF LeaseInv, Spares
<1> QED BY <1>3, <1>4 DEF LeaseInv

\* Whatever else builds, deletes and time do to a record, they do under the lock or not
\* while a host create is at work for it.
LEMMA NextLeases ==
    ASSUME BaseInv, LeaseInv, [Next]_vars
    PROVE  LeaseInv'
<1>1. ASSUME NEW b \in Builder, Builds(b) PROVE LeaseInv'
  <2>1. TouchesRows /\ UNCHANGED <<lease, delete>>
    BY <1>1, BuildsBase DEF Builds, Resolve, StartBuild, Built, EndBuild, BuilderDies
  <2> QED BY <2>1, LeasesKept, SameLeases, SameTakers
<1>2. ASSUME NEW k \in Key, Abandon(k) \/ GrowOld(k) \/ GrowUnused(k) PROVE LeaseInv'
  <2>1. TouchesRows /\ UNCHANGED <<lease, delete>>
    BY <1>2, TimeBase DEF Abandon, GrowOld, GrowUnused
  <2> QED BY <2>1, LeasesKept, SameLeases, SameTakers
<1>3. ASSUME NEW d \in Deleter, NEW k \in Key, NEW expired \in BOOLEAN, Select(d, k, expired)
      PROVE  LeaseInv'
  <2>1. TouchesRows /\ UNCHANGED lease
    BY <1>3, TouchesNone DEF Select, BaseInv
  <2>2. \A e \in Deleter : TakesLess(e)
    BY <1>3 DEF Select, TakesLess, BaseInv, ActorsOK
  <2> QED BY <2>1, <2>2, LeasesKept, SameLeases
<1>4. ASSUME NEW d \in Deleter, RemoveImage(d) PROVE LeaseInv'
  <2>1. TouchesRows /\ UNCHANGED lease
    BY <1>4, TouchesNone DEF RemoveImage, BaseInv
  <2>2. delete[d] \in Deleting
    BY <1>4 DEF RemoveImage, BaseInv, ActorsOK, Idle
  <2>3. \A e \in Deleter : TakesLess(e)
    BY <1>4, <2>2 DEF RemoveImage, TakesLess, BaseInv, ActorsOK, Deleting
  <2> QED BY <2>1, <2>3, LeasesKept, SameLeases
<1>5. ASSUME NEW r \in Lessee, Leave(r) PROVE LeaseInv'
  <2>1. TouchesRows /\ UNCHANGED delete
    BY <1>5, TouchesNone DEF Leave, BaseInv
  <2>2. \A q \in Lessee : LeasesLess(q)
    BY <1>5 DEF Leave, LeasesLess, BaseInv, ActorsOK
  <2> QED BY <2>1, <2>2, LeasesKept, SameTakers
<1>6. CASE UNCHANGED vars
  <2>1. TouchesRows /\ UNCHANGED <<lease, delete>>
    BY <1>6, TouchesNone DEF vars, BaseInv
  <2> QED BY <2>1, LeasesKept, SameLeases, SameTakers
<1> QED BY <1>1, <1>2, <1>3, <1>4, <1>5, <1>6, PostLeases, UnlockLeases, LockLeases, LeaseLeases,
        FindLeases DEF Next, Deletes, Janitor

\* Types, known ids and locks are kept by every step.
LEMMA NextBase ==
    ASSUME BaseInv, [Next]_vars
    PROVE  BaseInv'
<1>1. ASSUME UNCHANGED vars PROVE BaseInv'
  <2>1. UNCHANGED <<row, records, images, lock, build, delete, lease, torn>>
    BY <1>1 DEF vars
  <2>2. TouchesRows /\ ActorsOK' /\ KnownIds'
    BY <2>1, TouchesNone, NobodyMoves DEF BaseInv
  <2> QED BY <2>1, <2>2, TouchBase, SameDeletes DEF BaseInv, TypeOK
<1> QED BY <1>1, PostBase, BuildsBase, LesseeBase, TimeBase, SelectBase, LockBase, RemoveImageBase,
        UnlockBase DEF Next, Deletes, Janitor

-----------------------------------------------------------------------------
(* Images.                                                                 *)

\* The record of k is offered only if it was, or its image is made; and the image stays.
LEMMA ImageStays ==
    ASSUME NEW k \in Key, ImageKept(k),
           row'[k].id = row[k].id,
           row'[k].status = "available" =>
              row[k].status = "available" \/ \E b \in Builder : BuiltFor(b, k),
           \A b \in Builder : BuiltFor(b, k)' => BuiltFor(b, k), HasImage(k) => HasImage(k)'
    PROVE  ImageKept(k)'
BY DEF ImageKept

\* A step that touches records and builds, and no image.
LEMMA ImagesStay ==
    ASSUME ImageInv, TouchesRows, UNCHANGED <<images, torn>>,
           \A b \in Builder, k \in Key : BuiltFor(b, k)' => BuiltFor(b, k)
    PROVE  ImageInv'
<1>1. \A k \in Key : HasImage(k) => HasImage(k)'
  BY DEF HasImage, TouchesRows, Touched
<1> QED BY <1>1, ImageStays DEF ImageInv, TouchesRows, Touched, OwnImage

\* Without a build that moves, no image is made.
LEMMA SameBuilds ==
    UNCHANGED build /\ TouchesRows => \A b \in Builder, k \in Key : BuiltFor(b, k)' => BuiltFor(b, k)
BY DEF BuiltFor, TouchesRows, Touched

\* A build that has made its image leaves its key one.
LEMMA BuildsImages ==
    ASSUME BaseInv, ImageInv, NEW b \in Builder, Builds(b)
    PROVE  ImageInv'
<1>1. TouchesRows
  BY BuildsBase
<1>2. CASE Built(b) /\ build[b].pc = "building"
  <2>1. build[b] \in Working
    BY <1>2 DEF BaseInv, ActorsOK, Idle, Asking
  <2>2. PICK n \in Key : n = build[b].key
    BY <2>1 DEF Working
  <2>3. UNCHANGED row /\ images \subseteq images'
    BY <1>2 DEF Built
  <2>4. build'[b].pc \in {"built", "broken"} /\ build'[b].key = n
        /\ \A c \in Builder \ {b} : build'[c] = build[c]
    BY <1>2, <2>1, <2>2 DEF Built, Working, BaseInv, ActorsOK
  <2>5. /\ torn' = torn \/ (ImageOf[n] \in images' /\ torn' = {t \in torn : t[1] # n})
        /\ build'[b].pc = "built" => ImageOf[n] \in images'
    BY <1>2, <2>1, <2>2 DEF Built, Working, BaseInv, ActorsOK
  <2>6. ASSUME NEW k \in Key, OwnImage(k) PROVE ImageKept(k)'
    <3>1. HasImage(k) => HasImage(k)'
      BY <2>3, <2>5 DEF HasImage
    <3>2. ImageKept(k)
      BY <2>6 DEF ImageInv
    <3>3. (\E c \in Builder : BuiltFor(c, k)') => (\E c \in Builder : BuiltFor(c, k)) \/ HasImage(k)'
      BY <2>3, <2>4, <2>5 DEF BuiltFor, HasImage
    <3> QED BY <2>3, <3>1, <3>2, <3>3 DEF ImageKept
  <2> QED BY <2>6 DEF ImageInv, OwnImage
<1>3. CASE ~Built(b)
  <2>1. UNCHANGED <<images, torn>>
    BY <1>3 DEF Builds, Resolve, StartBuild, EndBuild, BuilderDies
  <2>2. build'[b].pc # "built" /\ \A c \in Builder \ {b} : build'[c] = build[c]
    BY <1>3 DEF Builds, Resolve, StartBuild, EndBuild, BuilderDies, Idle, At, BaseInv, ActorsOK
  <2>3. \A c \in Builder, k \in Key : BuiltFor(c, k)' => BuiltFor(c, k)
    BY <1>1, <2>2 DEF BuiltFor, TouchesRows, Touched
  <2> QED BY <1>1, <2>1, <2>3, ImagesStay
<1> QED BY <1>2, <1>3 DEF Built

\* A delete takes its own record's image, whose record it calls torn
\* (TemplateService.delete).
LEMMA RemoveImageImages ==
    ASSUME BaseInv, ImageInv, NEW d \in Deleter, RemoveImage(d)
    PROVE  ImageInv'
<1>1. UNCHANGED <<row, build>> /\ delete[d] \in Deleting /\ delete[d].pc = "image"
  BY DEF RemoveImage, BaseInv, ActorsOK, Idle
<1>2. PICK n \in Key : n = delete[d].key
  BY <1>1 DEF Deleting
<1>3. lock[n] = d /\ d # Nobody
  BY <1>1, <1>2, TemplatesAssumption DEF BaseInv, LocksHeld
<1>4. delete[d].id = row[n].id
  BY <1>1, <1>3 DEF BaseInv, TypeOK
<1>5. images' = images \ {ImageOf[n]} /\ torn' = torn \cup {<<n, row[n].id>>}
  BY <1>2, <1>4 DEF RemoveImage
<1>6. ASSUME NEW k \in Key, OwnImage(k) PROVE ImageKept(k)'
  <2>1. HasImage(k) => HasImage(k)'
    BY <1>1, <1>5, <1>6 DEF HasImage, OwnImage
  <2> QED BY <1>1, <1>6, <2>1 DEF ImageInv, ImageKept, BuiltFor
<1> QED BY <1>6 DEF ImageInv, OwnImage

\* A record that is new, or gone, is not available, and no build is for it yet.
LEMMA RowGoesImages ==
    ASSUME BaseInv, ImageInv, UNCHANGED images, NEW n \in Key, ~ \E b \in Builder : BuiltFor(b,
           n)',
           row'[n].status # "available",
           \A k \in Key \ {n} :
              /\ row'[k] = row[k] /\ \A b \in Builder : BuiltFor(b, k)' => BuiltFor(b, k)
              /\ \A i \in 1..MaxRows : <<k, i>> \in torn => <<k, i>> \in torn'
    PROVE  ImageInv'
<1>1. ASSUME NEW k \in Key, OwnImage(k), k # n PROVE ImageKept(k)'
  <2>1. HasImage(k) => HasImage(k)'
    BY <1>1 DEF HasImage, BaseInv, TypeOK
  <2>2. ImageKept(k)
    BY <1>1 DEF ImageInv
  <2> QED BY <1>1, <2>1, <2>2, ImageStays
<1>2. ImageKept(n)'
  BY DEF ImageKept
<1> QED BY <1>1, <1>2 DEF ImageInv, OwnImage

\* A record that a POST makes is not offered, and no build is for it yet (get_or_create).
LEMMA PostImages ==
    ASSUME BaseInv, ImageInv, NEW b \in Builder, NEW k \in Key, Post(b, k)
    PROVE  ImageInv'
<1>1. UNCHANGED <<images, torn>> /\ build'[b].pc # "built" /\ \A c \in Builder \ {b} : build'[c] = build[c]
  BY DEF Post, At, BaseInv, ActorsOK
<1>2. CASE Exists(k)
  <2>1. TouchesRows
    BY <1>2, TouchesNone DEF Post, BaseInv
  <2>2. \A c \in Builder, j \in Key : BuiltFor(c, j)' => BuiltFor(c, j)
    BY <1>1, <2>1 DEF BuiltFor, TouchesRows, Touched
  <2> QED BY <1>1, <2>1, <2>2, ImagesStay
<1>3. CASE ~Exists(k)
  <2> DEFINE new == [NoRow EXCEPT !.id = records'[k], !.status = "building"]
  <2>1. /\ records \in [Key -> 0..MaxRows] /\ records' = [records EXCEPT ![k] = @ + 1]
        /\ row' = [row EXCEPT ![k] = new]
    BY <1>3 DEF Post, BaseInv, TypeOK
  <2>2. new.id = records'[k] /\ new.status = "building"
    BY DEF NoRow
  <2> HIDE DEF new
  <2>3. row'[k] = new /\ \A j \in Key \ {k} : row'[j] = row[j]
    BY <2>1 DEF BaseInv, TypeOK
  <2>4. row'[k].id = records[k] + 1
    BY <2>1, <2>2, <2>3
  <2>5. \A c \in Builder : build[c] # Idle => build[c].id <= records[build[c].key] /\ build[c].id \in 1..MaxRows
    BY DEF BaseInv, ActorsOK, KnownIds, Asking, Working
  <2>6. \A c \in Builder : ~BuiltFor(c, k)'
    BY <1>1, <2>1, <2>4, <2>5, TemplatesAssumption DEF BuiltFor, Idle
  <2>7. \A j \in Key \ {k}, c \in Builder : BuiltFor(c, j)' => BuiltFor(c, j)
    BY <1>1, <2>3 DEF BuiltFor
  <2> QED BY <1>1, <2>2, <2>3, <2>6, <2>7, RowGoesImages
<1> QED BY <1>2, <1>3

\* A dropped record is not offered, and its image was its own (TemplateService.delete).
LEMMA UnlockImages ==
    ASSUME BaseInv, ImageInv, NEW d \in Deleter, Drop(d) \/ DeleteFails(d)
    PROVE  ImageInv'
<1>1. CASE DeleteFails(d)
  <2>1. TouchesRows /\ UNCHANGED <<images, torn, build>>
    BY <1>1, TouchesNone DEF DeleteFails, BaseInv
  <2> QED BY <2>1, ImagesStay, SameBuilds
<1>2. CASE Drop(d)
  <2>1. UNCHANGED <<images, build>> /\ delete[d] \in Deleting
    BY <1>2 DEF Drop, BaseInv, ActorsOK, Idle
  <2>2. PICK n \in Key : n = delete[d].key
    BY <2>1 DEF Deleting
  <2>3. row' = [row EXCEPT ![n] = NoRow] /\ torn' = torn \ {<<n, delete[d].id>>}
    BY <1>2, <2>2 DEF Drop
  <2>4. row'[n].id = 0 /\ row'[n].status = "none" /\ \A k \in Key \ {n} : row'[k] = row[k]
    BY <2>3 DEF NoRow, BaseInv, TypeOK
  <2>5. \A b \in Builder : build[b] # Idle => build[b].id # 0
    BY TemplatesAssumption DEF BaseInv, ActorsOK, Asking, Working
  <2>6. \A b \in Builder : ~BuiltFor(b, n)'
    BY <2>1, <2>4, <2>5 DEF BuiltFor, Idle
  <2>7. \A k \in Key \ {n}, b \in Builder : BuiltFor(b, k)' => BuiltFor(b, k)
    BY <2>1, <2>4 DEF BuiltFor
  <2>8. \A k \in Key \ {n} : \A i \in 1..MaxRows : <<k, i>> \in torn => <<k, i>> \in torn'
    BY <2>3
  <2> QED BY <2>1, <2>4, <2>6, <2>7, <2>8, RowGoesImages
<1> QED BY <1>1, <1>2

\* Nothing but a build that is over makes a record available, and nothing but a delete
\* takes an image away.
LEMMA NextImages ==
    ASSUME BaseInv, ImageInv, [Next]_vars
    PROVE  ImageInv'
<1>1. ASSUME TouchesRows, UNCHANGED <<images, torn, build>> PROVE ImageInv'
  BY <1>1, ImagesStay, SameBuilds
<1>2. ASSUME NEW r \in Lessee, Lease(r) \/ Leave(r) \/ \E k \in Key : Find(r, k) PROVE ImageInv'
  BY <1>1, <1>2, LesseeBase DEF Lease, Leave, Find
<1>3. ASSUME NEW k \in Key, Abandon(k) \/ GrowOld(k) \/ GrowUnused(k) PROVE ImageInv'
  BY <1>1, <1>3, TimeBase DEF Abandon, GrowOld, GrowUnused
<1>4. ASSUME NEW d \in Deleter, Lock(d) \/ \E k \in Key, expired \in BOOLEAN : Select(d, k, expired)
      PROVE  ImageInv'
  BY <1>1, <1>4, TouchesNone DEF Lock, Select, BaseInv
<1>5. CASE UNCHANGED vars
  BY <1>1, <1>5, TouchesNone DEF vars, BaseInv
<1> QED BY <1>2, <1>3, <1>4, <1>5, BuildsImages, RemoveImageImages, PostImages, UnlockImages
        DEF Next, Deletes, Janitor

-----------------------------------------------------------------------------
\* The inductive invariant.
IInv == BaseInv /\ LeaseInv /\ ImageInv

\* To begin with there are no records and nobody works for one.
LEMMA InitInv == Init => IInv
<1> SUFFICES ASSUME Init PROVE IInv
  OBVIOUS
<1>1. \A k \in Key : row[k] = NoRow /\ NoRow.id = 0 /\ NoRow.status = "none"
  BY DEF Init, NoRow
<1>2. TypeOK
  BY <1>1, TemplatesAssumption DEF Init, TypeOK
<1>3. ActorsOK /\ KnownIds
  BY DEF Init, ActorsOK, KnownIds
<1>4. LocksHeld
  BY DEF Init, LocksHeld, Idle, Free
<1>5. LeaseInv
  BY DEF Init, LeaseInv, LeasedIsFresh, LeaseFor, Spares, Idle
<1>6. ImageInv
  BY <1>1 DEF Init, ImageInv, ImageKept, BuiltFor, Idle
<1> QED BY <1>2, <1>3, <1>4, <1>5, <1>6 DEF IInv, BaseInv

\* The invariant holds of every state.
LEMMA Inductive == Spec => []IInv
<1>1. IInv /\ [Next]_vars => IInv'
  BY NextBase, NextLeases, NextImages DEF IInv
<1> QED BY <1>1, InitInv, PTL DEF Spec

\* Every available record has its image, for every number of builds, deletes, creates and
\* records, where no two templates share an image: a build, a delete and the janitor that
\* overtake each other take no image from under a record that is offered, but for a delete
\* that has taken the image and not, or not yet, the record (TemplateService.build and
\* delete).  Two templates that share one may take it from each other (images.py:13).
THEOREM ImagesAreKept ==
    ASSUME \A k \in Key : OwnImage(k)
    PROVE  Spec => []TemplatesInv
<1>1. IInv => TemplatesInv
  BY DEF IInv, BaseInv, ImageInv, ImageKept, HasImage, TemplatesInv, AvailableHasImage
<1> QED BY <1>1, Inductive, PTL

\* The janitor's delete spares what a host create has leased, and any delete what builds,
\* for every number of them: what it finds under the row lock decides
\* (TemplateService.delete).  A caller's DELETE of a leased template is not spared.
THEOREM DeletesAreCareful == Spec => DeletesSpare
<1>1. IInv /\ [Next]_vars => [\A d \in Deleter, r \in Lessee :
          /\ delete[d].pc = "image" /\ delete'[d].pc = "drop" /\ delete[d].expired
          /\ lease[r].pc = "boots" /\ lease[r].key = delete[d].key
          => lease[r].id # delete[d].id]_vars
  BY DEF IInv, LeaseInv, Spares
<1>2. IInv /\ [Next]_vars => [\A k \in Key : Building(k) => row'[k].id = row[k].id]_vars
  <2> SUFFICES ASSUME IInv, [Next]_vars, NEW k \in Key, Building(k)
               PROVE  row'[k].id = row[k].id
    OBVIOUS
  <2>1. Exists(k) /\ BaseInv
    BY RowShape DEF IInv, BaseInv, Building
  <2>2. CASE TouchesRows
    BY <2>2 DEF TouchesRows, Touched
  <2>3. CASE UNCHANGED row
    BY <2>3
  <2>4. ASSUME NEW b \in Builder, NEW j \in Key, Post(b, j) PROVE row'[k].id = row[k].id
    BY <2>1, <2>4 DEF Post, BaseInv, TypeOK
  <2>5. ASSUME NEW d \in Deleter, Drop(d) PROVE row'[k].id = row[k].id
    <3>1. PICK n \in Key : n = delete[d].key
      BY <2>1, <2>5 DEF Drop, BaseInv, ActorsOK, Idle, Deleting
    <3>2. n # k
      BY <2>1, <2>5, <3>1, TemplatesAssumption DEF Drop, BaseInv, LocksHeld, Free
    <3> QED BY <2>1, <2>5, <3>1, <3>2 DEF Drop, BaseInv, TypeOK
  <2> QED BY <2>1, <2>2, <2>3, <2>4, <2>5, BuildsBase, LesseeBase, TimeBase, SelectBase, LockBase,
          RemoveImageBase DEF Next, Deletes, Janitor, DeleteFails, vars
<1>3. Spec => LeaseSpares
  BY <1>1, Inductive, PTL DEF LeaseSpares, Spec
<1>4. Spec => PolledIsKept
  BY <1>2, Inductive, PTL DEF PolledIsKept, Spec
<1> QED BY <1>3, <1>4 DEF DeletesSpare

=============================================================================
