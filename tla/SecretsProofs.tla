--------------------------- MODULE SecretsProofs ---------------------------
(***************************************************************************)
(* The secrets of a host, in two parts that share nothing.                 *)
(*                                                                         *)
(* The exchange, for any number of requests, orders, records, values and   *)
(* epochs: three ties.  Whoever waits for a fetch waits for one that began *)
(* late enough for what it was promised (Awaited).  The record in use has, *)
(* and gets, nothing older than any order has asked for (Ordered): a fetch *)
(* that began before an order works for the record the order replaced.     *)
(* And the provider has what that record calls pushed, unless a replaced   *)
(* one wrote after it (ProviderHas).                                       *)
(*                                                                         *)
(* Values are numbered anew in every step that drops one (Becomes).  The   *)
(* first two sections show that this changes nothing that the ties speak   *)
(* of: the numbering is one to one and leaves no gap, so a step may be     *)
(* judged by what it writes before the values get their numbers (Settles). *)
(*                                                                         *)
(* The proxy, for every number of connections, names and services and for  *)
(* every TTL and timeout: nothing leaves it half swapped, and a connection *)
(* goes by a list that is recent.  What is sent is whole because of what   *)
(* is so while placeholders are still asked for (SwapInv).  A list is      *)
(* recent because the exchange's answer tells of every row that is older   *)
(* than the call, and the list of every row that is older than itself and  *)
(* one more timeout (ListInv): rows that change are younger, and no call   *)
(* lasts longer.                                                           *)
(***************************************************************************)
EXTENDS SecretsExchange, SecretsProxy, FiniteSetTheorems, TLAPS

\* Records, values and the store as they are written between two steps.
Records == [Record -> [latest : Value \cup {NoValue}, pushed : Value \cup {NoValue},
                       waits : BOOLEAN]]
Values == [Value -> [epoch : 0..MaxEpoch, life : {"fresh", "stale", "over"}]]
Store == Value \cup {NoValue}
Place == [pc : {"idle", "visit", "fetch", "answered"}, rec : Record \cup {NoRecord},
          epoch : 0..MaxEpoch, floor : 0..MaxEpoch]

\* What record r has, and what is being fetched for it, is of epoch f or later.
Since(r, f, p, records, values) ==
    /\ records[r].latest # NoValue => values[records[r].latest].epoch >= f
    /\ \A x \in Proc : p[x].pc = "fetch" /\ p[x].rec = r => p[x].epoch >= f

\* Where the coroutines are: what is fetched is fetched for a record, nobody asks for an epoch
\* that is still to come, and a request was answered with what it may have.
PlacesOK(p) ==
    /\ p \in [Proc -> Place]
    /\ \A x \in Proc :
          /\ p[x].floor <= epoch
          /\ p[x].rec \in Record <=> p[x].pc = "fetch"
    /\ p[Timer].pc = "visit" => holds
    /\ \A c \in Caller : p[c].pc = "answered" => p[c].epoch >= p[c].floor

\* Whoever waits for a fetch gets what it may have.
Awaited(p, records, values) ==
    \A x \in Proc : p[x].pc = "fetch" => Since(p[x].rec, p[x].floor, p, records, values)

\* The record in use has, and gets, what every order has asked for.
Ordered(s, asked, p, records, values) ==
    s # NoRecord =>
        /\ Since(s, asked, p, records, values)
        /\ \A o \in Order : Since(s, p[o].floor, p, records, values)

\* The provider of a host has the value that the record in use says it has, if no record that
\* was replaced wrote after it, and none that ended before the orders that were answered.
ProviderHas(h, s, asked, stray, records, values, store) ==
    /\ ~holds \/ h # "active" => store = NoValue
    /\ ~holds /\ s # NoRecord => records[s].pushed = NoValue
    /\ holds /\ h = "active" =>
          /\ store # NoValue
          /\ asked > 0 /\ ~stray => values[store].epoch >= asked
          /\ s # NoRecord /\ records[s].pushed # NoValue /\ ~stray => records[s].pushed = store

\* The numbers of the values have no gaps, and a record that nobody uses is blank.
Tidy ==
    /\ Known(rec, held) = 1..Cardinality(Known(rec, held))
    /\ \A r \in Record \ InUse : rec[r] = Blank

IInv ==
    /\ TypeOK /\ Tidy /\ PlacesOK(proc) /\ Awaited(proc, rec, val)
    /\ Ordered(slot, ordered, proc, rec, val)
    /\ ProviderHas(host, slot, ordered, late, rec, val, held)
-----------------------------------------------------------------------------
(* The values and their numbers.                                           *)

\* How many of S are up to v: the number Becomes gives v.
Number(S, v) == Cardinality({w \in S : w <= v})

LEMMA ValuesAreFinite ==
    ASSUME NEW S \in SUBSET Value
    PROVE  /\ IsFiniteSet(S) /\ Cardinality(S) \in 0..MaxValues
  <1>1. IsFiniteSet(Value) /\ Cardinality(Value) = MaxValues
    BY ExchangeAssumption, FS_Interval DEF Value
  <1>2. IsFiniteSet(S) /\ Cardinality(S) <= MaxValues
    BY <1>1, FS_Subset
  <1>3. Cardinality(S) \in Nat
    BY <1>2, FS_CardinalityType
  <1>. QED  BY <1>2, <1>3, ExchangeAssumption

\* Numbers grow with their values, from 1, and 0 stays the number of no value.
LEMMA NumbersGrow ==
    ASSUME NEW S \in SUBSET Value
    PROVE  /\ \A v \in Store : Number(S, v) \in 0..Cardinality(S)
           /\ \A v \in S : Number(S, v) \in 1..Cardinality(S)
           /\ \A v, w \in S : v < w => Number(S, v) < Number(S, w)
           /\ Number(S, NoValue) = 0
  <1>. DEFINE UpTo(v) == {w \in S : w <= v}
  <1>0. IsFiniteSet(S) /\ Cardinality(S) \in Nat /\ S \subseteq Nat
    BY ValuesAreFinite DEF Value
  <1>1. ASSUME NEW v
        PROVE  /\ IsFiniteSet(UpTo(v)) /\ Cardinality(UpTo(v)) \in 0..Cardinality(S)
               /\ v \in UpTo(v) => Cardinality(UpTo(v)) # 0
    <2>1. UpTo(v) \in SUBSET S
      OBVIOUS
    <2>2. IsFiniteSet(UpTo(v)) /\ Cardinality(UpTo(v)) <= Cardinality(S)
      BY <1>0, <2>1, FS_Subset
    <2>3. Cardinality(UpTo(v)) \in Nat
      BY <2>2, FS_CardinalityType
    <2>4. v \in UpTo(v) => Cardinality(UpTo(v)) # 0
      BY <2>2, FS_EmptySet
    <2>. QED  BY <1>0, <2>2, <2>3, <2>4
  <1>2. \A v \in Store : Number(S, v) \in 0..Cardinality(S)
    BY <1>1 DEF Number
  <1>3. ASSUME NEW v \in S
        PROVE  Number(S, v) \in 1..Cardinality(S)
    <2>1. v \in UpTo(v)
      BY <1>0
    <2>. QED  BY <1>0, <1>1, <2>1 DEF Number
  <1>4. ASSUME NEW v \in S, NEW w \in S, v < w
        PROVE  Number(S, v) < Number(S, w)
    <2>0. v \in Nat /\ w \in Nat /\ \A u \in S : u \in Nat
      BY <1>0
    <2>a. ~(w <= v) /\ \A u \in S : u <= v => u <= w
      BY <1>4, <2>0
    <2>b. w <= w
      BY <2>0
    <2>1. UpTo(v) \in SUBSET UpTo(w) /\ w \in UpTo(w) /\ w \notin UpTo(v)
      <3>1. UpTo(v) \in SUBSET UpTo(w)
        BY <2>a
      <3>2. w \in UpTo(w) /\ w \notin UpTo(v)
        BY <2>a, <2>b
      <3>. QED  BY <3>1, <3>2
    <2>2. IsFiniteSet(UpTo(w)) /\ Cardinality(UpTo(w)) \in Nat /\ Cardinality(UpTo(v)) \in Nat
      BY <1>0, <1>1
    <2>3. Cardinality(UpTo(v)) <= Cardinality(UpTo(w)) /\ Cardinality(UpTo(w)) # Cardinality(UpTo(v))
      BY <2>1, <2>2, FS_Subset
    <2>. QED  BY <2>2, <2>3 DEF Number
  <1>5. Number(S, NoValue) = 0
    <2>0. \A w \in S : w \in 1..MaxValues
      BY DEF Value
    <2>a. \A w \in S : ~(w <= NoValue)
      BY <2>0 DEF NoValue
    <2>1. UpTo(NoValue) = {}
      BY <2>a
    <2>. QED  BY <2>1, FS_EmptySet DEF Number
  <1>. QED  BY <1>2, <1>3, <1>4, <1>5

\* Every number up to the count of the values is the number of one of them, and of one only.
LEMMA NumbersHaveNoGaps ==
    ASSUME NEW S \in SUBSET Value
    PROVE  /\ \A v, w \in S : Number(S, v) = Number(S, w) => v = w
           /\ \A n \in 1..Cardinality(S) : \E v \in S : Number(S, v) = n
  <1>. DEFINE T == 1..Cardinality(S)
              f == [v \in S |-> Number(S, v)]
  <1>1. IsFiniteSet(S) /\ Cardinality(S) \in Nat /\ S \subseteq Nat
    BY ValuesAreFinite DEF Value
  <1>2. ASSUME NEW v \in S, NEW w \in S, Number(S, v) = Number(S, w)
        PROVE  v = w
    <2>1. v \in Nat /\ w \in Nat /\ Number(S, v) \in Int /\ Number(S, w) \in Int
      BY <1>1, NumbersGrow
    <2>2. ~(v < w) /\ ~(w < v)
      BY <1>2, <2>1, NumbersGrow
    <2>. QED  BY <2>1, <2>2
  <1>3. f \in [S -> T]
    BY NumbersGrow
  <1>4. f \in Injection(S, T)
    BY <1>2, <1>3 DEF Injection, IsInjective
  <1>5. IsFiniteSet(T) /\ Cardinality(T) = Cardinality(S)
    BY <1>1, FS_Interval
  <1>. HIDE DEF f, T
  <1>6. f \in Surjection(S, T)
    BY <1>4, <1>5, FS_Injection
  <1>7. \A n \in T : \E v \in S : f[v] = n
    BY <1>6 DEF Surjection
  <1>. QED  BY <1>2, <1>7 DEF f, T

-----------------------------------------------------------------------------
(* What a step writes (Becomes).                                           *)

\* The values that are still used after it.
Used(records, store) ==
    Known([r \in Record |-> IF r \in InUse' THEN records[r] ELSE Blank], store)

LEMMA BlankIsTyped == Blank \in [latest : Value \cup {NoValue}, pushed : Value \cup {NoValue},
                                 waits : BOOLEAN]
  BY DEF Blank

LEMMA UsedValues ==
    ASSUME NEW records \in Records, NEW store \in Store
    PROVE  /\ Used(records, store) \in SUBSET Value
           /\ store # NoValue => store \in Used(records, store)
           /\ \A r \in Record \cap InUse' :
                 /\ records[r].latest # NoValue => records[r].latest \in Used(records, store)
                 /\ records[r].pushed # NoValue => records[r].pushed \in Used(records, store)
           /\ \A v \in Used(records, store) :
                 \/ v = store
                 \/ \E r \in Record \cap InUse' : v \in {records[r].latest, records[r].pushed}
  <1>. DEFINE kept == [r \in Record |-> IF r \in InUse' THEN records[r] ELSE Blank]
  <1>1. Used(records, store) = Known(kept, store)
    BY DEF Used
  <1>2. \A r \in Record : /\ r \in InUse' => kept[r] = records[r]
                          /\ r \notin InUse' => kept[r].latest = NoValue /\ kept[r].pushed = NoValue
    BY DEF Blank
  <1>3. \A r \in Record : kept[r].latest \in Store /\ kept[r].pushed \in Store
    BY <1>2 DEF Records, Store
  <1>. HIDE DEF kept
  <1>. QED  BY <1>1, <1>2, <1>3 DEF Known, Store

\* What is written, value by value.
LEMMA BecomesValue ==
    ASSUME NEW records \in Records, NEW values \in Values, NEW store \in Store,
           Becomes(records, values, store)
    PROVE  LET S == Used(records, store) IN
           /\ held' = Number(S, store)
           /\ \A r \in Record \ InUse' : rec'[r] = Blank
           /\ \A r \in Record \cap InUse' :
                 rec'[r] = [latest |-> Number(S, records[r].latest),
                            pushed |-> Number(S, records[r].pushed), waits |-> records[r].waits]
           /\ rec' = [r \in Record |-> rec'[r]]
           /\ val' = [n \in Value |-> IF n <= Cardinality(S)
                                      THEN values[CHOOSE v \in S : Number(S, v) = n] ELSE NoSecret]
           /\ \A v \in S : val'[Number(S, v)] = values[v]
  <1>. DEFINE S == Used(records, store)
              kept == [r \in Record |-> IF r \in InUse' THEN records[r] ELSE Blank]
  <1>1. S \in SUBSET Value
    BY UsedValues
  <1>2. /\ rec' = [r \in Record |-> [kept[r] EXCEPT !.latest = Number(S, @), !.pushed = Number(S, @)]]
        /\ held' = Number(S, store)
        /\ val' = [n \in Value |-> IF n <= Cardinality(S)
                                   THEN values[CHOOSE v \in S : Number(S, v) = n] ELSE NoSecret]
    BY DEF Becomes, Used, Number
  <1>3. Number(S, NoValue) = 0 /\ NoValue = 0
    BY <1>1, NumbersGrow DEF NoValue
  <1>4. ASSUME NEW r \in Record, r \notin InUse'
        PROVE  rec'[r] = Blank
    <2>1. rec'[r] = [[Blank EXCEPT !.latest = Number(S, Blank.latest)]
                        EXCEPT !.pushed = Number(S, Blank.pushed)]
      BY <1>2, <1>4 DEF Blank
    <2>2. Blank.latest = NoValue /\ Blank.pushed = NoValue
      BY DEF Blank
    <2>. QED  BY <1>3, <2>1, <2>2 DEF Blank
  <1>5. ASSUME NEW r \in Record, r \in InUse'
        PROVE  rec'[r] = [latest |-> Number(S, records[r].latest),
                          pushed |-> Number(S, records[r].pushed), waits |-> records[r].waits]
    <2>1. rec'[r] = [[records[r] EXCEPT !.latest = Number(S, records[r].latest)]
                        EXCEPT !.pushed = Number(S, records[r].pushed)]
      BY <1>2, <1>5 DEF Records
    <2>2. records[r] \in [latest : Value \cup {NoValue}, pushed : Value \cup {NoValue}, waits : BOOLEAN]
      BY DEF Records
    <2>. QED  BY <2>1, <2>2
  <1>6. ASSUME NEW v \in S
        PROVE  val'[Number(S, v)] = values[v]
    <2>1. Number(S, v) \in 1..Cardinality(S) /\ Cardinality(S) \in 0..MaxValues
      BY <1>1, NumbersGrow, ValuesAreFinite
    <2>2. Number(S, v) \in Value /\ Number(S, v) <= Cardinality(S)
      BY <2>1, ExchangeAssumption DEF Value
    <2>3. (CHOOSE w \in S : Number(S, w) = Number(S, v)) = v
      BY <1>1, NumbersHaveNoGaps
    <2>. QED  BY <1>2, <2>2, <2>3
  <1>. HIDE DEF S, kept
  <1>7. rec' = [r \in Record |-> rec'[r]]
    BY <1>2
  <1>. QED  BY <1>2, <1>4, <1>5, <1>6, <1>7 DEF S

\* The new numbers tell the values apart as the old ones did, and leave no gap.
LEMMA Renumbered ==
    ASSUME NEW records \in Records, NEW values \in Values, NEW store \in Store,
           Becomes(records, values, store)
    PROVE  /\ rec' \in Records /\ val' \in Values /\ held' \in Store
           /\ store = NoValue => held' = NoValue
           /\ store # NoValue => held' # NoValue /\ val'[held'] = values[store]
           /\ \A r \in Record \cap InUse' :
                 /\ records[r].latest = NoValue => rec'[r].latest = NoValue
                 /\ records[r].latest # NoValue => val'[rec'[r].latest] = values[records[r].latest]
                 /\ records[r].pushed = NoValue => rec'[r].pushed = NoValue
                 /\ records[r].pushed = store => rec'[r].pushed = held'
           /\ Tidy'
  <1>. DEFINE S == Used(records, store)
  <1>1. S \in SUBSET Value
    BY UsedValues
  <1>2. Cardinality(S) \in 0..MaxValues
    BY <1>1, ValuesAreFinite
  <1>3. /\ \A v \in Store : Number(S, v) \in Store
        /\ \A v \in S : Number(S, v) \in 1..Cardinality(S) /\ Number(S, v) # NoValue
        /\ Number(S, NoValue) = NoValue
    BY <1>1, <1>2, NumbersGrow, ExchangeAssumption DEF Store, Value, NoValue
  <1>4. /\ held' = Number(S, store) /\ rec' = [r \in Record |-> rec'[r]]
        /\ \A r \in Record \ InUse' : rec'[r] = Blank
        /\ \A r \in Record \cap InUse' :
              rec'[r] = [latest |-> Number(S, records[r].latest),
                         pushed |-> Number(S, records[r].pushed), waits |-> records[r].waits]
        /\ \A v \in S : val'[Number(S, v)] = values[v]
    BY BecomesValue
  <1>5. val' = [n \in Value |-> IF n <= Cardinality(S)
                                THEN values[CHOOSE v \in S : Number(S, v) = n] ELSE NoSecret]
    BY BecomesValue
  <1>6. /\ store # NoValue => store \in S
        /\ \A r \in Record \cap InUse' :
              /\ records[r].latest # NoValue => records[r].latest \in S
              /\ records[r].pushed # NoValue => records[r].pushed \in S
        /\ \A v \in S :
              \/ v = store
              \/ \E r \in Record \cap InUse' : v \in {records[r].latest, records[r].pushed}
    BY UsedValues
  <1>. HIDE DEF S
  <1>7. val' \in Values
    <2>1. ASSUME NEW n \in Value, n <= Cardinality(S)
          PROVE  values[CHOOSE v \in S : Number(S, v) = n] \in [epoch : 0..MaxEpoch, life : {"fresh", "stale", "over"}]
      <3>1. n \in 1..Cardinality(S)
        BY <1>2, <2>1 DEF Value
      <3>2. \E v \in S : Number(S, v) = n
        BY <1>1, <3>1, NumbersHaveNoGaps
      <3>3. (CHOOSE v \in S : Number(S, v) = n) \in Value
        BY <1>1, <3>2
      <3>. QED  BY <3>3 DEF Values
    <2>2. NoSecret \in [epoch : 0..MaxEpoch, life : {"fresh", "stale", "over"}]
      BY ExchangeAssumption DEF NoSecret
    <2>. QED  BY <1>5, <2>1, <2>2 DEF Values
  <1>8. \A r \in Record : rec'[r] \in [latest : Value \cup {NoValue}, pushed : Value \cup {NoValue}, waits : BOOLEAN]
    <2>. SUFFICES ASSUME NEW r \in Record
                  PROVE  rec'[r] \in [latest : Value \cup {NoValue}, pushed : Value \cup {NoValue}, waits : BOOLEAN]
      OBVIOUS
    <2>1. CASE r \notin InUse'
      BY <1>4, <2>1, BlankIsTyped
    <2>2. CASE r \in InUse'
      <3>1. records[r].latest \in Store /\ records[r].pushed \in Store /\ records[r].waits \in BOOLEAN
        BY DEF Records, Store
      <3>. QED  BY <1>3, <1>4, <2>2, <3>1 DEF Store
    <2>. QED  BY <2>1, <2>2
  <1>9. rec' \in Records
    BY <1>4, <1>8 DEF Records
  <1>10. held' \in Store
    BY <1>3, <1>4
  <1>11. store # NoValue => held' # NoValue /\ val'[held'] = values[store]
    BY <1>3, <1>4, <1>6
  <1>12. ASSUME NEW r \in Record, r \in InUse'
         PROVE  /\ records[r].latest = NoValue => rec'[r].latest = NoValue
                /\ records[r].latest # NoValue => val'[rec'[r].latest] = values[records[r].latest]
                /\ records[r].pushed = NoValue => rec'[r].pushed = NoValue
                /\ records[r].pushed = store => rec'[r].pushed = held'
    <2>1. rec'[r].latest = Number(S, records[r].latest) /\ rec'[r].pushed = Number(S, records[r].pushed)
      BY <1>4, <1>12
    <2>. QED  BY <1>3, <1>4, <1>6, <1>12, <2>1
  <1>13. Known(rec, held)' = 1..Cardinality(S)
    <2>1. ASSUME NEW n \in Known(rec, held)'
          PROVE  n \in 1..Cardinality(S)
      <3>1. n # NoValue /\ (n = held' \/ \E r \in Record : n \in {rec'[r].latest, rec'[r].pushed})
        BY DEF Known
      <3>2. CASE n = held'
        BY <1>3, <1>4, <1>6, <3>1, <3>2
      <3>3. ASSUME NEW r \in Record, n \in {rec'[r].latest, rec'[r].pushed}
            PROVE  n \in 1..Cardinality(S)
        <4>1. r \in InUse'
          BY <1>4, <3>1, <3>3 DEF Blank
        <4>2. n = Number(S, records[r].latest) \/ n = Number(S, records[r].pushed)
          BY <1>4, <3>3, <4>1
        <4>. QED  BY <1>3, <1>6, <3>1, <4>1, <4>2
      <3>. QED  BY <3>1, <3>2, <3>3
    <2>2. ASSUME NEW n \in 1..Cardinality(S)
          PROVE  n \in Known(rec, held)'
      <3>1. PICK v \in S : Number(S, v) = n
        BY <1>1, NumbersHaveNoGaps
      <3>2. n # NoValue
        BY <1>2 DEF NoValue
      <3>3. CASE v = store
        BY <1>4, <3>1, <3>2, <3>3 DEF Known
      <3>4. ASSUME NEW r \in Record \cap InUse', v \in {records[r].latest, records[r].pushed}
            PROVE  n \in Known(rec, held)'
        <4>1. n \in {rec'[r].latest, rec'[r].pushed}
          BY <1>4, <3>1, <3>4
        <4>. QED  BY <3>2, <4>1 DEF Known
      <3>. QED  BY <1>6, <3>3, <3>4
    <2>. QED  BY <2>1, <2>2
  <1>14. Tidy'
    <2>1. Cardinality(1..Cardinality(S)) = Cardinality(S)
      BY <1>2, FS_Interval
    <2>. QED  BY <1>4, <1>13, <2>1 DEF Tidy
  <1>. QED  BY <1>3, <1>4, <1>7, <1>9, <1>10, <1>11, <1>12, <1>14

-----------------------------------------------------------------------------
(* What a step leaves to be shown: the parts of the invariant as they are  *)
(* before the values get their new numbers.                                *)

Standing(records, values) ==
    /\ Awaited(proc, records, values) /\ Ordered(slot, ordered, proc, records, values)
    /\ ProviderHas(host, slot, ordered, late, records, values, held)

LEMMA Typed ==
    ASSUME IInv
    PROVE  /\ rec \in Records /\ val \in Values /\ held \in Store
           /\ slot \in Record \cup {NoRecord} /\ proc \in [Proc -> Place]
           /\ epoch \in 1..MaxEpoch /\ epoch \in Nat /\ ordered \in 0..epoch
           /\ late \in BOOLEAN /\ holds \in BOOLEAN /\ host \in {"active", "ending", "gone"}
           /\ Standing(rec, val) /\ PlacesOK(proc) /\ Tidy
           /\ \A x \in Proc : proc[x].floor \in Nat /\ proc[x].floor <= epoch
  <1>1. TypeOK
    BY DEF IInv
  <1>2. epoch \in 1..MaxEpoch /\ epoch \in Nat
    BY <1>1, ExchangeAssumption DEF TypeOK
  <1>3. proc \in [Proc -> Place] /\ PlacesOK(proc)
    BY DEF IInv, PlacesOK
  <1>4. \A x \in Proc : proc[x].floor \in Nat /\ proc[x].floor <= epoch
    BY <1>3, ExchangeAssumption DEF PlacesOK, Place
  <1>5. rec \in Records /\ val \in Values /\ held \in Store
    BY <1>1 DEF TypeOK, Records, Values, Store
  <1>. QED  BY <1>1, <1>2, <1>3, <1>4, <1>5 DEF IInv, TypeOK, Standing

\* What a record has and gets is of the same epoch under the new numbers.
LEMMA SinceIsRenumbered ==
    ASSUME NEW records \in Records, NEW values \in Values, NEW store \in Store,
           Becomes(records, values, store), NEW r \in Record, r \in InUse', NEW f, NEW p,
           Since(r, f, p, records, values)
    PROVE  Since(r, f, p, rec', val')
  BY Renumbered DEF Since

\* A step that ends with Becomes keeps the invariant if what it writes has its parts.
LEMMA Settles ==
    ASSUME IInv, NEW records \in Records, NEW values \in Values, NEW store \in Store,
           Becomes(records, values, store),
           slot' \in Record \cup {NoRecord}, ordered' \in 0..epoch, late' \in BOOLEAN,
           epoch' = epoch, holds' = holds, host' \in {"active", "ending", "gone"},
           PlacesOK(proc'), Awaited(proc', records, values),
           Ordered(slot', ordered', proc', records, values),
           ProviderHas(host', slot', ordered', late', records, values, store)
    PROVE  IInv'
  <1>1. /\ rec' \in Records /\ val' \in Values /\ held' \in Store /\ Tidy'
        /\ store = NoValue => held' = NoValue
        /\ store # NoValue => held' # NoValue /\ val'[held'] = values[store]
        /\ \A r \in Record \cap InUse' :
              /\ records[r].pushed = NoValue => rec'[r].pushed = NoValue
              /\ records[r].pushed = store => rec'[r].pushed = held'
    BY Renumbered
  <1>2. /\ epoch \in 1..MaxEpoch /\ epoch \in Nat /\ holds \in BOOLEAN
    BY Typed
  <1>3. /\ slot' \in InUse'
        /\ \A x \in Proc : proc'[x].rec \in InUse'
    BY DEF InUse
  <1>4. PlacesOK(proc)'
    BY DEF PlacesOK
  <1>5. Awaited(proc, rec, val)'
    <2>. SUFFICES ASSUME NEW x \in Proc, proc'[x].pc = "fetch"
                  PROVE  Since(proc'[x].rec, proc'[x].floor, proc', rec', val')
      BY DEF Awaited, Since
    <2>1. proc'[x].rec \in Record
      BY DEF PlacesOK
    <2>2. Since(proc'[x].rec, proc'[x].floor, proc', records, values)
      BY DEF Awaited
    <2>. QED  BY <1>3, <2>1, <2>2, SinceIsRenumbered
  <1>6. Ordered(slot, ordered, proc, rec, val)'
    <2>. SUFFICES ASSUME slot' # NoRecord
                  PROVE  /\ Since(slot', ordered', proc', rec', val')
                         /\ \A o \in Order : Since(slot', proc'[o].floor, proc', rec', val')
      BY DEF Ordered, Since
    <2>1. slot' \in Record
      OBVIOUS
    <2>2. /\ Since(slot', ordered', proc', records, values)
          /\ \A o \in Order : Since(slot', proc'[o].floor, proc', records, values)
      BY DEF Ordered
    <2>. QED  BY <1>3, <2>1, <2>2, SinceIsRenumbered
  <1>7. ProviderHas(host, slot, ordered, late, rec, val, held)'
    <2>1. CASE ~holds \/ host' # "active"
      BY <1>1, <1>3, <2>1 DEF ProviderHas
    <2>2. CASE holds /\ host' = "active"
      <3>1. /\ store # NoValue
            /\ ordered' > 0 /\ ~late' => values[store].epoch >= ordered'
            /\ slot' # NoRecord /\ records[slot'].pushed # NoValue /\ ~late' =>
                  records[slot'].pushed = store
        BY <2>2 DEF ProviderHas
      <3>2. ordered' > 0 /\ ~late' => val'[held'].epoch >= ordered'
        BY <1>1, <3>1
      <3>3. slot' # NoRecord /\ rec'[slot'].pushed # NoValue /\ ~late' => rec'[slot'].pushed = held'
        BY <1>1, <1>3, <3>1
      <3>. QED  BY <1>1, <2>2, <3>1, <3>2, <3>3 DEF ProviderHas
    <2>. QED  BY <2>1, <2>2
  <1>8. TypeOK'
    <2>1. ~holds => held' = NoValue
      BY <1>1 DEF ProviderHas
    <2>2. proc' \in [Proc -> Place]
      BY DEF PlacesOK
    <2>. QED  BY <1>1, <1>2, <2>1, <2>2 DEF TypeOK, Records, Values, Store, Place
  <1>. QED  BY <1>1, <1>4, <1>5, <1>6, <1>7, <1>8 DEF IInv

\* A coroutine that begins to fetch now takes nothing away from what the record will get.
LEMMA SinceStays ==
    ASSUME NEW q, NEW f, NEW p, NEW records, NEW values, Since(q, f, proc, records, values),
           \A x \in Proc : p[x].pc = "fetch" => p[x] = proc[x] \/ p[x].epoch >= f
    PROVE  Since(q, f, p, records, values)
  BY DEF Since

LEMMA AwaitedStays ==
    ASSUME IInv, NEW p, PlacesOK(p), NEW records, NEW values, Awaited(proc, records, values),
           \A x \in Proc : p[x].pc = "fetch" =>
              \/ p[x] = proc[x]
              \/ p[x].epoch = epoch /\ Since(p[x].rec, p[x].floor, proc, records, values)
    PROVE  Awaited(p, records, values)
  <1>. SUFFICES ASSUME NEW y \in Proc, p[y].pc = "fetch"
                PROVE  Since(p[y].rec, p[y].floor, p, records, values)
    BY DEF Awaited
  <1>1. Since(p[y].rec, p[y].floor, proc, records, values)
    BY DEF Awaited
  <1>2. p[y].floor <= epoch
    BY DEF PlacesOK
  <1>3. \A x \in Proc : p[x].pc = "fetch" => p[x] = proc[x] \/ p[x].epoch >= p[y].floor
    BY <1>2
  <1>. QED  BY <1>1, <1>3, SinceStays

LEMMA OrderedStays ==
    ASSUME IInv, NEW p, PlacesOK(p), NEW records, NEW values, NEW s, NEW asked, asked <= epoch,
           \A x \in Proc : p[x].pc = "fetch" => p[x] = proc[x] \/ p[x].epoch = epoch,
           s # NoRecord =>
              /\ Since(s, asked, proc, records, values)
              /\ \A o \in Order : Since(s, p[o].floor, proc, records, values)
    PROVE  Ordered(s, asked, p, records, values)
  <1>. SUFFICES ASSUME s # NoRecord
                PROVE  /\ Since(s, asked, p, records, values)
                       /\ \A o \in Order : Since(s, p[o].floor, p, records, values)
    BY DEF Ordered
  <1>1. Since(s, asked, p, records, values)
    BY SinceStays
  <1>2. ASSUME NEW o \in Order
        PROVE  Since(s, p[o].floor, p, records, values)
    <2>1. p[o].floor <= epoch
      BY DEF PlacesOK, Proc
    <2>. QED  BY <2>1, SinceStays
  <1>. QED  BY <1>1, <1>2

\* A record that nobody uses has nothing and gets nothing (New).
LEMMA NewValue ==
    ASSUME IInv, Record \ InUse # {}
    PROVE  /\ New \in Record /\ New \notin InUse /\ rec[New] = Blank
           /\ \A f : Since(New, f, proc, rec, val)
  <1>1. New \in Record /\ New \notin InUse
    BY DEF New
  <1>2. rec[New] = Blank
    BY <1>1 DEF IInv, Tidy
  <1>3. \A x \in Proc : proc[x].rec # New
    BY <1>1 DEF InUse
  <1>. QED  BY <1>1, <1>2, <1>3 DEF Since, Blank

\* The record that is found or made (dict.setdefault).
LEMMA FoundValue ==
    ASSUME IInv, CanFind
    PROVE  /\ Found \in Record
           /\ Ordered(Found, ordered, proc, rec, val)
           /\ ProviderHas(host, Found, ordered, late, rec, val, held)
  <1>1. CASE slot # NoRecord
    BY <1>1, Typed DEF Found, Standing
  <1>2. CASE slot = NoRecord
    <2>1. Found = New /\ Record \ InUse # {}
      BY <1>2 DEF Found, CanFind
    <2>2. Ordered(New, ordered, proc, rec, val)
      BY <2>1, NewValue DEF Ordered
    <2>3. ProviderHas(host, New, ordered, late, rec, val, held)
      BY <2>1, NewValue, Typed DEF Standing, ProviderHas, Blank
    <2>. QED  BY <2>1, <2>2, <2>3, NewValue
  <1>. QED  BY <1>1, <1>2

LEMMA SinceTheStart ==
    ASSUME IInv, NEW records \in Records, NEW values \in Values, NEW r \in Record
    PROVE  Since(r, 0, proc, records, values)
  <1>1. records[r].latest # NoValue => values[records[r].latest].epoch \in Nat
    BY DEF Records, Values
  <1>2. \A x \in Proc : proc[x].epoch \in Nat
    BY Typed DEF Place
  <1>. QED  BY <1>1, <1>2 DEF Since

\* A step after which nobody fetches who did not before, be it that an order is fulfilled.
LEMMA NoneFetches ==
    ASSUME IInv, NEW p, PlacesOK(p), NEW records \in Records, NEW values \in Values,
           NEW s \in Record \cup {NoRecord}, NEW asked,
           asked = ordered \/ \E o \in Order : asked = proc[o].floor,
           Awaited(proc, records, values), Ordered(s, ordered, proc, records, values),
           \A x \in Proc : p[x].pc = "fetch" => p[x] = proc[x],
           \A o \in Order : p[o] = proc[o] \/ p[o].floor = 0
    PROVE  Awaited(p, records, values) /\ Ordered(s, asked, p, records, values)
  <1>1. Awaited(p, records, values)
    BY AwaitedStays
  <1>2. asked <= epoch
    BY Typed DEF Proc
  <1>3. ASSUME s # NoRecord
        PROVE  /\ Since(s, asked, proc, records, values)
               /\ \A o \in Order : Since(s, p[o].floor, proc, records, values)
    <2>1. /\ Since(s, ordered, proc, records, values)
          /\ \A o \in Order : Since(s, proc[o].floor, proc, records, values)
      BY <1>3 DEF Ordered
    <2>2. Since(s, 0, proc, records, values)
      BY <1>3, SinceTheStart
    <2>. QED  BY <2>1, <2>2
  <1>4. Ordered(s, asked, p, records, values)
    BY <1>2, <1>3, OrderedStays
  <1>. QED  BY <1>1, <1>4

LEMMA EndsOK ==
    ASSUME IInv, NEW x \in Proc, Ends(x)
    PROVE  /\ PlacesOK(proc') /\ \A y \in Proc : proc'[y].pc = "fetch" => proc'[y] = proc[y]
           /\ \A y \in Proc : proc'[y] = proc[y] \/ proc'[y].floor = 0
  <1>1. /\ proc \in [Proc -> Place] /\ PlacesOK(proc) /\ epoch \in Nat
    BY Typed
  <1>2. Idle \in Place /\ NoRecord \notin Record
    BY ExchangeAssumption DEF Idle, Place
  <1>3. proc' \in [Proc -> Place] /\ \A y \in Proc : proc'[y] = IF y = x THEN Idle ELSE proc[y]
    BY <1>1, <1>2 DEF Ends
  <1>4. Timer \in Proc /\ \A c \in Caller : c \in Proc
    BY DEF Proc
  <1>5. Idle.pc = "idle" /\ Idle.rec = NoRecord /\ Idle.floor = 0
    BY DEF Idle
  <1>6. PlacesOK(proc')
    BY <1>1, <1>2, <1>3, <1>4, <1>5 DEF PlacesOK
  <1>. QED  BY <1>3, <1>5, <1>6

LEMMA FetchesOK ==
    ASSUME IInv, NEW x \in Proc, NEW r \in Record, NEW f \in Nat, f <= epoch, Fetches(x, r, f)
    PROVE  /\ PlacesOK(proc') /\ proc'[x] = Fetch(r, f) /\ \A y \in Proc \ {x} : proc'[y] = proc[y]
           /\ \A y \in Proc : proc'[y].pc = "fetch" => proc'[y] = proc[y] \/ proc'[y].epoch = epoch
  <1>1. /\ proc \in [Proc -> Place] /\ PlacesOK(proc) /\ epoch \in Nat /\ epoch \in 1..MaxEpoch
    BY Typed
  <1>2. Fetch(r, f) \in Place
    BY <1>1, ExchangeAssumption DEF Fetch, Place
  <1>3. proc' \in [Proc -> Place] /\ \A y \in Proc : proc'[y] = IF y = x THEN Fetch(r, f) ELSE proc[y]
    BY <1>1, <1>2 DEF Fetches
  <1>4. Timer \in Proc /\ \A c \in Caller : c \in Proc
    BY DEF Proc
  <1>5. Fetch(r, f).pc = "fetch" /\ Fetch(r, f).rec = r /\ Fetch(r, f).floor = f /\ Fetch(r, f).epoch = epoch
    BY DEF Fetch
  <1>6. PlacesOK(proc')
    BY <1>1, <1>3, <1>4, <1>5 DEF PlacesOK
  <1>. QED  BY <1>3, <1>5, <1>6

-----------------------------------------------------------------------------
(* What a coroutine does with what a fetch brought.                        *)

\* Whoever changes only what was pushed and who waits leaves the epochs as they are.
LEMMA SameLatest ==
    ASSUME NEW p, NEW s, NEW asked, NEW records \in Records, NEW others \in Records,
           NEW values, \A r \in Record : others[r].latest = records[r].latest
    PROVE  /\ PlacesOK(p) /\ Awaited(p, records, values) => Awaited(p, others, values)
           /\ s \in Record \cup {NoRecord} /\ Ordered(s, asked, p, records, values) =>
                 Ordered(s, asked, p, others, values)
  <1>1. ASSUME NEW r \in Record, NEW f, Since(r, f, p, records, values)
        PROVE  Since(r, f, p, others, values)
    BY <1>1 DEF Since
  <1>2. ASSUME PlacesOK(p), Awaited(p, records, values)
        PROVE  Awaited(p, others, values)
    <2>. SUFFICES ASSUME NEW x \in Proc, p[x].pc = "fetch"
                  PROVE  Since(p[x].rec, p[x].floor, p, others, values)
      BY DEF Awaited
    <2>1. p[x].rec \in Record
      BY <1>2 DEF PlacesOK
    <2>2. Since(p[x].rec, p[x].floor, p, records, values)
      BY <1>2 DEF Awaited
    <2>. QED  BY <1>1, <2>1, <2>2
  <1>3. ASSUME s \in Record \cup {NoRecord}, Ordered(s, asked, p, records, values)
        PROVE  Ordered(s, asked, p, others, values)
    <2>. SUFFICES ASSUME s # NoRecord
                  PROVE  /\ Since(s, asked, p, others, values)
                         /\ \A o \in Order : Since(s, p[o].floor, p, others, values)
      BY DEF Ordered
    <2>1. /\ s \in Record /\ Since(s, asked, p, records, values)
          /\ \A o \in Order : Since(s, p[o].floor, p, records, values)
      BY <1>3 DEF Ordered
    <2>. QED  BY <1>1, <2>1
  <1>. QED  BY <1>2, <1>3

\* The second half of RefreshableSecret.push, for the record in use or one that was replaced.
LEMMA Delivered ==
    ASSUME IInv, NEW x \in Order \cup {Timer}, NEW r \in Record, NEW records \in Records,
           NEW values \in Values, NEW written \in BOOLEAN,
           UNCHANGED world, slot' \in Record \cup {NoRecord}, Ends(x), holds,
           Awaited(proc, records, values), Ordered(slot', ordered, proc, records, values),
           ProviderHas(host, slot', ordered, late, records, values, held),
           Deliver(x, r, records, values, written)
    PROVE  IInv'
  <1>. DEFINE v == records[r].latest
  <1>1. x \in Proc /\ \A o \in Order : o \in Proc
    BY DEF Proc
  <1>2. /\ PlacesOK(proc') /\ \A y \in Proc : proc'[y].pc = "fetch" => proc'[y] = proc[y]
        /\ \A y \in Proc : proc'[y] = proc[y] \/ proc'[y].floor = 0
    BY <1>1, EndsOK
  <1>3. /\ epoch' = epoch /\ holds' = holds /\ host' = host /\ host' \in {"active", "ending", "gone"}
        /\ held \in Store /\ ordered \in 0..epoch /\ late \in BOOLEAN /\ epoch \in Nat
        /\ proc[x].floor \in Nat /\ proc[x].floor <= epoch
    BY <1>1, Typed DEF world
  <1>4. Awaited(proc', records, values)
    BY <1>1, <1>2, NoneFetches
  <1>5. /\ Ordered(slot', ordered, proc', records, values)
        /\ x \in Order => Ordered(slot', proc[x].floor, proc', records, values)
    BY <1>1, <1>2, NoneFetches
  <1>6. CASE UNCHANGED <<late, ordered>> /\ Becomes(records, values, held)
    <2>1. late' = late /\ ordered' = ordered /\ Becomes(records, values, held)
      BY <1>6
    <2>2. ProviderHas(host', slot', ordered', late', records, values, held)
      BY <1>3, <2>1
    <2>3. Ordered(slot', ordered', proc', records, values)
      BY <1>5, <2>1
    <2>. QED  BY <1>2, <1>3, <1>4, <2>1, <2>2, <2>3, Settles
  <1>7. CASE v # records[r].pushed /\ Valid(v, values) /\ written
    <2>0. HasDirectory /\ late' = (r # slot') /\ Fulfilled(x) /\ Becomes(Accepted(records, r), values, v)
      BY <1>7 DEF Deliver
    <2>1. host = "active" /\ v \in Store /\ v # NoValue
      BY <1>7, <2>0 DEF HasDirectory, Valid, Records, Store
    <2>2. /\ Accepted(records, r) \in Records
          /\ \A q \in Record : Accepted(records, r)[q].latest = records[q].latest
          /\ Accepted(records, r)[r].pushed = v
      BY DEF Accepted, Records
    <2>3. ordered' = ordered \/ (x \in Order /\ ordered' = proc[x].floor)
      BY <2>0 DEF Fulfilled
    <2>4. ordered' \in 0..epoch
      BY <1>3, <2>3
    <2>5. Ordered(slot', ordered', proc', records, values)
      BY <1>5, <2>3
    <2>6. /\ Awaited(proc', Accepted(records, r), values)
          /\ Ordered(slot', ordered', proc', Accepted(records, r), values)
      BY <1>2, <1>4, <2>2, <2>5, SameLatest
    <2>7. ~late' => slot' = r
      BY <2>0
    <2>8. ~late' => values[v].epoch >= ordered'
      <3>1. slot' = r => Since(r, ordered', proc', records, values)
        BY <2>5, ExchangeAssumption DEF Ordered
      <3>. QED  BY <2>1, <2>7, <3>1 DEF Since
    <2>9. ProviderHas(host', slot', ordered', late', Accepted(records, r), values, v)
      BY <1>3, <2>1, <2>2, <2>7, <2>8 DEF ProviderHas
    <2>10. late' \in BOOLEAN
      BY <2>0
    <2>. QED  BY <1>2, <1>3, <2>0, <2>1, <2>2, <2>4, <2>6, <2>9, <2>10, Settles
  <1>8. CASE v # records[r].pushed /\ Valid(v, values) /\ ~written
    <2>0. late' = late /\ ordered' = ordered /\ Becomes(Refused(records, r), values, held)
      BY <1>8 DEF Deliver
    <2>2. /\ Refused(records, r) \in Records
          /\ \A q \in Record : /\ Refused(records, r)[q].latest = records[q].latest
                               /\ Refused(records, r)[q].pushed = records[q].pushed
      BY DEF Refused, Records
    <2>6. /\ Awaited(proc', Refused(records, r), values)
          /\ Ordered(slot', ordered', proc', Refused(records, r), values)
      BY <1>2, <1>4, <1>5, <2>0, <2>2, SameLatest
    <2>9. ProviderHas(host', slot', ordered', late', Refused(records, r), values, held)
      BY <1>3, <2>0, <2>2 DEF ProviderHas
    <2>. QED  BY <1>2, <1>3, <2>0, <2>2, <2>6, <2>9, Settles
  <1>9. \/ UNCHANGED <<late, ordered>> /\ Becomes(records, values, held)
        \/ v # records[r].pushed /\ Valid(v, values)
    BY DEF Deliver
  <1>. HIDE DEF v
  <1>. QED  BY <1>6, <1>7, <1>8, <1>9

\* What follows a fetch, whatever it brought (RefreshableSecret.refresh and its callers).
LEMMA Resumed ==
    ASSUME IInv, NEW x \in Proc, proc[x].pc = "fetch", NEW records \in Records,
           NEW values \in Values, NEW written \in BOOLEAN, Standing(records, values),
           Resume(x, records, values, written)
    PROVE  IInv'
  <1>. DEFINE r == proc[x].rec
              v == records[r].latest
  <1>1. /\ proc \in [Proc -> Place] /\ PlacesOK(proc) /\ r \in Record
        /\ slot \in Record \cup {NoRecord} /\ host \in {"active", "ending", "gone"}
        /\ held \in Store /\ ordered \in 0..epoch /\ late \in BOOLEAN /\ epoch \in Nat
        /\ \A y \in Proc : proc[y].floor \in Nat /\ proc[y].floor <= epoch
    BY Typed DEF PlacesOK
  <1>2. /\ Awaited(proc, records, values) /\ Ordered(slot, ordered, proc, records, values)
        /\ ProviderHas(host, slot, ordered, late, records, values, held)
    BY DEF Standing
  <1>3. /\ slot' = slot /\ UNCHANGED world /\ holds' = holds /\ epoch' = epoch /\ host' = host
    BY DEF Resume, world
  <1>4. Since(r, proc[x].floor, proc, records, values)
    BY <1>2 DEF Awaited
  <1>5. ASSUME late' = late, Becomes(records, values, held), PlacesOK(proc'),
               ordered' = ordered \/ \E o \in Order : ordered' = proc[o].floor,
               holds => ordered' = ordered,
               \A y \in Proc : proc'[y].pc = "fetch" => proc'[y] = proc[y],
               \A o \in Order : proc'[o] = proc[o] \/ proc'[o].floor = 0
        PROVE  IInv'
    <2>1. Awaited(proc', records, values) /\ Ordered(slot, ordered', proc', records, values)
      BY <1>1, <1>2, <1>5, NoneFetches
    <2>2. ordered' \in 0..epoch
      BY <1>1, <1>5 DEF Proc
    <2>3. ProviderHas(host, slot, ordered', late, records, values, held)
      BY <1>2, <1>5 DEF ProviderHas
    <2>. QED  BY <1>1, <1>3, <1>5, <2>1, <2>2, <2>3, Settles
  <1>6. ASSUME Ends(x)
        PROVE  /\ PlacesOK(proc')
               /\ \A y \in Proc : proc'[y].pc = "fetch" => proc'[y] = proc[y]
               /\ \A o \in Order : proc'[o] = proc[o] \/ proc'[o].floor = 0
    BY <1>6, EndsOK DEF Proc
  <1>7. CASE x \in Record /\ Ends(x) /\ UNCHANGED <<late, ordered>> /\ Becomes(records, values, held)
    <2>1. late' = late /\ ordered' = ordered /\ Becomes(records, values, held) /\ Ends(x)
      BY <1>7
    <2>. QED  BY <1>5, <1>6, <2>1
  <1>8. CASE /\ x \in Caller
             /\ IF Valid(v, values)
                THEN proc' = [proc EXCEPT ![x].pc = "answered", ![x].epoch = values[v].epoch,
                                          ![x].rec = NoRecord]
                ELSE Ends(x)
             /\ UNCHANGED <<late, ordered>> /\ Becomes(records, values, held)
    <2>1. late' = late /\ ordered' = ordered /\ Becomes(records, values, held) /\ x \in Caller
      BY <1>8
    <2>2. CASE Ends(x)
      BY <1>5, <1>6, <2>1, <2>2
    <2>3. CASE Valid(v, values) /\ proc' = [proc EXCEPT ![x].pc = "answered", ![x].epoch = values[v].epoch,
                                                        ![x].rec = NoRecord]
      <3>1. v \in Value /\ v # NoValue /\ values[v].epoch \in 0..MaxEpoch
        BY <1>1, <2>3 DEF Valid, Records, Values
      <3>2. values[v].epoch >= proc[x].floor
        BY <1>4, <3>1 DEF Since
      <3>. DEFINE one == [proc EXCEPT ![x].pc = "answered"]
                  two == [one EXCEPT ![x].epoch = values[v].epoch]
      <3>3. proc' = [two EXCEPT ![x].rec = NoRecord]
        BY <2>3
      <3>a. /\ one \in [Proc -> Place] /\ \A y \in Proc \ {x} : one[y] = proc[y]
            /\ one[x].pc = "answered" /\ one[x].floor = proc[x].floor
        BY <1>1 DEF Place
      <3>. HIDE DEF one
      <3>b. /\ two \in [Proc -> Place] /\ \A y \in Proc \ {x} : two[y] = one[y]
            /\ two[x].pc = one[x].pc /\ two[x].floor = one[x].floor /\ two[x].epoch = values[v].epoch
        BY <3>1, <3>a DEF Place
      <3>. HIDE DEF two
      <3>c. /\ proc' \in [Proc -> Place] /\ \A y \in Proc \ {x} : proc'[y] = two[y]
            /\ proc'[x].pc = two[x].pc /\ proc'[x].floor = two[x].floor
            /\ proc'[x].epoch = two[x].epoch /\ proc'[x].rec = NoRecord
        BY <3>3, <3>b DEF Place
      <3>4. /\ proc' \in [Proc -> Place] /\ \A y \in Proc \ {x} : proc'[y] = proc[y]
            /\ proc'[x].pc = "answered" /\ proc'[x].rec = NoRecord
            /\ proc'[x].epoch = values[v].epoch /\ proc'[x].floor = proc[x].floor
        BY <3>a, <3>b, <3>c
      <3>5. x # Timer /\ x \notin Order /\ Timer \in Proc /\ NoRecord \notin Record
            /\ \A c \in Caller \cup Order : c \in Proc
        BY <2>1, ExchangeAssumption DEF Proc
      <3>6. PlacesOK(proc')
        BY <1>1, <3>2, <3>4, <3>5 DEF PlacesOK
      <3>. QED  BY <1>5, <2>1, <3>4, <3>5, <3>6
    <2>. QED  BY <1>8, <2>2, <2>3
  <1>9. CASE /\ x \in Order /\ ~Visits /\ Ends(x)
             /\ UNCHANGED late /\ Becomes(records, values, held)
             /\ IF v # NoValue THEN Fulfilled(x) ELSE UNCHANGED ordered
    <2>1. late' = late /\ Becomes(records, values, held) /\ Ends(x) /\ x \in Order /\ ~holds
      BY <1>9 DEF Visits
    <2>2. ordered' = ordered \/ \E o \in Order : ordered' = proc[o].floor
      BY <1>9 DEF Fulfilled
    <2>. QED  BY <1>5, <1>6, <2>1, <2>2
  <1>10. CASE /\ x \in Order \cup {Timer} /\ Visits /\ Ends(x)
              /\ Deliver(x, r, records, values, written)
    <2>1. x \in Order \cup {Timer} /\ holds /\ Ends(x) /\ Deliver(x, r, records, values, written)
      BY <1>10 DEF Visits
    <2>. QED  BY <1>1, <1>2, <1>3, <2>1, Delivered
  <1>11. \/ x \in Record /\ Ends(x) /\ UNCHANGED <<late, ordered>> /\ Becomes(records, values, held)
         \/ /\ x \in Caller
            /\ IF Valid(v, values)
               THEN proc' = [proc EXCEPT ![x].pc = "answered", ![x].epoch = values[v].epoch,
                                         ![x].rec = NoRecord]
               ELSE Ends(x)
            /\ UNCHANGED <<late, ordered>> /\ Becomes(records, values, held)
         \/ /\ x \in Order /\ ~Visits /\ Ends(x)
            /\ UNCHANGED late /\ Becomes(records, values, held)
            /\ IF v # NoValue THEN Fulfilled(x) ELSE UNCHANGED ordered
         \/ /\ x \in Order \cup {Timer} /\ Visits /\ Ends(x)
            /\ Deliver(x, r, records, values, written)
    BY DEF Resume
  <1>. HIDE DEF r, v
  <1>. QED  BY <1>7, <1>8, <1>9, <1>10, <1>11

\* The issuer answers: a new value, of an epoch that nobody who waits for it may refuse.
LEMMA FetchedStep ==
    ASSUME IInv, NEW x \in Proc, NEW written \in BOOLEAN, Fetched(x, written)
    PROVE  IInv'
  <1>. DEFINE v == Cardinality(Known(rec, held)) + 1
              r == proc[x].rec
  <1>1. /\ proc \in [Proc -> Place] /\ PlacesOK(proc) /\ rec \in Records /\ val \in Values
        /\ held \in Store /\ epoch \in 1..MaxEpoch /\ epoch \in Nat /\ Standing(rec, val)
        /\ slot \in Record \cup {NoRecord}
    BY Typed
  <1>2. /\ proc[x].pc = "fetch" /\ v \in Value /\ r \in Record /\ proc[x].epoch \in 0..MaxEpoch
    BY <1>1 DEF Fetched, PlacesOK, Place
  <1>3. PICK e \in proc[x].epoch..epoch :
          Resume(x, [rec EXCEPT ![r].latest = v], [val EXCEPT ![v] = [epoch |-> e, life |-> "fresh"]],
                 written)
    BY DEF Fetched
  <1>. DEFINE records == [rec EXCEPT ![r].latest = v]
              values == [val EXCEPT ![v] = [epoch |-> e, life |-> "fresh"]]
  <1>4. v \notin Known(rec, held) /\ v # NoValue
    <2>1. Known(rec, held) = 1..Cardinality(Known(rec, held))
      BY DEF IInv, Tidy
    <2>2. v \in Nat \ {0} /\ v - 1 = Cardinality(Known(rec, held))
      <3>1. Known(rec, held) \in SUBSET Value
        BY <1>1 DEF Known, Records, Store
      <3>. QED  BY <3>1, ValuesAreFinite, ExchangeAssumption
    <2>3. v \notin 1..(v - 1)
      BY <2>2
    <2>. QED  BY <2>1, <2>2, <2>3 DEF NoValue
  <1>5. e \in Nat /\ e >= proc[x].epoch /\ e \in 0..MaxEpoch
    BY <1>1, <1>2, ExchangeAssumption
  <1>. HIDE DEF v, r
  <1>6. /\ records \in Records /\ records[r].latest = v
        /\ \A q \in Record : /\ q # r => records[q] = rec[q]
                             /\ records[q].pushed = rec[q].pushed
    BY <1>1, <1>2 DEF Records
  <1>7. /\ values \in Values /\ values[v] = [epoch |-> e, life |-> "fresh"]
        /\ \A w \in Known(rec, held) : values[w] = val[w]
    <2>1. [epoch |-> e, life |-> "fresh"] \in [epoch : 0..MaxEpoch, life : {"fresh", "stale", "over"}]
      BY <1>5
    <2>. QED  BY <1>1, <1>2, <1>4, <2>1 DEF Values
  <1>8. ASSUME NEW q \in Record, NEW f, Since(q, f, proc, rec, val), f \in Nat
        PROVE  Since(q, f, proc, records, values)
    <2>1. CASE q = r
      <3>1. proc[x].epoch >= f
        BY <1>2, <1>8, <2>1 DEF Since, r
      <3>2. e >= f
        BY <1>1, <1>2, <1>5, <1>8, <3>1
      <3>3. values[records[q].latest].epoch >= f
        BY <1>6, <1>7, <2>1, <3>2
      <3>. QED  BY <1>8, <3>3 DEF Since
    <2>2. CASE q # r
      <3>1. rec[q].latest # NoValue => rec[q].latest \in Known(rec, held)
        BY DEF Known
      <3>. QED  BY <1>6, <1>7, <1>8, <2>2, <3>1 DEF Since
    <2>. QED  BY <2>1, <2>2
  <1>9. Awaited(proc, records, values)
    <2>. SUFFICES ASSUME NEW y \in Proc, proc[y].pc = "fetch"
                  PROVE  Since(proc[y].rec, proc[y].floor, proc, records, values)
      BY DEF Awaited
    <2>1. Since(proc[y].rec, proc[y].floor, proc, rec, val)
      BY <1>1 DEF Standing, Awaited
    <2>2. proc[y].rec \in Record /\ proc[y].floor \in Nat
      BY <1>1, Typed DEF PlacesOK
    <2>. QED  BY <1>8, <2>1, <2>2
  <1>10. Ordered(slot, ordered, proc, records, values)
    <2>. SUFFICES ASSUME slot # NoRecord
                  PROVE  /\ Since(slot, ordered, proc, records, values)
                         /\ \A o \in Order : Since(slot, proc[o].floor, proc, records, values)
      BY DEF Ordered
    <2>1. /\ Since(slot, ordered, proc, rec, val) /\ slot \in Record
          /\ \A o \in Order : Since(slot, proc[o].floor, proc, rec, val)
      BY <1>1 DEF Standing, Ordered
    <2>2. ordered \in Nat /\ \A o \in Order : proc[o].floor \in Nat
      BY Typed DEF Proc
    <2>. QED  BY <1>8, <2>1, <2>2
  <1>11. ProviderHas(host, slot, ordered, late, records, values, held)
    <2>1. ProviderHas(host, slot, ordered, late, rec, val, held)
      BY <1>1 DEF Standing
    <2>2. held # NoValue => values[held] = val[held]
      BY <1>7 DEF Known
    <2>3. slot # NoRecord => records[slot].pushed = rec[slot].pushed
      BY <1>1, <1>6
    <2>. QED  BY <2>1, <2>2, <2>3 DEF ProviderHas
  <1>12. Standing(records, values) /\ Resume(x, records, values, written)
    BY <1>3, <1>9, <1>10, <1>11 DEF Standing
  <1>. HIDE DEF records, values
  <1>. QED  BY <1>2, <1>6, <1>7, <1>12, Resumed

LEMMA FetchFailsStep ==
    ASSUME IInv, NEW x \in Proc, NEW written \in BOOLEAN, FetchFails(x, written)
    PROVE  IInv'
  <1>. DEFINE records == [rec EXCEPT ![proc[x].rec].waits = TRUE]
  <1>1. /\ PlacesOK(proc) /\ rec \in Records /\ val \in Values /\ Standing(rec, val)
        /\ slot \in Record \cup {NoRecord} /\ proc[x].pc = "fetch"
        /\ Resume(x, records, val, written)
    BY Typed DEF FetchFails
  <1>2. /\ records \in Records
        /\ \A q \in Record : records[q].latest = rec[q].latest /\ records[q].pushed = rec[q].pushed
    BY <1>1 DEF Records
  <1>. HIDE DEF records
  <1>3. /\ Awaited(proc, records, val) /\ Ordered(slot, ordered, proc, records, val)
    BY <1>1, <1>2, SameLatest DEF Standing
  <1>4. ProviderHas(host, slot, ordered, late, records, val, held)
    BY <1>1, <1>2 DEF Standing, ProviderHas
  <1>. QED  BY <1>1, <1>2, <1>3, <1>4, Resumed DEF Standing

-----------------------------------------------------------------------------
(* Requests, orders and the timer.                                         *)

\* A step that brings no value: at most somebody begins to fetch, or a record comes or goes.
LEMMA Turns ==
    ASSUME IInv, UNCHANGED <<ordered, late, world>>, Becomes(rec, val, held),
           slot' \in Record \cup {NoRecord}, PlacesOK(proc'),
           Ordered(slot', ordered, proc, rec, val),
           ProviderHas(host, slot', ordered, late, rec, val, held),
           \A x \in Proc : proc'[x].pc = "fetch" =>
              \/ proc'[x] = proc[x]
              \/ proc'[x].epoch = epoch /\ Since(proc'[x].rec, proc'[x].floor, proc, rec, val),
           \A o \in Order :
              \/ proc'[o] = proc[o] \/ proc'[o].floor = 0
              \/ slot' # NoRecord => Since(slot', proc'[o].floor, proc, rec, val)
    PROVE  IInv'
  <1>1. /\ rec \in Records /\ val \in Values /\ held \in Store /\ ordered \in 0..epoch
        /\ late \in BOOLEAN /\ epoch \in Nat /\ Awaited(proc, rec, val)
        /\ host \in {"active", "ending", "gone"}
    BY Typed DEF Standing
  <1>2. /\ ordered' = ordered /\ late' = late /\ epoch' = epoch /\ holds' = holds /\ host' = host
    BY DEF world
  <1>3. Awaited(proc', rec, val)
    BY <1>1, AwaitedStays
  <1>4. ASSUME slot' # NoRecord
        PROVE  /\ Since(slot', ordered, proc, rec, val)
               /\ \A o \in Order : Since(slot', proc'[o].floor, proc, rec, val)
    <2>1. /\ Since(slot', ordered, proc, rec, val)
          /\ \A o \in Order : Since(slot', proc[o].floor, proc, rec, val)
      BY <1>4 DEF Ordered
    <2>2. Since(slot', 0, proc, rec, val)
      BY <1>1, <1>4, SinceTheStart
    <2>. QED  BY <1>4, <2>1, <2>2
  <1>5. ordered <= epoch
    BY <1>1
  <1>6. Ordered(slot', ordered, proc', rec, val)
    BY <1>4, <1>5, OrderedStays
  <1>. QED  BY <1>1, <1>2, <1>3, <1>6, Settles

\* A request is answered at once, waits for a fetch, or goes without (Secrets.current).
LEMMA CurrentStep ==
    ASSUME IInv, NEW c \in Caller, Current(c)
    PROVE  IInv'
  <1>. DEFINE r == Found
              v == rec[r].latest
  <1>1. /\ CanFind /\ slot' = r /\ UNCHANGED <<ordered, late, world>> /\ Becomes(rec, val, held)
        /\ proc[c] = Idle
    BY DEF Current
  <1>2. /\ r \in Record /\ Ordered(r, ordered, proc, rec, val)
        /\ ProviderHas(host, r, ordered, late, rec, val, held)
    BY <1>1, FoundValue
  <1>3. /\ proc \in [Proc -> Place] /\ PlacesOK(proc) /\ rec \in Records /\ val \in Values
        /\ ordered \in 0..epoch /\ epoch \in Nat /\ epoch \in 1..MaxEpoch
    BY Typed
  <1>4. /\ c \in Proc /\ r \in Proc /\ c # r /\ c # Timer /\ r # Timer /\ Timer \in Proc
        /\ c \notin Order /\ r \notin Order /\ r \notin Caller /\ NoRecord \notin Record
        /\ \A y \in Caller \cup Order : y \in Proc
    BY <1>2, ExchangeAssumption DEF Proc
  <1>. HIDE DEF r
  <1>5. CASE Ends(c)
    <2>1. /\ PlacesOK(proc') /\ \A y \in Proc : proc'[y].pc = "fetch" => proc'[y] = proc[y]
          /\ \A y \in Order : proc'[y] = proc[y] \/ proc'[y].floor = 0
      BY <1>4, <1>5, EndsOK
    <2>. QED  BY <1>1, <1>2, <2>1, Turns
  <1>6. CASE Fetches(c, r, ordered)
    <2>1. ordered \in Nat /\ ordered <= epoch
      BY <1>3
    <2>2. /\ PlacesOK(proc') /\ proc'[c] = Fetch(r, ordered)
          /\ \A y \in Proc \ {c} : proc'[y] = proc[y]
      BY <1>2, <1>4, <1>6, <2>1, FetchesOK
    <2>3. Since(r, ordered, proc, rec, val)
      BY <1>2, <1>4 DEF Ordered
    <2>4. proc'[c].epoch = epoch /\ proc'[c].rec = r /\ proc'[c].floor = ordered
      BY <2>2 DEF Fetch
    <2>5. \A y \in Order : proc'[y] = proc[y]
      BY <1>4, <2>2
    <2>6. \A y \in Proc : proc'[y].pc = "fetch" =>
             \/ proc'[y] = proc[y]
             \/ proc'[y].epoch = epoch /\ Since(proc'[y].rec, proc'[y].floor, proc, rec, val)
      BY <2>2, <2>3, <2>4
    <2>. QED  BY <1>1, <1>2, <2>2, <2>5, <2>6, Turns
  <1>7. CASE /\ Valid(v, val)
             /\ proc' = [proc EXCEPT ![c].pc = "answered", ![c].epoch = val[v].epoch,
                                     ![c].floor = ordered,
                                     ![r] = IF Stale(v) /\ @ = Idle /\ ~rec[r].waits
                                            THEN Fetch(r, 0) ELSE @]
    <2>1. v # NoValue /\ val[v].epoch \in 0..MaxEpoch /\ val[v].epoch >= ordered
      <3>1. v # NoValue /\ v \in Value
        BY <1>2, <1>3, <1>7 DEF Valid, Records
      <3>. QED  BY <1>2, <1>3, <1>4, <3>1 DEF Ordered, Since, Values
    <2>. DEFINE one == [proc EXCEPT ![c].pc = "answered"]
                two == [one EXCEPT ![c].epoch = val[v].epoch]
                three == [two EXCEPT ![c].floor = ordered]
    <2>2. proc' = [three EXCEPT ![r] = IF Stale(v) /\ proc[r] = Idle /\ ~rec[r].waits
                                       THEN Fetch(r, 0) ELSE proc[r]]
      BY <1>7
    <2>3. /\ one \in [Proc -> Place] /\ \A y \in Proc \ {c} : one[y] = proc[y]
          /\ one[c].pc = "answered" /\ one[c].rec = NoRecord
      BY <1>1, <1>3, <1>4 DEF Place, Idle
    <2>. HIDE DEF one
    <2>4. /\ two \in [Proc -> Place] /\ \A y \in Proc \ {c} : two[y] = one[y]
          /\ two[c].pc = one[c].pc /\ two[c].rec = one[c].rec /\ two[c].epoch = val[v].epoch
      BY <1>4, <2>1, <2>3 DEF Place
    <2>. HIDE DEF two
    <2>5. ordered \in 0..MaxEpoch
      BY <1>3, ExchangeAssumption
    <2>6. /\ three \in [Proc -> Place] /\ \A y \in Proc \ {c} : three[y] = two[y]
          /\ three[c].pc = two[c].pc /\ three[c].rec = two[c].rec
          /\ three[c].epoch = two[c].epoch /\ three[c].floor = ordered
      BY <1>4, <2>4, <2>5 DEF Place
    <2>. HIDE DEF three
    <2>7. Fetch(r, 0) \in Place
      BY <1>2, <1>3, ExchangeAssumption DEF Fetch, Place
    <2>8. /\ proc' \in [Proc -> Place] /\ \A y \in Proc \ {r} : proc'[y] = three[y]
          /\ proc'[r] = Fetch(r, 0) \/ proc'[r] = proc[r]
      BY <1>3, <1>4, <2>2, <2>6, <2>7
    <2>9. /\ \A y \in Proc \ {c, r} : proc'[y] = proc[y]
          /\ proc'[r] = Fetch(r, 0) \/ proc'[r] = proc[r]
          /\ proc'[c].pc = "answered" /\ proc'[c].rec = NoRecord
          /\ proc'[c].epoch = val[v].epoch /\ proc'[c].floor = ordered
      BY <1>4, <2>3, <2>4, <2>6, <2>8
    <2>10. /\ Fetch(r, 0).pc = "fetch" /\ Fetch(r, 0).rec = r /\ Fetch(r, 0).epoch = epoch
           /\ Fetch(r, 0).floor = 0
      BY DEF Fetch
    <2>11. PlacesOK(proc')
      <3>1. \A x \in Proc : proc'[x].floor <= epoch /\ (proc'[x].rec \in Record <=> proc'[x].pc = "fetch")
        BY <1>2, <1>3, <1>4, <2>9, <2>10 DEF PlacesOK
      <3>2. proc'[Timer].pc = "visit" => holds
        BY <1>3, <1>4, <2>9 DEF PlacesOK
      <3>3. \A y \in Caller : proc'[y].pc = "answered" => proc'[y].epoch >= proc'[y].floor
        BY <1>3, <1>4, <2>1, <2>9 DEF PlacesOK
      <3>. QED  BY <2>8, <3>1, <3>2, <3>3 DEF PlacesOK
    <2>12. Since(r, 0, proc, rec, val)
      BY <1>2, <1>3, SinceTheStart
    <2>13. \A y \in Order : proc'[y] = proc[y]
      BY <1>4, <2>9
    <2>14. \A y \in Proc : proc'[y].pc = "fetch" =>
             \/ proc'[y] = proc[y]
             \/ proc'[y].epoch = epoch /\ Since(proc'[y].rec, proc'[y].floor, proc, rec, val)
      BY <1>4, <2>9, <2>10, <2>12
    <2>. QED  BY <1>1, <1>2, <2>11, <2>13, <2>14, Turns
  <1>8. IF Valid(v, val)
        THEN proc' = [proc EXCEPT ![c].pc = "answered", ![c].epoch = val[v].epoch,
                                  ![c].floor = ordered,
                                  ![r] = IF Stale(v) /\ @ = Idle /\ ~rec[r].waits
                                         THEN Fetch(r, 0) ELSE @]
        ELSE IF rec[r].waits THEN Ends(c) ELSE Fetches(c, r, ordered)
    BY DEF Current, r
  <1>. HIDE DEF v
  <1>. QED  BY <1>5, <1>6, <1>7, <1>8

\* An order takes a record that nobody has used (Secrets.refresh).
LEMMA RefreshStep ==
    ASSUME IInv, NEW o \in Order, Refresh(o)
    PROVE  IInv'
  <1>1. /\ Record \ InUse # {} /\ slot' = New /\ Fetches(o, New, epoch)
        /\ UNCHANGED <<ordered, late, world>> /\ Becomes([rec EXCEPT ![New] = Blank], val, held)
    BY DEF Refresh, Replacement
  <1>2. /\ New \in Record /\ rec[New] = Blank /\ \A f : Since(New, f, proc, rec, val)
    BY <1>1, NewValue
  <1>3. /\ rec \in Records /\ epoch \in Nat /\ proc \in [Proc -> Place]
        /\ ProviderHas(host, slot, ordered, late, rec, val, held)
    BY Typed DEF Standing
  <1>4. Becomes(rec, val, held)
    <2>1. [rec EXCEPT ![New] = Blank] = rec
      BY <1>2, <1>3 DEF Records
    <2>. QED  BY <1>1, <2>1
  <1>5. o \in Proc
    BY DEF Proc
  <1>6. /\ PlacesOK(proc') /\ proc'[o] = Fetch(New, epoch) /\ \A y \in Proc \ {o} : proc'[y] = proc[y]
    BY <1>1, <1>2, <1>3, <1>5, FetchesOK
  <1>7. Ordered(New, ordered, proc, rec, val) /\ ProviderHas(host, New, ordered, late, rec, val, held)
    BY <1>2, <1>3 DEF Ordered, ProviderHas, Blank
  <1>8. proc'[o].epoch = epoch /\ proc'[o].rec = New
    BY <1>6 DEF Fetch
  <1>9. \A y \in Proc : proc'[y].pc = "fetch" =>
           \/ proc'[y] = proc[y]
           \/ proc'[y].epoch = epoch /\ Since(proc'[y].rec, proc'[y].floor, proc, rec, val)
    BY <1>2, <1>6, <1>8
  <1>10. \A y \in Order : Since(slot', proc'[y].floor, proc, rec, val)
    BY <1>1, <1>2
  <1>. QED  BY <1>1, <1>2, <1>4, <1>6, <1>7, <1>9, <1>10, Turns

\* The timer's round begins, or forgets the host (push_active_hosts).
LEMMA TickStep ==
    ASSUME IInv, Tick
    PROVE  IInv'
  <1>1. /\ UNCHANGED <<ordered, late, world>> /\ Becomes(rec, val, held)
    BY DEF Tick
  <1>2. /\ proc \in [Proc -> Place] /\ PlacesOK(proc) /\ slot \in Record \cup {NoRecord}
        /\ Ordered(slot, ordered, proc, rec, val) /\ held \in Store
        /\ ProviderHas(host, slot, ordered, late, rec, val, held)
    BY Typed DEF Standing
  <1>3. CASE slot' = NoRecord /\ proc' = proc
    <2>1. Ordered(NoRecord, ordered, proc, rec, val) /\ ProviderHas(host, NoRecord, ordered, late, rec, val, held)
      BY <1>2 DEF Ordered, ProviderHas
    <2>. QED  BY <1>1, <1>2, <1>3, <2>1, Turns
  <1>4. CASE Visits /\ proc' = [proc EXCEPT ![Timer].pc = "visit"] /\ slot' = slot
    <2>1. Timer \in Proc /\ proc[Timer] = Idle /\ holds /\ Timer \notin Caller /\ NoRecord \notin Record
      BY <1>4, ExchangeAssumption DEF Tick, Visits, Proc
    <2>2. /\ proc' \in [Proc -> Place] /\ \A y \in Proc \ {Timer} : proc'[y] = proc[y]
          /\ proc'[Timer].pc = "visit" /\ proc'[Timer].rec = NoRecord /\ proc'[Timer].floor = 0
      BY <1>2, <1>4, <2>1 DEF Place, Idle
    <2>3. 0 <= epoch /\ \A y \in Caller : y \in Proc
      BY Typed DEF Proc
    <2>4. PlacesOK(proc')
      BY <1>2, <2>1, <2>2, <2>3 DEF PlacesOK
    <2>5. \A y \in Order : proc'[y] = proc[y] \/ proc'[y].floor = 0
      BY <2>2 DEF Proc
    <2>6. \A y \in Proc : proc'[y].pc = "fetch" => proc'[y] = proc[y]
      BY <2>2
    <2>. QED  BY <1>1, <1>2, <1>4, <2>4, <2>5, <2>6, Turns
  <1>. QED  BY <1>3, <1>4 DEF Tick

\* The timer visits the host: nothing is due, or there is a value to give, or one is fetched.
LEMMA PushStep ==
    ASSUME IInv, NEW written \in BOOLEAN, Push(written)
    PROVE  IInv'
  <1>. DEFINE r == Found
  <1>1. proc[Timer].pc = "visit" /\ CanFind /\ slot' = r /\ UNCHANGED world /\ Timer \in Proc
    BY DEF Push, Proc
  <1>2. /\ r \in Record /\ Ordered(r, ordered, proc, rec, val)
        /\ ProviderHas(host, r, ordered, late, rec, val, held)
    BY <1>1, FoundValue
  <1>3. /\ rec \in Records /\ val \in Values /\ epoch \in Nat /\ holds
        /\ Awaited(proc, rec, val) /\ Timer \notin Order
    BY <1>1, Typed, ExchangeAssumption DEF Standing, PlacesOK
  <1>4. CASE Ends(Timer) /\ UNCHANGED <<late, ordered>> /\ Becomes(rec, val, held)
    <2>1. /\ PlacesOK(proc') /\ \A y \in Proc : proc'[y].pc = "fetch" => proc'[y] = proc[y]
          /\ \A y \in Order : proc'[y] = proc[y] \/ proc'[y].floor = 0
      BY <1>1, <1>4, EndsOK DEF Proc
    <2>2. UNCHANGED <<ordered, late, world>> /\ Becomes(rec, val, held)
      BY <1>1, <1>4
    <2>. QED  BY <1>1, <1>2, <2>1, <2>2, Turns
  <1>5. CASE Ends(Timer) /\ Deliver(Timer, r, rec, val, written)
    BY <1>1, <1>2, <1>3, <1>5, Delivered
  <1>6. CASE Fetches(Timer, r, 0) /\ UNCHANGED <<late, ordered>> /\ Becomes(rec, val, held)
    <2>1. /\ PlacesOK(proc') /\ proc'[Timer] = Fetch(r, 0) /\ \A y \in Proc \ {Timer} : proc'[y] = proc[y]
      BY <1>1, <1>2, <1>3, <1>6, FetchesOK
    <2>2. proc'[Timer].epoch = epoch /\ proc'[Timer].rec = r /\ proc'[Timer].floor = 0
      BY <2>1 DEF Fetch
    <2>3. Since(r, 0, proc, rec, val)
      BY <1>2, <1>3, SinceTheStart
    <2>4. \A y \in Proc : proc'[y].pc = "fetch" =>
           \/ proc'[y] = proc[y]
           \/ proc'[y].epoch = epoch /\ Since(proc'[y].rec, proc'[y].floor, proc, rec, val)
      BY <2>1, <2>2, <2>3
    <2>5. \A y \in Order : proc'[y] = proc[y]
      BY <1>3, <2>1 DEF Proc
    <2>6. UNCHANGED <<ordered, late, world>> /\ Becomes(rec, val, held)
      BY <1>1, <1>6
    <2>. QED  BY <1>1, <1>2, <2>1, <2>4, <2>5, <2>6, Turns
  <1>7. \/ Ends(Timer) /\ UNCHANGED <<late, ordered>> /\ Becomes(rec, val, held)
        \/ Ends(Timer) /\ Deliver(Timer, r, rec, val, written)
        \/ Fetches(Timer, r, 0) /\ UNCHANGED <<late, ordered>> /\ Becomes(rec, val, held)
    BY DEF Push
  <1>. HIDE DEF r
  <1>. QED  BY <1>4, <1>5, <1>6, <1>7

-----------------------------------------------------------------------------
(* The host, the issuer and time.                                          *)

LEMMA LeaveStep ==
    ASSUME IInv, NEW c \in Caller, Leave(c)
    PROVE  IInv'
  <1>1. c \in Proc /\ Ends(c) /\ UNCHANGED <<held, slot, rec, val, ordered, late, world>>
    BY DEF Leave, Proc
  <1>2. /\ proc[c].rec = NoRecord
        /\ TypeOK /\ Tidy /\ slot \in Record \cup {NoRecord} /\ rec \in Records /\ val \in Values
        /\ Awaited(proc, rec, val) /\ Ordered(slot, ordered, proc, rec, val)
        /\ ProviderHas(host, slot, ordered, late, rec, val, held)
        /\ proc \in [Proc -> Place]
    <2>1. proc[c].pc # "fetch" /\ PlacesOK(proc) /\ proc \in [Proc -> Place]
      BY Typed DEF Leave
    <2>2. proc[c].rec = NoRecord
      BY <1>1, <2>1 DEF PlacesOK, Place
    <2>. QED  BY <2>1, <2>2, Typed DEF IInv, Standing
  <1>3. /\ PlacesOK(proc') /\ \A y \in Proc : proc'[y].pc = "fetch" => proc'[y] = proc[y]
        /\ \A y \in Order : proc'[y] = proc[y] \/ proc'[y].floor = 0
    BY <1>1, EndsOK DEF Proc
  <1>4. Awaited(proc', rec, val) /\ Ordered(slot, ordered, proc', rec, val)
    BY <1>2, <1>3, NoneFetches
  <1>5. \A y \in Proc : proc'[y].rec = proc[y].rec
    BY <1>1, <1>2 DEF Ends, Idle
  <1>6. InUse' = InUse
    BY <1>1, <1>5 DEF InUse
  <1>7. Tidy'
    BY <1>1, <1>2, <1>6 DEF Tidy, Known
  <1>8. /\ UNCHANGED <<holds, host, held, slot, rec, val, epoch, ordered, late>>
    BY <1>1 DEF world
  <1>9. PlacesOK(proc)' /\ TypeOK'
    BY <1>2, <1>3, <1>8 DEF PlacesOK, TypeOK, Place
  <1>10. /\ Awaited(proc, rec, val)' /\ Ordered(slot, ordered, proc, rec, val)'
         /\ ProviderHas(host, slot, ordered, late, rec, val, held)'
    BY <1>2, <1>4, <1>8 DEF Awaited, Ordered, Since, ProviderHas
  <1>. QED  BY <1>7, <1>9, <1>10 DEF IInv

\* The host ends: its provider's values go, and then its row (delete_host).
LEMMA HostEndsStep ==
    ASSUME IInv, DeleteSecrets \/ DropRow
    PROVE  IInv'
  <1>1. /\ rec \in Records /\ val \in Values /\ held \in Store /\ NoValue \in Store
        /\ ordered \in 0..epoch /\ late \in BOOLEAN /\ slot \in Record \cup {NoRecord}
        /\ PlacesOK(proc) /\ Awaited(proc, rec, val) /\ Ordered(slot, ordered, proc, rec, val)
        /\ ProviderHas(host, slot, ordered, late, rec, val, held)
    BY Typed DEF Standing, Store
  <1>2. /\ slot' = slot /\ proc' = proc /\ ordered' = ordered /\ late' = late
        /\ epoch' = epoch /\ holds' = holds
    BY DEF DeleteSecrets, DropRow, HostBecomes
  <1>3. CASE DeleteSecrets
    <2>1. host' = "ending" /\ Becomes(rec, val, NoValue)
      BY <1>3 DEF DeleteSecrets, HostBecomes
    <2>2. ProviderHas(host', slot', ordered', late', rec, val, NoValue)
      BY <1>1, <1>2, <2>1 DEF ProviderHas
    <2>. QED  BY <1>1, <1>2, <2>1, <2>2, Settles
  <1>4. CASE DropRow
    <2>1. host' = "gone" /\ Becomes(rec, val, held) /\ (host = "active" => ~holds)
      BY <1>4 DEF DropRow, HostBecomes
    <2>2. held = NoValue
      BY <1>1, <1>4 DEF DropRow, ProviderHas
    <2>3. ProviderHas(host', slot', ordered', late', rec, val, held)
      BY <1>1, <1>2, <2>1, <2>2 DEF ProviderHas
    <2>. QED  BY <1>1, <1>2, <2>1, <2>3, Settles
  <1>. QED  BY <1>3, <1>4

LEMMA EndEarlyStep ==
    ASSUME IInv, EndEarly
    PROVE  IInv'
  <1>1. /\ epoch' = epoch + 1 /\ epoch < MaxEpoch
        /\ UNCHANGED <<holds, host, held, slot, rec, val, proc, ordered, late>>
    BY DEF EndEarly
  <1>2. /\ epoch \in 1..MaxEpoch /\ epoch \in Nat /\ ordered \in 0..epoch /\ MaxEpoch \in Nat
        /\ \A x \in Proc : proc[x].floor \in Nat /\ proc[x].floor <= epoch
        /\ PlacesOK(proc) /\ TypeOK
    BY Typed, ExchangeAssumption DEF IInv
  <1>3. epoch' \in 1..MaxEpoch /\ ordered \in 0..epoch' /\ \A x \in Proc : proc[x].floor <= epoch'
    BY <1>1, <1>2
  <1>4. TypeOK' /\ PlacesOK(proc)'
    BY <1>1, <1>2, <1>3 DEF TypeOK, PlacesOK
  <1>5. /\ Tidy' /\ Awaited(proc, rec, val)' /\ Ordered(slot, ordered, proc, rec, val)'
        /\ ProviderHas(host, slot, ordered, late, rec, val, held)'
    BY <1>1 DEF IInv, Tidy, Known, InUse, Awaited, Ordered, Since, ProviderHas
  <1>. QED  BY <1>4, <1>5 DEF IInv

LEMMA AgeStep ==
    ASSUME IInv, NEW v \in Value, Age(v)
    PROVE  IInv'
  <1>1. /\ val' = [val EXCEPT ![v].life = IF @ = "fresh" THEN "stale" ELSE "over"]
        /\ UNCHANGED <<holds, host, held, slot, rec, proc, epoch, ordered, late>>
    BY DEF Age
  <1>2. /\ val \in Values /\ rec \in Records /\ held \in Store /\ slot \in Record \cup {NoRecord}
        /\ TypeOK /\ Tidy /\ PlacesOK(proc) /\ Standing(rec, val)
    BY Typed DEF IInv
  <1>3. val' \in Values /\ \A w \in Value : val'[w].epoch = val[w].epoch
    BY <1>1, <1>2 DEF Values
  <1>4. \A r \in Record : \A f : Since(r, f, proc, rec, val) => Since(r, f, proc, rec, val')
    BY <1>2, <1>3 DEF Since, Records
  <1>5. Awaited(proc, rec, val)'
    BY <1>1, <1>2, <1>4 DEF Standing, Awaited, PlacesOK, Since
  <1>6. Ordered(slot, ordered, proc, rec, val)'
    BY <1>1, <1>2, <1>4 DEF Standing, Ordered, Since
  <1>7. ProviderHas(host, slot, ordered, late, rec, val, held)'
    BY <1>1, <1>2, <1>3 DEF Standing, ProviderHas, Store
  <1>8. TypeOK'
    BY <1>1, <1>2, <1>3 DEF TypeOK, Values
  <1>9. Tidy' /\ PlacesOK(proc)'
    BY <1>1, <1>2 DEF Tidy, Known, InUse, PlacesOK
  <1>. QED  BY <1>5, <1>6, <1>7, <1>8, <1>9 DEF IInv

LEMMA WaitOverStep ==
    ASSUME IInv, NEW r \in Record, WaitOver(r)
    PROVE  IInv'
  <1>1. /\ rec[r].waits /\ rec' = [rec EXCEPT ![r].waits = FALSE]
        /\ UNCHANGED <<holds, host, held, slot, val, proc, epoch, ordered, late>>
    BY DEF WaitOver
  <1>2. /\ val \in Values /\ rec \in Records /\ held \in Store /\ slot \in Record \cup {NoRecord}
        /\ TypeOK /\ Tidy /\ PlacesOK(proc) /\ Standing(rec, val)
    BY Typed DEF IInv
  <1>3. /\ rec' \in Records
        /\ \A q \in Record : rec'[q].latest = rec[q].latest /\ rec'[q].pushed = rec[q].pushed
        /\ \A q \in Record \ {r} : rec'[q] = rec[q]
    BY <1>1, <1>2 DEF Records
  <1>4. Awaited(proc, rec', val) /\ Ordered(slot, ordered, proc, rec', val)
    BY <1>2, <1>3, SameLatest DEF Standing
  <1>5. /\ Awaited(proc, rec, val)' /\ Ordered(slot, ordered, proc, rec, val)'
    BY <1>1, <1>4 DEF Awaited, Ordered, Since
  <1>6. ProviderHas(host, slot, ordered, late, rec, val, held)'
    BY <1>1, <1>2, <1>3 DEF Standing, ProviderHas
  <1>7. TypeOK' /\ PlacesOK(proc)'
    BY <1>1, <1>2, <1>3 DEF TypeOK, Records, PlacesOK
  <1>8. Tidy'
    <2>1. Known(rec', held) = Known(rec, held)
      BY <1>3 DEF Known
    <2>2. Known(rec, held)' = Known(rec, held)
      BY <1>1, <2>1 DEF Known
    <2>3. r \in InUse
      BY <1>1, <1>2 DEF Tidy, Blank
    <2>4. InUse' = InUse
      BY <1>1 DEF InUse
    <2>. QED  BY <1>2, <1>3, <2>2, <2>3, <2>4 DEF Tidy
  <1>. QED  BY <1>5, <1>6, <1>7, <1>8 DEF IInv

LEMMA StandsStill ==
    ASSUME IInv, UNCHANGED vars
    PROVE  IInv'
  <1>0. /\ UNCHANGED <<holds, host, held, slot, rec, val, proc, epoch, ordered, late>>
        /\ Awaited(proc, rec, val) /\ Ordered(slot, ordered, proc, rec, val)
        /\ ProviderHas(host, slot, ordered, late, rec, val, held)
        /\ TypeOK /\ Tidy /\ PlacesOK(proc)
    BY DEF vars, IInv
  <1>1. TypeOK' /\ Tidy' /\ PlacesOK(proc)'
    <2>1. TypeOK'
      BY <1>0 DEF TypeOK
    <2>2. Known(rec, held)' = Known(rec, held) /\ InUse' = InUse
      BY <1>0 DEF Known, InUse
    <2>3. Tidy'
      BY <1>0, <2>2 DEF Tidy
    <2>4. PlacesOK(proc)'
      BY <1>0 DEF PlacesOK
    <2>. QED  BY <2>1, <2>3, <2>4
  <1>2. /\ Awaited(proc, rec, val)' /\ Ordered(slot, ordered, proc, rec, val)'
        /\ ProviderHas(host, slot, ordered, late, rec, val, held)'
    <2>1. Awaited(proc, rec, val)'
      BY <1>0 DEF Awaited, Since
    <2>2. Ordered(slot, ordered, proc, rec, val)'
      BY <1>0 DEF Ordered, Since
    <2>3. ProviderHas(host, slot, ordered, late, rec, val, held)'
      BY <1>0 DEF ProviderHas
    <2>. QED  BY <2>1, <2>2, <2>3
  <1>. QED  BY <1>1, <1>2 DEF IInv

LEMMA Starts ==
    ASSUME Init
    PROVE  IInv
  <1>1. /\ MaxEpoch \in Nat \ {0} /\ MaxValues \in Nat \ {0} /\ 1 \in Value /\ NoRecord \notin Record
        /\ Timer \in Proc /\ \A c \in Caller \cup Order : c \in Proc
    BY ExchangeAssumption DEF Value, Proc
  <1>2. /\ rec = [r \in Record |-> Blank] /\ proc = [x \in Proc |-> Idle] /\ slot = NoRecord
        /\ ordered = 0 /\ late = FALSE /\ epoch \in 1..MaxEpoch
        /\ holds \in BOOLEAN /\ host \in {"active", "ending"}
        /\ held = IF holds /\ host = "active" THEN 1 ELSE NoValue
    BY DEF Init
  <1>3. PICK e \in 1..epoch, life \in {"fresh", "stale", "over"} :
          val = [v \in Value |-> IF v = held THEN [epoch |-> e, life |-> life] ELSE NoSecret]
    BY DEF Init
  <1>4. val \in Values
    <2>1. e \in 0..MaxEpoch
      BY <1>1, <1>2
    <2>. QED  BY <1>1, <1>3, <2>1 DEF Values, NoSecret
  <1>5. rec \in Records
    BY <1>2, BlankIsTyped DEF Records
  <1>6. proc \in [Proc -> Place]
    <2>1. Idle \in Place
      BY <1>1 DEF Idle, Place
    <2>. QED  BY <1>2, <2>1
  <1>7. /\ \A x \in Proc : proc[x].pc = "idle" /\ proc[x].rec = NoRecord /\ proc[x].floor = 0
        /\ \A r \in Record : rec[r].latest = NoValue /\ rec[r].pushed = NoValue
    BY <1>2 DEF Idle, Blank
  <1>8. TypeOK
    <2>1. held \in Value \cup {NoValue} /\ (~holds => held = NoValue)
      BY <1>1, <1>2
    <2>2. ordered \in 0..epoch
      BY <1>1, <1>2
    <2>. QED  BY <1>2, <1>4, <1>5, <1>6, <2>1, <2>2 DEF TypeOK, Values, Records, Place
  <1>9. PlacesOK(proc)
    BY <1>1, <1>2, <1>6, <1>7 DEF PlacesOK
  <1>10. Awaited(proc, rec, val) /\ Ordered(slot, ordered, proc, rec, val)
    BY <1>2, <1>7 DEF Awaited, Ordered
  <1>11. ProviderHas(host, slot, ordered, late, rec, val, held)
    BY <1>2 DEF ProviderHas, NoValue
  <1>12. Tidy
    <2>1. CASE held = NoValue
      <3>1. Known(rec, held) = {}
        BY <1>7, <2>1 DEF Known
      <3>2. Cardinality({}) = 0 /\ 1..0 = {}
        BY FS_EmptySet
      <3>. QED  BY <1>2, <3>1, <3>2 DEF Tidy
    <2>2. CASE held = 1
      <3>1. Known(rec, held) = {1}
        BY <1>7, <2>2 DEF Known, NoValue
      <3>2. Cardinality({1}) = 1 /\ 1..1 = {1}
        BY FS_Singleton
      <3>. QED  BY <1>2, <3>1, <3>2 DEF Tidy
    <2>. QED  BY <1>2, <2>1, <2>2
  <1>. QED  BY <1>8, <1>9, <1>10, <1>11, <1>12 DEF IInv

LEMMA Steps ==
    ASSUME IInv, [Next]_vars
    PROVE  IInv'
  <1>1. ASSUME NEW x \in Proc, Step(x)
        PROVE  IInv'
    <2>1. \/ x \in Caller /\ Current(x)
          \/ x \in Order /\ Refresh(x)
          \/ x \in Caller /\ Leave(x)
          \/ \E written \in BOOLEAN : Fetched(x, written) \/ FetchFails(x, written)
      BY <1>1 DEF Step, Current, Refresh, Leave
    <2>. QED  BY <1>1, <2>1, CurrentStep, RefreshStep, LeaveStep, FetchedStep, FetchFailsStep
  <1>2. ASSUME TimerStep
        PROVE  IInv'
    BY <1>1, <1>2, TickStep, PushStep DEF TimerStep, Proc
  <1>3. \/ \E x \in Proc : Step(x)
        \/ TimerStep \/ DeleteSecrets \/ DropRow \/ EndEarly
        \/ \E v \in Value : Age(v)
        \/ \E r \in Record : WaitOver(r)
        \/ UNCHANGED vars
    BY DEF Next, ValuesAge, WaitsEnd, Proc
  <1>. QED  BY <1>1, <1>2, <1>3, HostEndsStep, EndEarlyStep, AgeStep, WaitOverStep, StandsStill

\* The record and the provider agree on the value that the provider has, and no value outlives
\* delete_secrets, whatever pushes, orders and answers of the issuer overlap
\* (RefreshableSecret.push, SbxInjection.put_secret and delete_secrets).
THEOREM ExchangeIsConsistent == Spec => []ExchangeInv
<1>1. IInv => ExchangeInv
  BY DEF IInv, ExchangeInv, PushedIsHeld, TeardownIsFinal, ProviderHas
<1>. QED  BY <1>1, Starts, Steps, PTL DEF Spec

\* A request that came in after an order was answered gets no value that had ended when the
\* order was given, although others still work on the record it replaced (Secrets.current and
\* Secrets.refresh).
THEOREM OrdersAreObeyed == Spec => []OrderIsObeyed
<1>1. IInv => OrderIsObeyed
  BY DEF IInv, PlacesOK, OrderIsObeyed
<1>. QED  BY <1>1, Starts, Steps, PTL DEF Spec

\* Once an order was answered 200, the provider of an active host has no value that had ended
\* when it was given, unless a record that was replaced wrote to it after that
\* (Secrets.refresh and RefreshableSecret.push).
THEOREM OrdersReachProviders == Spec => []OrderReachesProvider
<1>1. IInv => OrderReachesProvider
  BY DEF IInv, ProviderHas, OrderReachesProvider
<1>. QED  BY <1>1, Starts, Steps, PTL DEF Spec

-----------------------------------------------------------------------------
(* The proxy.                                                              *)

\* What a request and a call for the list are made of, which the type invariant leaves open.
Flows == [pc : {"new", "connecting", "resolving", "hello", "blind", "idle",
                "authorizing", "sent", "answered", "refused", "plain"},
          name : Name \cup {"none"}, address : Address \cup {"none"}]

Calls == [state : {"none", "asked", "answered"}, age : 0 .. Timeout, names : SUBSET Name]

Requests ==
    [todo : SUBSET Service, asked : Service \cup {NoService}, has : SUBSET Service]

Rows == [Service -> [there : BOOLEAN, age : 0 .. Old]]

Caches == [names : SUBSET Name, age : 0 .. Old, known : BOOLEAN, missed : BOOLEAN]

\* No connection is past server_connect before there is a list.
KnownWhenPast == \A f \in Flow : flow[f].pc \in {"resolving", "hello"} => cache.known

\* Types, and what a connection knows.
BaseInv ==
    /\ ProxyTypeOK /\ fetch \in [Flow -> Calls] /\ request \in [Flow -> Requests]
    /\ KnownWhenPast

\* The credentials a request has so far, and the one that is asked for, are approved for
\* its name, and no two share a header.
HasApproved(f) ==
    flow[f].pc \in {"authorizing", "sent"} =>
        /\ \A s \in request[f].has : flow[f].name \in Approved[s]
        /\ \A s, t \in request[f].has :
              HeaderOf[<<s, flow[f].name>>] = HeaderOf[<<t, flow[f].name>>] => s = t
        /\ request[f].asked # NoService => flow[f].name \in Approved[request[f].asked]

\* Requests.
SwapInv == (\A f \in Flow : HasApproved(f)) /\ ConnectsToChecked

\* names are those of the rows, but for rows that have changed within age.
Tells(names, age) ==
    /\ \A s \in Service : row[s].there /\ row[s].age > age => Approved[s] \subseteq names
    /\ \A n \in names : \E s \in Service :
          n \in Approved[s] /\ (row[s].there \/ row[s].age <= age)

\* An answer knows of what was there when its call began, and the list of what was there
\* when the call that brought it began.
ListInv ==
    /\ cache.known /\ ~cache.missed => Tells(cache.names, cache.age + Timeout)
    /\ \A f \in Flow : fetch[f].state = "answered" => Tells(fetch[f].names, fetch[f].age)

\* The inductive invariant.
ProxyIInv == BaseInv /\ SwapInv /\ ListInv

-----------------------------------------------------------------------------
(* One connection moves, and nothing else but the list.                    *)

\* f moves, and no other connection.
Alone(f) ==
    /\ flow' \in [Flow -> Flows] /\ fetch' \in [Flow -> Calls]
    /\ request' \in [Flow -> Requests]
    /\ \A g \in Flow \ {f} :
          flow'[g] = flow[g] /\ fetch'[g] = fetch[g] /\ request'[g] = request[g]
    /\ UNCHANGED row

\* Where a connection is, and what it has under way.
Fits(f) ==
    /\ fetch[f].state # "none" => flow[f].pc \in {"connecting", "hello"}
    /\ flow[f].pc = "authorizing" <=> request[f].todo # {}
    /\ request[f].asked \in request[f].todo \cup {NoService}

\* A list that is not what it was.
ListGoesOn ==
    /\ cache' \in Caches /\ (cache.known => cache'.known) /\ (~cache'.known => cache'.names = {})
    /\ cache' = cache \/ cache'.missed \/ Tells(cache'.names, cache'.age + Timeout)

\* The ages that matter are below the clock's last one.
LEMMA Ages == TTL \in Nat /\ Timeout \in Nat \ {0} /\ Old \in Nat /\ Old = TTL + Timeout + 1
BY ProxyAssumption DEF Old

\* What the type invariant says of a connection.
LEMMA Parts ==
    ASSUME BaseInv
    PROVE  /\ row \in Rows /\ cache \in Caches /\ flow \in [Flow -> Flows]
           /\ ~cache.known => cache.names = {}
           /\ \A f \in Flow : Fits(f)
BY DEF BaseInv, ProxyTypeOK, Rows, Caches, Flows, Fits

\* The invariant holds if it does for the connection that moves.
LEMMA OneMoves ==
    ASSUME ProxyIInv, NEW f \in Flow, Alone(f), Fits(f)', ListGoesOn,
           flow'[f].pc \in {"resolving", "hello"} => cache'.known,
           HasApproved(f)', flow'[f].address # "private",
           fetch'[f].state = "answered" => Tells(fetch'[f].names, fetch'[f].age)
    PROVE  ProxyIInv'
<1>1. BaseInv'
  <2>1. \A g \in Flow : Fits(g)'
    BY Parts DEF ProxyIInv, Alone, Fits
  <2>2. \A g \in Flow : flow'[g].pc \in {"resolving", "hello"} => cache'.known
    BY DEF ProxyIInv, BaseInv, KnownWhenPast, Alone, ListGoesOn
  <2>3. row' \in Rows /\ flow' \in [Flow -> Flows] /\ cache' \in Caches
    BY Parts DEF ProxyIInv, Alone, ListGoesOn
  <2>4. \A g \in Flow : /\ fetch'[g].names \subseteq Name /\ fetch'[g].age \in 0 .. Timeout
                        /\ request'[g].todo \cup request'[g].has \subseteq Service
    BY DEF Alone, Calls, Requests
  <2>5. ProxyTypeOK'
    BY <2>1, <2>3, <2>4 DEF ProxyTypeOK, Fits, ListGoesOn, Flows, Rows, Caches
  <2> QED BY <2>2, <2>5 DEF BaseInv, KnownWhenPast, Alone
<1>2. SwapInv'
  <2>1. \A g \in Flow : HasApproved(g)'
    BY DEF ProxyIInv, SwapInv, HasApproved, Alone
  <2>2. \A g \in Flow : flow'[g].address # "private"
    BY DEF ProxyIInv, SwapInv, ConnectsToChecked, Alone
  <2> QED BY <2>1, <2>2 DEF SwapInv, ConnectsToChecked
<1>3. ListInv'
  <2>1. cache'.known /\ ~cache'.missed => Tells(cache'.names, cache'.age + Timeout)
    BY DEF ProxyIInv, ListInv, ListGoesOn
  <2>2. \A g \in Flow : fetch'[g].state = "answered" => Tells(fetch'[g].names, fetch'[g].age)
    BY DEF ProxyIInv, ListInv, Alone
  <2>3. UNCHANGED row
    BY DEF Alone
  <2> QED BY <2>1, <2>2, <2>3 DEF ListInv, Tells
<1> QED BY <1>1, <1>2, <1>3 DEF ProxyIInv

\* A connection goes on with its name and its address, or without them (At).
LEMMA AtValue ==
    ASSUME NEW f \in Flow, flow[f] \in Flows,
           NEW pc \in {"new", "connecting", "resolving", "hello", "blind", "idle",
                       "authorizing", "sent", "answered", "refused", "plain"}
    PROVE  /\ At(f, pc) \in Flows /\ At(f, pc).pc = pc /\ At(f, pc).address = flow[f].address
           /\ pc \notin {"blind", "refused", "plain"} => At(f, pc).name = flow[f].name
<1>1. flow[f] = [pc |-> flow[f].pc, name |-> flow[f].name, address |-> flow[f].address]
      /\ flow[f].name \in Name \cup {"none"} /\ flow[f].address \in Address \cup {"none"}
  BY DEF Flows
<1> DEFINE name == IF pc \in {"blind", "refused", "plain"} THEN "none" ELSE flow[f].name
<1>2. At(f, pc) = [pc |-> pc, name |-> name, address |-> flow[f].address]
  <2>1. At(f, pc) = [flow[f] EXCEPT !.pc = pc, !.name = name]
    BY <1>1 DEF At
  <2> HIDE DEF name
  <2> QED BY <1>1, <2>1
<1>3. name \in Name \cup {"none"}
  BY <1>1
<1> HIDE DEF name
<1>4. At(f, pc) \in Flows /\ At(f, pc).pc = pc /\ At(f, pc).address = flow[f].address
      /\ At(f, pc).name = name
  BY <1>1, <1>2, <1>3 DEF Flows
<1> QED BY <1>4 DEF name

\* Nothing is asked or called for in the constants.
LEMMA Nothing ==
    /\ NoFetch \in Calls /\ NoFetch.state = "none"
    /\ NoRequest \in Requests /\ NoRequest.todo = {} /\ NoRequest.asked = NoService
    /\ NoRequest.has = {}
BY Ages DEF NoFetch, NoRequest, Calls, Requests

\* A list that stays goes on.
LEMMA SameList == ASSUME BaseInv, UNCHANGED cache PROVE ListGoesOn
BY Parts DEF ListGoesOn

-----------------------------------------------------------------------------
(* The list.                                                               *)

\* A connection asks for the list (Swap.upstreams).
LEMMA AskListKeeps == ASSUME ProxyIInv, NEW f \in Flow, AskList(f) PROVE ProxyIInv'
<1> DEFINE x == [state |-> "asked", age |-> 0, names |-> {}]
<1>1. UNCHANGED <<row, cache, flow, request>> /\ fetch' = [fetch EXCEPT ![f] = x]
      /\ flow[f].pc \in {"connecting", "hello"}
  BY DEF AskList
<1>2. x \in Calls /\ x.state = "asked"
  BY Ages DEF Calls
<1> HIDE DEF x
<1>3. Alone(f) /\ fetch'[f] = x
  BY <1>1, <1>2, Parts DEF ProxyIInv, BaseInv, Alone
<1>4. Fits(f)' /\ HasApproved(f)'
  BY <1>1, Parts DEF ProxyIInv, SwapInv, HasApproved, Fits
<1> QED
  BY <1>1, <1>2, <1>3, <1>4, OneMoves, SameList
  DEF ProxyIInv, BaseInv, KnownWhenPast, SwapInv, ConnectsToChecked

\* What the exchange answers is what its rows say now, and the call began before now
\* (app.upstreams).
LEMMA ExchangeListsKeeps == ASSUME ProxyIInv, NEW f \in Flow, ExchangeLists(f) PROVE ProxyIInv'
<1> DEFINE x == [fetch[f] EXCEPT !.state = "answered", !.names = Listed]
<1>1. UNCHANGED <<row, cache, flow, request>> /\ fetch' = [fetch EXCEPT ![f] = x]
      /\ fetch[f].state = "asked"
  BY DEF ExchangeLists
<1>2. Listed \subseteq Name
  BY ProxyAssumption DEF Listed
<1>3. fetch[f] \in Calls
  BY DEF ProxyIInv, BaseInv
<1>4. x \in Calls /\ x.state = "answered" /\ x.names = Listed /\ x.age = fetch[f].age
  BY <1>2, <1>3 DEF Calls
<1> HIDE DEF x
<1>5. Alone(f) /\ fetch'[f] = x
  BY <1>1, <1>4, Parts DEF ProxyIInv, BaseInv, Alone
<1>6. Fits(f)' /\ HasApproved(f)'
  BY <1>1, Parts DEF ProxyIInv, SwapInv, HasApproved, Fits
<1>7. Tells(Listed, fetch[f].age)
  <2>1. \A s \in Service : row[s].there => Approved[s] \subseteq Listed
    BY DEF Listed
  <2>2. \A n \in Listed : \E s \in Service : n \in Approved[s] /\ row[s].there
    BY DEF Listed
  <2> QED BY <2>1, <2>2 DEF Tells
<1> QED
  BY <1>1, <1>4, <1>5, <1>6, <1>7, OneMoves, SameList
  DEF ProxyIInv, BaseInv, KnownWhenPast, SwapInv, ConnectsToChecked

\* A list of some age tells as much of any later one.
LEMMA TellsMore ==
    ASSUME row \in Rows, NEW names, NEW a \in Nat, NEW b \in Nat, a <= b, Tells(names, a)
    PROVE  Tells(names, b)
BY DEF Tells, Rows, Old

\* Whatever upstreams returns with goes on from the list there was (Swap.upstreams).
LEMMA UpstreamsGoOn ==
    ASSUME ProxyIInv, NEW f \in Flow, NEW list \in Upstreams(f), cache' = list
    PROVE  /\ ListGoesOn
           /\ fetch[f].state = "none" => cache' = cache /\ cache.age <= TTL
           /\ fetch[f].state # "none" =>
                 cache'.missed \/ (cache' = Answer(f) /\ fetch[f].state = "answered")
<1>1. cache \in Caches /\ (~cache.known => cache.names = {}) /\ fetch[f] \in Calls /\ row \in Rows
  BY Parts DEF ProxyIInv, BaseInv
<1>2. CASE fetch[f].state = "none"
  <2>1. Upstreams(f) = IF ListIsStale THEN {} ELSE {cache}
    BY <1>2 DEF Upstreams
  <2>2. list = cache /\ ~ListIsStale
    BY <2>1
  <2> QED BY <1>1, <1>2, <2>2, Ages DEF ListIsStale, Caches, ListGoesOn
<1>3. CASE list = Missed /\ fetch[f].state # "none"
  <2>1. Missed \in Caches /\ Missed.missed /\ Missed.known = cache.known /\ Missed.names = cache.names
    <3> DEFINE aged == [cache EXCEPT !.age = 0]
    <3>1. aged \in Caches /\ aged.known = cache.known /\ aged.names = cache.names
      BY <1>1, Ages DEF Caches
    <3>2. Missed = [aged EXCEPT !.missed = TRUE]
      BY <1>1 DEF Missed, Caches
    <3> HIDE DEF aged
    <3> QED BY <3>1, <3>2 DEF Caches
  <2> QED BY <1>1, <1>3, <2>1 DEF ListGoesOn
<1>4. CASE list = Answer(f) /\ fetch[f].state = "answered"
  <2>1. Answer(f) \in Caches /\ Answer(f).known /\ Answer(f).names = fetch[f].names
        /\ Answer(f).age = 0
    BY <1>1, Ages DEF Answer, Caches, Calls
  <2>2. Tells(fetch[f].names, fetch[f].age)
    BY <1>4 DEF ProxyIInv, ListInv
  <2>3. fetch[f].age \in Nat /\ fetch[f].age <= Timeout /\ Timeout \in Nat
    BY <1>1, Ages DEF Calls
  <2>4. Tells(fetch[f].names, Timeout)
    BY <1>1, <2>2, <2>3, TellsMore
  <2>5. Tells(cache'.names, cache'.age + Timeout)
    BY <1>4, <2>1, <2>3, <2>4
  <2> QED BY <1>4, <2>1, <2>5 DEF ListGoesOn
<1>5. fetch[f].state \in {"none", "asked", "answered"}
  BY <1>1 DEF Calls
<1> QED BY <1>2, <1>3, <1>4, <1>5 DEF Upstreams

\* A connection that has its list goes on, and its call is over.
LEMMA HasListKeeps ==
    ASSUME ProxyIInv, NEW f \in Flow, flow[f].pc \in {"connecting", "hello"},
           NEW list \in Upstreams(f),
           NEW pc \in {"resolving", "refused", "idle", "blind"}, HasList(f, list, pc),
           pc = "resolving" => list.known
    PROVE  ProxyIInv'
<1>1. cache' = list /\ flow' = [flow EXCEPT ![f] = At(f, pc)]
      /\ fetch' = [fetch EXCEPT ![f] = NoFetch] /\ UNCHANGED <<row, request>>
  BY DEF HasList, Goes
<1>2. At(f, pc) \in Flows /\ At(f, pc).pc = pc /\ At(f, pc).address = flow[f].address
  BY Parts, AtValue DEF ProxyIInv
<1>3. Alone(f) /\ flow'[f] = At(f, pc) /\ fetch'[f] = NoFetch
  BY <1>1, <1>2, Parts, Nothing DEF ProxyIInv, BaseInv, Alone
<1>4. Fits(f)' /\ HasApproved(f)'
  BY <1>1, <1>2, <1>3, Parts, Nothing DEF ProxyIInv, Fits, HasApproved
<1>5. ListGoesOn
  BY <1>1, UpstreamsGoOn
<1> QED
  BY <1>1, <1>2, <1>3, <1>4, <1>5, Nothing, OneMoves DEF ProxyIInv, SwapInv, ConnectsToChecked

-----------------------------------------------------------------------------
(* Connections and their requests.                                         *)

\* The credentials that q has are approved for name and share no header.
Approving(name, q) ==
    /\ \A s \in q.has : name \in Approved[s]
    /\ \A s, t \in q.has : HeaderOf[<<s, name>>] = HeaderOf[<<t, name>>] => s = t
    /\ q.asked # NoService => name \in Approved[q.asked]

\* A connection that moves without the list.
LEMMA FlowMoves ==
    ASSUME ProxyIInv, NEW f \in Flow, NEW x \in Flows, NEW q \in Requests,
           UNCHANGED <<row, cache, fetch>>, fetch[f].state = "none",
           flow' = [flow EXCEPT ![f] = x], request' = [request EXCEPT ![f] = q],
           x.pc = "authorizing" <=> q.todo # {}, q.asked \in q.todo \cup {NoService},
           x.pc \in {"resolving", "hello"} => cache.known, x.address # "private",
           x.pc \in {"authorizing", "sent"} => Approving(x.name, q)
    PROVE  ProxyIInv'
<1>1. Alone(f) /\ flow'[f] = x /\ request'[f] = q
  BY Parts DEF ProxyIInv, BaseInv, Alone
<1>2. Fits(f)'
  BY <1>1 DEF Fits
<1>3. HasApproved(f)'
  BY <1>1 DEF HasApproved, Approving
<1> QED BY <1>1, <1>2, <1>3, OneMoves, SameList DEF ProxyIInv

\* What a connection is, has and awaits before it moves.
LEMMA Before ==
    ASSUME ProxyIInv, NEW f \in Flow
    PROVE  /\ flow[f] \in Flows /\ request[f] \in Requests /\ Fits(f)
           /\ flow \in [Flow -> Flows] /\ request \in [Flow -> Requests]
           /\ flow[f].address # "private" /\ HasApproved(f)
           /\ flow[f].pc \notin {"connecting", "hello"} => fetch[f].state = "none"
BY Parts DEF ProxyIInv, BaseInv, SwapInv, ConnectsToChecked, Fits

\* The same for one whose request stays.
LEMMA FlowGoes ==
    ASSUME ProxyIInv, NEW f \in Flow, NEW x \in Flows, UNCHANGED <<row, cache, fetch, request>>,
           flow[f].pc \in {"new", "resolving"}, flow' = [flow EXCEPT ![f] = x],
           x.pc \in {"connecting", "hello", "plain", "refused"},
           x.pc = "hello" => cache.known, x.address # "private"
    PROVE  ProxyIInv'
<1>1. request' = [request EXCEPT ![f] = request[f]]
  BY Before
<1>2. fetch[f].state = "none" /\ request[f].todo = {} /\ request[f].asked \in {NoService}
  BY Before DEF Fits
<1>3. request[f] \in Requests
  BY Before
<1> QED BY <1>1, <1>2, <1>3, FlowMoves

\* A connection that is refused.
LEMMA RefusedKeeps ==
    ASSUME ProxyIInv, NEW f \in Flow, UNCHANGED <<row, cache, fetch, request>>,
           flow[f].pc \in {"new", "resolving"}, Goes(f, "refused")
    PROVE  ProxyIInv'
<1>1. flow[f] \in Flows /\ flow[f].address # "private"
  BY Before
<1>2. At(f, "refused") \in Flows /\ At(f, "refused").pc = "refused"
      /\ At(f, "refused").address = flow[f].address
  BY <1>1, AtValue
<1>3. flow' = [flow EXCEPT ![f] = At(f, "refused")]
  BY DEF Goes
<1> QED BY <1>1, <1>2, <1>3, FlowGoes

\* A request that the proxy answers itself has nothing left.
LEMMA AnsweredKeeps ==
    ASSUME ProxyIInv, NEW f \in Flow, UNCHANGED <<row, cache, fetch>>, fetch[f].state = "none",
           Answered(f)
    PROVE  ProxyIInv'
<1>1. flow[f] \in Flows /\ flow[f].address # "private"
  BY Before
<1>2. At(f, "answered") \in Flows /\ At(f, "answered").pc = "answered"
      /\ At(f, "answered").address = flow[f].address
  BY <1>1, AtValue
<1>3. flow' = [flow EXCEPT ![f] = At(f, "answered")]
      /\ request' = [request EXCEPT ![f] = NoRequest]
  BY DEF Answered, Goes
<1> QED BY <1>1, <1>2, <1>3, Nothing, FlowMoves

\* A connection has a name that resolves, or is refused (http_connect).
LEMMA ConnectKeeps == ASSUME ProxyIInv, NEW f \in Flow, Connect(f) PROVE ProxyIInv'
<1>1. UNCHANGED <<row, cache, fetch, request>> /\ flow[f].pc = "new"
  BY DEF Connect
<1>2. ASSUME NEW n \in Name, flow' = [flow EXCEPT ![f].name = n, ![f].pc = "connecting"]
      PROVE  ProxyIInv'
  <2> DEFINE x == [flow[f] EXCEPT !.name = n, !.pc = "connecting"]
  <2>1. x \in Flows /\ x.pc = "connecting" /\ x.address = flow[f].address
    BY Before DEF Flows
  <2>2. flow' = [flow EXCEPT ![f] = x]
    BY <1>2, Before
  <2> HIDE DEF x
  <2> QED BY <1>1, <2>1, <2>2, FlowGoes, Before
<1>3. CASE Goes(f, "refused")
  BY <1>1, <1>3, RefusedKeeps
<1> QED BY <1>2, <1>3 DEF Connect

\* The address a connection goes to is one of those that were checked (server_connect).
LEMMA PinKeeps == ASSUME ProxyIInv, NEW f \in Flow, Pin(f) PROVE ProxyIInv'
<1>1. UNCHANGED <<row, cache, fetch, request>> /\ flow[f].pc = "resolving" /\ cache.known
  BY DEF Pin, ProxyIInv, BaseInv, KnownWhenPast
<1>2. CASE Goes(f, "refused")
  BY <1>1, <1>2, RefusedKeeps
<1>3. ASSUME NEW found \in SUBSET Address, Reachable(found), NEW a \in Pinned(found),
             NEW pc \in {"hello", "plain"},
             flow' = [flow EXCEPT ![f] = [At(f, pc) EXCEPT !.address = a]]
      PROVE  ProxyIInv'
  <2>1. a = "public"
    BY <1>3 DEF Reachable, Pinned
  <2>2. At(f, pc) \in Flows /\ At(f, pc).pc = pc
    BY AtValue, Before
  <2> DEFINE x == [At(f, pc) EXCEPT !.address = a]
  <2>3. x \in Flows /\ x.pc = pc /\ x.address = "public"
    BY <2>1, <2>2 DEF Flows, Address
  <2> HIDE DEF x
  <2>4. flow' = [flow EXCEPT ![f] = x]
    BY <1>3 DEF x
  <2> QED BY <1>1, <2>3, <2>4, FlowGoes
<1> QED BY <1>2, <1>3 DEF Pin

\* A request of an intercepted connection starts with no credential.
LEMMA RequestKeeps == ASSUME ProxyIInv, NEW f \in Flow, Request(f) PROVE ProxyIInv'
<1>1. UNCHANGED <<row, cache, fetch>> /\ fetch[f].state = "none"
  BY Before DEF Request
<1>2. CASE Answered(f)
  BY <1>1, <1>2, AnsweredKeeps
<1>3. ASSUME NEW carries \in SUBSET Service,
             Goes(f, IF carries = {} THEN "sent" ELSE "authorizing"),
             request' = [request EXCEPT ![f] = [NoRequest EXCEPT !.todo = carries]]
      PROVE  ProxyIInv'
  <2> DEFINE pc == IF carries = {} THEN "sent" ELSE "authorizing"
             q == [NoRequest EXCEPT !.todo = carries]
  <2>1. q \in Requests /\ q.todo = carries /\ q.asked = NoService /\ q.has = {}
    BY DEF NoRequest, Requests
  <2>2. flow' = [flow EXCEPT ![f] = At(f, pc)] /\ request' = [request EXCEPT ![f] = q]
    BY <1>3 DEF Goes
  <2>3. pc \in {"sent", "authorizing"} /\ (pc = "authorizing" <=> carries # {})
    OBVIOUS
  <2> HIDE DEF pc, q
  <2>4. At(f, pc) \in Flows /\ At(f, pc).pc = pc /\ At(f, pc).address = flow[f].address
    BY <2>3, AtValue, Before
  <2>5. Approving(At(f, pc).name, q)
    BY <2>1 DEF Approving
  <2> QED BY <1>1, <2>1, <2>2, <2>3, <2>4, <2>5, FlowMoves, Before
<1> QED BY <1>2, <1>3 DEF Request

\* The exchange looks for the next placeholder, or refuses it (app.authorize).
LEMMA AskKeeps == ASSUME ProxyIInv, NEW f \in Flow, Ask(f) PROVE ProxyIInv'
<1>1. UNCHANGED <<row, cache, fetch>> /\ fetch[f].state = "none" /\ flow[f].pc = "authorizing"
  BY Before DEF Ask
<1>2. CASE Answered(f)
  BY <1>1, <1>2, AnsweredKeeps
<1>3. ASSUME NEW s \in request[f].todo, Allowed(f, s), request' = [request EXCEPT ![f].asked = s],
             UNCHANGED flow
      PROVE  ProxyIInv'
  <2> DEFINE q == [request[f] EXCEPT !.asked = s]
  <2>1. q \in Requests /\ q.todo = request[f].todo /\ q.has = request[f].has /\ q.asked = s
    <3>1. request[f] \in Requests /\ s \in Service
      BY <1>3, Before DEF Requests
    <3> QED BY <3>1 DEF Requests
  <2>2. request' = [request EXCEPT ![f] = q] /\ flow' = [flow EXCEPT ![f] = flow[f]]
    BY <1>3, Before
  <2> HIDE DEF q
  <2>3. Approving(flow[f].name, q)
    BY <1>1, <1>3, <2>1, Before DEF Approving, HasApproved, Allowed
  <2>4. flow[f] \in Flows /\ flow[f].address # "private" /\ request[f].todo # {}
    BY <1>3, Before
  <2> QED BY <1>1, <1>3, <2>1, <2>2, <2>3, <2>4, FlowMoves
<1> QED BY <1>2, <1>3 DEF Ask

\* A credential is taken if its header has none yet (Swap.swap).
LEMMA IssuedKeeps == ASSUME ProxyIInv, NEW f \in Flow, Issued(f) PROVE ProxyIInv'
<1>1. UNCHANGED <<row, cache, fetch>> /\ request[f].asked \in request[f].todo
      /\ flow[f].pc = "authorizing" /\ fetch[f].state = "none"
  BY Before DEF Issued, Fits
<1>2. CASE Answered(f)
  BY <1>1, <1>2, AnsweredKeeps
<1>3. PICK s \in Service : s = request[f].asked
  BY <1>1, Before DEF Requests
<1>4. CASE /\ ~Conflict(f, s)
           /\ Goes(f, IF request[f].todo = {s} THEN "sent" ELSE "authorizing")
           /\ request' = [request EXCEPT ![f].asked = NoService, ![f].todo = @ \ {s},
                                         ![f].has = @ \cup {s}]
  <2> DEFINE pc == IF request[f].todo = {s} THEN "sent" ELSE "authorizing"
             todo == request[f].todo \ {s}
             has == request[f].has \cup {s}
             none == [request[f] EXCEPT !.asked = NoService]
             less == [none EXCEPT !.todo = todo]
             q == [less EXCEPT !.has = has]
  <2>1. none \in Requests /\ none.asked = NoService
    <3>1. request[f] \in Requests
      BY Before
    <3> QED BY <3>1 DEF Requests
  <2>2. todo \in SUBSET Service /\ has \in SUBSET Service
    BY <1>3, Before DEF Requests
  <2>3. flow' = [flow EXCEPT ![f] = At(f, pc)] /\ request' = [request EXCEPT ![f] = q]
    BY <1>4, Before DEF Goes, Requests
  <2>4. pc \in {"sent", "authorizing"} /\ (pc = "authorizing" <=> todo # {})
    BY <1>1, <1>3
  <2> HIDE DEF none, todo, has
  <2>5. less \in Requests /\ less.asked = NoService /\ less.todo = todo
    BY <2>1, <2>2 DEF Requests
  <2> HIDE DEF less
  <2>9. q \in Requests /\ q.asked = NoService /\ q.todo = todo /\ q.has = has
    BY <2>2, <2>5 DEF Requests
  <2> HIDE DEF pc, q
  <2>6. At(f, pc) \in Flows /\ At(f, pc).pc = pc /\ At(f, pc).address = flow[f].address
        /\ At(f, pc).name = flow[f].name
    BY <2>4, AtValue, Before
  <2>7. Approving(flow[f].name, q)
    <3>1. s # NoService /\ flow[f].name \in Approved[s]
      BY <1>1, <1>3, ProxyAssumption, Before DEF HasApproved
    <3>2. /\ \A t \in request[f].has : flow[f].name \in Approved[t]
          /\ \A t, u \in request[f].has :
                HeaderOf[<<t, flow[f].name>>] = HeaderOf[<<u, flow[f].name>>] => t = u
      BY <1>1, Before DEF HasApproved
    <3>3. \A t \in request[f].has : HeaderOf[<<t, flow[f].name>>] # HeaderOf[<<s, flow[f].name>>]
      BY <1>4 DEF Conflict
    <3> QED BY <2>9, <3>1, <3>2, <3>3 DEF Approving, has
  <2>8. flow[f].address # "private"
    BY Before
  <2> QED BY <1>1, <2>3, <2>4, <2>6, <2>7, <2>8, <2>9, FlowMoves
<1> QED BY <1>2, <1>3, <1>4 DEF Issued

\* A request that gets no credential is answered.
LEMMA SilentKeeps == ASSUME ProxyIInv, NEW f \in Flow, Silent(f) PROVE ProxyIInv'
<1>1. UNCHANGED <<row, cache, fetch>> /\ fetch[f].state = "none" /\ Answered(f)
  BY Before DEF Silent, GivenUp
<1> QED BY <1>1, AnsweredKeeps

-----------------------------------------------------------------------------
(* Rows and the clock.                                                     *)

\* Tells, of the rows of the next state.
TellsNext(names, age) ==
    /\ \A s \in Service : row'[s].there /\ row'[s].age > age => Approved[s] \subseteq names
    /\ \A n \in names : \E s \in Service :
          n \in Approved[s] /\ (row'[s].there \/ row'[s].age <= age)

\* What stands still while rows change and time passes.
LEMMA StandStill ==
    ASSUME ProxyIInv, UNCHANGED <<flow, request>>, row' \in Rows, cache' \in Caches,
           fetch' \in [Flow -> Calls],
           \A f \in Flow : fetch'[f].state = fetch[f].state,
           cache'.known = cache.known, cache'.names = cache.names, ListInv'
    PROVE  ProxyIInv'
<1>1. \A f \in Flow : Fits(f)'
  BY Parts DEF ProxyIInv, Fits
<1>2. flow' \in [Flow -> Flows] /\ request' \in [Flow -> Requests]
  BY Parts DEF ProxyIInv, BaseInv
<1>3. \A g \in Flow : /\ fetch'[g].names \subseteq Name /\ fetch'[g].age \in 0 .. Timeout
                      /\ request'[g].todo \cup request'[g].has \subseteq Service
  BY <1>2 DEF Calls, Requests
<1>4. ~cache'.known => cache'.names = {}
  BY Parts DEF ProxyIInv
<1>5. ProxyTypeOK'
  BY <1>1, <1>2, <1>3, <1>4 DEF ProxyTypeOK, Fits, Flows, Rows, Caches
<1>6. KnownWhenPast'
  BY DEF ProxyIInv, BaseInv, KnownWhenPast
<1>7. \A f \in Flow : HasApproved(f)'
  BY DEF ProxyIInv, SwapInv, HasApproved
<1>8. ConnectsToChecked'
  BY DEF ProxyIInv, SwapInv, ConnectsToChecked
<1> QED BY <1>2, <1>5, <1>6, <1>7, <1>8 DEF ProxyIInv, BaseInv, SwapInv

\* A list is as old as it was, and a row that has just changed is younger (the exchange's
\* rows).
LEMMA RowChangesKeeps == ASSUME ProxyIInv, NEW s \in Service, RowChanges(s) PROVE ProxyIInv'
<1>1. UNCHANGED <<cache, flow, fetch, request>>
  BY DEF RowChanges
<1>2. row \in Rows /\ cache \in Caches /\ fetch \in [Flow -> Calls]
  BY Parts DEF ProxyIInv, BaseInv
<1> DEFINE x == [there |-> ~row[s].there, age |-> 0]
<1>3. row' = [row EXCEPT ![s] = x]
  BY DEF RowChanges
<1>4. x \in [there : BOOLEAN, age : 0 .. Old] /\ x.age = 0
  BY Ages
<1> HIDE DEF x
<1>5. row' \in Rows /\ row'[s].age = 0 /\ \A t \in Service \ {s} : row'[t] = row[t]
  BY <1>2, <1>3, <1>4 DEF Rows
<1>6. ASSUME NEW names, NEW age \in Nat, Tells(names, age) PROVE TellsNext(names, age)
  BY <1>5, <1>6 DEF Tells, TellsNext
<1>7. cache.age + Timeout \in Nat /\ \A f \in Flow : fetch[f].age \in Nat
  BY <1>2, Ages DEF Caches, Calls
<1>8. ListInv'
  <2>1. cache.known /\ ~cache.missed => TellsNext(cache.names, cache.age + Timeout)
    BY <1>6, <1>7 DEF ProxyIInv, ListInv
  <2>2. \A f \in Flow : fetch[f].state = "answered" => TellsNext(fetch[f].names, fetch[f].age)
    BY <1>6, <1>7 DEF ProxyIInv, ListInv
  <2> QED BY <1>1, <2>1, <2>2 DEF ListInv, Tells, TellsNext
<1> QED BY <1>1, <1>2, <1>5, <1>8, StandStill

\* While time passes, a row grows no older than by one, and neither does a list less.
LEMMA TellsLater ==
    ASSUME row \in Rows, row' = [s \in Service |-> [row[s] EXCEPT !.age = Older(@)]],
           NEW names, NEW age \in Nat, NEW later \in Nat,
           later = age + 1 \/ (later = age /\ age >= Old), Tells(names, age)
    PROVE  TellsNext(names, later)
<1>1. \A s \in Service : /\ row'[s].there = row[s].there /\ row[s].age \in 0 .. Old
                         /\ row'[s].age = Older(row[s].age)
  BY DEF Rows
<1>2. \A s \in Service : row[s].age \in Nat /\ row'[s].age \in Nat /\ row'[s].age <= Old
                         /\ row'[s].age <= row[s].age + 1
  BY <1>1, Ages DEF Older
<1>3. \A s \in Service : /\ row'[s].age > later => row[s].age > age
                         /\ row[s].age <= age => row'[s].age <= later
  BY <1>2, Ages
<1> QED BY <1>1, <1>3 DEF Tells, TellsNext

\* No call lasts longer than its timeout, so that a list is never more than that older
\* than it looks.
LEMMA TickKeeps == ASSUME ProxyIInv, ProxyTick PROVE ProxyIInv'
<1>1. UNCHANGED <<flow, request>>
      /\ row' = [s \in Service |-> [row[s] EXCEPT !.age = Older(@)]]
      /\ cache' = [cache EXCEPT !.age = Older(@)]
  BY DEF ProxyTick
<1>2. row \in Rows /\ cache \in Caches /\ fetch \in [Flow -> Calls]
  BY Parts DEF ProxyIInv, BaseInv
<1>3. \A n \in 0 .. Old : Older(n) \in 0 .. Old /\ (Older(n) = n + 1 \/ (Older(n) = n /\ n = Old))
  BY Ages DEF Older
<1>4. row' \in Rows
  BY <1>1, <1>2, <1>3 DEF Rows
<1>5. cache' \in Caches /\ cache'.known = cache.known /\ cache'.names = cache.names
      /\ cache'.missed = cache.missed /\ cache'.age = Older(cache.age)
  BY <1>1, <1>2, <1>3 DEF Caches
<1>6. ASSUME NEW f \in Flow
      PROVE  /\ fetch'[f] \in Calls /\ fetch'[f].state = fetch[f].state
             /\ fetch[f].state # "none" =>
                   fetch'[f].names = fetch[f].names /\ fetch'[f].age = fetch[f].age + 1
  <2>1. CASE fetch[f].state = "none"
    BY <2>1, Nothing DEF ProxyTick
  <2>2. CASE fetch[f].state # "none"
    <3>1. fetch'[f] = [fetch[f] EXCEPT !.age = fetch[f].age + 1] /\ fetch[f].age < Timeout
      BY <2>2 DEF ProxyTick
    <3>2. fetch[f] \in Calls /\ fetch[f].age + 1 \in 0 .. Timeout
      BY <1>2, <3>1, Ages DEF Calls
    <3> QED BY <3>1, <3>2 DEF Calls
  <2> QED BY <2>1, <2>2
<1>7. fetch' \in [Flow -> Calls]
  <2>1. fetch' = [f \in Flow |-> fetch'[f]]
    BY DEF ProxyTick
  <2> QED BY <1>6, <2>1
<1>8. ListInv'
  <2>1. ASSUME cache.known, ~cache.missed PROVE TellsNext(cache'.names, cache'.age + Timeout)
    <3>1. PICK age \in Nat, later \in Nat : age = cache.age + Timeout /\ later = cache'.age + Timeout
      BY <1>2, <1>3, <1>5, Ages DEF Caches
    <3>2. later = age + 1 \/ (later = age /\ age >= Old)
      BY <1>2, <1>3, <1>5, <3>1, Ages DEF Caches
    <3>3. PICK names \in SUBSET Name : names = cache.names
      BY <1>2 DEF Caches
    <3>4. Tells(names, age)
      BY <2>1, <3>1, <3>3 DEF ProxyIInv, ListInv
    <3>5. TellsNext(names, later)
      BY <1>1, <1>2, <3>2, <3>4, TellsLater
    <3> QED BY <1>5, <3>1, <3>3, <3>5
  <2>2. ASSUME NEW f \in Flow, fetch[f].state = "answered"
        PROVE  TellsNext(fetch'[f].names, fetch'[f].age)
    <3>1. PICK age \in Nat, later \in Nat : age = fetch[f].age /\ later = fetch'[f].age
      BY <1>2, <1>7 DEF Calls
    <3>2. later = age + 1
      BY <1>6, <2>2, <3>1
    <3>3. PICK names \in SUBSET Name : names = fetch[f].names
      BY <1>2 DEF Calls
    <3>4. Tells(names, age)
      BY <2>2, <3>1, <3>3 DEF ProxyIInv, ListInv
    <3>5. TellsNext(names, later)
      BY <1>1, <1>2, <3>2, <3>4, TellsLater
    <3> QED BY <1>6, <2>2, <3>1, <3>3, <3>5
  <2> QED BY <1>5, <1>6, <2>1, <2>2 DEF ListInv, Tells, TellsNext
<1> QED BY <1>1, <1>4, <1>5, <1>6, <1>7, <1>8, StandStill

-----------------------------------------------------------------------------
\* A step that changes nothing, and every step of the proxy and around it.
LEMMA NextKeeps == ASSUME ProxyIInv, [ProxyNext]_proxyVars PROVE ProxyIInv'
<1>1. CASE UNCHANGED proxyVars
  <2>1. UNCHANGED <<row, cache, flow, fetch, request>>
    BY <1>1 DEF proxyVars
  <2>2. row \in Rows /\ cache \in Caches /\ fetch \in [Flow -> Calls]
    BY Parts DEF ProxyIInv, BaseInv
  <2>3. ListInv'
    BY <2>1 DEF ProxyIInv, ListInv, Tells
  <2> QED BY <2>1, <2>2, <2>3, StandStill
<1>2. ASSUME NEW f \in Flow, ServerConnect(f) \/ ClientHello(f) PROVE ProxyIInv'
  <2>1. CASE ServerConnect(f)
    <3>1. PICK list \in Upstreams(f) :
             HasList(f, list, IF list.known THEN "resolving" ELSE "refused")
      BY <2>1 DEF ServerConnect
    <3>2. flow[f].pc = "connecting"
      BY <2>1 DEF ServerConnect
    <3>3. CASE list.known
      BY <3>1, <3>2, <3>3, HasListKeeps
    <3>4. CASE ~list.known
      BY <3>1, <3>2, <3>4, HasListKeeps
    <3> QED BY <3>3, <3>4
  <2>2. CASE ClientHello(f)
    <3>1. PICK list \in Upstreams(f) :
             HasList(f, list, IF flow[f].name \in list.names THEN "idle" ELSE "blind")
      BY <2>2 DEF ClientHello
    <3>2. flow[f].pc = "hello"
      BY <2>2 DEF ClientHello
    <3>3. CASE flow[f].name \in list.names
      BY <3>1, <3>2, <3>3, HasListKeeps
    <3>4. CASE flow[f].name \notin list.names
      BY <3>1, <3>2, <3>4, HasListKeeps
    <3> QED BY <3>3, <3>4
  <2> QED BY <1>2, <2>1, <2>2
<1> QED BY <1>1, <1>2, AskListKeeps, ExchangeListsKeeps, ConnectKeeps, PinKeeps, RequestKeeps,
        AskKeeps, IssuedKeeps, SilentKeeps, RowChangesKeeps, TickKeeps DEF ProxyNext, FlowStep

\* The proxy starts without a list, and with connections that have not begun.
LEMMA InitIInv == ProxyInit => ProxyIInv
<1> SUFFICES ASSUME ProxyInit PROVE ProxyIInv
  OBVIOUS
<1>1. NoList \in Caches /\ ~NoList.known /\ NoList.names = {}
  BY Ages DEF NoList, Caches
<1>2. \A f \in Flow : flow[f].pc = "new" /\ flow[f].address = "none"
                      /\ fetch[f] = NoFetch /\ request[f] = NoRequest
  BY DEF ProxyInit
<1>3. flow \in [Flow -> Flows] /\ fetch \in [Flow -> Calls] /\ request \in [Flow -> Requests]
  BY Nothing DEF ProxyInit, Flows
<1>4. row \in Rows
  BY Ages DEF ProxyInit, Rows
<1>5. \A f \in Flow : Fits(f)
  BY <1>2, Nothing DEF Fits
<1>6. \A f \in Flow : /\ fetch[f].names \subseteq Name /\ fetch[f].age \in 0 .. Timeout
                      /\ request[f].todo \cup request[f].has \subseteq Service
  BY <1>3 DEF Calls, Requests
<1>7. ProxyTypeOK
  BY <1>1, <1>3, <1>4, <1>5, <1>6 DEF ProxyInit, ProxyTypeOK, Fits, Flows, Rows, Caches
<1>8. BaseInv
  BY <1>2, <1>3, <1>7 DEF BaseInv, KnownWhenPast
<1>9. SwapInv
  BY <1>2 DEF SwapInv, HasApproved, ConnectsToChecked
<1>10. ListInv
  BY <1>1, <1>2, Nothing DEF ProxyInit, ListInv
<1> QED BY <1>8, <1>9, <1>10 DEF ProxyIInv

\* The invariant holds of every state.
LEMMA Inductive == ProxySpec => []ProxyIInv
BY InitIInv, NextKeeps, PTL DEF ProxySpec

\* Nothing leaves the proxy half swapped, with two credentials in a header or with one that
\* is not approved for its name, and no connection goes to an address that was not checked,
\* for every number of connections, names and services (swap, is_reachable).
THEOREM NothingHalfSwapped == ProxySpec => []ProxyInv
<1>1. ProxyIInv => ProxyInv
  <2> SUFFICES ASSUME ProxyIInv PROVE SwappedWhole
    BY DEF ProxyIInv, BaseInv, SwapInv, ProxyInv
  <2> QED BY Parts DEF ProxyIInv, SwapInv, HasApproved, SwappedWhole, Fits
<1> QED BY <1>1, Inductive, PTL

\* A connection is intercepted, or let through, by rows that stand since before the window
\* of the list's life and its call's, for every life and timeout, unless the exchange gave
\* no answer (Swap.upstreams).
THEOREM DecisionsAreRecent == ProxySpec => DecidedByRecentList
<1>1. ASSUME ProxyIInv, [ProxyNext]_proxyVars, NEW f \in Flow, flow[f].pc = "hello",
             flow'[f].pc \in {"idle", "blind"}
      PROVE  /\ cache'.known
             /\ \/ cache'.missed
                \/ /\ flow'[f].pc = "blind" =>
                         \A s \in Service : row[s].there /\ LongSince(s) =>
                                                flow[f].name \notin Approved[s]
                   /\ flow'[f].pc = "idle" =>
                         \E s \in Service : flow[f].name \in Approved[s]
                                            /\ (row[s].there \/ ~LongSince(s))
  <2>1. flow \in [Flow -> Flows] /\ cache.known /\ row \in Rows /\ cache \in Caches
        /\ fetch[f] \in Calls
    BY <1>1, Parts DEF ProxyIInv, BaseInv, KnownWhenPast
  <2>2. ClientHello(f)
    <3>1. flow' # flow
      BY <1>1
    <3>2. PICK g \in Flow : FlowStep(g)
      BY <1>1, <3>1 DEF ProxyNext, proxyVars, RowChanges, ProxyTick
    <3>3. CASE g # f
      <4>1. flow'[f] = flow[f]
        BY <2>1, <3>2, <3>3 DEF FlowStep, AskList, ExchangeLists, Connect, ServerConnect, HasList,
           Pin, ClientHello, Request, Answered, Ask, Issued, Silent, GivenUp, Goes
      <4> QED BY <1>1, <4>1
    <3>4. CASE g = f
      <4>1. request[f].asked = NoService
        BY <1>1, Parts DEF ProxyIInv, Fits
      <4> QED BY <1>1, <3>1, <3>2, <3>4, <4>1 DEF FlowStep, AskList, ExchangeLists, Connect,
              ServerConnect, Pin, Request, Ask, Issued, Silent
    <3> QED BY <3>3, <3>4
  <2>3. PICK list \in Upstreams(f) :
           HasList(f, list, IF flow[f].name \in list.names THEN "idle" ELSE "blind")
    BY <2>2 DEF ClientHello
  <2>4. cache' = list
    BY <2>3 DEF HasList
  <2>5. ListGoesOn /\ cache'.known
    BY <1>1, <2>1, <2>4, UpstreamsGoOn DEF ListGoesOn
  <2>6. ASSUME ~cache'.missed PROVE Tells(list.names, TTL + Timeout)
    <3>1. CASE fetch[f].state = "none"
      <4>1. cache' = cache /\ cache.age <= TTL
        BY <1>1, <2>4, <3>1, UpstreamsGoOn
      <4>2. Tells(cache.names, cache.age + Timeout)
        BY <1>1, <2>1, <2>6, <4>1 DEF ProxyIInv, ListInv
      <4>3. cache.age + Timeout \in Nat /\ TTL + Timeout \in Nat
            /\ cache.age + Timeout <= TTL + Timeout
        BY <2>1, <4>1, Ages DEF Caches
      <4> QED BY <2>1, <2>4, <4>1, <4>2, <4>3, TellsMore
    <3>2. CASE fetch[f].state # "none"
      <4>1. cache' = Answer(f) /\ fetch[f].state = "answered"
        BY <1>1, <2>4, <2>6, <3>2, UpstreamsGoOn
      <4>2. Tells(fetch[f].names, fetch[f].age) /\ list.names = fetch[f].names
        BY <1>1, <2>4, <4>1 DEF ProxyIInv, ListInv, Answer
      <4>3. fetch[f].age \in Nat /\ TTL + Timeout \in Nat /\ fetch[f].age <= TTL + Timeout
        BY <2>1, Ages DEF Calls
      <4> QED BY <2>1, <4>2, <4>3, TellsMore
    <3> QED BY <3>1, <3>2
  <2>7. \A s \in Service : /\ LongSince(s) <=> row[s].age > TTL + Timeout
                           /\ ~LongSince(s) <=> row[s].age <= TTL + Timeout
    BY <2>1, Ages DEF LongSince, Rows
  <2>8. flow'[f].pc = "idle" <=> flow[f].name \in list.names
    <3>1. ASSUME NEW pc \in {"idle", "blind"}, HasList(f, list, pc) PROVE flow'[f].pc = pc
      BY <2>1, <3>1, AtValue DEF HasList, Goes
    <3>2. CASE flow[f].name \in list.names
      BY <2>3, <3>1, <3>2
    <3>3. CASE flow[f].name \notin list.names
      BY <2>3, <3>1, <3>3
    <3> QED BY <3>2, <3>3
  <2> QED BY <2>5, <2>6, <2>7, <2>8 DEF Tells
<1>2. ProxyIInv /\ [ProxyNext]_proxyVars => [\A f \in Flow : flow[f].pc = "hello" /\ flow'[f].pc \in {"idle", "blind"} =>
          /\ cache'.known
          /\ \/ cache'.missed
             \/ /\ flow'[f].pc = "blind" =>
                      \A s \in Service : row[s].there /\ LongSince(s) =>
                                             flow[f].name \notin Approved[s]
                /\ flow'[f].pc = "idle" =>
                      \E s \in Service : flow[f].name \in Approved[s]
                                         /\ (row[s].there \/ ~LongSince(s))]_proxyVars
  BY <1>1
<1> QED BY <1>2, Inductive, PTL DEF DecidedByRecentList, ProxySpec

=============================================================================
