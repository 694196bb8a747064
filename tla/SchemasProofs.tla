---------------------------- MODULE SchemasProofs -----------------------------
(***************************************************************************)
(* What the builder's reducer does to a schema, for schemas of any size:   *)
(* a schema that is sound stays sound, and a drop only rearranges it.      *)
(***************************************************************************)
EXTENDS Schemas, SequenceTheorems, FiniteSetTheorems, WellFoundedInduction, TLAPS

(* Ids name one field and one section, a list of options is never empty,   *)
(* and no field is of an edit that is yet to come.                         *)
Sound(schema, n) ==
    /\ schema \in TemplateSchema
    /\ UniqueFieldIds(schema)
    /\ \A s, z \in DOMAIN schema : schema[s].id = schema[z].id => s = z
    /\ \A p \in Places(schema) :
          /\ FieldAt(schema, p).type = "select" => FieldAt(schema, p).options # << >>
          /\ FieldAt(schema, p).birth <= n

SectionsFrom(new, old) ==
    \E h \in Injection(DOMAIN new, DOMAIN old) :
        \A z \in DOMAIN new : new[z].id = old[h[z]].id

(* Every field of "new" is one of "old", each of them used once; what was  *)
(* edited in it is neither its id nor when it was added.                   *)
Drawn(new, old) ==
    /\ new \in TemplateSchema
    /\ SectionsFrom(new, old)
    /\ \E g \in Injection(Places(new), Places(old)) :
          \A p \in Places(new) :
             /\ FieldAt(new, p).id = FieldAt(old, g[p]).id
             /\ FieldAt(new, p).birth = FieldAt(old, g[p]).birth
             /\ FieldAt(new, p).type = "select" => FieldAt(new, p).options # << >>

(* "new" has the fields of "old" at other places.                          *)
Rearranged(new, old) ==
    /\ new \in TemplateSchema
    /\ SectionsFrom(new, old)
    /\ \E g \in Bijection(Places(new), Places(old)) :
          \A p \in Places(new) : FieldAt(new, p) = FieldAt(old, g[p])

-----------------------------------------------------------------------------
(* Places.                                                                 *)
LEMMA PlaceIs ==
  ASSUME NEW schema
  PROVE  /\ \A s, f : <<s, f>> \in Places(schema)
                        <=> s \in DOMAIN schema /\ f \in DOMAIN schema[s].fields
         /\ \A p \in Places(schema) :
               /\ p = <<p[1], p[2]>>
               /\ p[1] \in DOMAIN schema /\ p[2] \in DOMAIN schema[p[1]].fields
  BY DEF Places

(* The sections and the fields of a schema are what its type says.         *)
LEMMA SchemaParts ==
  ASSUME NEW schema \in TemplateSchema
  PROVE  /\ Len(schema) \in Nat /\ DOMAIN schema = 1 .. Len(schema)
         /\ \A s \in DOMAIN schema :
               /\ schema[s] \in Section
               /\ schema[s].fields \in Seq(Field)
               /\ Len(schema[s].fields) \in Nat
               /\ DOMAIN schema[s].fields = 1 .. Len(schema[s].fields)
         /\ \A p \in Places(schema) : FieldAt(schema, p) \in Field
  <1>1. Len(schema) \in Nat /\ DOMAIN schema = 1 .. Len(schema)
    BY LenProperties DEF TemplateSchema
  <1>2. ASSUME NEW s \in DOMAIN schema
        PROVE  /\ schema[s] \in Section
               /\ schema[s].fields \in Seq(Field)
               /\ Len(schema[s].fields) \in Nat
               /\ DOMAIN schema[s].fields = 1 .. Len(schema[s].fields)
    <2>1. schema[s] \in Section
      BY <1>1, ElementOfSeq DEF TemplateSchema
    <2>2. schema[s].fields \in Seq(Field)
      BY <2>1 DEF Section
    <2> QED
      BY <2>1, <2>2, LenProperties
  <1>3. ASSUME NEW p \in Places(schema)
        PROVE  FieldAt(schema, p) \in Field
    <2>1. p[1] \in DOMAIN schema /\ p[2] \in DOMAIN schema[p[1]].fields
      BY PlaceIs
    <2> QED
      BY <1>2, <2>1, ElementOfSeq DEF FieldAt
  <1> QED
    BY <1>1, <1>2, <1>3

LEMMA PlacesAreFinite ==
  ASSUME NEW schema \in TemplateSchema
  PROVE  IsFiniteSet(Places(schema))
  <1> DEFINE Row(s) == {s} \X DOMAIN schema[s].fields
             rows == [s \in DOMAIN schema |-> Row(s)]
             all == {Row(s) : s \in DOMAIN schema}
  <1>1. IsFiniteSet(DOMAIN schema)
    BY SchemaParts, FS_Interval
  <1>2. IsFiniteSet(all)
    <2>1. rows \in Surjection(DOMAIN schema, all)
      BY DEF Surjection
    <2> QED
      BY <1>1, <2>1, FS_Surjection
  <1>3. \A s \in DOMAIN schema : IsFiniteSet(Row(s))
    <2> SUFFICES ASSUME NEW s \in DOMAIN schema PROVE IsFiniteSet(Row(s))
      OBVIOUS
    <2>1. IsFiniteSet(DOMAIN schema[s].fields)
      <3>1. Len(schema[s].fields) \in Nat /\ DOMAIN schema[s].fields = 1 .. Len(schema[s].fields)
        BY SchemaParts
      <3>2. IsFiniteSet(1 .. Len(schema[s].fields))
        BY <3>1, FS_Interval
      <3> QED
        BY <3>1, <3>2
    <2>2. IsFiniteSet({s})
      BY FS_Singleton
    <2>3. \A A, B : IsFiniteSet(A) /\ IsFiniteSet(B) => IsFiniteSet(A \X B)
      BY FS_Product
    <2> QED
      BY <2>1, <2>2, <2>3, Zenon
  <1> QED
    BY <1>2, <1>3, FS_UNION DEF Places

(* Ids found in a schema are finitely many.                                *)
LEMMA IdsAreFinite ==
  ASSUME NEW schema \in TemplateSchema
  PROVE  /\ IsFiniteSet(collectFieldIds(schema))
         /\ IsFiniteSet({schema[s].id : s \in DOMAIN schema})
  <1>1. IsFiniteSet(collectFieldIds(schema))
    <2>1. [p \in Places(schema) |-> FieldAt(schema, p).id]
             \in Surjection(Places(schema), collectFieldIds(schema))
      BY DEF Surjection, collectFieldIds, FieldsOf
    <2> QED
      BY <2>1, PlacesAreFinite, FS_Surjection
  <1>2. IsFiniteSet({schema[s].id : s \in DOMAIN schema})
    <2>1. [s \in DOMAIN schema |-> schema[s].id]
             \in Surjection(DOMAIN schema, {schema[s].id : s \in DOMAIN schema})
      BY DEF Surjection
    <2>2. IsFiniteSet(DOMAIN schema)
      BY SchemaParts, FS_Interval
    <2> QED
      BY <2>1, <2>2, FS_Surjection
  <1> QED
    BY <1>1, <1>2

-----------------------------------------------------------------------------
(* A set of numbers that is not empty has a least one.                     *)
LEMMA Least ==
  ASSUME NEW S, S \subseteq Nat, S # {}
  PROVE  \E m \in S : \A n \in S : m <= n
  <1> DEFINE R == StrictSubsetOrdering(Nat)
             T == {1..n : n \in S}
  <1>1. IsWellFoundedOn(R, FiniteSubsetsOf(Nat))
    BY FS_StrictSubsetOrderingWellFounded
  <1>2. T \subseteq FiniteSubsetsOf(Nat) /\ T # {}
    <2>1. \A n \in S : 1..n \in SUBSET Nat /\ IsFiniteSet(1..n)
      BY FS_Interval
    <2>2. \A n \in S : 1..n \in FiniteSubsetsOf(Nat)
      BY <2>1, Zenon DEF FiniteSubsetsOf
    <2> QED
      BY <2>2
  <1>3. \A m, n \in S : n < m => <<1..n, 1..m>> \in R
    BY DEF StrictSubsetOrdering
  <1>4. PICK t \in T : \A u \in T : ~(<<u, t>> \in R)
    <2> HIDE DEF R, T
    <2> QED
      BY <1>1, <1>2, WFMin
  <1>5. PICK m \in S : t = 1..m
    BY <1>4
  <1>6. \A n \in S : ~(n < m)
    <2> HIDE DEF R
    <2> QED
      BY <1>3, <1>4, <1>5
  <1> QED
    BY <1>6

(* The builder's next id is one no field, or no section, has.              *)
THEOREM NextIdIsNew ==
  ASSUME NEW existing, IsFiniteSet(existing)
  PROVE  nextUniqueId(existing) \in Nat /\ nextUniqueId(existing) \notin existing
  <1> DEFINE count == Cardinality(existing)
             free == (1 .. count + 1) \ existing
  <1>1. count \in Nat
    BY FS_CardinalityType
  <1>2. free # {}
    <2> SUFFICES ASSUME 1 .. count + 1 \subseteq existing PROVE FALSE
      OBVIOUS
    <2>1. Cardinality(1 .. count + 1) <= count
      BY FS_Subset
    <2>2. Cardinality(1 .. count + 1) = count + 1
      BY <1>1, FS_Interval
    <2> QED
      BY <1>1, <2>1, <2>2
  <1>3. free \subseteq Nat
    OBVIOUS
  <1>4. PICK m \in free : \A n \in free : m <= n
    <2> HIDE DEF free
    <2> QED
      BY <1>2, <1>3, Least
  <1>5. m \in 1 .. count + 1 /\ m \notin existing /\ \A k \in 1 .. m - 1 : k \in existing
    <2>1. \A k \in 1 .. m - 1 : k \in 1 .. count + 1 /\ ~(m <= k)
      BY <1>1, <1>4
    <2> QED
      BY <1>4, <2>1
  <1>6. \E n \in 1 .. count + 1 : n \notin existing /\ \A k \in 1 .. n - 1 : k \in existing
    BY <1>5
  <1>7. nextUniqueId(existing) \in 1 .. count + 1 /\ nextUniqueId(existing) \notin existing
    BY <1>6 DEF nextUniqueId
  <1> QED
    BY <1>1, <1>7

-----------------------------------------------------------------------------
(* Lists with one element put in, taken out or moved.                      *)
IsInserted(longer, list, i, e) ==
  /\ Len(longer) = Len(list) + 1
  /\ \A j \in 1 .. Len(list) + 1 :
        longer[j] = IF j < i THEN list[j] ELSE IF j = i THEN e ELSE list[j - 1]

LEMMA InsertAtProperties ==
  ASSUME NEW S, NEW list \in Seq(S), NEW i \in 1 .. Len(list) + 1, NEW e \in S
  PROVE  InsertAt(list, i, e) \in Seq(S) /\ IsInserted(InsertAt(list, i, e), list, i, e)
  <1> DEFINE before == SubSeq(list, 1, i - 1)
             after == SubSeq(list, i, Len(list))
             front == before \o <<e>>
  <1>1. Len(list) \in Nat /\ i \in Nat /\ i >= 1 /\ i <= Len(list) + 1
    BY LenProperties
  <1>2. \A j \in 1 .. Len(list) : list[j] \in S
    BY ElementOfSeq
  <1>3. /\ before \in Seq(S) /\ Len(before) = i - 1
        /\ \A j \in 1 .. i - 1 : before[j] = list[j]
    <2>1. \A j \in 1 .. i - 1 : list[j] \in S
      BY <1>1, <1>2
    <2>2. /\ before \in Seq(S)
          /\ Len(before) = IF 1 <= i - 1 THEN i - 1 - 1 + 1 ELSE 0
          /\ \A j \in 1 .. i - 1 - 1 + 1 : before[j] = list[1 + j - 1]
      BY <1>1, <2>1, SubSeqProperties
    <2> HIDE DEF before
    <2> QED
      BY <1>1, <2>2
  <1>4. /\ after \in Seq(S) /\ Len(after) = Len(list) - i + 1
        /\ \A j \in 1 .. Len(list) - i + 1 : after[j] = list[i + j - 1]
    <2>1. \A j \in i .. Len(list) : list[j] \in S
      BY <1>1, <1>2
    <2>2. /\ after \in Seq(S)
          /\ Len(after) = IF i <= Len(list) THEN Len(list) - i + 1 ELSE 0
          /\ \A j \in 1 .. Len(list) - i + 1 : after[j] = list[i + j - 1]
      BY <1>1, <2>1, SubSeqProperties
    <2> HIDE DEF after
    <2> QED
      BY <1>1, <2>2
  <1> HIDE DEF before, after
  <1>5. <<e>> \in Seq(S) /\ Len(<<e>>) = 1 /\ <<e>>[1] = e
    OBVIOUS
  <1>6. /\ front \in Seq(S) /\ Len(front) = i
        /\ \A j \in 1 .. i : front[j] = IF j < i THEN list[j] ELSE e
    <2>1. /\ front \in Seq(S) /\ Len(front) = Len(before) + Len(<<e>>)
          /\ \A j \in 1 .. Len(before) + Len(<<e>>) :
                front[j] = IF j <= Len(before) THEN before[j] ELSE <<e>>[j - Len(before)]
      BY <1>3, <1>5, ConcatProperties
    <2> HIDE DEF front
    <2> QED
      BY <1>1, <1>3, <1>5, <2>1
  <1> HIDE DEF front
  <1>7. InsertAt(list, i, e) = front \o after
    BY DEF InsertAt, front, before, after
  <1>8. /\ front \o after \in Seq(S) /\ Len(front \o after) = Len(front) + Len(after)
        /\ \A j \in 1 .. Len(front) + Len(after) :
              (front \o after)[j] = IF j <= Len(front) THEN front[j] ELSE after[j - Len(front)]
    BY <1>4, <1>6, ConcatProperties
  <1>9. \A j \in 1 .. Len(list) + 1 :
           (front \o after)[j] = IF j < i THEN list[j] ELSE IF j = i THEN e ELSE list[j - 1]
    <2> SUFFICES ASSUME NEW j \in 1 .. Len(list) + 1
                 PROVE  (front \o after)[j] = IF j < i THEN list[j]
                                              ELSE IF j = i THEN e ELSE list[j - 1]
      OBVIOUS
    <2>1. CASE j <= i
      BY <1>1, <1>4, <1>6, <1>8, <2>1
    <2>2. CASE j > i
      <3>1. (front \o after)[j] = after[j - i] /\ after[j - i] = list[i + (j - i) - 1]
        BY <1>1, <1>4, <1>6, <1>8, <2>2
      <3>2. i + (j - i) - 1 = j - 1
        BY <1>1
      <3> QED
        BY <1>1, <3>1, <3>2, <2>2
    <2>3. j <= i \/ j > i
      BY <1>1
    <2> QED
      BY <2>1, <2>2, <2>3
  <1> QED
    BY <1>1, <1>4, <1>6, <1>7, <1>8, <1>9 DEF IsInserted

LEMMA RemoveAtProperties ==
  ASSUME NEW S, NEW list \in Seq(S), NEW i \in 1 .. Len(list)
  PROVE  /\ RemoveAt(list, i) \in Seq(S)
         /\ Len(RemoveAt(list, i)) = Len(list) - 1
         /\ \A j \in 1 .. Len(list) - 1 :
               RemoveAt(list, i)[j] = IF j < i THEN list[j] ELSE list[j + 1]
  <1> DEFINE before == SubSeq(list, 1, i - 1)
             after == SubSeq(list, i + 1, Len(list))
  <1>1. Len(list) \in Nat /\ i \in Nat /\ i >= 1 /\ i <= Len(list)
    BY LenProperties
  <1>2. \A j \in 1 .. Len(list) : list[j] \in S
    BY ElementOfSeq
  <1>3. /\ before \in Seq(S) /\ Len(before) = i - 1
        /\ \A j \in 1 .. i - 1 : before[j] = list[j]
    <2>1. \A j \in 1 .. i - 1 : list[j] \in S
      BY <1>1, <1>2
    <2>2. /\ before \in Seq(S)
          /\ Len(before) = IF 1 <= i - 1 THEN i - 1 - 1 + 1 ELSE 0
          /\ \A j \in 1 .. i - 1 - 1 + 1 : before[j] = list[1 + j - 1]
      BY <1>1, <2>1, SubSeqProperties
    <2> HIDE DEF before
    <2> QED
      BY <1>1, <2>2
  <1>4. /\ after \in Seq(S) /\ Len(after) = Len(list) - i
        /\ \A j \in 1 .. Len(list) - i : after[j] = list[i + j]
    <2>1. \A j \in i + 1 .. Len(list) : list[j] \in S
      BY <1>1, <1>2
    <2>2. /\ after \in Seq(S)
          /\ Len(after) = IF i + 1 <= Len(list) THEN Len(list) - (i + 1) + 1 ELSE 0
          /\ \A j \in 1 .. Len(list) - (i + 1) + 1 : after[j] = list[i + 1 + j - 1]
      BY <1>1, <2>1, SubSeqProperties
    <2> HIDE DEF after
    <2>3. \A j \in 1 .. Len(list) - i : i + 1 + j - 1 = i + j
      BY <1>1
    <2> QED
      BY <1>1, <2>2, <2>3
  <1> HIDE DEF before, after
  <1>5. RemoveAt(list, i) = before \o after
    BY DEF RemoveAt, before, after
  <1>6. /\ before \o after \in Seq(S) /\ Len(before \o after) = Len(before) + Len(after)
        /\ \A j \in 1 .. Len(before) + Len(after) :
              (before \o after)[j] = IF j <= Len(before) THEN before[j]
                                     ELSE after[j - Len(before)]
    BY <1>3, <1>4, ConcatProperties
  <1>7. \A j \in 1 .. Len(list) - 1 :
           (before \o after)[j] = IF j < i THEN list[j] ELSE list[j + 1]
    <2> SUFFICES ASSUME NEW j \in 1 .. Len(list) - 1
                 PROVE  (before \o after)[j] = IF j < i THEN list[j] ELSE list[j + 1]
      OBVIOUS
    <2>1. CASE j < i
      BY <1>1, <1>3, <1>4, <1>6, <2>1
    <2>2. CASE j >= i
      <3>1. /\ (before \o after)[j] = after[j - (i - 1)]
            /\ after[j - (i - 1)] = list[i + (j - (i - 1))]
        BY <1>1, <1>3, <1>4, <1>6, <2>2
      <3>2. i + (j - (i - 1)) = j + 1
        BY <1>1
      <3> QED
        BY <1>1, <3>1, <3>2, <2>2
    <2>3. j < i \/ j >= i
      BY <1>1
    <2> QED
      BY <2>1, <2>2, <2>3
  <1> QED
    BY <1>1, <1>3, <1>4, <1>5, <1>6, <1>7

(* A move within a list puts each element at one place.                    *)
LEMMA MoveWithinProperties ==
  ASSUME NEW S, NEW list \in Seq(S), NEW from \in 1 .. Len(list), NEW to \in Nat
  PROVE  /\ MoveWithin(list, from, to) \in Seq(S)
         /\ Len(MoveWithin(list, from, to)) = Len(list)
         /\ \E h \in Bijection(1 .. Len(list), 1 .. Len(list)) :
               \A j \in 1 .. Len(list) : MoveWithin(list, from, to)[j] = list[h[j]]
  <1>1. Len(list) \in Nat /\ DOMAIN list = 1 .. Len(list) /\ from \in Nat
    BY LenProperties
  <1>2. CASE to \notin DOMAIN list
    <2> DEFINE h == [j \in 1 .. Len(list) |-> j]
    <2>1. h \in Bijection(1 .. Len(list), 1 .. Len(list))
      BY DEF Bijection, Injection, Surjection, IsInjective
    <2>2. \A j \in 1 .. Len(list) : list[j] = list[h[j]]
      OBVIOUS
    <2> QED
      BY <1>2, <2>1, <2>2 DEF MoveWithin
  <1>3. CASE to \in DOMAIN list
    <2> DEFINE rest == RemoveAt(list, from)
               kept(j) == IF j < from THEN j ELSE j + 1
               h == [j \in 1 .. Len(list) |->
                       IF j = to THEN from ELSE kept(IF j < to THEN j ELSE j - 1)]
               back(k) == IF k = from THEN to
                          ELSE IF k < from THEN (IF k < to THEN k ELSE k + 1)
                          ELSE IF k - 1 < to THEN k - 1 ELSE k
               new == InsertAt(rest, to, list[from])
    <2>1. /\ rest \in Seq(S) /\ Len(rest) = Len(list) - 1
          /\ \A j \in 1 .. Len(list) - 1 : rest[j] = list[kept(j)]
      <3>1. /\ rest \in Seq(S) /\ Len(rest) = Len(list) - 1
            /\ \A j \in 1 .. Len(list) - 1 :
                  rest[j] = IF j < from THEN list[j] ELSE list[j + 1]
        BY RemoveAtProperties
      <3> QED
        BY <3>1
    <2> HIDE DEF rest
    <2>2. /\ new \in Seq(S) /\ Len(new) = Len(list)
          /\ \A j \in 1 .. Len(list) :
                new[j] = IF j < to THEN rest[j] ELSE IF j = to THEN list[from] ELSE rest[j - 1]
      <3>1. list[from] \in S
        BY ElementOfSeq
      <3>2. to \in 1 .. Len(rest) + 1
        BY <1>1, <1>3, <2>1
      <3>3. rest \in Seq(S)
        BY <2>1
      <3>4. /\ new \in Seq(S) /\ Len(new) = Len(rest) + 1
            /\ \A j \in 1 .. Len(rest) + 1 :
                 new[j] = IF j < to THEN rest[j] ELSE IF j = to THEN list[from] ELSE rest[j - 1]
        <4> DEFINE e == list[from]
        <4>1. e \in S
          BY <3>1
        <4> HIDE DEF e
        <4>2. /\ InsertAt(rest, to, e) \in Seq(S)
              /\ Len(InsertAt(rest, to, e)) = Len(rest) + 1
              /\ \A j \in 1 .. Len(rest) + 1 :
                   InsertAt(rest, to, e)[j] = IF j < to THEN rest[j]
                                              ELSE IF j = to THEN e ELSE rest[j - 1]
          BY <3>2, <3>3, <4>1, InsertAtProperties DEF IsInserted
        <4> QED
          BY <4>2 DEF e
      <3> HIDE DEF new
      <3> QED
        BY <1>1, <2>1, <3>4
    <2> HIDE DEF new
    <2>3. to \in Nat /\ to >= 1 /\ to <= Len(list) /\ from >= 1 /\ from <= Len(list)
      BY <1>1, <1>3
    <2>4. \A j \in 1 .. Len(list) : h[j] \in 1 .. Len(list) /\ back(h[j]) = j
      BY <1>1, <2>3
    <2>5. \A k \in 1 .. Len(list) : back(k) \in 1 .. Len(list) /\ h[back(k)] = k
      BY <1>1, <2>3
    <2>6. \A j \in 1 .. Len(list) : new[j] = list[h[j]]
      <3> SUFFICES ASSUME NEW j \in 1 .. Len(list) PROVE new[j] = list[h[j]]
        OBVIOUS
      <3>1. CASE j = to
        BY <2>2, <2>3, <3>1
      <3>2. CASE j < to
        <4>1. j \in 1 .. Len(list) - 1
          BY <1>1, <2>3, <3>2
        <4>2. new[j] = rest[j] /\ h[j] = kept(j)
          BY <2>2, <2>3, <3>2
        <4> QED
          BY <2>1, <4>1, <4>2
      <3>3. CASE j > to
        <4>1. j - 1 \in 1 .. Len(list) - 1
          BY <1>1, <2>3, <3>3
        <4>2. new[j] = rest[j - 1] /\ h[j] = kept(j - 1)
          BY <2>2, <2>3, <3>3
        <4> QED
          BY <2>1, <4>1, <4>2
      <3> QED
        BY <2>3, <3>1, <3>2, <3>3
    <2>7. h \in [1 .. Len(list) -> 1 .. Len(list)]
      BY <2>4
    <2>8. MoveWithin(list, from, to) = new
      BY <1>3 DEF MoveWithin, new, rest
    <2> HIDE DEF h, back
    <2>9. h \in Bijection(1 .. Len(list), 1 .. Len(list))
      <3>1. \A i, j \in 1 .. Len(list) : h[i] = h[j] => i = j
        BY <2>4
      <3>2. \A k \in 1 .. Len(list) : \E j \in 1 .. Len(list) : h[j] = k
        BY <2>5
      <3> QED
        BY <2>7, <3>1, <3>2 DEF Bijection, Injection, Surjection, IsInjective
    <2> QED
      BY <2>2, <2>6, <2>8, <2>9
  <1> QED
    BY <1>2, <1>3

-----------------------------------------------------------------------------
(* What an edit that draws on the fields there are, or only moves them,    *)
(* preserves.                                                              *)
LEMMA DrawnIsSound ==
  ASSUME NEW old, NEW new, NEW n, Sound(old, n), Drawn(new, old)
  PROVE  Sound(new, n)
  <1>1. PICK h \in Injection(DOMAIN new, DOMAIN old) :
            \A z \in DOMAIN new : new[z].id = old[h[z]].id
    BY DEF Drawn, SectionsFrom
  <1>2. PICK g \in Injection(Places(new), Places(old)) :
          \A p \in Places(new) :
             /\ FieldAt(new, p).id = FieldAt(old, g[p]).id
             /\ FieldAt(new, p).birth = FieldAt(old, g[p]).birth
             /\ FieldAt(new, p).type = "select" => FieldAt(new, p).options # << >>
    BY DEF Drawn
  <1>3. \A s, z \in DOMAIN new : h[s] \in DOMAIN old /\ (h[s] = h[z] => s = z)
    BY DEF Injection, IsInjective
  <1>4. \A p, q \in Places(new) : g[p] \in Places(old) /\ (g[p] = g[q] => p = q)
    BY DEF Injection, IsInjective
  <1>5. UniqueFieldIds(new)
    BY <1>2, <1>4 DEF UniqueFieldIds, Sound
  <1>6. \A s, z \in DOMAIN new : new[s].id = new[z].id => s = z
    BY <1>1, <1>3 DEF Sound
  <1>7. \A p \in Places(new) : FieldAt(new, p).birth <= n
    BY <1>2, <1>4 DEF Sound
  <1> QED
    BY <1>2, <1>5, <1>6, <1>7 DEF Sound, Drawn

LEMMA RearrangedIsSound ==
  ASSUME NEW old, NEW new, NEW n, Sound(old, n), Rearranged(new, old)
  PROVE  Sound(new, n)
  <1>1. PICK g \in Bijection(Places(new), Places(old)) :
          \A p \in Places(new) : FieldAt(new, p) = FieldAt(old, g[p])
    BY DEF Rearranged
  <1>2. g \in Injection(Places(new), Places(old))
    BY DEF Bijection
  <1>3. \A p \in Places(new) : g[p] \in Places(old)
    BY <1>2 DEF Injection
  <1>4. \A p \in Places(new) :
           FieldAt(new, p).type = "select" => FieldAt(new, p).options # << >>
    BY <1>1, <1>3 DEF Sound
  <1>5. Drawn(new, old)
    BY <1>1, <1>2, <1>4 DEF Drawn, Rearranged
  <1> QED
    BY <1>5, DrawnIsSound

LEMMA RearrangedKeepsFields ==
  ASSUME NEW old \in TemplateSchema, NEW new, Rearranged(new, old)
  PROVE  /\ FieldsOf(new) = FieldsOf(old)
         /\ Cardinality(Places(new)) = Cardinality(Places(old))
  <1>1. PICK g \in Bijection(Places(new), Places(old)) :
          \A p \in Places(new) : FieldAt(new, p) = FieldAt(old, g[p])
    BY DEF Rearranged
  <1>2. /\ \A p \in Places(new) : g[p] \in Places(old)
        /\ \A q \in Places(old) : \E p \in Places(new) : g[p] = q
    BY DEF Bijection, Injection, Surjection
  <1>3. FieldsOf(new) = FieldsOf(old)
    BY <1>1, <1>2 DEF FieldsOf
  <1>4. new \in TemplateSchema
    BY DEF Rearranged
  <1>5. IsFiniteSet(Places(new))
    BY <1>4, PlacesAreFinite
  <1>6. ExistsBijection(Places(new), Places(old))
    BY <1>1 DEF ExistsBijection
  <1>7. Cardinality(Places(new)) = Cardinality(Places(old))
    BY <1>5, <1>6, FS_Bijection
  <1> QED
    BY <1>3, <1>7

LEMMA SoundLasts ==
  ASSUME NEW schema, NEW m \in Nat, NEW n \in Nat, m <= n, Sound(schema, m)
  PROVE  Sound(schema, n)
  <1>1. \A p \in Places(schema) : FieldAt(schema, p).birth \in Nat
    BY SchemaParts DEF Sound, Field
  <1> QED
    BY <1>1 DEF Sound

(* A map of places that has an inverse is a bijection.                     *)
LEMMA BothWays ==
  ASSUME NEW S, NEW T, NEW g \in [S -> T], NEW back,
         \A q \in T : back[q] \in S /\ g[back[q]] = q,
         \A p \in S : back[g[p]] = p
  PROVE  g \in Bijection(S, T)
  <1>1. \A p, q \in S : g[p] = g[q] => p = q
    OBVIOUS
  <1>2. \A q \in T : \E p \in S : g[p] = q
    OBVIOUS
  <1> QED
    BY <1>1, <1>2 DEF Bijection, Injection, Surjection, IsInjective

-----------------------------------------------------------------------------
(* The fields of one section are replaced.                                 *)
Refilled(new, schema, s, fields) ==
    /\ new \in TemplateSchema
    /\ DOMAIN new = DOMAIN schema
    /\ \A z \in DOMAIN schema :
          /\ new[z].id = schema[z].id
          /\ new[z].fields = IF z = s THEN fields ELSE schema[z].fields

LEMMA RefillIs ==
  ASSUME NEW schema \in TemplateSchema, NEW s \in DOMAIN schema, NEW fields \in Seq(Field)
  PROVE  Refilled([schema EXCEPT ![s].fields = fields], schema, s, fields)
  <1> DEFINE filled == [schema[s] EXCEPT !.fields = fields]
             new == [schema EXCEPT ![s] = filled]
  <1>1. schema \in Seq(Section) /\ s \in 1 .. Len(schema) /\ DOMAIN schema = 1 .. Len(schema)
    BY SchemaParts DEF TemplateSchema
  <1>2. filled \in Section /\ filled.id = schema[s].id /\ filled.fields = fields
    BY SchemaParts DEF Section
  <1> HIDE DEF filled
  <1>3. /\ new \in Seq(Section) /\ Len(new) = Len(schema)
        /\ \A z \in 1 .. Len(schema) : new[z] = IF z = s THEN filled ELSE schema[z]
    BY <1>1, <1>2, ExceptSeq
  <1>4. DOMAIN new = DOMAIN schema
    BY <1>1
  <1> HIDE DEF new
  <1>5. Refilled(new, schema, s, fields)
    BY <1>1, <1>2, <1>3, <1>4 DEF Refilled, TemplateSchema
  <1> QED
    BY <1>5 DEF new, filled

(* Sections that stay where they are.                                      *)
LEMMA SameSections ==
  ASSUME NEW new, NEW schema, DOMAIN new = DOMAIN schema,
         \A z \in DOMAIN schema : new[z].id = schema[z].id
  PROVE  SectionsFrom(new, schema)
  <1> DEFINE h == [z \in DOMAIN new |-> z]
  <1>1. h \in Injection(DOMAIN new, DOMAIN schema)
    BY DEF Injection, IsInjective
  <1>2. \A z \in DOMAIN new : new[z].id = schema[h[z]].id
    OBVIOUS
  <1> QED
    BY <1>1, <1>2 DEF SectionsFrom

(* One field is replaced by one of the same id.                            *)
LEMMA EditFieldKeeps ==
  ASSUME NEW schema, NEW n, Sound(schema, n), NEW p \in Places(schema),
         NEW field \in Field,
         field.id = FieldAt(schema, p).id, field.birth = FieldAt(schema, p).birth,
         field.type = "select" => field.options # << >>
  PROVE  Sound([schema EXCEPT ![p[1]].fields[p[2]] = field], n)
  <1> DEFINE old == schema[p[1]].fields
             list == [old EXCEPT ![p[2]] = field]
             new == [schema EXCEPT ![p[1]].fields = list]
             g == [q \in Places(new) |-> q]
  <1>1. /\ schema \in TemplateSchema /\ p[1] \in DOMAIN schema
        /\ p[2] \in DOMAIN old /\ p = <<p[1], p[2]>>
    BY PlaceIs DEF Sound
  <1>2. old \in Seq(Field) /\ DOMAIN old = 1 .. Len(old) /\ p[2] \in 1 .. Len(old)
    BY <1>1, SchemaParts
  <1>3. /\ list \in Seq(Field) /\ Len(list) = Len(old)
        /\ \A f \in 1 .. Len(old) : list[f] = IF f = p[2] THEN field ELSE old[f]
    <2> HIDE DEF old
    <2> QED
      BY <1>2, ExceptSeq
  <1>4. DOMAIN list = DOMAIN old
    OBVIOUS
  <1>5. Refilled(new, schema, p[1], list)
    <2> HIDE DEF list
    <2> QED
      BY <1>1, <1>3, RefillIs
  <1> HIDE DEF list, new
  <1>6. \A s \in DOMAIN schema : DOMAIN new[s].fields = DOMAIN schema[s].fields
    BY <1>4, <1>5 DEF Refilled
  <1>7. Places(new) = Places(schema)
    BY <1>5, <1>6 DEF Places, Refilled
  <1>8. \A q \in Places(schema) :
          FieldAt(new, q) = IF q = p THEN field ELSE FieldAt(schema, q)
    <2> SUFFICES ASSUME NEW q \in Places(schema)
                 PROVE  FieldAt(new, q) = IF q = p THEN field ELSE FieldAt(schema, q)
      OBVIOUS
    <2>1. q = <<q[1], q[2]>> /\ q[1] \in DOMAIN schema /\ q[2] \in DOMAIN schema[q[1]].fields
      BY PlaceIs
    <2>2. CASE q[1] = p[1]
      <3>1. new[q[1]].fields = list /\ q[2] \in 1 .. Len(old)
        BY <1>2, <1>5, <2>1, <2>2 DEF Refilled
      <3> QED
        BY <1>1, <1>3, <2>1, <2>2, <3>1 DEF FieldAt
    <2>3. CASE q[1] # p[1]
      BY <1>5, <2>1, <2>3 DEF FieldAt, Refilled
    <2> QED
      BY <2>2, <2>3
  <1>9. Drawn(new, schema)
    <2>1. new \in TemplateSchema /\ SectionsFrom(new, schema)
      BY <1>5, SameSections DEF Refilled
    <2>2. g \in Injection(Places(new), Places(schema))
      BY <1>7 DEF Injection, IsInjective
    <2>3. \A q \in Places(new) :
             /\ FieldAt(new, q).id = FieldAt(schema, g[q]).id
             /\ FieldAt(new, q).birth = FieldAt(schema, g[q]).birth
             /\ FieldAt(new, q).type = "select" => FieldAt(new, q).options # << >>
      BY <1>7, <1>8 DEF Sound
    <2> HIDE DEF g
    <2> QED
      BY <2>1, <2>2, <2>3 DEF Drawn
  <1>10. Sound(new, n)
    BY <1>9, DrawnIsSound
  <1> QED
    BY <1>10 DEF new, list

LEMMA RelabelKeeps ==
  ASSUME NEW schema, NEW n, Sound(schema, n), NEW p \in Places(schema), NEW label \in Labels
  PROVE  Sound([schema EXCEPT ![p[1]].fields[p[2]].label = label], n)
  <1> DEFINE field == [FieldAt(schema, p) EXCEPT !.label = label]
  <1>1. FieldAt(schema, p) \in Field
    BY SchemaParts DEF Sound
  <1>2. /\ field \in Field /\ field.id = FieldAt(schema, p).id
        /\ field.birth = FieldAt(schema, p).birth
        /\ field.type = FieldAt(schema, p).type /\ field.options = FieldAt(schema, p).options
    BY <1>1 DEF Field
  <1>3. field.type = "select" => field.options # << >>
    BY <1>2 DEF Sound
  <1> HIDE DEF field
  <1>4. Sound([schema EXCEPT ![p[1]].fields[p[2]] = field], n)
    BY <1>2, <1>3, EditFieldKeeps
  <1> QED
    BY <1>4 DEF field, FieldAt

LEMMA OptionsKeep ==
  ASSUME NEW schema, NEW n, Sound(schema, n), NEW p \in Places(schema),
         NEW options \in Seq(Options), options # << >>
  PROVE  Sound([schema EXCEPT ![p[1]].fields[p[2]].options = options], n)
  <1> DEFINE field == [FieldAt(schema, p) EXCEPT !.options = options]
  <1>1. FieldAt(schema, p) \in Field
    BY SchemaParts DEF Sound
  <1>2. /\ field \in Field /\ field.id = FieldAt(schema, p).id
        /\ field.birth = FieldAt(schema, p).birth
        /\ field.options = options
    BY <1>1 DEF Field
  <1> HIDE DEF field
  <1>3. Sound([schema EXCEPT ![p[1]].fields[p[2]] = field], n)
    BY <1>2, EditFieldKeeps
  <1> QED
    BY <1>3 DEF field, FieldAt

(* What the options editor dispatches.                                     *)
LEMMA OptionEditsKeep ==
  ASSUME NEW schema, NEW n, Sound(schema, n), NEW p \in Places(schema)
  PROVE  /\ Sound(AddOption(schema, p), n)
         /\ \A i \in DOMAIN FieldAt(schema, p).options :
               /\ \A value \in Options : Sound(EditOption(schema, p, i, value), n)
               /\ Len(FieldAt(schema, p).options) > 1 => Sound(RemoveOption(schema, p, i), n)
  <1> DEFINE options == FieldAt(schema, p).options
  <1>1. options \in Seq(Options)
    BY SchemaParts DEF Sound, Field
  <1>2. Len(options) \in Nat /\ DOMAIN options = 1 .. Len(options)
    BY <1>1, LenProperties
  <1>3. Sound(AddOption(schema, p), n)
    <2> HIDE DEF options
    <2>1. "New option" \in Options
      BY DEF Options
    <2>2. Append(options, "New option") \in Seq(Options) /\ Append(options, "New option") # << >>
      BY <1>1, <2>1, AppendProperties
    <2>3. Sound([schema EXCEPT ![p[1]].fields[p[2]].options = Append(options, "New option")], n)
      BY <2>2, OptionsKeep
    <2> QED
      BY <2>3 DEF AddOption, options, FieldAt
  <1>4. ASSUME NEW i \in DOMAIN options, NEW value \in Options
        PROVE  Sound(EditOption(schema, p, i, value), n)
    <2> DEFINE edited == [options EXCEPT ![i] = value]
    <2> HIDE DEF options
    <2>1. edited \in Seq(Options) /\ Len(edited) = Len(options)
      BY <1>1, <1>2, <1>4, ExceptSeq
    <2>2. edited # << >>
      BY <1>2, <1>4, <2>1, EmptySeq
    <2> HIDE DEF edited
    <2>3. Sound([schema EXCEPT ![p[1]].fields[p[2]].options = edited], n)
      BY <2>1, <2>2, OptionsKeep
    <2> QED
      BY <2>3 DEF EditOption, edited, options, FieldAt
  <1>5. ASSUME NEW i \in DOMAIN options, Len(options) > 1
        PROVE  Sound(RemoveOption(schema, p, i), n)
    <2> HIDE DEF options
    <2>1. RemoveAt(options, i) \in Seq(Options) /\ Len(RemoveAt(options, i)) = Len(options) - 1
      BY <1>1, <1>2, <1>5, RemoveAtProperties
    <2>2. RemoveAt(options, i) # << >>
      BY <1>2, <1>5, <2>1, EmptySeq
    <2>3. Sound([schema EXCEPT ![p[1]].fields[p[2]].options = RemoveAt(options, i)], n)
      BY <2>1, <2>2, OptionsKeep
    <2> QED
      BY <2>3 DEF RemoveOption, options, FieldAt
  <1> QED
    BY <1>3, <1>4, <1>5

-----------------------------------------------------------------------------
(* Sections: one is added, taken out, relabelled or moved.                 *)
LEMMA AddSectionKeeps ==
  ASSUME NEW schema, NEW n, Sound(schema, n)
  PROVE  Sound(AddSection(schema), n)
  <1> DEFINE id == nextUniqueId({schema[s].id : s \in DOMAIN schema})
             section == [id |-> id, label |-> "fine", fields |-> << >>]
             new == Append(schema, section)
  <1>1. /\ schema \in Seq(Section) /\ Len(schema) \in Nat /\ DOMAIN schema = 1 .. Len(schema)
        /\ schema \in TemplateSchema
    BY SchemaParts DEF Sound, TemplateSchema
  <1>2. id \in Nat /\ \A s \in DOMAIN schema : schema[s].id # id
    <2>1. IsFiniteSet({schema[s].id : s \in DOMAIN schema})
      BY <1>1, IdsAreFinite
    <2>2. id \in Nat /\ id \notin {schema[s].id : s \in DOMAIN schema}
      BY <2>1, NextIdIsNew
    <2> QED
      BY <2>2
  <1> HIDE DEF id
  <1>3. section \in Section /\ section.id = id /\ DOMAIN section.fields = {}
    BY <1>2, EmptySeq DEF Section, Labels
  <1> HIDE DEF section
  <1>4. /\ new \in Seq(Section) /\ Len(new) = Len(schema) + 1
        /\ \A s \in 1 .. Len(schema) : new[s] = schema[s]
        /\ new[Len(schema) + 1] = section
    BY <1>1, <1>3, AppendProperties
  <1>5. DOMAIN new = 1 .. Len(schema) + 1
    BY <1>4, LenProperties
  <1> HIDE DEF new
  <1>6. Places(new) = Places(schema)
    <2>1. ASSUME NEW s, NEW f
          PROVE  <<s, f>> \in Places(new) <=> <<s, f>> \in Places(schema)
      <3>1. /\ <<s, f>> \in Places(new) <=> s \in DOMAIN new /\ f \in DOMAIN new[s].fields
            /\ <<s, f>> \in Places(schema)
                   <=> s \in DOMAIN schema /\ f \in DOMAIN schema[s].fields
        BY PlaceIs
      <3>2. s \in DOMAIN new => s \in DOMAIN schema \/ s = Len(schema) + 1
        BY <1>1, <1>5
      <3>3. s \in DOMAIN schema => s \in DOMAIN new /\ new[s] = schema[s]
        BY <1>1, <1>4, <1>5
      <3>4. s = Len(schema) + 1 => f \notin DOMAIN new[s].fields
        BY <1>3, <1>4
      <3> QED
        BY <3>1, <3>2, <3>3, <3>4
    <2>2. ASSUME NEW p \in Places(new) PROVE p \in Places(schema)
      <3>1. p = <<p[1], p[2]>>
        BY PlaceIs
      <3> QED
        BY <2>1, <3>1
    <2>3. ASSUME NEW p \in Places(schema) PROVE p \in Places(new)
      <3>1. p = <<p[1], p[2]>>
        BY PlaceIs
      <3> QED
        BY <2>1, <3>1
    <2> QED
      BY <2>2, <2>3
  <1>7. \A p \in Places(schema) : FieldAt(new, p) = FieldAt(schema, p)
    BY <1>1, <1>4, PlaceIs DEF FieldAt
  <1>8. \A s, z \in DOMAIN new : new[s].id = new[z].id => s = z
    BY <1>1, <1>2, <1>3, <1>4, <1>5 DEF Sound
  <1>9. UniqueFieldIds(new)
    BY <1>6, <1>7 DEF UniqueFieldIds, Sound
  <1>10. new \in TemplateSchema
    BY <1>4 DEF TemplateSchema
  <1>11. Sound(new, n)
    BY <1>6, <1>7, <1>8, <1>9, <1>10 DEF Sound
  <1> QED
    BY <1>11 DEF AddSection, new, section, id

LEMMA RemoveSectionKeeps ==
  ASSUME NEW schema, NEW n, Sound(schema, n), NEW s \in DOMAIN schema
  PROVE  Sound(RemoveAt(schema, s), n)
  <1> DEFINE new == RemoveAt(schema, s)
             kept(z) == IF z < s THEN z ELSE z + 1
             h == [z \in DOMAIN new |-> kept(z)]
             g == [p \in Places(new) |-> <<kept(p[1]), p[2]>>]
  <1>1. /\ schema \in Seq(Section) /\ Len(schema) \in Nat /\ DOMAIN schema = 1 .. Len(schema)
    BY SchemaParts DEF Sound, TemplateSchema
  <1>2. /\ new \in Seq(Section) /\ Len(new) = Len(schema) - 1
        /\ \A z \in 1 .. Len(schema) - 1 : new[z] = schema[kept(z)]
    <2>1. /\ new \in Seq(Section) /\ Len(new) = Len(schema) - 1
          /\ \A z \in 1 .. Len(schema) - 1 : new[z] = IF z < s THEN schema[z] ELSE schema[z + 1]
      BY <1>1, RemoveAtProperties
    <2> HIDE DEF new
    <2> QED
      BY <2>1
  <1>3. DOMAIN new = 1 .. Len(schema) - 1
    BY <1>2, LenProperties
  <1> HIDE DEF new
  <1>4. /\ \A z \in DOMAIN new : kept(z) \in DOMAIN schema /\ new[z] = schema[kept(z)]
        /\ \A y, z \in DOMAIN new : kept(y) = kept(z) => y = z
    BY <1>1, <1>2, <1>3
  <1> HIDE DEF kept
  <1>5. h \in Injection(DOMAIN new, DOMAIN schema)
    BY <1>4 DEF Injection, IsInjective
  <1>6. \A p \in Places(new) : g[p] \in Places(schema) /\ FieldAt(new, p) = FieldAt(schema, g[p])
    BY <1>4, PlaceIs DEF FieldAt
  <1>7. \A p, q \in Places(new) : g[p] = g[q] => p = q
    BY <1>4, PlaceIs
  <1>8. g \in Injection(Places(new), Places(schema))
    BY <1>6, <1>7 DEF Injection, IsInjective
  <1>9. SectionsFrom(new, schema)
    BY <1>4, <1>5 DEF SectionsFrom
  <1>10. \A p \in Places(new) : FieldAt(new, p).type = "select" => FieldAt(new, p).options # << >>
    BY <1>6 DEF Sound
  <1> HIDE DEF g
  <1>11. Drawn(new, schema)
    BY <1>2, <1>6, <1>8, <1>9, <1>10 DEF Drawn, TemplateSchema
  <1> QED
    BY <1>11, DrawnIsSound DEF new

LEMMA RelabelSectionKeeps ==
  ASSUME NEW schema, NEW n, Sound(schema, n), NEW s \in DOMAIN schema, NEW label \in Labels
  PROVE  Sound([schema EXCEPT ![s].label = label], n)
  <1> DEFINE section == [schema[s] EXCEPT !.label = label]
             new == [schema EXCEPT ![s] = section]
             g == [p \in Places(new) |-> p]
  <1>1. schema \in Seq(Section) /\ s \in 1 .. Len(schema) /\ DOMAIN schema = 1 .. Len(schema)
    BY SchemaParts DEF Sound, TemplateSchema
  <1>2. section \in Section /\ section.id = schema[s].id /\ section.fields = schema[s].fields
    BY SchemaParts DEF Sound, Section
  <1> HIDE DEF section
  <1>3. /\ new \in Seq(Section) /\ DOMAIN new = DOMAIN schema
        /\ \A z \in DOMAIN schema : new[z].id = schema[z].id /\ new[z].fields = schema[z].fields
    <2>1. /\ new \in Seq(Section)
          /\ \A z \in 1 .. Len(schema) : new[z] = IF z = s THEN section ELSE schema[z]
      BY <1>1, <1>2, ExceptSeq
    <2> QED
      BY <1>1, <1>2, <2>1
  <1> HIDE DEF new
  <1>4. Places(new) = Places(schema)
    BY <1>3 DEF Places
  <1>5. \A p \in Places(schema) : FieldAt(new, p) = FieldAt(schema, p)
    BY <1>3, PlaceIs DEF FieldAt
  <1>6. g \in Injection(Places(new), Places(schema))
    BY <1>4 DEF Injection, IsInjective
  <1>7. SectionsFrom(new, schema)
    BY <1>3, SameSections
  <1>8. \A p \in Places(new) : g[p] = p
    OBVIOUS
  <1> HIDE DEF g
  <1>9. Drawn(new, schema)
    BY <1>3, <1>4, <1>5, <1>6, <1>7, <1>8 DEF Drawn, TemplateSchema, Sound
  <1> QED
    BY <1>9, DrawnIsSound DEF new, section

(* Dropping a section somewhere else loses, doubles and alters no section  *)
(* and no field (builderReducer, moveWithin).                              *)
THEOREM MoveSectionRearranges ==
  ASSUME NEW schema \in TemplateSchema, NEW s \in DOMAIN schema, NEW to \in DOMAIN schema
  PROVE  Rearranged(MoveWithin(schema, s, to), schema)
  <1> DEFINE new == MoveWithin(schema, s, to)
  <1>1. /\ schema \in Seq(Section) /\ DOMAIN schema = 1 .. Len(schema)
        /\ s \in 1 .. Len(schema) /\ to \in Nat
    BY SchemaParts DEF TemplateSchema
  <1>2. /\ new \in Seq(Section) /\ Len(new) = Len(schema)
        /\ \E h \in Bijection(1 .. Len(schema), 1 .. Len(schema)) :
              \A j \in 1 .. Len(schema) : new[j] = schema[h[j]]
    BY <1>1, MoveWithinProperties
  <1>3. PICK h \in Bijection(1 .. Len(schema), 1 .. Len(schema)) :
              \A j \in 1 .. Len(schema) : new[j] = schema[h[j]]
    BY <1>2
  <1>4. DOMAIN new = DOMAIN schema
    BY <1>1, <1>2, LenProperties
  <1> HIDE DEF new
  <1> DEFINE g == [p \in Places(new) |-> <<h[p[1]], p[2]>>]
  <1>5. /\ h \in Injection(DOMAIN new, DOMAIN schema)
        /\ \A z \in DOMAIN new : h[z] \in DOMAIN schema /\ new[z] = schema[h[z]]
        /\ \A y, z \in DOMAIN new : h[y] = h[z] => y = z
        /\ \A k \in DOMAIN schema : \E z \in DOMAIN new : h[z] = k
    BY <1>1, <1>3, <1>4 DEF Bijection, Injection, Surjection, IsInjective
  <1>6. \A p \in Places(new) : g[p] \in Places(schema) /\ FieldAt(new, p) = FieldAt(schema, g[p])
    BY <1>5, PlaceIs DEF FieldAt
  <1>7. \A p, q \in Places(new) : g[p] = g[q] => p = q
    <2> SUFFICES ASSUME NEW p \in Places(new), NEW q \in Places(new), g[p] = g[q]
                 PROVE  p = q
      OBVIOUS
    <2>1. h[p[1]] = h[q[1]] /\ p[2] = q[2]
      OBVIOUS
    <2>2. /\ p = <<p[1], p[2]>> /\ p[1] \in DOMAIN new
          /\ q = <<q[1], q[2]>> /\ q[1] \in DOMAIN new
      BY PlaceIs
    <2>3. p[1] = q[1]
      BY <1>5, <2>1, <2>2
    <2> QED
      BY <2>1, <2>2, <2>3
  <1>8. \A q \in Places(schema) : \E p \in Places(new) : g[p] = q
    <2> SUFFICES ASSUME NEW q \in Places(schema) PROVE \E p \in Places(new) : g[p] = q
      OBVIOUS
    <2>1. q = <<q[1], q[2]>> /\ q[1] \in DOMAIN schema /\ q[2] \in DOMAIN schema[q[1]].fields
      BY PlaceIs
    <2>2. PICK z \in DOMAIN new : h[z] = q[1]
      BY <1>5, <2>1
    <2>3. new[z] = schema[q[1]]
      BY <1>5, <2>2
    <2>4. q[2] \in DOMAIN new[z].fields
      BY <2>1, <2>3
    <2>5. <<z, q[2]>> \in Places(new)
      BY <2>4, PlaceIs
    <2>6. g[<<z, q[2]>>] = <<h[z], q[2]>>
      BY <2>5
    <2> QED
      BY <2>1, <2>2, <2>5, <2>6
  <1>9. g \in Bijection(Places(new), Places(schema))
    BY <1>6, <1>7, <1>8 DEF Bijection, Injection, Surjection, IsInjective
  <1>10. SectionsFrom(new, schema)
    BY <1>5 DEF SectionsFrom
  <1> HIDE DEF g
  <1>11. Rearranged(new, schema)
    BY <1>2, <1>6, <1>9, <1>10 DEF Rearranged, TemplateSchema
  <1> QED
    BY <1>11 DEF new

-----------------------------------------------------------------------------
(* Fields: one is moved within its section, to another, or added.          *)

(* Nor does moving a field within its section, wherever the drop index     *)
(* points, past the end too (builderReducer, reorderField).                *)
THEOREM ReorderRearranges ==
  ASSUME NEW schema \in TemplateSchema, NEW p \in Places(schema), NEW to \in Nat
  PROVE  Rearranged(ReorderField(schema, p[1], p[2], to), schema)
  <1> DEFINE s == p[1]
             old == schema[s].fields
             list == MoveWithin(old, p[2], to)
             new == [schema EXCEPT ![s].fields = list]
  <1>1. s \in DOMAIN schema /\ p[2] \in DOMAIN old
    BY PlaceIs
  <1> HIDE DEF s
  <1>2. old \in Seq(Field) /\ DOMAIN old = 1 .. Len(old) /\ p[2] \in 1 .. Len(old)
    BY <1>1, SchemaParts
  <1>3. /\ list \in Seq(Field) /\ Len(list) = Len(old)
        /\ \E h \in Bijection(1 .. Len(old), 1 .. Len(old)) :
              \A j \in 1 .. Len(old) : list[j] = old[h[j]]
    <2> HIDE DEF old
    <2> QED
      BY <1>2, MoveWithinProperties
  <1> HIDE DEF list
  <1>4. PICK h \in Bijection(1 .. Len(old), 1 .. Len(old)) :
              \A j \in 1 .. Len(old) : list[j] = old[h[j]]
    BY <1>3
  <1>5. DOMAIN list = 1 .. Len(old)
    BY <1>3, LenProperties
  <1>6. Refilled(new, schema, s, list)
    BY <1>1, <1>3, RefillIs
  <1> HIDE DEF new
  <1>7. /\ \A f \in DOMAIN list : h[f] \in DOMAIN old /\ list[f] = old[h[f]]
        /\ \A f, e \in DOMAIN list : h[f] = h[e] => f = e
        /\ \A k \in DOMAIN old : \E f \in DOMAIN list : h[f] = k
    BY <1>2, <1>4, <1>5 DEF Bijection, Injection, Surjection, IsInjective
  <1>8. /\ DOMAIN new = DOMAIN schema
        /\ new[s].fields = list
        /\ \A z \in DOMAIN schema \ {s} : new[z].fields = schema[z].fields
    BY <1>1, <1>6 DEF Refilled
  <1> DEFINE from(z, f) == IF z = s THEN <<s, h[f]>> ELSE <<z, f>>
             g == [q \in Places(new) |-> from(q[1], q[2])]
  <1>9. \A q \in Places(new) : g[q] \in Places(schema) /\ FieldAt(new, q) = FieldAt(schema, g[q])
    <2> SUFFICES ASSUME NEW q \in Places(new)
                 PROVE  g[q] \in Places(schema) /\ FieldAt(new, q) = FieldAt(schema, g[q])
      OBVIOUS
    <2>1. q = <<q[1], q[2]>> /\ q[1] \in DOMAIN new /\ q[2] \in DOMAIN new[q[1]].fields
      BY PlaceIs
    <2>2. CASE q[1] = s
      <3>1. g[q] = <<s, h[q[2]]>> /\ q[2] \in DOMAIN list
        BY <1>8, <2>1, <2>2
      <3>2. <<s, h[q[2]]>> \in Places(schema)
        BY <1>1, <1>7, <3>1, PlaceIs
      <3> QED
        BY <1>7, <1>8, <2>2, <3>1, <3>2 DEF FieldAt
    <2>3. CASE q[1] # s
      <3>1. g[q] = <<q[1], q[2]>>
        BY <2>3
      <3>2. <<q[1], q[2]>> \in Places(schema)
        BY <1>8, <2>1, <2>3, PlaceIs
      <3> QED
        BY <1>8, <2>1, <2>3, <3>1, <3>2 DEF FieldAt
    <2> QED
      BY <2>2, <2>3
  <1>10. ASSUME NEW q \in Places(new), NEW r \in Places(new), g[q] = g[r]
         PROVE  q = r
    <2>1. /\ q = <<q[1], q[2]>> /\ q[1] \in DOMAIN new /\ q[2] \in DOMAIN new[q[1]].fields
          /\ r = <<r[1], r[2]>> /\ r[1] \in DOMAIN new /\ r[2] \in DOMAIN new[r[1]].fields
      BY PlaceIs
    <2>2. from(q[1], q[2]) = from(r[1], r[2])
      BY <1>10
    <2>3. q[1] = r[1]
      BY <2>2
    <2>4. q[2] = r[2]
      BY <1>7, <1>8, <2>1, <2>2, <2>3
    <2> QED
      BY <2>1, <2>3, <2>4
  <1>11. ASSUME NEW q \in Places(schema) PROVE \E r \in Places(new) : g[r] = q
    <2>1. q = <<q[1], q[2]>> /\ q[1] \in DOMAIN schema /\ q[2] \in DOMAIN schema[q[1]].fields
      BY PlaceIs
    <2>2. CASE q[1] = s
      <3>1. PICK f \in DOMAIN list : h[f] = q[2]
        BY <1>7, <2>1, <2>2
      <3>2. <<s, f>> \in Places(new)
        BY <1>1, <1>8, <3>1, PlaceIs
      <3>3. g[<<s, f>>] = <<s, h[f]>>
        BY <3>2
      <3> QED
        BY <2>1, <2>2, <3>1, <3>2, <3>3
    <2>3. CASE q[1] # s
      <3>1. <<q[1], q[2]>> \in Places(new)
        BY <1>8, <2>1, <2>3, PlaceIs
      <3>2. g[<<q[1], q[2]>>] = <<q[1], q[2]>>
        BY <2>3, <3>1
      <3> QED
        BY <2>1, <3>1, <3>2
    <2> QED
      BY <2>2, <2>3
  <1>12. g \in Bijection(Places(new), Places(schema))
    BY <1>9, <1>10, <1>11 DEF Bijection, Injection, Surjection, IsInjective
  <1>13. new \in TemplateSchema /\ SectionsFrom(new, schema)
    BY <1>6, SameSections DEF Refilled
  <1> HIDE DEF g
  <1>14. Rearranged(new, schema)
    BY <1>9, <1>12, <1>13 DEF Rearranged
  <1> QED
    BY <1>14 DEF new, list, s, ReorderField

(* Nor does moving a field to another section, at any place of it          *)
(* (builderReducer, moveField).                                            *)
THEOREM MoveFieldRearranges ==
  ASSUME NEW schema \in TemplateSchema, NEW p \in Places(schema),
         NEW s \in DOMAIN schema, s # p[1], NEW at \in 1 .. Len(schema[s].fields) + 1
  PROVE  Rearranged(MoveField(schema, p, s, at), schema)
  <1> DEFINE a == p[1]
             i == p[2]
             giver == schema[a].fields
             taker == schema[s].fields
             moved == FieldAt(schema, p)
             shorter == RemoveAt(giver, i)
             longer == InsertAt(taker, at, moved)
             mid == [schema EXCEPT ![a].fields = shorter]
             new == [mid EXCEPT ![s].fields = longer]
  <1>1. a \in DOMAIN schema /\ i \in DOMAIN giver /\ p = <<a, i>> /\ moved = giver[i]
    BY PlaceIs DEF FieldAt
  <1>2. /\ giver \in Seq(Field) /\ DOMAIN giver = 1 .. Len(giver) /\ Len(giver) \in Nat
        /\ taker \in Seq(Field) /\ DOMAIN taker = 1 .. Len(taker) /\ Len(taker) \in Nat
        /\ moved \in Field
    BY <1>1, SchemaParts
  <1>3. MoveField(schema, p, s, at) = new
    BY <1>1 DEF MoveField
  <1>4. a # s
    OBVIOUS
  <1> HIDE DEF a, i, giver, taker, moved
  <1>5. /\ shorter \in Seq(Field) /\ Len(shorter) = Len(giver) - 1
        /\ \A f \in 1 .. Len(giver) - 1 :
              shorter[f] = IF f < i THEN giver[f] ELSE giver[f + 1]
    BY <1>1, <1>2, RemoveAtProperties
  <1>6. /\ longer \in Seq(Field) /\ Len(longer) = Len(taker) + 1
        /\ \A f \in 1 .. Len(taker) + 1 :
              longer[f] = IF f < at THEN taker[f] ELSE IF f = at THEN moved ELSE taker[f - 1]
    <2>1. at \in 1 .. Len(taker) + 1
      BY DEF taker
    <2>2. longer \in Seq(Field) /\ IsInserted(longer, taker, at, moved)
      BY <1>2, <2>1, InsertAtProperties
    <2> HIDE DEF longer
    <2> QED
      BY <2>2 DEF IsInserted
  <1> HIDE DEF shorter, longer
  <1>7. DOMAIN shorter = 1 .. Len(giver) - 1 /\ DOMAIN longer = 1 .. Len(taker) + 1
    BY <1>5, <1>6, LenProperties
  <1>8. Refilled(mid, schema, a, shorter)
    BY <1>1, <1>5, RefillIs
  <1> HIDE DEF mid
  <1>9. Refilled(new, mid, s, longer)
    BY <1>6, <1>8, RefillIs DEF Refilled
  <1> HIDE DEF new
  <1>10. /\ new \in TemplateSchema /\ DOMAIN new = DOMAIN schema
         /\ \A z \in DOMAIN schema : new[z].id = schema[z].id
         /\ new[a].fields = shorter /\ new[s].fields = longer
         /\ schema[a].fields = giver /\ schema[s].fields = taker
         /\ \A z \in DOMAIN schema \ {a, s} : new[z].fields = schema[z].fields
    BY <1>1, <1>4, <1>8, <1>9 DEF Refilled, giver, taker
  <1> DEFINE from(z, f) == IF z = a THEN <<a, IF f < i THEN f ELSE f + 1>>
                           ELSE IF z # s THEN <<z, f>>
                           ELSE IF f = at THEN p
                           ELSE <<s, IF f < at THEN f ELSE f - 1>>
             into(z, f) == IF z = a THEN (IF f = i THEN <<s, at>>
                                          ELSE <<a, IF f < i THEN f ELSE f - 1>>)
                           ELSE IF z # s THEN <<z, f>>
                           ELSE <<s, IF f < at THEN f ELSE f + 1>>
             g == [q \in Places(new) |-> from(q[1], q[2])]
             back == [q \in Places(schema) |-> into(q[1], q[2])]
  <1>11. at \in Nat /\ at >= 1 /\ at <= Len(taker) + 1 /\ i \in Nat /\ i >= 1 /\ i <= Len(giver)
    BY <1>1, <1>2 DEF taker
  <1>12. ASSUME NEW q \in Places(new)
         PROVE  /\ from(q[1], q[2]) \in Places(schema)
                /\ FieldAt(new, q) = FieldAt(schema, from(q[1], q[2]))
                /\ into(from(q[1], q[2])[1], from(q[1], q[2])[2]) = q
    <2>1. q = <<q[1], q[2]>> /\ q[1] \in DOMAIN schema /\ q[2] \in DOMAIN new[q[1]].fields
      BY <1>10, PlaceIs
    <2>2. CASE q[1] = a
      <3> DEFINE f == IF q[2] < i THEN q[2] ELSE q[2] + 1
      <3>1. q[2] \in 1 .. Len(giver) - 1 /\ f \in 1 .. Len(giver) /\ f # i
        BY <1>2, <1>7, <1>10, <1>11, <2>1, <2>2
      <3>2. from(q[1], q[2]) = <<a, f>> /\ <<a, f>> \in Places(schema)
        BY <1>1, <1>2, <1>10, <2>2, <3>1, PlaceIs
      <3>3. shorter[q[2]] = giver[f]
        BY <1>5, <3>1
      <3>4. FieldAt(new, q) = shorter[q[2]] /\ FieldAt(schema, <<a, f>>) = giver[f]
        BY <1>10, <2>2 DEF FieldAt
      <3>5. into(a, f) = <<a, q[2]>>
        BY <1>11, <3>1
      <3> QED
        BY <2>1, <2>2, <3>2, <3>3, <3>4, <3>5
    <2>3. CASE q[1] = s /\ q[2] = at
      <3>1. from(q[1], q[2]) = p
        BY <1>4, <2>3
      <3>2. FieldAt(new, q) = moved
        BY <1>6, <1>10, <2>3, <1>11, <1>2 DEF FieldAt
      <3>3. into(a, i) = q
        BY <2>1, <2>3
      <3> QED
        BY <1>1, <3>1, <3>2, <3>3 DEF moved
    <2>4. CASE q[1] = s /\ q[2] # at
      <3> DEFINE f == IF q[2] < at THEN q[2] ELSE q[2] - 1
      <3>1. q[2] \in 1 .. Len(taker) + 1 /\ f \in 1 .. Len(taker)
        BY <1>2, <1>7, <1>10, <1>11, <2>1, <2>4
      <3>2. from(q[1], q[2]) = <<s, f>> /\ <<s, f>> \in Places(schema)
        BY <1>2, <1>4, <1>10, <2>4, <3>1, PlaceIs
      <3>3. longer[q[2]] = taker[f]
        BY <1>6, <1>11, <2>4, <3>1
      <3>4. FieldAt(new, q) = longer[q[2]] /\ FieldAt(schema, <<s, f>>) = taker[f]
        BY <1>10, <2>4 DEF FieldAt
      <3>5. into(s, f) = <<s, q[2]>>
        BY <1>4, <1>11, <2>4, <3>1
      <3> QED
        BY <2>1, <2>4, <3>2, <3>3, <3>4, <3>5
    <2>5. CASE q[1] # a /\ q[1] # s
      <3>1. from(q[1], q[2]) = <<q[1], q[2]>> /\ into(q[1], q[2]) = <<q[1], q[2]>>
        BY <2>5
      <3>2. <<q[1], q[2]>> \in Places(schema)
        BY <1>10, <2>1, <2>5, PlaceIs
      <3> QED
        BY <1>10, <2>1, <2>5, <3>1, <3>2 DEF FieldAt
    <2> QED
      BY <2>2, <2>3, <2>4, <2>5
  <1>13. ASSUME NEW q \in Places(schema)
         PROVE  /\ into(q[1], q[2]) \in Places(new)
                /\ from(into(q[1], q[2])[1], into(q[1], q[2])[2]) = q
    <2>1. q = <<q[1], q[2]>> /\ q[1] \in DOMAIN schema /\ q[2] \in DOMAIN schema[q[1]].fields
      BY PlaceIs
    <2>2. CASE q[1] = a /\ q[2] = i
      <3>1. into(q[1], q[2]) = <<s, at>> /\ from(s, at) = p
        BY <1>4, <2>2
      <3>2. <<s, at>> \in Places(new)
        BY <1>7, <1>10, <1>11, <1>2, PlaceIs
      <3> QED
        BY <1>1, <2>1, <2>2, <3>1, <3>2
    <2>3. CASE q[1] = a /\ q[2] # i
      <3> DEFINE f == IF q[2] < i THEN q[2] ELSE q[2] - 1
      <3>1. q[2] \in 1 .. Len(giver) /\ f \in 1 .. Len(giver) - 1
        BY <1>2, <1>10, <1>11, <2>1, <2>3
      <3>2. into(q[1], q[2]) = <<a, f>> /\ from(a, f) = <<a, q[2]>>
        BY <1>11, <2>3, <3>1
      <3>3. <<a, f>> \in Places(new)
        BY <1>1, <1>7, <1>10, <3>1, PlaceIs
      <3> QED
        BY <2>1, <2>3, <3>2, <3>3
    <2>4. CASE q[1] = s
      <3> DEFINE f == IF q[2] < at THEN q[2] ELSE q[2] + 1
      <3>1. q[2] \in 1 .. Len(taker) /\ f \in 1 .. Len(taker) + 1
        BY <1>2, <1>10, <1>11, <2>1, <2>4
      <3>2. into(q[1], q[2]) = <<s, f>> /\ from(s, f) = <<s, q[2]>>
        BY <1>4, <1>11, <2>4, <3>1
      <3>3. <<s, f>> \in Places(new)
        BY <1>7, <1>10, <3>1, PlaceIs
      <3> QED
        BY <2>1, <2>4, <3>2, <3>3
    <2>5. CASE q[1] # a /\ q[1] # s
      <3>1. from(q[1], q[2]) = <<q[1], q[2]>> /\ into(q[1], q[2]) = <<q[1], q[2]>>
        BY <2>5
      <3>2. <<q[1], q[2]>> \in Places(new)
        BY <1>10, <2>1, <2>5, PlaceIs
      <3> QED
        BY <2>1, <3>1, <3>2
    <2> QED
      BY <2>2, <2>3, <2>4, <2>5
  <1> HIDE DEF from, into
  <1>14. g \in Bijection(Places(new), Places(schema))
    <2>1. g \in [Places(new) -> Places(schema)]
      BY <1>12
    <2>2. \A q \in Places(schema) : back[q] \in Places(new) /\ g[back[q]] = q
      BY <1>13
    <2>3. \A q \in Places(new) : back[g[q]] = q
      BY <1>12
    <2> HIDE DEF g, back
    <2> QED
      BY <2>1, <2>2, <2>3, BothWays
  <1>15. SectionsFrom(new, schema)
    BY <1>10, SameSections
  <1>16. \A q \in Places(new) : FieldAt(new, q) = FieldAt(schema, g[q])
    BY <1>12
  <1> HIDE DEF g
  <1>17. Rearranged(new, schema)
    BY <1>10, <1>14, <1>15, <1>16 DEF Rearranged
  <1> QED
    BY <1>3, <1>17

LEMMA MakeFieldIs ==
  ASSUME NEW type \in FieldTypes, NEW id \in Nat, NEW birth \in Nat
  PROVE  /\ makeField(type, id, birth) \in Field
         /\ makeField(type, id, birth).id = id
         /\ makeField(type, id, birth).birth = birth
         /\ type = "select" => makeField(type, id, birth).options # << >>
         /\ makeField(type, id, birth).type = type
  <1>1. "Option 1" \in Options /\ "fine" \in Labels
    BY DEF Options, Labels
  <1>2. << >> \in Seq(Options)
    BY EmptySeq
  <1>3. <<"Option 1">> = Append(<< >>, "Option 1")
    OBVIOUS
  <1>4. <<"Option 1">> \in Seq(Options) /\ <<"Option 1">> # << >>
    BY <1>1, <1>2, <1>3, AppendProperties
  <1> QED
    BY <1>1, <1>2, <1>4 DEF makeField, Field

(* A field added anywhere has an id no other has, in a schema of any size  *)
(* and history, and a list of options that is not empty (addField).        *)
THEOREM AddFieldKeeps ==
  ASSUME NEW schema, NEW n \in Nat, Sound(schema, n), NEW s \in DOMAIN schema,
         NEW type \in FieldTypes, NEW at \in 1 .. Len(schema[s].fields) + 1,
         NEW birth \in Nat, birth <= n
  PROVE  Sound(AddField(schema, s, type, at, birth), n)
  <1> DEFINE id == nextUniqueId(collectFieldIds(schema))
             field == makeField(type, id, birth)
             taker == schema[s].fields
             longer == InsertAt(taker, at, field)
             new == [schema EXCEPT ![s].fields = longer]
  <1>1. schema \in TemplateSchema
    BY DEF Sound
  <1>2. id \in Nat /\ \A p \in Places(schema) : FieldAt(schema, p).id # id
    <2>1. IsFiniteSet(collectFieldIds(schema))
      BY <1>1, IdsAreFinite
    <2>2. id \in Nat /\ id \notin collectFieldIds(schema)
      BY <2>1, NextIdIsNew
    <2> QED
      BY <2>2 DEF collectFieldIds, FieldsOf
  <1> HIDE DEF id
  <1>3. /\ field \in Field /\ field.id = id /\ field.birth = birth
        /\ field.type = "select" => field.options # << >>
    BY <1>2, MakeFieldIs
  <1> HIDE DEF field
  <1>4. taker \in Seq(Field) /\ DOMAIN taker = 1 .. Len(taker) /\ Len(taker) \in Nat
    BY <1>1, SchemaParts
  <1> HIDE DEF taker
  <1>5. at \in Nat /\ at >= 1 /\ at <= Len(taker) + 1
    BY <1>4 DEF taker
  <1>6. /\ longer \in Seq(Field) /\ Len(longer) = Len(taker) + 1
        /\ \A f \in 1 .. Len(taker) + 1 :
              longer[f] = IF f < at THEN taker[f] ELSE IF f = at THEN field ELSE taker[f - 1]
    <2>1. at \in 1 .. Len(taker) + 1
      BY DEF taker
    <2>2. field \in Field /\ taker \in Seq(Field)
      BY <1>3, <1>4
    <2>3. longer = InsertAt(taker, at, field)
      OBVIOUS
    <2> HIDE DEF longer, new
    <2>4. longer \in Seq(Field) /\ IsInserted(longer, taker, at, field)
      BY <2>1, <2>2, <2>3, InsertAtProperties, Zenon
    <2> QED
      BY <2>4 DEF IsInserted
  <1> HIDE DEF longer
  <1>7. DOMAIN longer = 1 .. Len(taker) + 1
    BY <1>6, LenProperties
  <1>8. Refilled(new, schema, s, longer)
    BY <1>1, <1>6, RefillIs
  <1> HIDE DEF new
  <1>9. /\ new \in TemplateSchema /\ DOMAIN new = DOMAIN schema
        /\ \A z \in DOMAIN schema : new[z].id = schema[z].id
        /\ new[s].fields = longer /\ schema[s].fields = taker
        /\ \A z \in DOMAIN schema \ {s} : new[z].fields = schema[z].fields
    BY <1>8 DEF Refilled, taker
  <1> DEFINE added == <<s, at>>
             from(z, f) == IF z = s THEN <<s, IF f < at THEN f ELSE f - 1>> ELSE <<z, f>>
  <1>10. FieldAt(new, added) = field
    BY <1>4, <1>5, <1>6, <1>9 DEF FieldAt
  <1>11. ASSUME NEW q \in Places(new), q # added
         PROVE  /\ from(q[1], q[2]) \in Places(schema)
                /\ FieldAt(new, q) = FieldAt(schema, from(q[1], q[2]))
    <2>1. q = <<q[1], q[2]>> /\ q[1] \in DOMAIN schema /\ q[2] \in DOMAIN new[q[1]].fields
      BY <1>9, PlaceIs
    <2>2. CASE q[1] = s
      <3> DEFINE f == IF q[2] < at THEN q[2] ELSE q[2] - 1
      <3>1. q[2] # at
        BY <1>11, <2>1, <2>2
      <3>2. q[2] \in 1 .. Len(taker) + 1 /\ f \in 1 .. Len(taker)
        BY <1>4, <1>5, <1>7, <1>9, <2>1, <2>2, <3>1
      <3>3. <<s, f>> \in Places(schema)
        BY <1>4, <1>9, <3>2, PlaceIs
      <3>4. longer[q[2]] = taker[f]
        BY <1>5, <1>6, <3>1, <3>2
      <3>5. FieldAt(new, q) = longer[q[2]] /\ FieldAt(schema, <<s, f>>) = taker[f]
        BY <1>9, <2>2 DEF FieldAt
      <3> QED
        BY <2>2, <3>3, <3>4, <3>5
    <2>3. CASE q[1] # s
      <3>1. <<q[1], q[2]>> \in Places(schema)
        BY <1>9, <2>1, <2>3, PlaceIs
      <3> QED
        BY <1>9, <2>1, <2>3, <3>1 DEF FieldAt
    <2> QED
      BY <2>2, <2>3
  <1>12. ASSUME NEW q \in Places(new), NEW r \in Places(new), q # added, r # added,
                from(q[1], q[2]) = from(r[1], r[2])
         PROVE  q = r
    <2>1. /\ q = <<q[1], q[2]>> /\ q[2] \in DOMAIN new[q[1]].fields
          /\ r = <<r[1], r[2]>> /\ r[2] \in DOMAIN new[r[1]].fields
      BY PlaceIs
    <2>2. q[1] = r[1]
      BY <1>12
    <2>3. CASE q[1] = s
      <3>1. q[2] \in Nat /\ r[2] \in Nat /\ q[2] # at /\ r[2] # at
        BY <1>4, <1>7, <1>9, <1>12, <2>1, <2>2, <2>3
      <3>2. (IF q[2] < at THEN q[2] ELSE q[2] - 1) = (IF r[2] < at THEN r[2] ELSE r[2] - 1)
        BY <1>12, <2>2, <2>3
      <3>3. q[2] = r[2]
        BY <1>5, <3>1, <3>2
      <3> QED
        BY <2>1, <2>2, <3>3
    <2>4. CASE q[1] # s
      BY <1>12, <2>1, <2>2, <2>4
    <2> QED
      BY <2>3, <2>4
  <1> HIDE DEF from, added
  <1>13. UniqueFieldIds(new)
    <2> SUFFICES ASSUME NEW q \in Places(new), NEW r \in Places(new),
                        FieldAt(new, q).id = FieldAt(new, r).id
                 PROVE  q = r
      BY DEF UniqueFieldIds
    <2>1. q = added <=> r = added
      BY <1>2, <1>3, <1>10, <1>11
    <2>2. CASE q # added
      <3>1. from(q[1], q[2]) = from(r[1], r[2])
        BY <1>11, <2>1, <2>2 DEF Sound, UniqueFieldIds
      <3> QED
        BY <1>12, <2>1, <2>2, <3>1
    <2> QED
      BY <2>1, <2>2
  <1>14. \A q \in Places(new) :
           /\ FieldAt(new, q).type = "select" => FieldAt(new, q).options # << >>
           /\ FieldAt(new, q).birth <= n
    BY <1>3, <1>10, <1>11 DEF Sound
  <1>15. \A z, y \in DOMAIN new : new[z].id = new[y].id => z = y
    BY <1>9 DEF Sound
  <1>16. Sound(new, n)
    BY <1>9, <1>13, <1>14, <1>15 DEF Sound
  <1> QED
    BY <1>16 DEF new, longer, taker, field, id, AddField

(* What a new template's editor begins with.                               *)
LEMMA InitialIsSound ==
  /\ \A n \in Nat : Sound(InitialSchema, n)
  /\ \A n \in Nat : Sound(<< >>, n)
  <1> DEFINE section == [id |-> 1, label |-> "fine", fields |-> << >>]
  <1>1. section \in Section /\ DOMAIN section.fields = {}
    BY EmptySeq DEF Section, Labels
  <1>2. ASSUME NEW schema \in {<<section>>, << >>} PROVE Sound(schema, 0) /\ Places(schema) = {}
    <2>1. schema \in Seq(Section) /\ \A s \in DOMAIN schema : s = 1 /\ schema[s] = section
      <3>1. CASE schema = << >>
        BY <3>1, EmptySeq
      <3> HIDE DEF section
      <3>2. CASE schema = <<section>>
        BY <1>1, <3>2
      <3> QED
        BY <3>1, <3>2
    <2>2. Places(schema) = {}
      BY <1>1, <2>1, PlaceIs
    <2> QED
      BY <2>1, <2>2 DEF Sound, UniqueFieldIds, TemplateSchema
  <1>3. \A schema \in {<<section>>, << >>}, n \in Nat : Sound(schema, n)
    BY <1>2 DEF Sound
  <1> QED
    BY <1>3 DEF InitialSchema
=============================================================================
