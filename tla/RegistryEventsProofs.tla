------------------------- MODULE RegistryEventsProofs -------------------------
(***************************************************************************)
(* What normalizeRegistryEvents makes of a block, for blocks of any        *)
(* length: the events of its records, all of them and in their order, with *)
(* indices that are unique if the first record grants at most one device   *)
(* and the block holds no more records, and no record more devices, than   *)
(* the stride.  UniqueIds, which the proofs about RegistrySync assume,     *)
(* rests on this.                                                          *)
(***************************************************************************)
EXTENDS RegistryEvents, TLAPS, WellFoundedInduction

-----------------------------------------------------------------------------
(* The indices of two records.                                             *)

\* A function on the numbers up to n is a sequence of that length.
LEMMA LengthIs ==
  ASSUME NEW s, NEW n \in Nat, s = [k \in 1..n |-> s[k]]
  PROVE  Len(s) = n /\ DOMAIN s = 1..n
<1> DEFINE V == {s[k] : k \in 1..n}
<1>1. \A k \in 1..n : s[k] \in V
  OBVIOUS
<1> HIDE DEF V
<1>2. s \in Seq(V)
  BY <1>1
<1>3. DOMAIN s = 1..Len(s) /\ Len(s) \in Nat /\ DOMAIN s = 1..n
  BY <1>2
<1>4. QED
  BY <1>3

\* The record may stand at position r of such a block.
Fits(record, r) ==
  /\ r \in 1..IndexStride
  /\ Len(record.devices) <= IndexStride
  /\ r = 1 => Len(record.devices) <= 1

\* Several entries come from as many devices.
LEMMA SeveralEntries ==
  ASSUME NEW Addresses, NEW x, x.devices \in Seq(Addresses), Len(extractRegistryEntries(x)) # 1
  PROVE  DOMAIN extractRegistryEntries(x) = 1..Len(x.devices)
<1>1. CASE "rws.newdevices" \in x.words
  BY <1>1 DEF extractRegistryEntries
<1>2. CASE "rws.newdevices" \notin x.words
  <2>1. Len(extractRegistryEntries(x)) = 1
    BY <1>2 DEF extractRegistryEntries
  <2>2. QED
    BY <2>1
<1>3. QED
  BY <1>1, <1>2

\* An event of a record has the index of the record, and is its only event, or
\* has an index of its own in the record's share of the stride.
LEMMA IndexOfEvent ==
  ASSUME NEW Addresses, NEW x, x.devices \in Seq(Addresses), NEW r \in Nat,
         NEW k \in DOMAIN eventsOfRecord(x, r)
  PROVE  LET index == eventsOfRecord(x, r)[k].index
         IN \/ index = r - 1 /\ DOMAIN eventsOfRecord(x, r) = {1}
            \/ /\ k \in 1..Len(x.devices)
               /\ Len(x.devices) # 1
               /\ index = (r - 1) * IndexStride + (k - 1)
<1> DEFINE entries == extractRegistryEntries(x)
<1>1. CASE ~looksLikeRegistryEvent(x.words)
  <2>1. eventsOfRecord(x, r) = << >>
    BY <1>1 DEF eventsOfRecord
  <2>2. QED
    BY <2>1
<1>2. CASE looksLikeRegistryEvent(x.words) /\ entries = << >>
  <2>1. eventsOfRecord(x, r)
          = << [index |-> r - 1, words |-> x.words,
                sensor |-> NoSensor, enabled |-> "absent"] >>
    BY <1>2 DEF eventsOfRecord
  <2>2. QED
    BY <2>1
<1>3. CASE looksLikeRegistryEvent(x.words) /\ entries # << >> /\ Len(entries) = 1
  <2>1. eventsOfRecord(x, r)
          = << [index |-> r - 1, words |-> x.words,
                sensor |-> entries[1].sensor, enabled |-> entries[1].enabled] >>
    BY <1>3 DEF eventsOfRecord
  <2>2. QED
    BY <2>1
<1>4. CASE looksLikeRegistryEvent(x.words) /\ entries # << >> /\ Len(entries) # 1
  <2>1. eventsOfRecord(x, r)
          = [j \in DOMAIN entries |->
               [index |-> (r - 1) * IndexStride + (j - 1), words |-> x.words,
                sensor |-> entries[j].sensor, enabled |-> entries[j].enabled]]
    BY <1>4 DEF eventsOfRecord
  <2>2. k \in 1..Len(x.devices)
    BY <2>1, <1>4, SeveralEntries
  <2>3. Len(x.devices) # 1
    BY <1>4, SeveralEntries
  <2>4. QED
    BY <2>1, <2>2, <2>3
<1>5. QED
  BY <1>1, <1>2, <1>3, <1>4

\* The shares of two records do not overlap, nor does a share hold the index
\* of a record.
LEMMA SharesAreDisjoint ==
  ASSUME NEW q \in 0..(IndexStride - 1), NEW r \in 0..(IndexStride - 1),
         NEW i \in 0..(IndexStride - 1), NEW j \in 0..(IndexStride - 1)
  PROVE  /\ q * IndexStride + i = r * IndexStride + j => q = r /\ i = j
         /\ q > 0 => q * IndexStride + i # r
<1> USE IndexStrideAssumption
<1>1. ASSUME NEW c \in Nat, NEW d \in Nat, c < d
      PROVE  c * IndexStride + IndexStride <= d * IndexStride
  <2>1. PICK e \in Nat : d = c + 1 + e
    <3>1. d - c - 1 \in Nat
      BY <1>1
    <3>2. QED
      BY <3>1
  <2>2. d * IndexStride = c * IndexStride + IndexStride + e * IndexStride
    BY <2>1
  <2>3. c * IndexStride \in Nat /\ e * IndexStride \in Nat
    OBVIOUS
  <2>4. QED
    BY <2>2, <2>3
<1>2. q * IndexStride \in Nat /\ r * IndexStride \in Nat
  OBVIOUS
<1>3. ASSUME q < r
      PROVE  q * IndexStride + i # r * IndexStride + j
  BY <1>1, <1>2, <1>3
<1>4. ASSUME r < q
      PROVE  q * IndexStride + i # r * IndexStride + j
  BY <1>1, <1>2, <1>4
<1>5. ASSUME q > 0
      PROVE  q * IndexStride + i # r
  <2>1. 0 * IndexStride + IndexStride <= q * IndexStride
    BY <1>1, <1>5
  <2>2. QED
    BY <2>1, <1>2
<1>6. QED
  BY <1>2, <1>3, <1>4, <1>5

\* Two events of a block never share an index, be they of one record or of
\* two, as long as every record fits (the eventIndex of
\* normalizeRegistryEvents): an event is never taken for another one that is
\* already processed.
THEOREM IndicesAreUnique ==
  ASSUME NEW Addresses,
         NEW x, x.devices \in Seq(Addresses), NEW q, Fits(x, q),
         NEW y, y.devices \in Seq(Addresses), NEW r, Fits(y, r),
         NEW k \in DOMAIN eventsOfRecord(x, q),
         NEW l \in DOMAIN eventsOfRecord(y, r),
         q = r => x = y,
         eventsOfRecord(x, q)[k].index = eventsOfRecord(y, r)[l].index
  PROVE  q = r /\ k = l
<1> DEFINE m == eventsOfRecord(x, q)[k].index
           n == eventsOfRecord(y, r)[l].index
           c == Len(x.devices)
           d == Len(y.devices)
<1>1. q \in Nat /\ q - 1 \in 0..(IndexStride - 1) /\ c \in 0..IndexStride /\ (c > 1 => q - 1 > 0)
  BY IndexStrideAssumption DEF Fits
<1>2. r \in Nat /\ r - 1 \in 0..(IndexStride - 1) /\ d \in 0..IndexStride /\ (d > 1 => r - 1 > 0)
  BY IndexStrideAssumption DEF Fits
<1>3. \/ m = q - 1 /\ k = 1
      \/ k \in 1..c /\ c # 1 /\ m = (q - 1) * IndexStride + (k - 1)
  BY <1>1, IndexOfEvent
<1>4. \/ n = r - 1 /\ l = 1
      \/ l \in 1..d /\ d # 1 /\ n = (r - 1) * IndexStride + (l - 1)
  BY <1>2, IndexOfEvent
<1>5. m = n
  OBVIOUS
<1> HIDE DEF m, n, c, d
<1>6. ASSUME k \in 1..c, c # 1
      PROVE  k - 1 \in 0..(IndexStride - 1) /\ q - 1 > 0
  BY <1>1, <1>6, IndexStrideAssumption
<1>7. ASSUME l \in 1..d, d # 1
      PROVE  l - 1 \in 0..(IndexStride - 1) /\ r - 1 > 0
  BY <1>2, <1>7, IndexStrideAssumption
<1>8. CASE m = q - 1 /\ k = 1 /\ n = r - 1 /\ l = 1
  <2>1. q - 1 = r - 1
    BY <1>5, <1>8
  <2>2. QED
    BY <1>1, <1>2, <1>8, <2>1
<1>9. CASE m = q - 1 /\ l \in 1..d /\ d # 1 /\ n = (r - 1) * IndexStride + (l - 1)
  <2>1. (r - 1) * IndexStride + (l - 1) # q - 1
    BY <1>1, <1>2, <1>7, <1>9, SharesAreDisjoint
  <2>2. QED
    BY <1>5, <1>9, <2>1
<1>10. CASE n = r - 1 /\ k \in 1..c /\ c # 1 /\ m = (q - 1) * IndexStride + (k - 1)
  <2>1. (q - 1) * IndexStride + (k - 1) # r - 1
    BY <1>1, <1>2, <1>6, <1>10, SharesAreDisjoint
  <2>2. QED
    BY <1>5, <1>10, <2>1
<1>11. CASE /\ k \in 1..c /\ c # 1 /\ m = (q - 1) * IndexStride + (k - 1)
            /\ l \in 1..d /\ d # 1 /\ n = (r - 1) * IndexStride + (l - 1)
  <2>1. q - 1 = r - 1 /\ k - 1 = l - 1
    <3>1. (q - 1) * IndexStride + (k - 1) = (r - 1) * IndexStride + (l - 1)
      BY <1>5, <1>11
    <3>2. k - 1 \in 0..(IndexStride - 1) /\ l - 1 \in 0..(IndexStride - 1)
      BY <1>6, <1>7, <1>11
    <3>3. QED
      BY <1>1, <1>2, <3>1, <3>2, SharesAreDisjoint
  <2>2. k \in Int /\ l \in Int
    BY <1>1, <1>2, <1>11
  <2>3. QED
    BY <1>1, <1>2, <2>1, <2>2
<1>12. QED
  BY <1>3, <1>4, <1>8, <1>9, <1>10, <1>11

\* What Fits asks of the first record is needed: the second device it grants
\* has the index of the record behind it, so that one of the two events is
\* skipped as processed (the fallbackIndex of normalizeRegistryEvents).
THEOREM FirstRecordOverlaps ==
  ASSUME NEW Addresses,
         NEW x, x.devices \in Seq(Addresses), "rws.newdevices" \in x.words,
         Len(x.devices) > 1,
         NEW y, looksLikeRegistryEvent(y.words), "rws.newdevices" \notin y.words
  PROVE  eventsOfRecord(x, 1)[2].index = eventsOfRecord(y, 2)[1].index
<1>1. eventsOfRecord(x, 1)[2].index = 1
  <2> DEFINE entries == extractRegistryEntries(x)
  <2>1. looksLikeRegistryEvent(x.words)
    BY DEF looksLikeRegistryEvent
  <2>2. entries = [j \in 1..Len(x.devices) |-> entries[j]] /\ Len(x.devices) \in Nat
    BY DEF extractRegistryEntries
  <2>3. Len(entries) # 1 /\ entries # << >> /\ 2 \in DOMAIN entries
    <3>1. Len(entries) = Len(x.devices) /\ DOMAIN entries = 1..Len(x.devices)
      <4> HIDE DEF entries
      <4>1. QED
        BY <2>2, LengthIs
    <3>2. Len(x.devices) \in Nat /\ Len(x.devices) > 1 /\ 2 \in 1..Len(x.devices)
      BY <2>2
    <3>3. Len(<< >>) = 0
      OBVIOUS
    <3>4. 2 \in DOMAIN entries
      BY <3>1, <3>2
    <3>5. Len(x.devices) # 1 /\ Len(x.devices) # 0
      BY <3>2
    <3> HIDE DEF entries
    <3>6. Len(entries) # 1 /\ Len(entries) # 0
      BY <3>1, <3>5, Zenon
    <3>7. QED
      BY <3>3, <3>4, <3>6
  <2>4. eventsOfRecord(x, 1)
          = [j \in DOMAIN entries |->
               [index |-> 0 * IndexStride + (j - 1), words |-> x.words,
                sensor |-> entries[j].sensor, enabled |-> entries[j].enabled]]
    BY <2>1, <2>3 DEF eventsOfRecord
  <2> HIDE DEF entries
  <2>5. eventsOfRecord(x, 1)[2].index = 0 * IndexStride + (2 - 1)
    BY <2>3, <2>4
  <2>6. QED
    BY <2>5, IndexStrideAssumption
<1>2. eventsOfRecord(y, 2)[1].index = 1
  <2> DEFINE entry == [sensor |-> y.sensor, enabled |-> y.enabled]
  <2>1. extractRegistryEntries(y) = << entry >>
    BY DEF extractRegistryEntries
  <2>2. extractRegistryEntries(y) # << >> /\ Len(extractRegistryEntries(y)) = 1
    BY <2>1
  <2>3. eventsOfRecord(y, 2)
          = << [index |-> 2 - 1, words |-> y.words,
                sensor |-> extractRegistryEntries(y)[1].sensor,
                enabled |-> extractRegistryEntries(y)[1].enabled] >>
    BY <2>2 DEF eventsOfRecord
  <2>4. QED
    BY <2>3
<1>3. QED
  BY <1>1, <1>2

-----------------------------------------------------------------------------
(* Induction over numbers.                                                 *)

\* A set of numbers that is not empty has a first one.
LEMMA FirstOfNumbers ==
  ASSUME NEW T, T \subseteq Nat, T # {}
  PROVE  \E t \in T : \A u \in T : ~(u < t)
<1> DEFINE R == OpToRel(<, Nat)
<1>1. IsWellFoundedOn(R, Nat)
  BY NatLessThanWellFounded, Zenon
<1>2. \A x, y \in Nat : x < y => <<x, y>> \in R
  BY DEF OpToRel
<1> HIDE DEF R
<1>3. \E x \in T : \A y \in T : ~ (<<y, x>> \in R)
  BY <1>1, WFMin, Zenon
<1>4. QED
  BY <1>2, <1>3

\* A set of numbers that holds 1, and with any number the next one up to n,
\* holds all of them up to n.
LEMMA UpTo ==
  ASSUME NEW n \in Nat, NEW S, 1 \in S, \A i \in 1..n : i \in S /\ i + 1 <= n => i + 1 \in S
  PROVE  1..n \subseteq S
<1> SUFFICES ASSUME (1..n) \ S # {} PROVE FALSE
  OBVIOUS
<1> DEFINE T == (1..n) \ S
<1>1. T \subseteq Nat /\ T # {}
  OBVIOUS
<1>2. \E t \in T : \A u \in T : ~(u < t)
  <2> HIDE DEF T
  <2>1. QED
    BY <1>1, FirstOfNumbers
<1>3. PICK t \in T : \A u \in T : ~(u < t)
  BY <1>2
<1>4. t \in 1..n /\ t \notin S /\ t # 1
  OBVIOUS
<1>5. t - 1 \in 1..n /\ ~ (t - 1 \in T) /\ (t - 1) + 1 = t
  BY <1>3, <1>4
<1>6. t - 1 \in S
  BY <1>5
<1>7. QED
  BY <1>4, <1>5, <1>6

-----------------------------------------------------------------------------
(* FlattenSeq.                                                             *)

\* f joins the first n sequences of seqs, one after the other.
Joins(f, seqs, n) ==
  f = [i \in 1..n |-> IF i = 1 THEN seqs[i] ELSE f[i - 1] \o seqs[i]]

LEMMA JoinsExists ==
  ASSUME NEW seqs, NEW n \in Nat \ {0}
  PROVE  \E f : Joins(f, seqs, n)
<1> DEFINE S == {i \in 1..n : \E f : Joins(f, seqs, i)}
<1>1. 1 \in S
  <2> DEFINE f == [i \in 1..1 |-> seqs[i]]
  <2>1. \A i \in 1..1 : f[i] = IF i = 1 THEN seqs[i] ELSE f[i - 1] \o seqs[i]
    OBVIOUS
  <2>2. f = [i \in 1..1 |-> IF i = 1 THEN seqs[i] ELSE f[i - 1] \o seqs[i]]
    OBVIOUS
  <2>3. Joins(f, seqs, 1)
    BY <2>2 DEF Joins
  <2>4. QED
    BY <2>3
<1>2. ASSUME NEW m \in 1..n, m \in S, m + 1 <= n
      PROVE  m + 1 \in S
  <2>1. PICK f : Joins(f, seqs, m)
    BY <1>2
  <2> DEFINE g == [i \in 1..(m + 1) |-> IF i <= m THEN f[i] ELSE f[m] \o seqs[m + 1]]
  <2>2. ASSUME NEW i \in 1..(m + 1)
        PROVE  g[i] = IF i = 1 THEN seqs[i] ELSE g[i - 1] \o seqs[i]
    <3>1. CASE i <= m
      <4>1. g[i] = f[i] /\ i \in 1..m
        BY <3>1
      <4>2. i # 1 => i - 1 \in 1..(m + 1) /\ i - 1 <= m
        BY <3>1
      <4>3. f[i] = IF i = 1 THEN seqs[i] ELSE f[i - 1] \o seqs[i]
        BY <2>1, <4>1 DEF Joins
      <4>4. i # 1 => g[i - 1] = f[i - 1]
        BY <4>2
      <4>5. QED
        BY <4>1, <4>3, <4>4
    <3>2. CASE i = m + 1
      <4>0. ~ (i <= m) /\ i # 1
        BY <3>2
      <4>1. g[i] = f[m] \o seqs[m + 1]
        BY <4>0
      <4>2. i - 1 = m /\ m \in 1..(m + 1) /\ m <= m
        BY <3>2
      <4>3. g[i - 1] = f[m]
        BY <4>2
      <4>4. QED
        BY <3>2, <4>0, <4>1, <4>3
    <3>3. QED
      BY <3>1, <3>2
  <2>3. g = [i \in 1..(m + 1) |-> g[i]]
    OBVIOUS
  <2> HIDE DEF g
  <2>4. Joins(g, seqs, m + 1)
    BY <2>2, <2>3 DEF Joins
  <2>5. m + 1 \in 1..n
    BY <1>2
  <2>6. QED
    BY <2>4, <2>5
<1> HIDE DEF S
<1>3. 1..n \subseteq S
  BY <1>1, <1>2, UpTo
<1>4. n \in S
  BY <1>3
<1>5. QED
  BY <1>4 DEF S

LEMMA FlattenJoins ==
  ASSUME NEW seqs, Len(seqs) \in Nat \ {0}
  PROVE  \E f : Joins(f, seqs, Len(seqs)) /\ FlattenSeq(seqs) = f[Len(seqs)]
<1> DEFINE flatten == CHOOSE f : Joins(f, seqs, Len(seqs))
<1>1. \E f : Joins(f, seqs, Len(seqs))
  BY JoinsExists
<1>2. Joins(flatten, seqs, Len(seqs))
  BY <1>1
<1>3. FlattenSeq(seqs) = flatten[Len(seqs)]
  BY DEF FlattenSeq, Joins
<1>4. QED
  BY <1>2, <1>3

\* The places of the first n sequences of seqs, and their order.
Places(seqs, n) == UNION {{q} \X (1..Len(seqs[q])) : q \in 1..n}

Before(p, q) == p[1] < q[1] \/ (p[1] = q[1] /\ p[2] < q[2])

\* Sequence s holds what stands at these places: place at[j] at index j, each
\* place once, and in their order.
GathersFrom(at, s, seqs, n) ==
  /\ \A j \in 1..Len(s) : at[j] \in Places(seqs, n) /\ s[j] = seqs[at[j][1]][at[j][2]]
  /\ \A j, l \in 1..Len(s) : j < l => Before(at[j], at[l])
  /\ \A p \in Places(seqs, n) : \E j \in 1..Len(s) : at[j] = p

Gathers(s, seqs, n) == \E at : GathersFrom(at, s, seqs, n)

LEMMA PlacesNext ==
  ASSUME NEW seqs, NEW n \in Nat
  PROVE  /\ Places(seqs, n + 1) = Places(seqs, n) \cup ({n + 1} \X (1..Len(seqs[n + 1])))
         /\ \A k \in 1..Len(seqs[n + 1]) : <<n + 1, k>> \in Places(seqs, n + 1)
         /\ \A p \in Places(seqs, n) : p[1] < n + 1
<1>1. 1..(n + 1) = (1..n) \cup {n + 1}
  OBVIOUS
<1>2. QED
  BY <1>1 DEF Places

LEMMA GathersNone ==
  ASSUME NEW seqs
  PROVE  Gathers(<< >>, seqs, 0)
<1>1. Len(<< >>) = 0 /\ 1..0 = {}
  OBVIOUS
<1>2. Places(seqs, 0) = {}
  BY <1>1 DEF Places
<1>3. GathersFrom(<< >>, << >>, seqs, 0)
  BY <1>1, <1>2 DEF GathersFrom
<1>4. QED
  BY <1>3 DEF Gathers

LEMMA GathersNext ==
  ASSUME NEW E, NEW seqs, NEW n \in Nat, NEW s \in Seq(E), seqs[n + 1] \in Seq(E),
         Gathers(s, seqs, n)
  PROVE  s \o seqs[n + 1] \in Seq(E) /\ Gathers(s \o seqs[n + 1], seqs, n + 1)
<1> DEFINE e == seqs[n + 1]
           t == s \o e
<1>1. t \in Seq(E) /\ Len(t) = Len(s) + Len(e) /\ Len(s) \in Nat /\ Len(e) \in Nat
  OBVIOUS
<1>2. \A j \in 1..Len(t) :
        \/ j \in 1..Len(s) /\ t[j] = s[j]
        \/ j \notin 1..Len(s) /\ j - Len(s) \in 1..Len(e) /\ t[j] = e[j - Len(s)]
  OBVIOUS
<1>3. PICK at : GathersFrom(at, s, seqs, n)
  BY DEF Gathers
<1> DEFINE to == [j \in 1..Len(t) |-> IF j \in 1..Len(s) THEN at[j] ELSE <<n + 1, j - Len(s)>>]
<1>4. ASSUME NEW j \in 1..Len(t)
      PROVE  \/ /\ j \in 1..Len(s) /\ t[j] = s[j] /\ to[j] = at[j]
                /\ at[j] \in Places(seqs, n) /\ s[j] = seqs[at[j][1]][at[j][2]]
             \/ /\ j \notin 1..Len(s) /\ j - Len(s) \in 1..Len(e)
                /\ t[j] = e[j - Len(s)] /\ to[j] = <<n + 1, j - Len(s)>>
  <2>1. CASE j \in 1..Len(s) /\ t[j] = s[j]
    BY <1>3, <2>1 DEF GathersFrom
  <2>2. CASE j \notin 1..Len(s) /\ j - Len(s) \in 1..Len(e) /\ t[j] = e[j - Len(s)]
    BY <2>2
  <2>3. QED
    BY <1>2, <2>1, <2>2
<1> HIDE DEF t, to
<1>5. ASSUME NEW j \in 1..Len(t)
      PROVE  to[j] \in Places(seqs, n + 1) /\ t[j] = seqs[to[j][1]][to[j][2]]
  <2>1. CASE t[j] = s[j] /\ to[j] = at[j] /\ at[j] \in Places(seqs, n)
             /\ s[j] = seqs[at[j][1]][at[j][2]]
    BY <2>1, PlacesNext
  <2>2. CASE j - Len(s) \in 1..Len(e) /\ t[j] = e[j - Len(s)] /\ to[j] = <<n + 1, j - Len(s)>>
    <3>1. to[j] \in Places(seqs, n + 1)
      <4>1. \A k \in 1..Len(seqs[n + 1]) : <<n + 1, k>> \in Places(seqs, n + 1)
        BY PlacesNext
      <4>2. <<n + 1, j - Len(s)>> \in Places(seqs, n + 1)
        BY <2>2, <4>1
      <4>3. QED
        BY <2>2, <4>2, Zenon
    <3>2. to[j][1] = n + 1 /\ to[j][2] = j - Len(s)
      BY <2>2
    <3>3. QED
      BY <2>2, <3>1, <3>2
  <2>3. QED
    BY <1>4, <2>1, <2>2
<1>6. ASSUME NEW j \in 1..Len(t), NEW l \in 1..Len(t), j < l
      PROVE  Before(to[j], to[l])
  <2>1. CASE l \in 1..Len(s) /\ to[l] = at[l]
    <3>1. j \in 1..Len(s) /\ to[j] = at[j]
      BY <1>1, <1>4, <1>6, <2>1
    <3>2. QED
      BY <1>3, <1>6, <2>1, <3>1 DEF GathersFrom
  <2>2. CASE l \notin 1..Len(s) /\ to[l] = <<n + 1, l - Len(s)>>
    <3>1. CASE to[j] = at[j] /\ at[j] \in Places(seqs, n)
      <4>1. at[j][1] < n + 1
        BY <3>1, PlacesNext
      <4>2. to[l][1] = n + 1
        BY <2>2
      <4>3. to[j][1] < to[l][1]
        BY <3>1, <4>1, <4>2
      <4>4. QED
        BY <4>3 DEF Before
    <3>2. CASE to[j] = <<n + 1, j - Len(s)>>
      <4>1. j - Len(s) < l - Len(s)
        BY <1>1, <1>6
      <4>2. QED
        BY <2>2, <3>2, <4>1 DEF Before
    <3>3. QED
      BY <1>4, <3>1, <3>2
  <2>3. QED
    BY <1>4, <2>1, <2>2
<1>7. ASSUME NEW p \in Places(seqs, n + 1)
      PROVE  \E j \in 1..Len(t) : to[j] = p
  <2>1. CASE p \in Places(seqs, n)
    <3>1. PICK j \in 1..Len(s) : at[j] = p
      BY <1>3, <2>1 DEF GathersFrom
    <3>2. j \in 1..Len(t)
      BY <1>1
    <3>3. to[j] = at[j]
      BY <1>4, <3>2
    <3>4. QED
      BY <3>1, <3>2, <3>3
  <2>2. CASE p \in {n + 1} \X (1..Len(e))
    <3>1. p = <<n + 1, p[2]>> /\ p[2] \in 1..Len(e)
      BY <2>2
    <3>2. /\ Len(s) + p[2] \in 1..Len(t) /\ Len(s) + p[2] \notin 1..Len(s)
          /\ (Len(s) + p[2]) - Len(s) = p[2]
      BY <1>1, <3>1
    <3>3. to[Len(s) + p[2]] = <<n + 1, p[2]>>
      BY <1>4, <3>2
    <3>4. QED
      BY <3>1, <3>2, <3>3
  <2>3. QED
    BY <2>1, <2>2, PlacesNext
<1>8. GathersFrom(to, t, seqs, n + 1)
  BY <1>5, <1>6, <1>7 DEF GathersFrom
<1>9. QED
  BY <1>1, <1>8 DEF t, Gathers

LEMMA GathersFirst ==
  ASSUME NEW E, NEW seqs \in Seq(Seq(E)), Len(seqs) # 0
  PROVE  seqs[1] \in Seq(E) /\ Gathers(seqs[1], seqs, 1)
<1>1. << >> \in Seq(E) /\ seqs[0 + 1] \in Seq(E) /\ << >> \o seqs[0 + 1] = seqs[1]
  OBVIOUS
<1>2. << >> \o seqs[0 + 1] \in Seq(E) /\ Gathers(<< >> \o seqs[0 + 1], seqs, 0 + 1)
  BY <1>1, GathersNone, GathersNext
<1>3. QED
  BY <1>1, <1>2

\* What FlattenSeq yields.
LEMMA FlattenGathers ==
  ASSUME NEW E, NEW seqs \in Seq(Seq(E))
  PROVE  FlattenSeq(seqs) \in Seq(E) /\ Gathers(FlattenSeq(seqs), seqs, Len(seqs))
<1> DEFINE n == Len(seqs)
<1>1. n \in Nat
  OBVIOUS
<1>2. CASE n = 0
  <2>1. FlattenSeq(seqs) = seqs /\ seqs = << >>
    BY <1>2 DEF FlattenSeq
  <2>2. QED
    BY <1>2, <2>1, GathersNone
<1>3. CASE n # 0
  <2>1. PICK f : Joins(f, seqs, n) /\ FlattenSeq(seqs) = f[n]
    BY <1>1, <1>3, FlattenJoins
  <2> DEFINE S == {i \in 1..n : f[i] \in Seq(E) /\ Gathers(f[i], seqs, i)}
  <2>2. 1 \in S
    <3>1. 1 \in 1..n /\ f[1] = seqs[1]
      BY <1>1, <1>3, <2>1 DEF Joins
    <3>2. QED
      BY <1>3, <3>1, GathersFirst
  <2>3. ASSUME NEW i \in 1..n, i \in S, i + 1 <= n
        PROVE  i + 1 \in S
    <3>1. i \in Nat /\ i + 1 \in 1..n /\ i + 1 # 1 /\ (i + 1) - 1 = i
      BY <1>1, <2>3
    <3>2. f[i + 1] = f[i] \o seqs[i + 1]
      BY <2>1, <3>1 DEF Joins
    <3>3. seqs[i + 1] \in Seq(E)
      BY <3>1
    <3>4. QED
      BY <2>3, <3>1, <3>2, <3>3, GathersNext
  <2> HIDE DEF S
  <2>4. 1..n \subseteq S
    BY <1>1, <2>2, <2>3, UpTo
  <2>5. n \in S
    BY <1>1, <1>3, <2>4
  <2>6. QED
    BY <2>1, <2>5 DEF S
<1>4. QED
  BY <1>2, <1>3

-----------------------------------------------------------------------------
(* The events of a block.                                                  *)

\* The records of a block, with devices to grant that are addresses.
IsBlock(records, Addresses) ==
  /\ DOMAIN records = 1..Len(records)
  /\ Len(records) \in Nat
  /\ \A r \in DOMAIN records : records[r].devices \in Seq(Addresses)

EventsOfRecords(records) == [r \in DOMAIN records |-> eventsOfRecord(records[r], r)]

LEMMA EventsAreSequence ==
  ASSUME NEW Addresses, NEW x, x.devices \in Seq(Addresses), NEW r \in Nat
  PROVE  \E n \in Nat : eventsOfRecord(x, r) = [k \in 1..n |-> eventsOfRecord(x, r)[k]]
<1> DEFINE entries == extractRegistryEntries(x)
           event(index, entry) ==
             [index |-> index, words |-> x.words,
              sensor |-> entry.sensor, enabled |-> entry.enabled]
<1>1. CASE ~looksLikeRegistryEvent(x.words)
  <2>1. eventsOfRecord(x, r) = << >>
    BY <1>1 DEF eventsOfRecord
  <2>2. << >> = [k \in 1..0 |-> << >>[k]]
    OBVIOUS
  <2>3. QED
    BY <2>1, <2>2
<1>2. CASE looksLikeRegistryEvent(x.words) /\ (entries = << >> \/ Len(entries) = 1)
  <2>1. PICK e : eventsOfRecord(x, r) = << e >>
    <3>1. CASE entries = << >>
      <4>1. eventsOfRecord(x, r) = << event(r - 1, [sensor |-> NoSensor, enabled |-> "absent"]) >>
        BY <1>2, <3>1 DEF eventsOfRecord
      <4>2. QED
        BY <4>1
    <3>2. CASE entries # << >> /\ Len(entries) = 1
      <4>1. eventsOfRecord(x, r) = << event(r - 1, entries[1]) >>
        BY <1>2, <3>2 DEF eventsOfRecord
      <4>2. QED
        BY <4>1
    <3>3. QED
      BY <1>2, <3>1, <3>2
  <2>2. << e >> = [k \in 1..1 |-> << e >>[k]]
    OBVIOUS
  <2>3. QED
    BY <2>1, <2>2
<1>3. CASE looksLikeRegistryEvent(x.words) /\ entries # << >> /\ Len(entries) # 1
  <2>1. eventsOfRecord(x, r)
          = [k \in DOMAIN entries |-> event((r - 1) * IndexStride + (k - 1), entries[k])]
    BY <1>3 DEF eventsOfRecord
  <2>2. DOMAIN entries = 1..Len(x.devices) /\ Len(x.devices) \in Nat
    BY <1>3, SeveralEntries
  <2>3. QED
    BY <2>1, <2>2
<1>4. QED
  BY <1>1, <1>2, <1>3

LEMMA EventsOfBlock ==
  ASSUME NEW Addresses, NEW records, IsBlock(records, Addresses), NEW r \in DOMAIN records
  PROVE  LET events == eventsOfRecord(records[r], r)
         IN DOMAIN events = 1..Len(events) /\ Len(events) \in Nat
<1> DEFINE x == records[r]
<1>1. r \in Nat /\ x.devices \in Seq(Addresses)
  BY DEF IsBlock
<1> HIDE DEF x
<1>2. PICK n \in Nat : eventsOfRecord(x, r) = [k \in 1..n |-> eventsOfRecord(x, r)[k]]
  BY <1>1, EventsAreSequence
<1>3. Len(eventsOfRecord(x, r)) = n /\ DOMAIN eventsOfRecord(x, r) = 1..n
  BY <1>2, LengthIs
<1>4. QED
  BY <1>3 DEF x

\* The events of a block are those of its records, all of them and no others,
\* in the order of the records and, within a record, of its entries, whatever
\* the block (the loop of normalizeRegistryEvents).
THEOREM NormalizedInOrder ==
  ASSUME NEW Addresses, NEW records, IsBlock(records, Addresses)
  PROVE  LET events == normalizeRegistryEvents(records)
         IN /\ DOMAIN events = 1..Len(events)
            /\ Len(events) \in Nat
            /\ Gathers(events, EventsOfRecords(records), Len(records))
<1> DEFINE seqs == EventsOfRecords(records)
           E == UNION {{seqs[r][k] : k \in DOMAIN seqs[r]} : r \in DOMAIN records}
<1>1. ASSUME NEW r \in DOMAIN records
      PROVE  seqs[r] \in Seq(E)
  <2>1. r \in Nat /\ records[r].devices \in Seq(Addresses) /\ seqs[r] = eventsOfRecord(records[r], r)
    BY DEF IsBlock, EventsOfRecords
  <2>2. PICK n \in Nat : seqs[r] = [k \in 1..n |-> seqs[r][k]]
    BY <2>1, EventsAreSequence
  <2>3. DOMAIN seqs[r] = 1..n
    BY <2>2
  <2>4. \A k \in 1..n : seqs[r][k] \in E
    BY <2>3
  <2> HIDE DEF E, seqs
  <2>5. QED
    BY <2>2, <2>4
<1>2. DOMAIN seqs = 1..Len(records) /\ Len(records) \in Nat
  BY DEF IsBlock, EventsOfRecords
<1>3. seqs = [r \in 1..Len(records) |-> seqs[r]]
  BY <1>2 DEF EventsOfRecords
<1>4. normalizeRegistryEvents(records) = FlattenSeq(seqs)
  BY DEF normalizeRegistryEvents, EventsOfRecords
<1> HIDE DEF E, seqs
<1>5. seqs \in Seq(Seq(E)) /\ Len(seqs) = Len(records)
  BY <1>1, <1>2, <1>3 DEF IsBlock
<1>6. FlattenSeq(seqs) \in Seq(E) /\ Gathers(FlattenSeq(seqs), seqs, Len(seqs))
  BY <1>5, FlattenGathers
<1>7. QED
  BY <1>4, <1>5, <1>6 DEF seqs

LEMMA SameIndex ==
  ASSUME NEW Addresses, NEW records, IsBlock(records, Addresses),
         \A r \in DOMAIN records : Fits(records[r], r),
         NEW q \in DOMAIN records, NEW k \in DOMAIN eventsOfRecord(records[q], q),
         NEW r \in DOMAIN records, NEW m \in DOMAIN eventsOfRecord(records[r], r),
         eventsOfRecord(records[q], q)[k].index = eventsOfRecord(records[r], r)[m].index
  PROVE  q = r /\ k = m
<1> DEFINE x == records[q]
           y == records[r]
<1>1. x.devices \in Seq(Addresses) /\ Fits(x, q) /\ y.devices \in Seq(Addresses) /\ Fits(y, r)
  BY DEF IsBlock
<1>2. q = r => x = y
  OBVIOUS
<1>3. k \in DOMAIN eventsOfRecord(x, q) /\ m \in DOMAIN eventsOfRecord(y, r)
  OBVIOUS
<1>4. eventsOfRecord(x, q)[k].index = eventsOfRecord(y, r)[m].index
  OBVIOUS
<1> HIDE DEF x, y
<1>5. QED
  BY <1>1, <1>2, <1>3, <1>4, IndicesAreUnique

\* The events of a block have indices of their own if its records fit, so the
\* ids the service knows them by are unique (toChainEventId in keyspace.ts).
THEOREM NormalizedIndicesAreUnique ==
  ASSUME NEW Addresses, NEW records, IsBlock(records, Addresses),
         \A r \in DOMAIN records : Fits(records[r], r)
  PROVE  LET events == normalizeRegistryEvents(records)
         IN \A j, l \in DOMAIN events : events[j].index = events[l].index => j = l
<1> DEFINE events == normalizeRegistryEvents(records)
           seqs == EventsOfRecords(records)
<1>1. /\ DOMAIN events = 1..Len(events) /\ Len(events) \in Nat
      /\ Gathers(events, seqs, Len(records))
  BY NormalizedInOrder
<1> HIDE DEF events
<1>2. ASSUME NEW j \in 1..Len(events), NEW l \in 1..Len(events), j < l
      PROVE  events[j].index # events[l].index
  <2>1. PICK at : GathersFrom(at, events, seqs, Len(records))
    BY <1>1 DEF Gathers
  <2> DEFINE q == at[j][1]  k == at[j][2]
             r == at[l][1]  m == at[l][2]
  <2>2. /\ q \in 1..Len(records) /\ k \in 1..Len(seqs[q]) /\ events[j] = seqs[q][k]
        /\ r \in 1..Len(records) /\ m \in 1..Len(seqs[r]) /\ events[l] = seqs[r][m]
        /\ q < r \/ (q = r /\ k < m)
    <3>1. /\ at[j] \in Places(seqs, Len(records)) /\ events[j] = seqs[q][k]
          /\ at[l] \in Places(seqs, Len(records)) /\ events[l] = seqs[r][m]
          /\ Before(at[j], at[l])
      BY <1>2, <2>1 DEF GathersFrom
    <3>2. QED
      BY <3>1 DEF Places, Before
  <2> HIDE DEF q, k, r, m
  <2>3. /\ q \in DOMAIN records /\ r \in DOMAIN records
        /\ seqs[q] = eventsOfRecord(records[q], q)
        /\ seqs[r] = eventsOfRecord(records[r], r)
    BY <2>2 DEF IsBlock, EventsOfRecords
  <2>4. q \in Nat /\ r \in Nat
    BY <2>2
  <2>5. k \in DOMAIN eventsOfRecord(records[q], q) /\ m \in DOMAIN eventsOfRecord(records[r], r)
    <3>1. /\ DOMAIN eventsOfRecord(records[q], q) = 1..Len(eventsOfRecord(records[q], q))
          /\ DOMAIN eventsOfRecord(records[r], r) = 1..Len(eventsOfRecord(records[r], r))
      BY <2>3, EventsOfBlock
    <3>2. QED
      BY <2>2, <2>3, <3>1
  <2> HIDE DEF seqs
  <2>6. SUFFICES ASSUME seqs[q][k].index = seqs[r][m].index PROVE FALSE
    BY <2>2
  <2>7. eventsOfRecord(records[q], q)[k].index = eventsOfRecord(records[r], r)[m].index
    BY <2>3, <2>6
  <2>8. q = r /\ k = m
    BY <2>3, <2>5, <2>7, SameIndex
  <2>9. q \in Int /\ k \in Int
    BY <2>2, <2>4
  <2>10. QED
    BY <2>2, <2>8, <2>9
<1>3. ASSUME NEW j \in DOMAIN events, NEW l \in DOMAIN events, events[j].index = events[l].index
      PROVE  j = l
  <2>1. j \in 1..Len(events) /\ l \in 1..Len(events) /\ (j < l \/ l < j \/ j = l)
    BY <1>1
  <2>2. QED
    BY <1>2, <1>3, <2>1
<1>4. QED
  BY <1>3 DEF events

=============================================================================
