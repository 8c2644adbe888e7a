------------------------ MODULE RegistryReaderProofs ------------------------
(***************************************************************************)
(* What the reader's answers mean, for every chain, key and schedule: the  *)
(* answer for a sensor is that of the last event applied to it, as long as *)
(* no block given up is run again; but it is asked for by an id that no    *)
(* address on the chain is ever stored under.                              *)
(***************************************************************************)
EXTENDS RegistryReader, RegistrySyncProofs

-----------------------------------------------------------------------------
(* Records and the events they are from.                                   *)

\* A record is from an event that was applied to the sensor.
RecordsAreApplied ==
  \A s \in Sensors :
    \/ sensorState[s] = NoRecord
    \/ \E p \in applied : Event(p).sensor = s /\ sensorState[s] = RecordOf(p)

LEMMA RecordsAppliedStep ==
  ASSUME TypeOK, Bounds, RecordsAreApplied, [Next]_vars
  PROVE  RecordsAreApplied'
<1>1. CASE ProcessEvent
  <2>1. SUFFICES ASSUME NEW s \in Sensors
                 PROVE  \/ sensorState'[s] = NoRecord
                        \/ \E p \in applied' : Event(p).sensor = s /\ sensorState'[s] = RecordOf(p)
    BY DEF RecordsAreApplied, Event, RecordOf, Update, NoRecord
  <2>2. CASE sensorState'[s] = sensorState[s] /\ applied \subseteq applied'
    BY <2>2 DEF RecordsAreApplied
  <2>3. CASE /\ stage = "apply" /\ s = Event(Current).sensor
             /\ sensorState' = [sensorState EXCEPT ![Event(Current).sensor] = RecordOf(Current)]
             /\ applied' = applied \cup {Current}
    BY <2>3 DEF TypeOK
  <2>4. QED
    BY <1>1, <2>2, <2>3, ProcessEffects DEF CallEffects, TypeOK
<1>2. CASE OpenOrEnd \/ UNCHANGED vars
  <2>1. applied' = applied /\ sensorState' = sensorState
    BY <1>2, OpenOrEndMoves DEF vars, store
  <2>2. QED
    BY <2>1 DEF RecordsAreApplied, Event, RecordOf, Update, NoRecord
<1>3. QED
  BY <1>1, <1>2, StepKinds

LEMMA RecordsAppliedInvariant == Spec => []RecordsAreApplied
<1>1. Init => RecordsAreApplied
  BY DEF Init, RecordsAreApplied
<1>2. BlockInv => TypeOK /\ Bounds
  BY DEF BlockInv
<1>3. QED
  BY <1>1, <1>2, RecordsAppliedStep, BlockInvariant, PTL DEF Spec

\* The reader says yes to key: the record it finds is from an event that
\* granted exactly the id it asks for.
Granted(key) ==
  \E p \in applied :
    /\ Event(p).sensor = toHex(key)
    /\ sensorState[toHex(key)] = RecordOf(p)
    /\ Update(p) = "true"

LEMMA RecordBehindAnswer ==
  ASSUME RecordsAreApplied, NEW key, authenticate(key)
  PROVE  toHex(key) \in Sensors /\ Granted(key)
<1> DEFINE id == toHex(key)
<1>1. /\ id \in Sensors /\ sensorState[id] # NoRecord
      /\ sensorState[id].enabled = "true"
  BY DEF authenticate, getSensorRecord, readSensor
<1>2. PICK p \in applied : Event(p).sensor = id /\ sensorState[id] = RecordOf(p)
  BY <1>1 DEF RecordsAreApplied
<1>3. Update(p) = "true"
  BY <1>1, <1>2 DEF RecordOf
<1>4. QED
  BY <1>1, <1>2, <1>3 DEF Granted

\* No sensor is authenticated that no applied event has granted, whatever
\* fails and in whatever order blocks are run (authenticate in reader.ts).
THEOREM AuthenticatedWasGranted ==
  ASSUME NEW key
  PROVE  Spec => [](authenticate(key) => Granted(key))
<1>1. RecordsAreApplied => (authenticate(key) => Granted(key))
  BY RecordBehindAnswer
<1>2. QED
  BY <1>1, RecordsAppliedInvariant, PTL

-----------------------------------------------------------------------------
(* The last word on a sensor.                                              *)

\* The last event applied to the sensor, in the order of the chain, grants it.
LastIsGrant(key) ==
  \E p \in applied :
    /\ Event(p).sensor = toHex(key)
    /\ Update(p) = "true"
    /\ \A q \in applied : Event(q).sensor = toHex(key) => NotAfter(q, p)

LEMMA NotAfterEachOther ==
  ASSUME NEW p \in Position, NEW q \in Position, NotAfter(p, q), NotAfter(q, p)
  PROVE  p = q
<1>1. p[1] \in Nat /\ p[2] \in Nat /\ q[1] \in Nat /\ q[2] \in Nat
  BY PositionParts, ChainAssumption DEF Heights
<1>2. p[1] = q[1] /\ p[2] = q[2]
  BY <1>1 DEF NotAfter
<1>3. p = <<p[1], p[2]>> /\ q = <<q[1], q[2]>>
  BY PositionParts
<1>4. QED
  BY <1>2, <1>3

LEMMA AnswerIsLast ==
  ASSUME TypeOK, RecordsAreApplied, InOrder, NEW key
  PROVE  authenticate(key) <=> LastIsGrant(key)
<1> DEFINE id == toHex(key)
<1>1. ASSUME authenticate(key)
      PROVE  LastIsGrant(key)
  <2>1. PICK p \in applied : /\ Event(p).sensor = id
                             /\ sensorState[id] = RecordOf(p)
                             /\ Update(p) = "true"
    BY <1>1, RecordBehindAnswer DEF Granted
  <2>2. sensorState[id].at = p
    BY <2>1 DEF RecordOf
  <2>3. \A q \in applied : Event(q).sensor = id => NotAfter(q, p)
    BY <2>2 DEF InOrder
  <2>4. QED
    BY <2>1, <2>3 DEF LastIsGrant
<1>2. ASSUME LastIsGrant(key)
      PROVE  authenticate(key)
  <2>1. PICK p \in applied : /\ Event(p).sensor = id
                             /\ Update(p) = "true"
                             /\ \A q \in applied : Event(q).sensor = id => NotAfter(q, p)
    BY <1>2 DEF LastIsGrant
  <2>2. p \in Position /\ id \in Sensors /\ NotAfter(p, sensorState[id].at)
    BY <2>1 DEF TypeOK, InOrder
  <2>3. sensorState[id] # NoRecord
    <3>1. SUFFICES ASSUME sensorState[id] = NoRecord PROVE FALSE
      OBVIOUS
    <3>2. sensorState[id].at[1] = 0
      BY <3>1 DEF NoRecord
    <3>3. p[1] \in 1..MaxHeight
      BY <2>2, PositionParts DEF Heights
    <3>4. QED
      BY <2>2, <3>2, <3>3 DEF NotAfter
  <2>4. PICK q \in applied : Event(q).sensor = id /\ sensorState[id] = RecordOf(q)
    BY <2>2, <2>3 DEF RecordsAreApplied
  <2>5. q = p
    <3>1. sensorState[id].at = q
      BY <2>4 DEF RecordOf
    <3>2. NotAfter(q, p) /\ NotAfter(p, q) /\ q \in Position
      BY <2>1, <2>2, <2>4, <3>1 DEF TypeOK
    <3>3. QED
      BY <2>2, <3>2, NotAfterEachOther
  <2>6. sensorState[id].enabled = "true"
    BY <2>1, <2>4, <2>5 DEF RecordOf
  <2>7. QED
    BY <2>2, <2>3, <2>6 DEF authenticate, getSensorRecord, readSensor
<1>3. QED
  BY <1>1, <1>2

\* As long as no block given up is run again, the reader authenticates a key
\* exactly while the last event applied to its id is a grant: neither a
\* revocation nor a grant is undone by retries, repeated heads or a restart.
THEOREM ReaderFollowsChain ==
  ASSUME NEW key
  PROVE  Spec /\ [](height \notin abandoned) => [](authenticate(key) <=> LastIsGrant(key))
<1>1. BlockInv => TypeOK
  BY DEF BlockInv
<1>2. TypeOK /\ RecordsAreApplied /\ InOrder => (authenticate(key) <=> LastIsGrant(key))
  BY AnswerIsLast
<1>3. QED
  BY <1>1, <1>2, BlockInvariant, RecordsAppliedInvariant, SettlesUnlessReplayed, PTL

-----------------------------------------------------------------------------
(* The ids of the chain and the ids the reader asks for.                   *)

\* The sensors of these keys, as the chain names accounts.
Addresses(Keys) == [key : Keys, form : {"ss58", "robonomics", "0x"}]

\* Every block of the chain is what normalizeRegistryEvents makes of records
\* that name sensors by their addresses, or none.
NamesAddresses(Blocks, Keys) ==
  \A h \in Heights :
    /\ IsBlock(Blocks[h], Addresses(Keys))
    /\ \A r \in DOMAIN Blocks[h] : Blocks[h][r].sensor \in Addresses(Keys) \cup {NoSensor}
    /\ Chain[h] = normalizeRegistryEvents(Blocks[h])

LEMMA AddressIsNotHex ==
  ASSUME NEW Keys, NEW address \in Addresses(Keys), NEW key
  PROVE  /\ address # toHex(key)
         /\ normalizeRobonomicsAddress(address) # toHex(key)
<1>1. /\ address.form \in {"ss58", "robonomics", "0x"}
      /\ normalizeRobonomicsAddress(address).form = "robonomics"
  BY DEF Addresses, normalizeRobonomicsAddress
<1>2. toHex(key).form = "hex"
  BY DEF toHex
<1>3. QED
  BY <1>1, <1>2

\* What a record's events name is an address too.
LEMMA RecordNamesNoHex ==
  ASSUME NEW Keys, NEW x, x.devices \in Seq(Addresses(Keys)),
         x.sensor \in Addresses(Keys) \cup {NoSensor}, NEW r \in Nat,
         NEW k \in DOMAIN eventsOfRecord(x, r), NEW key
  PROVE  \/ eventsOfRecord(x, r)[k].sensor = NoSensor
         \/ eventsOfRecord(x, r)[k].sensor # toHex(key)
<1> DEFINE entries == extractRegistryEntries(x)
           event(i, entry) ==
             [index |-> i, words |-> x.words,
              sensor |-> entry.sensor, enabled |-> entry.enabled]
<1>1. ASSUME NEW i \in DOMAIN entries
      PROVE  entries[i].sensor = NoSensor \/ entries[i].sensor # toHex(key)
  <2>1. CASE "rws.newdevices" \in x.words
    <3>1. i \in DOMAIN x.devices /\ entries[i].sensor = normalizeRobonomicsAddress(x.devices[i])
      BY <1>1, <2>1 DEF extractRegistryEntries
    <3>2. x.devices[i] \in Addresses(Keys)
      BY <3>1
    <3>3. QED
      BY <3>1, <3>2, AddressIsNotHex
  <2>2. CASE "rws.newdevices" \notin x.words
    <3>1. entries = << [sensor |-> x.sensor, enabled |-> x.enabled] >>
      BY <2>2 DEF extractRegistryEntries
    <3>2. entries[i].sensor = x.sensor
      BY <1>1, <3>1
    <3>3. QED
      BY <3>2, AddressIsNotHex
  <2>3. QED
    BY <2>1, <2>2
<1>2. CASE ~looksLikeRegistryEvent(x.words)
  <2>1. eventsOfRecord(x, r) = << >>
    BY <1>2 DEF eventsOfRecord
  <2>2. QED
    BY <2>1
<1>3. CASE looksLikeRegistryEvent(x.words) /\ entries = << >>
  <2>1. eventsOfRecord(x, r) = << event(r - 1, [sensor |-> NoSensor, enabled |-> "absent"]) >>
    BY <1>3 DEF eventsOfRecord
  <2>2. QED
    BY <2>1
<1>4. CASE looksLikeRegistryEvent(x.words) /\ entries # << >> /\ Len(entries) = 1
  <2>1. eventsOfRecord(x, r) = << event(r - 1, entries[1]) >>
    BY <1>4 DEF eventsOfRecord
  <2>2. 1 \in DOMAIN entries
    <3>1. CASE "rws.newdevices" \in x.words
      <4>1. DOMAIN entries = 1..Len(x.devices) /\ Len(x.devices) \in Nat
        BY <3>1 DEF extractRegistryEntries
      <4>2. entries = [i \in 1..Len(x.devices) |-> entries[i]]
        BY <3>1, <4>1 DEF extractRegistryEntries
      <4>3. Len(entries) = Len(x.devices)
        <5> HIDE DEF entries
        <5>1. QED
          BY <4>1, <4>2, LengthIs
      <4>4. QED
        BY <1>4, <4>1, <4>3
    <3>2. CASE "rws.newdevices" \notin x.words
      BY <3>2 DEF extractRegistryEntries
    <3>3. QED
      BY <3>1, <3>2
  <2>3. k = 1 /\ eventsOfRecord(x, r)[k].sensor = entries[1].sensor
    BY <2>1
  <2>4. QED
    BY <1>1, <2>2, <2>3
<1>5. CASE looksLikeRegistryEvent(x.words) /\ entries # << >> /\ Len(entries) # 1
  <2>1. eventsOfRecord(x, r)
          = [j \in DOMAIN entries |-> event((r - 1) * IndexStride + (j - 1), entries[j])]
    BY <1>5 DEF eventsOfRecord
  <2>2. k \in DOMAIN entries /\ eventsOfRecord(x, r)[k].sensor = entries[k].sensor
    BY <2>1
  <2>3. QED
    BY <1>1, <2>2
<1>6. QED
  BY <1>2, <1>3, <1>4, <1>5

LEMMA EventNamesNoHex ==
  ASSUME NEW Blocks, NEW Keys, NamesAddresses(Blocks, Keys), NEW p \in Position, NEW key
  PROVE  Event(p).sensor = NoSensor \/ Event(p).sensor # toHex(key)
<1> DEFINE records == Blocks[p[1]]
           events == normalizeRegistryEvents(records)
           seqs == EventsOfRecords(records)
<1>1. /\ p[1] \in Heights /\ p[2] \in 1..Len(Chain[p[1]])
      /\ IsBlock(records, Addresses(Keys)) /\ Chain[p[1]] = events
      /\ \A r \in DOMAIN records : records[r].sensor \in Addresses(Keys) \cup {NoSensor}
  BY PositionParts DEF NamesAddresses
<1>2. Gathers(events, seqs, Len(records))
  BY <1>1, NormalizedInOrder
<1>3. p[2] \in 1..Len(events) /\ Event(p) = events[p[2]]
  BY <1>1 DEF Event
<1> HIDE DEF events
<1>4. PICK at : GathersFrom(at, events, seqs, Len(records))
  BY <1>2 DEF Gathers
<1> DEFINE r == at[p[2]][1]
           k == at[p[2]][2]
<1>5. at[p[2]] \in Places(seqs, Len(records)) /\ events[p[2]] = seqs[r][k]
  BY <1>3, <1>4 DEF GathersFrom
<1>6. r \in 1..Len(records) /\ k \in 1..Len(seqs[r])
  BY <1>5 DEF Places
<1> HIDE DEF r, k
<1>7. r \in DOMAIN records /\ r \in Nat
  BY <1>1, <1>6 DEF IsBlock
<1>8. seqs[r] = eventsOfRecord(records[r], r)
  BY <1>7 DEF EventsOfRecords
<1>9. k \in DOMAIN eventsOfRecord(records[r], r)
  BY <1>1, <1>6, <1>7, <1>8, EventsOfBlock
<1>10. records[r].devices \in Seq(Addresses(Keys))
  BY <1>1, <1>7 DEF IsBlock
<1> HIDE DEF records, seqs
<1>11. \/ eventsOfRecord(records[r], r)[k].sensor = NoSensor
       \/ eventsOfRecord(records[r], r)[k].sensor # toHex(key)
  BY <1>1, <1>7, <1>9, <1>10, RecordNamesNoHex
<1>12. QED
  BY <1>3, <1>5, <1>8, <1>11

\* On a chain that names sensors by address the reader authenticates nobody,
\* ever: an id is stored as the address it came as, or as that of the
\* Robonomics network, and asked for in bare hex (chain-source.ts and
\* keyspace.ts against reader.ts).
THEOREM AddressesAreNeverFound ==
  ASSUME NEW Blocks, NEW Keys, NamesAddresses(Blocks, Keys), NEW key
  PROVE  Spec => []~authenticate(key)
<1>1. TypeOK /\ RecordsAreApplied => ~authenticate(key)
  <2> SUFFICES ASSUME TypeOK, RecordsAreApplied, authenticate(key)
               PROVE  FALSE
    OBVIOUS
  <2>1. PICK p \in applied : Event(p).sensor = toHex(key) /\ Update(p) = "true"
    BY RecordBehindAnswer DEF Granted
  <2>2. p \in Position /\ Event(p).sensor # NoSensor
    BY <2>1 DEF TypeOK, Update, mapRegistryEventToUpdate
  <2>3. QED
    BY <2>1, <2>2, EventNamesNoHex
<1>2. BlockInv => TypeOK
  BY DEF BlockInv
<1>3. QED
  BY <1>1, <1>2, BlockInvariant, RecordsAppliedInvariant, PTL

=============================================================================
