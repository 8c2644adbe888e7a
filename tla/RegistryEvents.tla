--------------------------- MODULE RegistryEvents ---------------------------
(***************************************************************************)
(* The pure functions of registry-sync: how the raw event records of a     *)
(* finalized block become registry events (chain-source.ts), and how one   *)
(* registry event becomes an update of the sensor projection               *)
(* (keyspace.ts).                                                          *)
(*                                                                         *)
(* A name "<section>.<method>" is only ever tested with includes(), so it  *)
(* is the set of the words it includes.  The payload of a record is what   *)
(* the extraction helpers find in it: the device addresses of              *)
(* rws.NewDevices, or one sensor and one explicit enabled flag.            *)
(***************************************************************************)
EXTENDS Integers, Sequences, SequencesExt

CONSTANTS
  NoSensor,     \* no sensor id could be extracted
  IndexStride   \* the factor 10_000 that spreads the indices of one record

ASSUME IndexStrideAssumption == IndexStride \in Nat \ {0}

(***************************************************************************)
(* looksLikeRegistryEvent: the filter on event names.                      *)
(***************************************************************************)
looksLikeRegistryEvent(words) ==
  \/ "rws.newdevices" \in words
  \/ "registry" \in words
  \/ /\ words \cap {"sensor", "device", "key"} # {}
     /\ words \cap {"auth", "enable", "disable"} # {}

(***************************************************************************)
(* normalizeRobonomicsAddress: a sensor id is the key it stands for and    *)
(* the form it is written in.  What decodeAddress can decode becomes the   *)
(* SS58 address of the Robonomics network, the rest stays as it is, as the *)
(* ids of all other events do.                                             *)
(***************************************************************************)
normalizeRobonomicsAddress(address) ==
  IF address.form \in {"ss58", "robonomics", "0x"}
    THEN [address EXCEPT !.form = "robonomics"]
    ELSE address

(***************************************************************************)
(* extractRegistryEntries: every address of NewDevices is an enabled       *)
(* sensor; any other record yields exactly one entry, possibly without a   *)
(* sensor or without an enabled flag.                                      *)
(***************************************************************************)
extractRegistryEntries(record) ==
  IF "rws.newdevices" \in record.words
    THEN [k \in DOMAIN record.devices |->
            [sensor |-> normalizeRobonomicsAddress(record.devices[k]),
             enabled |-> "true"]]
    ELSE << [sensor |-> record.sensor, enabled |-> record.enabled] >>

(***************************************************************************)
(* The events of the record at position r (from 1) of a block: none unless *)
(* the name passes the filter, one without a sensor when nothing was       *)
(* extracted, else one per entry.  fallbackIndex counts from 0.            *)
(***************************************************************************)
eventsOfRecord(record, r) ==
  LET fallbackIndex == r - 1
      entries == extractRegistryEntries(record)
      event(index, entry) ==
        [index |-> index, words |-> record.words,
         sensor |-> entry.sensor, enabled |-> entry.enabled]
  IN CASE ~looksLikeRegistryEvent(record.words) -> << >>
       [] looksLikeRegistryEvent(record.words) /\ entries = << >> ->
            << event(fallbackIndex, [sensor |-> NoSensor, enabled |-> "absent"]) >>
       [] looksLikeRegistryEvent(record.words) /\ Len(entries) = 1 ->
            << event(fallbackIndex, entries[1]) >>
       [] OTHER ->
            [k \in DOMAIN entries |->
               event(fallbackIndex * IndexStride + (k - 1), entries[k])]

(***************************************************************************)
(* normalizeRegistryEvents: the registry events of a block, in the order   *)
(* of its records and, within a record, of its entries.                    *)
(***************************************************************************)
normalizeRegistryEvents(records) ==
  FlattenSeq([r \in DOMAIN records |-> eventsOfRecord(records[r], r)])

(***************************************************************************)
(* mapRegistryEventToUpdate: "true" or "false" for the sensor, or          *)
(* "unmapped" when the event names no sensor or no enablement follows from *)
(* it.  An explicit flag wins; a disabling word wins over an enabling one. *)
(***************************************************************************)
mapRegistryEventToUpdate(event) ==
  CASE event.sensor = NoSensor -> "unmapped"
    [] event.sensor # NoSensor /\ event.enabled # "absent" -> event.enabled
    [] OTHER ->
         IF event.words \cap {"disable", "revoke", "remove"} # {} THEN "false"
         ELSE IF event.words
                 \cap {"rws.newdevices", "create", "update", "enable", "set"} # {}
           THEN "true"
           ELSE "unmapped"

(***************************************************************************)
(* toChainEventId: the idempotency key of an event of a block.             *)
(***************************************************************************)
toChainEventId(height, event) == <<height, event.index>>

=============================================================================
