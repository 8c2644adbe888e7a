--------------------------- MODULE RegistryReader ---------------------------
(***************************************************************************)
(* RedisRegistryReader (services/registry-sync/src/reader.ts), by which    *)
(* the endpoint asks whether a sensor may send, on top of the projection   *)
(* that registry-sync keeps.  A reader knows a sensor by its key, in bytes.*)
(***************************************************************************)
EXTENDS RegistrySync

\* The key of the hash read for a sensor: the hex of its bytes.
toHex(sensorKey) == [key |-> sensorKey, form |-> "hex"]

\* The record stored under exactly this id, if there is one.
readSensor(sensorId) ==
  IF sensorId \in Sensors THEN sensorState[sensorId] ELSE NoRecord

getSensorRecord(sensorKey) == readSensor(toHex(sensorKey))

authenticate(sensorKey) ==
  LET record == getSensorRecord(sensorKey)
  IN record # NoRecord /\ record.enabled = "true"

-----------------------------------------------------------------------------
(* Properties.                                                             *)

\* What the README of registry-sync says of the Authorizer ("`rws.NewDevices`:
\* every address in `devices` becomes eligible (`enabled=true`) for
\* Authorizer"): once the event of a device is applied, and is the last one
\* applied to it, the reader authenticates the device.
NewDevicesAreEligible ==
  \A p \in applied :
    LET id == Event(p).sensor
    IN ("rws.newdevices" \in Event(p).words /\ sensorState[id] = RecordOf(p))
         => authenticate(id.key)

=============================================================================
