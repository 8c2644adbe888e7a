--------------------------- MODULE MCRegistrySync ---------------------------
(***************************************************************************)
(* Small chains for RegistrySync.  They are written out, and assumed to be *)
(* what normalizeRegistryEvents makes of the raw records of the blocks.    *)
(***************************************************************************)
EXTENDS RegistrySync

CONSTANTS a, b   \* the keys of two sensors

Id(key, form) == [key |-> key, form |-> form]

idA == Id(a, "robonomics")
idB == Id(b, "robonomics")

MCSensors == {idA, idB}

Record(words, sensor, enabled) ==
  [words |-> words, devices |-> << >>, sensor |-> sensor, enabled |-> enabled]

NewDevices(devices) ==
  [words |-> {"rws.newdevices", "device"}, devices |-> devices,
   sensor |-> NoSensor, enabled |-> "absent"]

Transfer == Record({}, NoSensor, "absent")

Normalized(blocks) == [h \in DOMAIN blocks |-> normalizeRegistryEvents(blocks[h])]

\* Block 1 grants two sensors and revokes one again; block 2 holds an event no
\* update follows from and grants the sensor anew.
MCBlocks ==
  << << Transfer, NewDevices(<< Id(a, "ss58"), Id(b, "0x") >>),
        Record({"registry", "revoke"}, idA, "absent") >>,
     << Record({"registry"}, NoSensor, "absent"),
        Record({"device", "auth"}, idA, "true") >> >>

MCChain ==
  << << [index |-> IndexStride, words |-> {"rws.newdevices", "device"},
         sensor |-> idA, enabled |-> "true"],
        [index |-> IndexStride + 1, words |-> {"rws.newdevices", "device"},
         sensor |-> idB, enabled |-> "true"],
        [index |-> 2, words |-> {"registry", "revoke"},
         sensor |-> idA, enabled |-> "absent"] >>,
     << [index |-> 0, words |-> {"registry"},
         sensor |-> NoSensor, enabled |-> "absent"],
        [index |-> 1, words |-> {"device", "auth"},
         sensor |-> idA, enabled |-> "true"] >> >>

ASSUME MCChainIsNormalized == MCChain = Normalized(MCBlocks)

\* A sensor is granted in block 1 and revoked in block 2.
GrantRevokeBlocks ==
  << << NewDevices(<< Id(a, "ss58") >>) >>,
     << Record({"registry", "revoke"}, idA, "absent") >> >>

GrantRevokeChain ==
  << << [index |-> 0, words |-> {"rws.newdevices", "device"},
         sensor |-> idA, enabled |-> "true"] >>,
     << [index |-> 0, words |-> {"registry", "revoke"},
         sensor |-> idA, enabled |-> "absent"] >> >>

ASSUME GrantRevokeChainIsNormalized ==
  GrantRevokeChain = Normalized(GrantRevokeBlocks)

\* What the theorems about RegistrySync assume of a chain holds of these.
ASSUME IdsOfChainAreUnique == UniqueIds

=============================================================================
