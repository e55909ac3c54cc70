--------------------------- MODULE CanIdentifiers ---------------------------
(***************************************************************************)
(* CAN identifiers and filters (src/pyxcp/transport/can.py).  A raw        *)
(* identifier, as it is configured, is a number on the bus and a flag for  *)
(* the 29-bit ones; two nodes may use the same number in the two sizes.    *)
(***************************************************************************)
EXTENDS Integers, Sequences

CONSTANTS
  MaxStandard,    \* MAX_11_BIT_IDENTIFIER
  MaxExtended,    \* MAX_29_BIT_IDENTIFIER
  ExtendedFlag    \* CAN_EXTENDED_ID

ASSUME IdentifiersAssumption ==
  /\ MaxStandard \in Nat /\ MaxExtended \in Nat /\ ExtendedFlag \in Nat
  /\ MaxStandard < MaxExtended /\ MaxExtended < ExtendedFlag

(* What a message carries: the number, and its size as 0 or 1.             *)
BusIds == (0 .. MaxStandard) \X {0} \cup (0 .. MaxExtended) \X {1}

is_extended_identifier(raw) == (raw \div ExtendedFlag) % 2 = 1
stripIdentifier(raw) == raw % (MaxExtended + 1)
Identifier(raw) ==
  [id |-> stripIdentifier(raw), raw |-> raw, extended |-> is_extended_identifier(raw)]
InRange(raw) ==                   \* else IdentifierOutOfRangeError
  stripIdentifier(raw) <= (IF is_extended_identifier(raw) THEN MaxExtended ELSE MaxStandard)
make_identifier(bus) ==
  Identifier(IF bus[2] = 1 THEN bus[1] + ExtendedFlag ELSE bus[1])
OnBus(raw) ==
  <<Identifier(raw).id, IF Identifier(raw).extended THEN 1 ELSE 0>>

(* create_filter_from_id() and SoftwareFilter.accept().                    *)
Filter(raw) ==
  [id |-> Identifier(raw).id, extended |-> Identifier(raw).extended,
   mask |-> IF Identifier(raw).extended THEN MaxExtended ELSE MaxStandard]
Passes(f, bus) == f.extended = (bus[2] = 1) /\ f.id % (f.mask + 1) = bus[1] % (f.mask + 1)
Accepted(filters, bus) == \E f \in filters : Passes(f, bus)

(* Can.__init__: the filters of the slave and of the DTOs that have an     *)
(* identifier each, and the PID that stands for it.                        *)
FiltersOf(slaveId, daqIds) == {Filter(slaveId)} \cup {Filter(daqIds[i]) : i \in DOMAIN daqIds}
PidsOf(daqIds, raw) == {i \in DOMAIN daqIds : daqIds[i] = raw}
=============================================================================
