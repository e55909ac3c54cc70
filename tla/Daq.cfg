SPECIFICATION Spec
CHECK_DEADLOCK FALSE
CONSTANTS
  Configurations <- AllConfigurations
  Advances = {100, 200}
INVARIANTS
  TypeOK
  ConfigurationAccepted
  MeasurementsExact
  TimesExact
