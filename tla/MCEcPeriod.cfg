SPECIFICATION RpSpec
CONSTANTS
  Asked <- MCAsked
  Width = 65536
  MaxDays = 3650
INVARIANT EcPeriodAsAsked
