SPECIFICATION Spec
CONSTANTS
  Calls <- MCCalls
  Words <- MCWords
  ReportingBodyIDs <- MCReportingBodyIDs
  CountryCodes <- MCCountryCodes
  MaxDraws = 5
INVARIANTS
  LuhnValid
  LayoutOrRefused
