CONSTANTS
  nikto1 = nikto1
  nikto2 = nikto2
  davtest = davtest
  nikto = nikto
  dav = dav
  Checks = {nikto1, nikto2, davtest}
  Programs = {nikto, dav}
  Runs <- ChecksRun
  Precheck <- PrecheckOrder
  MaxInterrupts = 2
SPECIFICATION ScanSpec
INVARIANTS
  ScanTypeOK
  SkippedAddsUp
  ReportIsBacked
PROPERTY ProcessEnds
CHECK_DEADLOCK FALSE
