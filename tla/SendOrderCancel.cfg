SPECIFICATION HookFairSpec
CONSTANTS
  Requests = {r1, r2}
  Capacity = 1
  Legacy = 1
  MaxNumber = 3
  MaxExits = 1
  MaxFaults = 0
  CallsStop = FALSE
  NoRequest = NoRequest
  Importer = "exe"
  MaxErrors = 0
  Absent = Absent
  Torn = Torn
  PdfConfigs <- MCPdfConfigs
  Installed = {"SumatraPDF"}
  WithToken = {r1, r2}
  WithEmail = {r1}
INVARIANTS
  HookTypeOK
  PaperIsOwnInvoice
PROPERTIES
  MailNotHeldByPrinter
  HooksRelease
  CancelEndsWorker
CHECK_DEADLOCK FALSE
