\* Fields of every size, sign and usage, alone and in pairs; any two reports in a row.
SPECIFICATION Spec
CONSTANTS
  Summaries <- SinglesAndPairs
  Payloads <- BoundaryPayloads
  ReportIds <- BothReports
INVARIANTS TypeOK PeerSeesReport RefusedIffUnacceptable
