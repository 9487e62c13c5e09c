CONSTANTS
  FrontEnds = {cli, console}
  Consoles = {console}
  Installations = {h1, h2}
  EntityFiles <- MCEntityFiles
  None = None
  MaxMinted = 14
  MaxShared = 4
  MaxVisits = 4
  MaxFaults = 2
CHECK_DEADLOCK FALSE
SPECIFICATION Spec
INVARIANTS
  InterruptedRunResumes
  RecordedHangsTogether
PROPERTIES
  AccessCertificateIsKept
