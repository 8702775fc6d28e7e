SPECIFICATION Spec
CONSTANTS
  Main = Main
  Http = Http
  Serial = Serial
  Clients = {Main, Http, Serial}
  NoClient = NoClient
  Requests <- MCRequests
  Reads <- MCReads
  MailboxSize = 2
  MaxProtoWrites = 2
  MaxArms = 2
  MaxCalls = 2
  MaxRounds = 2
CONSTRAINT OneConcern
INVARIANTS KeptOrMarked OneCommitPerPermission NameIsMirrored CleanMeansCommitted ReadsOneMoment
