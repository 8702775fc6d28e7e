SPECIFICATION ActorSpec
CONSTANTS
  Main = main
  Actor = actor
  Clients = {c1, c2}
  Order <- MCOrder
  Applied = "config"
  CoilOrder <- MCCoilOrder
  MailCap = 1
  Batch = 1
  TicketMod = 3
INVARIANTS ConfirmedIsSaved RestartIsSaved
