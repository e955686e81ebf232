SPECIFICATION MCSpec
CONSTANTS
  Nodes = {n1}
  Terminals = {t1}
  Bindable = {n1}
  Names = {"desk", "phone"}
  Reserved = {"desk"}
  EveryPhone = {"phone"}
  Chats = {c1}
  Local = "local"
  MaxStarts = 1
  MaxEnsuring = 1
  Outgoing = {"o1", "o2"}
  Wanted = {"i1"}
  TaskRestarts = 1
  Owner = "owner"
  ChatTerminals = {"terminal"}
  OtherPeers = {"p", "q"}
  Requests = {"r"}
  NoPeer = "none"
  Timeout = 1
  MaxAsks = 2
  NamedDevices <- Three
  Tables <- SomeTables
  Said <- SomeWords
  InWords <- Itself
CHECK_DEADLOCK FALSE
PROPERTY FinishedStays
