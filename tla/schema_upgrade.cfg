SPECIFICATION Spec
CONSTANTS
  Servers = {server}
  Consoles = {console}
  Commands = {import}
  Items = {"plain", "rich"}
  OldItems = {"plain"}
  NoTurn = "plain"
  MaxId = 2
  MaxEdits = 1
  MaxStops = 1
CONSTRAINTS StillPromised AtMostTwo
INVARIANTS
  TypeOK
  UpgradeKeepsRows
  SoleUpgradeCompletes
  SoleUpgradeNeverFails
