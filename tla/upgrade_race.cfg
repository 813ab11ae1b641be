SPECIFICATION Spec
CONSTANTS
  Servers = {server}
  Consoles = {console}
  Commands = {}
  Items = {"plain", "rich"}
  OldItems = {"plain"}
  NoTurn = "plain"
  MaxId = 2
  MaxEdits = 1
  MaxStops = 0
INVARIANT UpgradePreservesData
