SPECIFICATION Spec
CONSTANTS
  None = None
  Malformed = Malformed
  Keys = {1, 2}
  Namespaces = {"n1", "n2"}
  NamespaceOf <- OneNamespace
  MaxLimit = 2
  MaxResponse = 2
  PageLimit = 1
  MaxMoments = 2
  MaxEvents = 4
CHECK_DEADLOCK FALSE
INVARIANT ShownWasAsked
INVARIANT InventoryHonest
INVARIANT BusyExact
