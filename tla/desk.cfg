SPECIFICATION Spec
CONSTANTS
  uw = uw
  senior1 = senior1
  senior2 = senior2
  admin = admin
  Users = {uw, senior1, senior2, admin}
  RoleOf <- DeskRoles
  Senior = senior1
  Holder = uw
  Importer = admin
  Nobody = Nobody
  Conditions = {"payoff"}
  AssigneeOf <- DeskAssignees
  BlocksClosing = {"payoff"}
  MaxRequests = 3
INVARIANTS
  TablesAgree
PROPERTIES
  ClosedByTheHolder
  ConditionsAdvance
