CONSTANTS
  Approval = {a1, a2}
  Action = {"x"}
  Key = {"k1", "k2"}
  Owner = {"ann", "bob"}
  Stores <- MCStores
  IdemKey = {"i"}
  Delivery = "approver_minted"
  MaxBearers = 1
  MaxEdits = 1
  MaxRestarts = 1
SPECIFICATION Spec
INVARIANTS TypeOK FourEyes AnswersAreTrue
CONSTRAINT OneDisturbance
SYMMETRY ApprovalSymmetry
CHECK_DEADLOCK FALSE
