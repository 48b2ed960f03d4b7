CONSTANTS
  Ids = {i1, i2}
  Revisions = {r1}
  NoRevision = NoRevision
  NoOperation = NoOperation
SPECIFICATION Spec
PROPERTY ContractFence
