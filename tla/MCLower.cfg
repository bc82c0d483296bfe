SPECIFICATION Spec
CONSTANT Inputs <- MCInputs
INVARIANTS
  ModuleIsValid
  PreservesMeaning
