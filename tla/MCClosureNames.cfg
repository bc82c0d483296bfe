SPECIFICATION Spec
CONSTANT Inputs <- MCInputs
INVARIANT PreservesMeaning
