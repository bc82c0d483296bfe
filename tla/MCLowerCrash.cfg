SPECIFICATION Spec
CONSTANT Inputs <- MCInputs
INVARIANT NeverCrashes
