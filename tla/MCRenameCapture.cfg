SPECIFICATION Spec
CONSTANT Programs <- DeepPrograms
INVARIANT NoCapture
