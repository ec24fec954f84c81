SPECIFICATION Spec
CONSTANTS
  MaxErrors = 2
INVARIANT MultibitUncorrected
