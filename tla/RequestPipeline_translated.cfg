SPECIFICATION Spec
CONSTANTS
  Reqs = {r1, r2}
  Emails = {e1}
SYMMETRY Symmetry
INVARIANT ErrorsTranslated
