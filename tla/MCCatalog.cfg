SPECIFICATION Spec
CONSTANTS
  Window = {w1, w2}
  Class = {"CL_COMP_REV", "CL_PLATFORM"}
  Parent = {1, 2}
  NumberMax <- MCNumberMax
SYMMETRY MCSymmetry
INVARIANTS
  TypeOK
  RevisionsFit
  NumbersAreNew
PROPERTY AddedUnderChosen
