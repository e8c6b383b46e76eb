SPECIFICATION Spec
CONSTANTS
  Window = {w1}
  Class = {"CL_PAM"}
  Parent = {1, 2}
  NumberMax <- MCNumberMax
PROPERTY EditOnlyRenames
