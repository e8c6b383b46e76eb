SPECIFICATION Spec
CONSTANTS
  Items = {"Unspecified", "x", "y"}
  Words = {"text"}
INVARIANT AllSavedAsChosen
