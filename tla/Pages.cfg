SPECIFICATION Spec
CONSTANTS
  Items = {"Unspecified", "x", "y"}
  Words = {"text"}
INVARIANTS TypeOK OidsFit AddsAreNew ItemsFirst SavedAsChosen ViewsTell
PROPERTIES UntouchedStays PartsChangeNothing Leaves
