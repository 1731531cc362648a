SPECIFICATION FairSpec
CONSTANTS
  Docs <- MCDocs
  Fields <- MCFields
  Dotted <- MCDotted
  Values <- MCValues
  Missing = Missing
  Null = Null
  Absent = Absent
  Bodies <- MCBodies
  Declarations <- MCDeclarations
  Conditions <- MCConditions
  MaxChanges = 1
INVARIANTS
  SubsetIsExact
  IntactUnlessTouched
  AdmittedOnce
PROPERTIES
  Termination
