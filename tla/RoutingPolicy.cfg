\* Three providers, nine bodies, three changes of the surroundings.
SPECIFICATION Spec
CONSTANTS
  Provider <- const_Provider
  Traits <- const_Traits
  Bodies <- const_Bodies
  Stages <- const_Stages
  DefaultProfile = "interactive"
  FirstView <- const_FirstView
  ListedAs <- const_ListedAs
  MaxChanges = 3
PROPERTIES PowerRespected
