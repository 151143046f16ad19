\* Three providers, nine bodies, two changes of the surroundings.
SPECIFICATION BusySpec
CONSTANTS
  Provider <- const_Provider
  Traits <- const_Traits
  Bodies <- const_Bodies
  Stages <- const_Stages
  DefaultProfile = "interactive"
  FirstView <- const_FirstView
  ListedAs <- const_ListedAs
  MaxChanges = 2
PROPERTIES BackToWork
