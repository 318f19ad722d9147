SPECIFICATION FairSpec
CONSTANTS
  Company = {1, 2}
  Legacy = {1}
  Consumer = consumer
  Api = {}
  MaxRetries = 0
  MaxPerRun = 1
  NoMessage = NoMessage
  LaborSource = {"OSHA_ENFORCEMENT", "NLRB_CASES"}
  NoCountry = NoCountry
  NoSite = NoSite
  Firm <- MCFirm
  World <- MCWorld
  Limit <- MCLimit
  Official <- MCOfficial
  Item <- MCItem
INVARIANTS OutageInventsNothing NeverBoundToAnother
PROPERTY NewCompaniesHaveTheirTurn
