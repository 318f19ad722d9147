SPECIFICATION FairSpec
CONSTANTS
  Company = {1}
  Legacy = {}
  Consumer = consumer
  Api = {api1, api2}
  MaxRetries = 1
  MaxPerRun = 2
  NoMessage = NoMessage
INVARIANTS TypeOK OneCollector
PROPERTIES ResultIsKept CompaniesAreCollected RecoveryEnds
