\* A configured chain, failures and restarts, no requests.
SPECIFICATION FairSpec
CONSTANTS
  bastion = bastion
  api = api
  db = db
  p1 = p1
  p2 = p2
  Names = {bastion, api}
  Ports = {p1, p2}
  Configs <- OneConfig
  Offers = {}
  Requests = {}
  RestartPolicy = "always"
  MaxProcs = 2
  ApiEarly = FALSE
PROPERTIES
  DependentsRestarted
