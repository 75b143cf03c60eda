\* A configured chain, requests that add, remove, start and stop tunnels.
SPECIFICATION Spec
CONSTANTS
  bastion = bastion
  api = api
  db = db
  p1 = p1
  p2 = p2
  Names = {bastion, api, db}
  Ports = {p1, p2}
  Configs <- Configurations
  Offers <- ChainOffers
  Requests <- ChainRequests
  RestartPolicy = "always"
  MaxProcs = 3
  ApiEarly = FALSE
INVARIANTS
  TypeOK
  RegistryMatchesPlanner
  DependenciesAcyclic
  PortsExclusive
PROPERTIES
  AcceptedGraphExact
  ImplementsRegistry
