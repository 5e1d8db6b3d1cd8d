SPECIFICATION FairSpec
CONSTANTS
  registry = registry
  issuer = issuer
  tunnel = tunnel
  p1 = p1
  p2 = p2
  p3 = p3
  p4 = p4
  Services = {registry, issuer}
  Tunnels = {}
  UpOrder <- TwoServices
  DownOrder <- TwoServicesDown
  Repos = {registry, issuer}
  Repo <- OwnRepo
  Contracts = {issuer}
  Tokens = {}
  Pids = {p1, p2, p3}
  Ups = {"watch"}
  Watch = "watch"
  Slow = TRUE
  MaxEvents = 2
PROPERTIES HealsDowntime HealsDrift
