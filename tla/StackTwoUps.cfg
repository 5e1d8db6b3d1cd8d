SPECIFICATION FairSpec
CONSTANTS
  registry = registry
  issuer = issuer
  tunnel = tunnel
  p1 = p1
  p2 = p2
  p3 = p3
  p4 = p4
  Services = {registry}
  Tunnels = {}
  UpOrder <- OneService
  DownOrder <- OneService
  Repos = {registry}
  Repo <- OwnRepo
  Contracts = {registry}
  Tokens = {}
  Pids = {p1, p2, p3, p4}
  Ups = {"watch", "operator"}
  Watch = "watch"
  Slow = TRUE
  MaxEvents = 2
PROPERTIES HealsDowntime UpEnds
