SPECIFICATION Spec
CONSTANTS
  registry = registry
  issuer = issuer
  tunnel = tunnel
  p1 = p1
  p2 = p2
  p3 = p3
  p4 = p4
  Services = {registry}
  Tunnels = {tunnel}
  UpOrder <- WithTunnel
  DownOrder <- WithTunnel
  Repos = {registry}
  Repo <- OwnRepo
  Contracts = {registry}
  Tokens = {tunnel}
  Pids = {p1, p2}
  Ups = {"watch", "operator"}
  Watch = "watch"
  Slow = TRUE
  MaxEvents = 3
INVARIANTS TypeOK NoOrphans
PROPERTY KeepsTheCurrent
SYMMETRY PidSymmetry
