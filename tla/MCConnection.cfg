SPECIFICATION HSpec
CONSTANTS
  null = null
  h1 = h1
  h2 = h2
  h3 = h3
  l1 = l1
  l2 = l2
  Hosts = {h1, h2, h3}
  Logins = {l1, l2}
  Users <- ThreeServers
  MaxClients = 2
  MaxSecrets = 1
INVARIANTS ConnectionTypeOK CallsUseSession PrintsTellSession
