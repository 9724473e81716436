\* a failed reload is never made good: the file enables u2, the proxy never
\* loads it
CONSTANTS
  c1 = c1
  c2 = c2
  c3 = c3
  u1 = u1
  u2 = u2
  NoOuter = NoOuter
  Conns <- MCConns
  Urls <- MCUrls
  Outer <- MCOuter
  InitEnabled = {c1}
  Published <- MCPublished
  Command = "docker"
  MaxFailures = 1
SPECIFICATION Spec
PROPERTIES
  SavedConfigIsLoaded
