SPECIFICATION CliFairSpec
CONSTANTS
  n1 = n1
  ip1 = ip1
  ip2 = ip2
  ip3 = ip3
  Net = {n1}
  IP = {ip1, ip2, ip3}
  Hosts <- OneNet
  IPv6 = {ip3}
  Handler = {h1, h2}
  Store = "pgsql"
  NoNet = NoNet
  Client = {h1}
  Typed <- Typing
  Fields <- Lines
INVARIANTS CliTypeOK OneRulePerHandler AckedRuleStays IInv AckedIsEffective RefusedIsHarmless
PROPERTIES KeepsBook NotFoundIsTrue AddedMeansAdded Answered PromptComesBack ClientEnds
