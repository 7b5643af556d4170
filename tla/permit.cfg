SPECIFICATION PermitSpec
CONSTANTS
  n1 = n1
  ip1 = ip1
  ip2 = ip2
  dotted = dotted
  mapped = mapped
  junk = junk
  Net = {n1}
  IP = {ip1, ip2}
  Hosts <- OneNet
  IPv6 = {}
  Handler = {h1, h2}
  Store = "memory"
  NoNet = NoNet
  Login = {l1}
  Password = {p1}
  Text = {dotted, mapped, junk}
  Parse <- Spelled
  NoIP = NoIP
  NoQuery = NoQuery
  LimitOf <- Limited
  Period = 1
SYMMETRY Symmetry
INVARIANTS PermitTypeOK QuotaHolds ListedNotCounted PermitInv
PROPERTIES ListsHold ResetClears
