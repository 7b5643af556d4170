SPECIFICATION Spec
CONSTANTS
  n1 = n1
  ip1 = ip1
  ip2 = ip2
  Net = {n1}
  IP = {ip1, ip2}
  Hosts <- OneNet
  IPv6 = {}
  Handler = {h1, h2}
  Store = "memory"
  NoNet = NoNet
INVARIANT OneRulePerNet
