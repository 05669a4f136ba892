CONSTANTS
  lo0 = lo0
  utun1 = utun1
  utun2 = utun2
  en0 = en0
  en5 = en5
  en7 = en7
  home = home
  office = office
  r1 = r1
  r2 = r2
  m1 = m1
  m2 = m2
  google = google
  quad9 = quad9
  pihole = pihole
  lab = lab
  attic = attic
  None = None
  Links <- MCLinks
  Tunnels = {utun1, utun2}
  Wired = {en5, en7}
  Wifi = {en0}
  Loopbacks = {lo0}
  Nets = {home, office}
  Routers = {r1, r2}
  Macs = {m1, m2}
  Worlds <- MCWorlds
  DnsPresets <- MCDnsPresets
  DnsTyped <- MCDnsTyped
  HistoryMax = 2
  MtuPresets <- MCMtuPresets
  MtuTyped = {575, 576, 9000, 9001}
  MtuMin = 576
  MtuMax = 9000
  ResultCounts = {1, 2, 3}
  Starts <- MCStarts
SPECIFICATION Spec
INVARIANTS TypeOK PreferencesSurvive UplinkIsOutside
PROPERTIES StartIsOffered
CHECK_DEADLOCK FALSE
