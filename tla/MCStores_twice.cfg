SPECIFICATION MCSpec
CONSTANTS
  g1 = g1 g2 = g2 g3 = g3 k1 = k1
  i1 = i1 i2 = i2 i3 = i3 i4 = i4 pay = pay refund = refund
  body1 = body1 body2 = body2
  r1 = r1 r2 = r2 r3 = r3 r4 = r4 r5 = r5 r6 = r6 u1 = u1 u2 = u2 u3 = u3 u4 = u4
  NoCall = NoCall NoPost = NoPost NoGet = NoGet
  Focused = {"idem"}
  Calls = {g1, g2, g3}
  Keys = {k1}
  KeyOf <- MCKeyOf
  MaxDels = 1
  LoaderThrows = TRUE
  PortFails = TRUE
  Posts = {i1, i2, i3, i4}
  TokenOf <- MCTokenOf
  FingerprintOf <- MCFingerprintOf
  KeepFor = 2
  Gets = {r1, r2, r3, r4, r5, r6}
  UrlOf <- MCUrlOf
  Personal = {r2}
  Uncached = {}
  SharePrivate = FALSE
  EntryTtl = 2
  MaxEntries = 3
  LastTick = 2
INVARIANT DuplicatesReplay
CHECK_DEADLOCK FALSE
