\* Two streams, two subscribed tokens, a channel that fills with two prices.
CONSTANTS
  c1 = c1  c2 = c2  eth = eth  cspr = cspr
  Client <- MC_Client
  Tokens <- MC_Tokens
  Buffer = 1
SPECIFICATION Spec
INVARIANT TypeOK
PROPERTY RoundsComplete
