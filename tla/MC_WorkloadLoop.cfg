CONSTANTS
  Hours = 24
  Timesteps = 3
  ExponentialPath = TRUE
  Unbound = Unbound
SPECIFICATION Spec
PROPERTY Termination
