SPECIFICATION SessionsFairSpec
CONSTANT MaxSaves = 2
INVARIANTS
  PortsUnderLock
  NextAppliesToItsStep
  OutcomeIsTrue
  TeleopCalibrated
PROPERTY SessionsStop
