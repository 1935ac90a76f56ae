SPECIFICATION CheckSpec
CONSTANTS
    Width = 4
    Device <- Devices
INVARIANT AcceptedMeansNoProtectedAddress
CHECK_DEADLOCK FALSE
