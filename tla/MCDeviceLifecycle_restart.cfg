\* One address: starts, restarts and stops, with the threads they leave.
SPECIFICATION Spec
CONSTANTS
    wifi = wifi
    usb = usb
    Addresses <- MCOneAddress
    FirstPort = 4004
    RetryCount = 0
    Fickle = {}
    MaxStarts = 2
INVARIANTS
    TypeOK
    OneLateRound
    NothingLeftOpen
