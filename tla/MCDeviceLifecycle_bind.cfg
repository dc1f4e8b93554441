\* Two addresses: some of them cannot be bound.
SPECIFICATION Spec
CONSTANTS
    wifi = wifi
    usb = usb
    Addresses <- MCAddresses
    FirstPort = 4004
    RetryCount = 1
    Fickle = {usb}
    MaxStarts = 1
INVARIANTS
    RunningServes
    NothingLeftOpen
    GoodbyeIsSaid
