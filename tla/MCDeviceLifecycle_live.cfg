\* One address, one start, threads run: what is stopped ends.
SPECIFICATION FairSpec
CONSTANTS
    wifi = wifi
    usb = usb
    Addresses <- MCOneAddress
    FirstPort = 4004
    RetryCount = 0
    Fickle = {wifi}
    MaxStarts = 1
PROPERTIES
    ThreadsEnd
