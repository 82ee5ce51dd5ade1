CONSTANTS
    m1 = m1
    m2 = m2
    m3 = m3
    Modules = {m1, m2, m3}
    DeviceOf <- MCDeviceOf
    Wirings <- MCWirings
    MaxOpen = 2
SPECIFICATION Spec
INVARIANT BoardsReachTheirDevice
