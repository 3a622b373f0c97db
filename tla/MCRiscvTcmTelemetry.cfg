SPECIFICATION FairSpec
CONSTANTS
    TcmAddr = {0}
    HostAddr = {}
    ExtAddr = {1}
    TelemAddr = {3}
    Words = {0}
    Ops = {"LOAD", "STORE"}
PROPERTIES
    Served
