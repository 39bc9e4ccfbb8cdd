CONSTANTS
    Commands = {"ADD", "AUTHENTICATE", "GUEST_ACCESS_ENABLE", "GUEST_ACCESS_DISABLE"}
    MaxMessages = 3
SPECIFICATION Spec
PROPERTIES OpensOnAuthenticationOnly
CHECK_DEADLOCK FALSE
