\* The token callback reports the token inserted: whose session is used?
CONSTANTS
  NONE = NONE
  Threads = {t1, t2}
  MaxHandles = 2
  TokenFunc = TRUE
  DeviceErrors = FALSE
  AllocFailures = FALSE
  Urls = {"rsa", "dsa", "cert"}
  ObjOf <- KnownObjs
SPECIFICATION Spec
PROPERTY SessionUseOwned
