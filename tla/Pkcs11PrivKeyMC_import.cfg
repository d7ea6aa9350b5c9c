\* One thread imports known keys and a certificate; no token call fails on
\* its own, but the token may be pulled out.
CONSTANTS
  NONE = NONE
  Threads = {t1}
  MaxHandles = 3
  TokenFunc = FALSE
  DeviceErrors = FALSE
  AllocFailures = FALSE
  Urls = {"rsa", "dsa", "cert"}
  ObjOf <- KnownObjs
SPECIFICATION Spec
INVARIANT KeyDescribesObject
