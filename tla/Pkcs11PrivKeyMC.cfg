\* Two threads share the key; a token callback is installed, the token may
\* be missing and token calls may fail.
CONSTANTS
  NONE = NONE
  Threads = {t1, t2}
  MaxHandles = 2
  TokenFunc = TRUE
  DeviceErrors = TRUE
  AllocFailures = TRUE
  Urls = {"rsa", "cert", "gost", "noid"}
  ObjOf <- FewObjs
SPECIFICATION Spec
INVARIANT TypeOK
 
