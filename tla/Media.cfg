\* A product with an image, a second upload for it, three requests and the
\* cleanups of two processes, one failing S3 request.
CONSTANTS
  f1 = f1
  f2 = f2
  x1 = x1
  x2 = x2
  o1 = o1
  p1 = p1
  p2 = p2
  c1 = c1
  c2 = c2
  c3 = c3
  NoFile = NoFile
  Files = {f1, f2}
  OldFiles = {f1}
  Products = {x1, x2}
  OldProducts = {x1}
  ProductOf <- MCProductOf
  Owners = {o1}
  OwnerOf <- MCOwnerOf
  Calls = {c1, c2, c3}
  Processes = {p1, p2}
  HostOf <- MCHostOf
  MaxFailures = 1
SPECIFICATION LiveSpec
INVARIANTS
  TypeOK
  ReadyHasObject
  GoneFromBoth
  ImagesAreReady
  ImageIsLatest
PROPERTIES
  PendingIsSettled
CHECK_DEADLOCK FALSE
