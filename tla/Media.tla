------------------------------- MODULE Media -------------------------------
(***************************************************************************)
(* Uploaded images: FilesService over the files table and an S3 bucket,    *)
(* which no transaction spans, the hourly cleanup in every process, and    *)
(* ProductsService, whose rows refer to their image and whose update saves *)
(* an entity read earlier.                                                 *)
(*                                                                         *)
(* The client uploads to S3 itself, with a URL that stays valid for 900    *)
(* seconds from a moment after the row's expires_at was fixed, and may do  *)
(* so late and again.                                                      *)
(***************************************************************************)
EXTENDS Naturals, FiniteSets

CONSTANTS
  Files,         \* uploads: a row of files and the S3 key it names
  Products,
  ProductOf,     \* the product a file is presigned for
  Owners,
  OwnerOf,       \* the user who presigns a file
  OldFiles,      \* files complete at the start, the images of their products
  OldProducts,   \* products that exist at the start
  NoFile,
  Calls,         \* requests
  Processes,
  HostOf,        \* the process of a request
  MaxFailures    \* bound: S3 requests that fail

ASSUME FilesAssumption ==
  /\ ProductOf \in [Files -> Products] /\ OwnerOf \in [Files -> Owners]
  /\ NoFile \notin Files /\ OldFiles \subseteq Files /\ OldProducts \subseteq Products
  /\ \A f \in OldFiles : ProductOf[f] \in OldProducts
  /\ \A f, g \in OldFiles : ProductOf[f] = ProductOf[g] => f = g
ASSUME CallsAssumption == HostOf \in [Calls -> Processes] /\ MaxFailures \in Nat

VARIABLES
  file,       \* files rows by status: "absent", "pending", "ready", "gone"
  expired,    \* files whose expires_at has passed on a process's clock
  url,        \* files for which a client holds a valid upload URL
  object,     \* S3 objects
  product,    \* products rows: "absent", "present", "gone"
  image,      \* image_file_id of a product, or NoFile
  owners,     \* users rows of the owners
  call,       \* requests under way
  sweep,      \* files the cleanup of a process read as expired and has yet to do
  swept,      \* of these, the files whose object it has dealt with
  latest,     \* history: the file last completed for a product and not removed since
  contested,  \* history: files that a cleanup held during a complete(), or
              \* whose removal was begun
  overtaken,  \* history: products whose image changed under a save, or two saves
              \* of whom overlapped
  leaked,     \* history: files whose object may outlive the row
  failures    \* failed S3 requests so far

rows   == <<file, product, image, owners>>
store  == <<object, url, failures>>
sweeps == <<sweep, swept>>
past   == <<latest, contested, overtaken, leaked>>
vars   == <<rows, store, sweeps, past, expired, call>>

----------------------------------------------------------------------------
\* Where a request stands.
Idle == [pc |-> "new"]
Done == [pc |-> "done"]
Call ==
  {Idle, Done}
  \cup [pc : {"presign", "head", "commit", "deleteObject", "deleteRow"}, file : Files]
  \cup [pc : {"save", "update"}, product : Products, image : Files \cup {NoFile}, cols : BOOLEAN]
  \cup [pc : {"remove"}, product : Products]

Types ==
  /\ file \in [Files -> {"absent", "pending", "ready", "gone"}]
  /\ expired \in [Processes -> SUBSET Files]
  /\ url \subseteq Files
  /\ object \subseteq Files
  /\ product \in [Products -> {"absent", "present", "gone"}]
  /\ image \in [Products -> Files \cup {NoFile}]
  /\ owners \subseteq Owners
  /\ call \in [Calls -> Call]
  /\ sweep \in [Processes -> SUBSET Files]
  /\ swept \in [Processes -> SUBSET Files]
  /\ latest \in [Products -> Files \cup {NoFile}]
  /\ contested \subseteq Files
  /\ overtaken \subseteq Products
  /\ leaked \subseteq Files
  /\ failures \in 0..MaxFailures
  /\ \A p \in Processes : swept[p] \subseteq sweep[p]

TypeOK == /\ Types
          /\ \A x \in Products : image[x] # NoFile => file[image[x]] # "absent" /\ product[x] = "present"

OldImage(x) ==
  IF \E f \in OldFiles : ProductOf[f] = x THEN CHOOSE f \in OldFiles : ProductOf[f] = x ELSE NoFile

Init ==
  /\ file = [f \in Files |-> IF f \in OldFiles THEN "ready" ELSE "absent"]
  /\ expired = [p \in Processes |-> {}]
  /\ url = {}
  /\ object = OldFiles
  /\ product = [x \in Products |-> IF x \in OldProducts THEN "present" ELSE "absent"]
  /\ image = [x \in Products |-> OldImage(x)]
  /\ owners = Owners
  /\ call = [c \in Calls |-> Idle]
  /\ sweep = [p \in Processes |-> {}]
  /\ swept = [p \in Processes |-> {}]
  /\ latest = [x \in Products |-> OldImage(x)]
  /\ contested = {}
  /\ overtaken = {}
  /\ leaked = {}
  /\ failures = 0

Goto(c, state) == call' = [call EXCEPT ![c] = state]
Exists(f) == file[f] \in {"pending", "ready"}
Saving(x) == \E c \in Calls : call[c].pc \in {"save", "update"} /\ call[c].product = x
SweptNow(f) == \E p \in Processes : f \in sweep[p]
Completing(f) == \E c \in Calls : call[c].pc \in {"head", "commit"} /\ call[c].file = f

\* Rows of products without the files: ON DELETE SET NULL.
Kept(fs) == image   \* mutant: the foreign key does not clear the image
Without(fs) == [x \in Products |-> IF image[x] \in fs THEN NoFile ELSE image[x]]
LatestWithout(fs) == [x \in Products |-> IF latest[x] \in fs THEN NoFile ELSE latest[x]]
Imaged(fs) == {x \in Products : image[x] \in fs /\ Saving(x)}

DropRows(fs) ==
  /\ file' = [f \in Files |-> IF f \in fs /\ Exists(f) THEN "gone" ELSE file[f]]
  /\ image' = Without(fs)
  /\ latest' = LatestWithout(fs)
  /\ overtaken' = overtaken \cup Imaged(fs)

----------------------------------------------------------------------------
(* The client and S3 *)

\* PUT with the upload URL, which nothing withdraws: it may come after the
\* object was deleted.
Put(f) ==
  /\ f \in url
  /\ object' = object \cup {f}
  /\ leaked' = IF \/ file[f] = "gone"
                  \/ \E p \in Processes : f \in swept[p]
                  \/ \E c \in Calls : call[c] = [pc |-> "deleteRow", file |-> f]
                 THEN leaked \cup {f} ELSE leaked
  /\ UNCHANGED <<rows, url, failures, sweeps, latest, contested, overtaken, expired, call>>

\* The URL's 900 seconds pass.
CloseUrl(f) ==
  /\ f \in url
  /\ url' = url \ {f}
  /\ UNCHANGED <<rows, object, failures, sweeps, past, expired, call>>

\* expires_at passes on a process's clock.
Expire(p, f) ==
  /\ file[f] = "pending"
  /\ f \notin expired[p]
  /\ expired' = [expired EXCEPT ![p] = @ \cup {f}]
  /\ UNCHANGED <<rows, store, sweeps, past, call>>

\* A DeleteObject request: it succeeds, or it fails and the object may be
\* there or not.
ObjectDeleted(f) == object' = object \ {f} /\ UNCHANGED failures
DeleteFails(f) ==
  /\ failures < MaxFailures
  /\ object' \in {object, object \ {f}}
  /\ failures' = failures + 1

----------------------------------------------------------------------------
(* FilesService.presign *)

\* forProductImage makes a key nobody else has.
IsFreshKey(f) == file[f] = "absent" /\ \A d \in Calls : call[d] # [pc |-> "presign", file |-> f]

\* The content type is allowed and the product exists.
PresignCheck(c, f) ==
  /\ call[c] = Idle
  /\ IsFreshKey(f)
  /\ product[ProductOf[f]] = "present"
  /\ Goto(c, [pc |-> "presign", file |-> f])
  /\ UNCHANGED <<rows, store, sweeps, past, expired>>

\* INSERT of a PENDING row, then the URL, which a process that dies does not
\* hand out.
PresignInsert(c) ==
  LET f == call[c].file IN
  /\ call[c].pc = "presign"
  /\ OwnerOf[f] \in owners
  /\ file' = [file EXCEPT ![f] = "pending"]
  /\ \E handed \in SUBSET {f} : url' = url \cup handed
  /\ Goto(c, Done)
  /\ UNCHANGED <<product, image, owners, object, failures, sweeps, past, expired>>

----------------------------------------------------------------------------
(* FilesService.complete *)

\* findOwnedOrFail, not READY, not expired on this process's clock.
CompleteFind(c, f) ==
  /\ call[c] = Idle
  /\ file[f] = "pending"
  /\ f \notin expired[HostOf[c]]
  /\ Goto(c, [pc |-> "head", file |-> f])
  /\ contested' = contested \cup {g \in {f} : SweptNow(f)}
  /\ UNCHANGED <<rows, store, sweeps, latest, overtaken, leaked, expired>>

\* HeadObject.
AnyObject(f) == TRUE   \* mutant: no objectExists
ObjectExists(f) == f \in object

CompleteHead(c) ==
  /\ call[c].pc = "head"
  /\ Goto(c, IF ObjectExists(call[c].file) THEN [pc |-> "commit", file |-> call[c].file] ELSE Done)
  /\ UNCHANGED <<rows, store, sweeps, past, expired>>

\* The transaction.  A row that is gone is no error of its UPDATE; then the
\* product's UPDATE fails on its foreign key, unless the product is gone too.
\* query() answers an UPDATE with [rows, count], whose length is 2: a product
\* that is gone goes unnoticed.
LinkNothing(f) == image   \* mutant: complete() leaves the product alone
LinkGone(f) ==            \* mutant: the product row is written whether it is there or not
  IF Exists(f) THEN [image EXCEPT ![ProductOf[f]] = f] ELSE image
Linked(f) ==
  IF product[ProductOf[f]] = "present" /\ Exists(f)
    THEN [image EXCEPT ![ProductOf[f]] = f] ELSE image

CompleteCommit(c) ==
  LET f == call[c].file
      x == ProductOf[f]
  IN /\ call[c].pc = "commit"
     /\ file' = IF Exists(f) THEN [file EXCEPT ![f] = "ready"] ELSE file
     /\ image' = Linked(f)
     /\ latest' = IF product[x] = "present" /\ Exists(f) THEN [latest EXCEPT ![x] = f] ELSE latest
     /\ overtaken' = overtaken \cup {y \in {x} : Saving(y)}
     /\ Goto(c, Done)
     /\ UNCHANGED <<product, owners, store, sweeps, contested, leaked, expired>>

----------------------------------------------------------------------------
(* FilesService.remove *)

RemoveFind(c, f) ==
  /\ call[c] = Idle
  /\ Exists(f)
  /\ Goto(c, [pc |-> "deleteObject", file |-> f])
  /\ contested' = contested \cup {f}
  /\ UNCHANGED <<rows, store, sweeps, latest, overtaken, leaked, expired>>

\* The object first: if S3 answers with an error the row stays.
AfterFailedDelete(c) == [pc |-> "deleteRow", file |-> call[c].file]   \* mutant: the error is only logged
AfterError(c) == Done

RemoveObject(c) ==
  LET f == call[c].file IN
  /\ call[c].pc = "deleteObject"
  /\ \/ ObjectDeleted(f) /\ Goto(c, [pc |-> "deleteRow", file |-> f])
     \/ DeleteFails(f) /\ Goto(c, AfterError(c))
  /\ UNCHANGED <<rows, url, sweeps, past, expired>>

RemoveRow(c) ==
  /\ call[c].pc = "deleteRow"
  /\ DropRows({call[c].file})
  /\ Goto(c, Done)
  /\ UNCHANGED <<product, owners, store, sweeps, contested, leaked, expired>>

----------------------------------------------------------------------------
(* FilesService.cleanupExpiredPending, hourly in every process *)

FreshPending(p) ==     \* mutant: MoreThan for LessThan
  {f \in Files : file[f] = "pending" /\ f \notin expired[p]}
ExpiredPending(p) == {f \in Files : file[f] = "pending" /\ f \in expired[p]}

SweepFind(p) ==
  /\ sweep[p] = {}
  /\ ExpiredPending(p) # {}
  /\ sweep' = [sweep EXCEPT ![p] = ExpiredPending(p)]
  /\ contested' = contested \cup {f \in ExpiredPending(p) : Completing(f)}
  /\ UNCHANGED <<rows, store, swept, latest, overtaken, leaked, expired, call>>

\* An error of deleteObject is logged and the row goes all the same.
SweepObject(p, f) ==
  /\ f \in sweep[p] \ swept[p]
  /\ swept[p] = {}
  /\ \/ ObjectDeleted(f) /\ UNCHANGED leaked
     \/ DeleteFails(f) /\ leaked' = leaked \cup {f}
  /\ swept' = [swept EXCEPT ![p] = {f}]
  /\ UNCHANGED <<rows, url, sweep, latest, contested, overtaken, expired, call>>

\* remove(file) deletes by id, whatever has become of the row.
SweepRow(p, f) ==
  /\ f \in swept[p]
  /\ DropRows({f})
  /\ sweep' = [sweep EXCEPT ![p] = @ \ {f}]
  /\ swept' = [swept EXCEPT ![p] = {}]
  /\ UNCHANGED <<product, owners, store, contested, leaked, expired, call>>

\* The process dies, or a statement throws, in the middle of a sweep.
SweepStops(p) ==
  /\ sweep[p] # {}
  /\ failures < MaxFailures
  /\ sweep' = [sweep EXCEPT ![p] = {}]
  /\ swept' = [swept EXCEPT ![p] = {}]
  /\ failures' = failures + 1
  /\ UNCHANGED <<rows, object, url, past, expired, call>>

----------------------------------------------------------------------------
(* ProductsService *)

CreateProduct(c, x) ==
  /\ call[c] = Idle
  /\ product[x] = "absent"
  /\ product' = [product EXCEPT ![x] = "present"]
  /\ Goto(c, Done)
  /\ UNCHANGED <<file, image, owners, store, sweeps, past, expired>>

\* update: findOne; no property of the DTO is the image.
UpdateRead(c, x) ==
  /\ call[c] = Idle
  /\ product[x] = "present"
  /\ Goto(c, [pc |-> "save", product |-> x, image |-> image[x], cols |-> FALSE])
  /\ overtaken' = overtaken \cup {y \in {x} : Saving(y)}
  /\ UNCHANGED <<rows, store, sweeps, latest, contested, leaked, expired>>

\* save re-selects the row: the image is written if it differs by now.  A row
\* that is gone makes it an INSERT with an id, which fails.
Differs(c) == call[c].image # image[call[c].product]

UpdateDiff(c) ==
  LET x == call[c].product IN
  /\ call[c].pc = "save"
  /\ Goto(c, IF product[x] = "present"
               THEN [pc |-> "update", product |-> x, image |-> call[c].image, cols |-> Differs(c)]
               ELSE Done)
  /\ UNCHANGED <<rows, store, sweeps, past, expired>>

\* UPDATE; the foreign key refuses an image that is gone.
UpdateWrite(c) ==
  LET x == call[c].product
      f == call[c].image
  IN /\ call[c].pc = "update"
     /\ image' = IF product[x] = "present" /\ call[c].cols /\ (f = NoFile \/ Exists(f))
                   THEN [image EXCEPT ![x] = f] ELSE image
     /\ Goto(c, Done)
     /\ UNCHANGED <<file, product, owners, store, sweeps, past, expired>>

\* remove: findOne, then DELETE.
RemoveProductRead(c, x) ==
  /\ call[c] = Idle
  /\ product[x] = "present"
  /\ Goto(c, [pc |-> "remove", product |-> x])
  /\ UNCHANGED <<rows, store, sweeps, past, expired>>

RemoveProduct(c) ==
  LET x == call[c].product IN
  /\ call[c].pc = "remove"
  /\ product' = [product EXCEPT ![x] = "gone"]
  /\ image' = [image EXCEPT ![x] = NoFile]
  /\ latest' = [latest EXCEPT ![x] = NoFile]
  /\ Goto(c, Done)
  /\ UNCHANGED <<file, owners, store, sweeps, contested, overtaken, leaked, expired>>

----------------------------------------------------------------------------
\* UserService.remove: the files rows of the user cascade, their objects do not.
RemoveOwner(o) ==
  LET fs == {f \in Files : OwnerOf[f] = o /\ Exists(f)} IN
  /\ o \in owners
  /\ owners' = owners \ {o}
  /\ DropRows(fs)
  /\ leaked' = leaked \cup fs
  /\ UNCHANGED <<product, store, sweeps, contested, expired, call>>

\* A statement or S3 request fails, order_items keep a product, or the process
\* dies: the request ends where it stands.
Abandon(c) ==
  /\ call[c] \notin {Idle, Done}
  /\ Goto(c, Done)
  /\ UNCHANGED <<rows, store, sweeps, past, expired>>

FileCall(c) ==
  \/ \E f \in Files : PresignCheck(c, f) \/ CompleteFind(c, f) \/ RemoveFind(c, f)
  \/ PresignInsert(c) \/ CompleteHead(c) \/ CompleteCommit(c)
  \/ RemoveObject(c) \/ RemoveRow(c)

ProductCall(c) ==
  \/ \E x \in Products : CreateProduct(c, x) \/ UpdateRead(c, x) \/ RemoveProductRead(c, x)
  \/ UpdateDiff(c) \/ UpdateWrite(c) \/ RemoveProduct(c)

Serve(c) == FileCall(c) \/ ProductCall(c) \/ Abandon(c)

Sweep(p) == SweepFind(p) \/ \E f \in Files : SweepObject(p, f) \/ SweepRow(p, f)

Next ==
  \/ \E c \in Calls : Serve(c)
  \/ \E p \in Processes : Sweep(p) \/ SweepStops(p) \/ \E f \in Files : Expire(p, f)
  \/ \E f \in Files : Put(f) \/ CloseUrl(f)
  \/ \E o \in Owners : RemoveOwner(o)

Spec == Init /\ [][Next]_vars

\* Clocks go on and the cron job keeps running: of what they can do, something
\* is done.
LiveSpec == Spec /\ WF_vars(\E p \in Processes : Sweep(p) \/ \E f \in Files : Expire(p, f))

----------------------------------------------------------------------------
(* Properties *)

\* A READY file has its object, whatever retries, late uploads and failing S3
\* requests there are, unless its removal was begun or a cleanup held it during
\* its complete().
ReadyHasObject == \A f \in Files : file[f] = "ready" /\ f \notin contested => f \in object

\* "removes abandoned pending uploads ... from both S3 and the DB": when a row
\* is gone so is its object, unless S3 failed the cleanup, the client uploaded
\* after the deletion, or the row went with its owner.
GoneFromBoth == \A f \in Files : file[f] = "gone" /\ f \in object => f \in leaked

\* The image of a product is a READY file of that product, also when files,
\* products and owners are removed around a complete() or a PATCH.
ImagesAreReady ==
  \A x \in Products : image[x] # NoFile =>
    product[x] = "present" /\ file[image[x]] = "ready" /\ ProductOf[image[x]] = x

\* A product shows the file last completed for it, unless the image changed
\* under a PATCH of the product.
ImageIsLatest == \A x \in Products \ overtaken : image[x] = latest[x]

\* An upload that is not completed does not stay PENDING for ever.
PendingIsSettled == \A f \in Files : file[f] = "pending" ~> file[f] # "pending"
=============================================================================
