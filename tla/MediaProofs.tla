---------------------------- MODULE MediaProofs ----------------------------
(* Theorems about Media for every set of files, products, owners, requests *)
(* and processes and every number of failures, with their proofs.          *)
EXTENDS Media, TLAPS

----------------------------------------------------------------------------
(* Requests                                                                *)

OnFile    == [pc : {"presign", "head", "commit", "deleteObject", "deleteRow"}, file : Files]
OnSave    == [pc : {"save", "update"}, product : Products, image : Files \cup {NoFile}, cols : BOOLEAN]
OnProduct == [pc : {"remove"}, product : Products]

\* The step a request stands at tells the fields it has.
LEMMA CallShape ==
  ASSUME NEW x \in Call
  PROVE  /\ x.pc \in {"presign", "head", "commit", "deleteObject", "deleteRow"} => x \in OnFile
         /\ x.pc \in {"save", "update"} => x \in OnSave
         /\ x.pc = "remove" => x \in OnProduct
  BY DEF Call, Idle, Done, OnFile, OnSave, OnProduct

\* The kinds of request are requests.
LEMMA CallKinds ==
  /\ Idle \in Call /\ Idle.pc = "new" /\ Done \in Call /\ Done.pc = "done"
  /\ OnFile \subseteq Call /\ OnSave \subseteq Call /\ OnProduct \subseteq Call
<1>1. Idle \in Call /\ Idle.pc = "new" /\ Done \in Call /\ Done.pc = "done"
  BY DEF Call, Idle, Done
<1>2. OnFile \subseteq Call
  BY DEF Call, OnFile
<1>3. OnSave \subseteq Call /\ OnProduct \subseteq Call
  BY DEF Call, OnSave, OnProduct
<1> QED BY <1>1, <1>2, <1>3

\* A request's step changes that request.
LEMMA GotoMoves ==
  ASSUME call \in [Calls -> Call], NEW c \in Calls, NEW state, Goto(c, state)
  PROVE  /\ call'[c] = state
         /\ \A d \in Calls \ {c} : call'[d] = call[d]
         /\ state \in Call => call' \in [Calls -> Call]
  BY DEF Goto

----------------------------------------------------------------------------
(* Type correctness                                                        *)

\* The image of a product at the start.
LEMMA OldImages ==
  ASSUME NEW x \in Products
  PROVE  /\ OldImage(x) \in Files \cup {NoFile}
         /\ OldImage(x) # NoFile => OldImage(x) \in OldFiles /\ ProductOf[OldImage(x)] = x
<1>1. CASE \E f \in OldFiles : ProductOf[f] = x
  <2>1. PICK f \in OldFiles : ProductOf[f] = x
    BY <1>1
  <2> DEFINE P(g) == g \in OldFiles /\ ProductOf[g] = x
  <2>2. OldImage(x) = CHOOSE g \in OldFiles : ProductOf[g] = x
    BY <1>1 DEF OldImage
  <2>3. OldImage(x) \in OldFiles /\ ProductOf[OldImage(x)] = x
    BY <2>1, <2>2
  <2> QED BY <2>3, FilesAssumption
<1>2. CASE ~\E f \in OldFiles : ProductOf[f] = x
  BY <1>2 DEF OldImage
<1> QED BY <1>1, <1>2

\* The initial state is well-typed.
LEMMA InitTypes == Init => Types
<1> SUFFICES ASSUME Init PROVE Types
  OBVIOUS
<1>1. image \in [Products -> Files \cup {NoFile}] /\ latest \in [Products -> Files \cup {NoFile}]
  BY OldImages DEF Init
<1>2. call \in [Calls -> Call] /\ failures \in 0..MaxFailures
  BY CallKinds, CallsAssumption DEF Init
<1> QED BY <1>1, <1>2, FilesAssumption DEF Init, Types

\* What dropping rows does.
LEMMA Dropped ==
  ASSUME Types, NEW fs \in SUBSET Files, DropRows(fs)
  PROVE  /\ file' \in [Files -> {"absent", "pending", "ready", "gone"}]
         /\ \A f \in Files : file'[f] = IF f \in fs /\ Exists(f) THEN "gone" ELSE file[f]
         /\ image' \in [Products -> Files \cup {NoFile}]
         /\ \A x \in Products : image'[x] = IF image[x] \in fs THEN NoFile ELSE image[x]
         /\ latest' \in [Products -> Files \cup {NoFile}]
         /\ \A x \in Products : latest'[x] = IF latest[x] \in fs THEN NoFile ELSE latest[x]
         /\ overtaken' = overtaken \cup {x \in Products : image[x] \in fs /\ Saving(x)}
<1>1. /\ file' \in [Files -> {"absent", "pending", "ready", "gone"}]
      /\ \A f \in Files : file'[f] = IF f \in fs /\ Exists(f) THEN "gone" ELSE file[f]
  BY DEF Types, DropRows
<1>2. /\ image' \in [Products -> Files \cup {NoFile}]
      /\ \A x \in Products : image'[x] = IF image[x] \in fs THEN NoFile ELSE image[x]
  BY DEF Types, DropRows, Without
<1>3. /\ latest' \in [Products -> Files \cup {NoFile}]
      /\ \A x \in Products : latest'[x] = IF latest[x] \in fs THEN NoFile ELSE latest[x]
  BY DEF Types, DropRows, LatestWithout
<1> QED BY <1>1, <1>2, <1>3 DEF DropRows, Imaged

\* Requests of FilesService keep the types.
LEMMA FileCallTypes ==
  ASSUME Types, NEW c \in Calls, FileCall(c)
  PROVE  Types'
<1>0. call \in [Calls -> Call]
  BY DEF Types
<1> USE DEF rows, store, sweeps, past
<1>1. ASSUME NEW f \in Files, PresignCheck(c, f) PROVE Types'
  <2>1. [pc |-> "presign", file |-> f] \in Call
    BY CallKinds DEF OnFile
  <2>2. call' \in [Calls -> Call]
    BY <1>0, <1>1, <2>1, GotoMoves DEF PresignCheck
  <2> QED BY <1>1, <2>2 DEF Types, PresignCheck
<1>2. ASSUME NEW f \in Files, CompleteFind(c, f) PROVE Types'
  <2>1. [pc |-> "head", file |-> f] \in Call
    BY CallKinds DEF OnFile
  <2>2. call' \in [Calls -> Call]
    BY <1>0, <1>2, <2>1, GotoMoves DEF CompleteFind
  <2> QED BY <1>2, <2>2 DEF Types, CompleteFind
<1>3. ASSUME NEW f \in Files, RemoveFind(c, f) PROVE Types'
  <2>1. [pc |-> "deleteObject", file |-> f] \in Call
    BY CallKinds DEF OnFile
  <2>2. call' \in [Calls -> Call]
    BY <1>0, <1>3, <2>1, GotoMoves DEF RemoveFind
  <2> QED BY <1>3, <2>2 DEF Types, RemoveFind
<1>4. ASSUME PresignInsert(c) PROVE Types'
  <2>1. call[c].file \in Files /\ call' \in [Calls -> Call]
    BY <1>0, <1>4, CallShape, CallKinds, GotoMoves DEF PresignInsert, OnFile
  <2>2. file' \in [Files -> {"absent", "pending", "ready", "gone"}] /\ url' \subseteq Files
    BY <1>4, <2>1 DEF Types, PresignInsert
  <2> QED BY <1>4, <2>1, <2>2 DEF Types, PresignInsert
<1>5. ASSUME CompleteHead(c) PROVE Types'
  <2>1. call[c].file \in Files
    BY <1>0, <1>5, CallShape DEF CompleteHead, OnFile
  <2>2. [pc |-> "commit", file |-> call[c].file] \in Call
    BY <2>1, CallKinds DEF OnFile
  <2>3. call' \in [Calls -> Call]
    BY <1>0, <1>5, <2>2, CallKinds, GotoMoves DEF CompleteHead
  <2> QED BY <1>5, <2>3 DEF Types, CompleteHead
<1>6. ASSUME CompleteCommit(c) PROVE Types'
  <2>1. PICK f \in Files, x \in Products : f = call[c].file /\ x = ProductOf[f]
    BY <1>0, <1>6, CallShape, FilesAssumption DEF CompleteCommit, OnFile
  <2>2. call' \in [Calls -> Call]
    BY <1>0, <1>6, CallKinds, GotoMoves DEF CompleteCommit
  <2>3. image' \in [Products -> Files \cup {NoFile}]
    BY <1>6, <2>1 DEF CompleteCommit, Types, Linked
  <2>4. file' \in [Files -> {"absent", "pending", "ready", "gone"}]
    BY <1>6, <2>1 DEF CompleteCommit, Types
  <2>5. latest' \in [Products -> Files \cup {NoFile}]
    BY <1>6, <2>1 DEF CompleteCommit, Types
  <2>6. overtaken' \subseteq Products
    BY <1>6, <2>1 DEF CompleteCommit, Types
  <2> QED BY <1>6, <2>2, <2>3, <2>4, <2>5, <2>6 DEF Types, CompleteCommit
<1>7. ASSUME RemoveObject(c) PROVE Types'
  <2> DEFINE f    == call[c].file
             next == [pc |-> "deleteRow", file |-> f]
  <2>1. f \in Files
    BY <1>0, <1>7, CallShape DEF RemoveObject, OnFile
  <2>2. next \in Call
    BY <2>1, CallKinds DEF OnFile
  <2>3. (ObjectDeleted(f) /\ Goto(c, next)) \/ (DeleteFails(f) /\ Goto(c, Done))
    BY <1>7 DEF RemoveObject, AfterError
  <2>4. UNCHANGED <<rows, url, sweeps, past, expired>>
    BY <1>7 DEF RemoveObject
  <2> HIDE DEF f, next
  <2>5. call' \in [Calls -> Call]
    BY <1>0, <2>2, <2>3, CallKinds, GotoMoves
  <2>6. object' \subseteq Files /\ failures' \in 0..MaxFailures
    BY <2>3, CallsAssumption DEF ObjectDeleted, DeleteFails, Types
  <2> QED BY <2>4, <2>5, <2>6 DEF Types
<1>8. ASSUME RemoveRow(c) PROVE Types'
  <2>1. call[c].file \in Files /\ call' \in [Calls -> Call]
    BY <1>0, <1>8, CallShape, CallKinds, GotoMoves DEF RemoveRow, OnFile
  <2>2. DropRows({call[c].file}) /\ {call[c].file} \in SUBSET Files
    BY <1>8, <2>1 DEF RemoveRow
  <2>3. /\ file' \in [Files -> {"absent", "pending", "ready", "gone"}]
        /\ image' \in [Products -> Files \cup {NoFile}]
        /\ latest' \in [Products -> Files \cup {NoFile}] /\ overtaken' \subseteq Products
    BY <2>2, Dropped DEF Types
  <2> QED BY <1>8, <2>1, <2>3 DEF Types, RemoveRow
<1> QED BY <1>1, <1>2, <1>3, <1>4, <1>5, <1>6, <1>7, <1>8 DEF FileCall

\* Requests of ProductsService keep the types.
LEMMA ProductCallTypes ==
  ASSUME Types, NEW c \in Calls, ProductCall(c)
  PROVE  Types'
<1>0. call \in [Calls -> Call]
  BY DEF Types
<1> USE DEF rows, store, sweeps, past
<1>1. ASSUME NEW x \in Products, CreateProduct(c, x) PROVE Types'
  <2>1. call' \in [Calls -> Call]
    BY <1>0, <1>1, CallKinds, GotoMoves DEF CreateProduct
  <2> QED BY <1>1, <2>1 DEF Types, CreateProduct
<1>2. ASSUME NEW x \in Products, UpdateRead(c, x) PROVE Types'
  <2>1. [pc |-> "save", product |-> x, image |-> image[x], cols |-> FALSE] \in Call
    BY CallKinds DEF OnSave, Types
  <2>2. call' \in [Calls -> Call]
    BY <1>0, <1>2, <2>1, GotoMoves DEF UpdateRead
  <2> QED BY <1>2, <2>2 DEF Types, UpdateRead
<1>3. ASSUME NEW x \in Products, RemoveProductRead(c, x) PROVE Types'
  <2>1. [pc |-> "remove", product |-> x] \in Call
    BY CallKinds DEF OnProduct
  <2>2. call' \in [Calls -> Call]
    BY <1>0, <1>3, <2>1, GotoMoves DEF RemoveProductRead
  <2> QED BY <1>3, <2>2 DEF Types, RemoveProductRead
<1>4. ASSUME UpdateDiff(c) PROVE Types'
  <2>1. call[c] \in OnSave
    BY <1>0, <1>4, CallShape DEF UpdateDiff
  <2>2. [pc |-> "update", product |-> call[c].product, image |-> call[c].image, cols |-> Differs(c)] \in Call
    BY <2>1, CallKinds DEF OnSave, Differs
  <2>3. call' \in [Calls -> Call]
    BY <1>0, <1>4, <2>2, CallKinds, GotoMoves DEF UpdateDiff
  <2> QED BY <1>4, <2>3 DEF Types, UpdateDiff
<1>5. ASSUME UpdateWrite(c) PROVE Types'
  <2>1. call[c] \in OnSave /\ call' \in [Calls -> Call]
    BY <1>0, <1>5, CallShape, CallKinds, GotoMoves DEF UpdateWrite
  <2>2. image' \in [Products -> Files \cup {NoFile}]
    BY <1>5, <2>1 DEF Types, UpdateWrite, OnSave
  <2> QED BY <1>5, <2>1, <2>2 DEF Types, UpdateWrite
<1>6. ASSUME RemoveProduct(c) PROVE Types'
  <2>1. call' \in [Calls -> Call]
    BY <1>0, <1>6, CallKinds, GotoMoves DEF RemoveProduct
  <2> QED BY <1>6, <2>1 DEF Types, RemoveProduct
<1> QED BY <1>1, <1>2, <1>3, <1>4, <1>5, <1>6 DEF ProductCall

\* Every step keeps the types.
LEMMA NextTypes == Types /\ [Next]_vars => Types'
<1> SUFFICES ASSUME Types, [Next]_vars PROVE Types'
  OBVIOUS
<1> USE DEF rows, store, sweeps, past
<1>1. ASSUME NEW c \in Calls, Abandon(c) PROVE Types'
  <2>1. call' \in [Calls -> Call]
    BY <1>1, CallKinds, GotoMoves DEF Abandon, Types
  <2> QED BY <1>1, <2>1 DEF Types, Abandon
<1>2. ASSUME NEW p \in Processes, SweepFind(p) PROVE Types'
  <2>1. ExpiredPending(p) \subseteq Files
    BY DEF ExpiredPending
  <2> QED BY <1>2, <2>1 DEF Types, SweepFind
<1>3. ASSUME NEW p \in Processes, NEW f \in Files, SweepObject(p, f) PROVE Types'
  <2>1. object' \subseteq Files /\ failures' \in 0..MaxFailures /\ leaked' \subseteq Files
    BY <1>3, CallsAssumption DEF SweepObject, ObjectDeleted, DeleteFails, Types
  <2>2. swept' \in [Processes -> SUBSET Files] /\ \A q \in Processes : swept'[q] \subseteq sweep[q]
    BY <1>3 DEF SweepObject, Types
  <2> QED BY <1>3, <2>1, <2>2 DEF Types, SweepObject
<1>4. ASSUME NEW p \in Processes, NEW f \in Files, SweepRow(p, f) PROVE Types'
  <2>1. DropRows({f}) /\ {f} \in SUBSET Files
    BY <1>4 DEF SweepRow
  <2>2. /\ file' \in [Files -> {"absent", "pending", "ready", "gone"}]
        /\ image' \in [Products -> Files \cup {NoFile}]
        /\ latest' \in [Products -> Files \cup {NoFile}] /\ overtaken' \subseteq Products
    BY <2>1, Dropped DEF Types
  <2>3. /\ sweep' \in [Processes -> SUBSET Files] /\ swept' \in [Processes -> SUBSET Files]
        /\ \A q \in Processes : swept'[q] \subseteq sweep'[q]
    BY <1>4 DEF SweepRow, Types
  <2> QED BY <1>4, <2>2, <2>3 DEF Types, SweepRow
<1>5. ASSUME NEW p \in Processes, SweepStops(p) PROVE Types'
  <2>1. failures' \in 0..MaxFailures
    BY <1>5, CallsAssumption DEF SweepStops, Types
  <2> QED BY <1>5, <2>1 DEF SweepStops, Types
<1>6. ASSUME NEW p \in Processes, NEW f \in Files, Expire(p, f) PROVE Types'
  BY <1>6 DEF Expire, Types
<1>7. ASSUME NEW f \in Files, Put(f) \/ CloseUrl(f) PROVE Types'
  BY <1>7 DEF Put, CloseUrl, Types
<1>8. ASSUME NEW o \in Owners, RemoveOwner(o) PROVE Types'
  <2> DEFINE fs == {f \in Files : OwnerOf[f] = o /\ Exists(f)}
  <2>1. DropRows(fs) /\ fs \in SUBSET Files
    BY <1>8 DEF RemoveOwner
  <2>2. /\ file' \in [Files -> {"absent", "pending", "ready", "gone"}]
        /\ image' \in [Products -> Files \cup {NoFile}]
        /\ latest' \in [Products -> Files \cup {NoFile}] /\ overtaken' \subseteq Products
    BY <2>1, Dropped DEF Types
  <2> QED BY <1>8, <2>2 DEF Types, RemoveOwner
<1>9. CASE UNCHANGED vars
  BY <1>9 DEF vars, Types
<1> QED BY <1>1, <1>2, <1>3, <1>4, <1>5, <1>6, <1>7, <1>8, <1>9, FileCallTypes, ProductCallTypes
        DEF Next, Serve, Sweep

----------------------------------------------------------------------------
(* Images                                                                  *)

\* A key belongs to one presign, and no row has it before its INSERT.
KeysAreFresh ==
  \A c, d \in Calls : call[c].pc = "presign" =>
    /\ file[call[c].file] = "absent"
    /\ call[d].pc = "presign" /\ call[d].file = call[c].file => c = d

\* The image in an entity was a READY file of the product when it was read.
EntitiesAreReady ==
  \A c \in Calls : call[c].pc \in {"save", "update"} =>
    /\ product[call[c].product] # "absent"
    /\ call[c].image # NoFile => /\ file[call[c].image] \in {"ready", "gone"}
                                 /\ ProductOf[call[c].image] = call[c].product

ImageInv == ImagesAreReady /\ KeysAreFresh /\ EntitiesAreReady

\* It holds initially.
LEMMA InitImage == Init => ImageInv
<1> SUFFICES ASSUME Init PROVE ImageInv
  OBVIOUS
<1>1. \A x \in Products : image[x] = OldImage(x)
  BY DEF Init
<1>2. ImagesAreReady
  BY <1>1, OldImages, FilesAssumption DEF Init, ImagesAreReady
<1>3. KeysAreFresh /\ EntitiesAreReady
  BY DEF Init, Idle, KeysAreFresh, EntitiesAreReady
<1> QED BY <1>2, <1>3 DEF ImageInv

\* Steps that change no row and begin no presign and no save.
LEMMA ImageQuiet ==
  ASSUME ImageInv, UNCHANGED <<file, product, image>>,
         \A d \in Calls : call'[d] = call[d] \/ call'[d].pc \notin {"presign", "save", "update"}
  PROVE  ImageInv'
<1>1. ImagesAreReady'
  BY DEF ImageInv, ImagesAreReady
<1>2. KeysAreFresh'
  BY DEF ImageInv, KeysAreFresh
<1>3. EntitiesAreReady'
  BY DEF ImageInv, EntitiesAreReady
<1> QED BY <1>1, <1>2, <1>3 DEF ImageInv

\* Dropping rows clears the images that show them.
LEMMA ImageDrop ==
  ASSUME Types, ImageInv, NEW fs \in SUBSET Files, DropRows(fs), UNCHANGED product,
         \A d \in Calls : call'[d] = call[d] \/ call'[d].pc \notin {"presign", "save", "update"}
  PROVE  ImageInv'
<1>1. /\ \A f \in Files : file'[f] = IF f \in fs /\ Exists(f) THEN "gone" ELSE file[f]
      /\ \A x \in Products : image'[x] = IF image[x] \in fs THEN NoFile ELSE image[x]
  BY Dropped
<1>2. ImagesAreReady'
  <2> SUFFICES ASSUME NEW x \in Products, image'[x] # NoFile
               PROVE  product'[x] = "present" /\ file'[image'[x]] = "ready" /\ ProductOf[image'[x]] = x
    BY DEF ImagesAreReady
  <2>1. image'[x] = image[x] /\ image[x] \notin fs /\ image[x] \in Files
    BY <1>1 DEF Types
  <2> QED BY <1>1, <2>1 DEF ImageInv, ImagesAreReady
<1>3. KeysAreFresh'
  <2> SUFFICES ASSUME NEW c \in Calls, NEW d \in Calls, call'[c].pc = "presign"
               PROVE  /\ file'[call'[c].file] = "absent"
                      /\ call'[d].pc = "presign" /\ call'[d].file = call'[c].file => c = d
    BY DEF KeysAreFresh
  <2>1. call'[c] = call[c] /\ call[c].file \in Files
    BY CallShape DEF Types, OnFile
  <2> QED BY <1>1, <2>1 DEF ImageInv, KeysAreFresh, Exists
<1>4. EntitiesAreReady'
  <2> SUFFICES ASSUME NEW c \in Calls, call'[c].pc \in {"save", "update"}
               PROVE  /\ product'[call'[c].product] # "absent"
                      /\ call'[c].image # NoFile => /\ file'[call'[c].image] \in {"ready", "gone"}
                                                    /\ ProductOf[call'[c].image] = call'[c].product
    BY DEF EntitiesAreReady
  <2>1. call'[c] = call[c] /\ call[c].image \in Files \cup {NoFile}
    BY CallShape DEF Types, OnSave
  <2> QED BY <1>1, <2>1 DEF ImageInv, EntitiesAreReady
<1> QED BY <1>2, <1>3, <1>4 DEF ImageInv

\* presign and complete keep the images READY.
LEMMA ImageFileCall ==
  ASSUME Types, ImageInv, NEW c \in Calls, FileCall(c)
  PROVE  ImageInv'
<1>0. call \in [Calls -> Call] /\ Done.pc = "done"
  BY CallKinds DEF Types
<1> USE DEF rows, store
<1>1. ASSUME NEW f \in Files, PresignCheck(c, f) PROVE ImageInv'
  <2> DEFINE state == [pc |-> "presign", file |-> f]
  <2>1. call'[c] = state /\ \A d \in Calls \ {c} : call'[d] = call[d]
    BY <1>0, <1>1, GotoMoves DEF PresignCheck
  <2>2. state.pc = "presign" /\ state.file = f
    OBVIOUS
  <2>3. UNCHANGED <<file, product, image>> /\ file[f] = "absent"
        /\ \A d \in Calls : call[d] # state
    BY <1>1 DEF PresignCheck, IsFreshKey
  <2>4. \A d \in Calls : call[d].pc = "presign" => call[d].file # f
    <3> SUFFICES ASSUME NEW d \in Calls, call[d].pc = "presign", call[d].file = f PROVE FALSE
      OBVIOUS
    <3>1. call[d] \in OnFile
      BY <1>0, CallShape
    <3>2. call[d] = state
      BY <3>1 DEF OnFile
    <3> QED BY <2>3, <3>2
  <2> HIDE DEF state
  <2>5. ImagesAreReady' /\ EntitiesAreReady'
    BY <2>1, <2>2, <2>3 DEF ImageInv, ImagesAreReady, EntitiesAreReady
  <2>6. KeysAreFresh'
    BY <2>1, <2>2, <2>3, <2>4 DEF ImageInv, KeysAreFresh
  <2> QED BY <2>5, <2>6 DEF ImageInv
<1>2. ASSUME NEW f \in Files, CompleteFind(c, f) \/ RemoveFind(c, f) PROVE ImageInv'
  <2>1. PICK state \in {[pc |-> "head", file |-> f], [pc |-> "deleteObject", file |-> f]} : Goto(c, state)
    BY <1>2 DEF CompleteFind, RemoveFind
  <2>2. state.pc \notin {"presign", "save", "update"}
    BY <2>1
  <2> QED BY <1>0, <1>2, <2>1, <2>2, GotoMoves, ImageQuiet DEF CompleteFind, RemoveFind
<1>3. ASSUME CompleteHead(c) \/ RemoveObject(c) PROVE ImageInv'
  <2>1. PICK state \in {[pc |-> "commit", file |-> call[c].file], [pc |-> "deleteRow", file |-> call[c].file],
                        Done} : Goto(c, state)
    BY <1>3 DEF CompleteHead, RemoveObject, AfterError
  <2>2. state.pc \notin {"presign", "save", "update"}
    BY <1>0, <2>1
  <2> QED BY <1>0, <1>3, <2>1, <2>2, GotoMoves, ImageQuiet DEF CompleteHead, RemoveObject
<1>4. ASSUME PresignInsert(c) PROVE ImageInv'
  <2>1. PICK f \in Files : f = call[c].file
    BY <1>0, <1>4, CallShape DEF PresignInsert, OnFile
  <2>2. call'[c] = Done /\ \A d \in Calls \ {c} : call'[d] = call[d]
    BY <1>0, <1>4, GotoMoves DEF PresignInsert
  <2>3. file'[f] = "pending" /\ \A g \in Files \ {f} : file'[g] = file[g]
    BY <1>4, <2>1 DEF PresignInsert, Types
  <2>4. UNCHANGED <<product, image>> /\ call[c].pc = "presign" /\ file[f] = "absent"
    BY <1>4, <2>1 DEF PresignInsert, ImageInv, KeysAreFresh
  <2>5. ImagesAreReady'
    BY <2>3, <2>4 DEF ImageInv, ImagesAreReady, Types
  <2>6. KeysAreFresh'
    <3> SUFFICES ASSUME NEW d \in Calls, NEW e \in Calls, call'[d].pc = "presign"
                 PROVE  /\ file'[call'[d].file] = "absent"
                        /\ call'[e].pc = "presign" /\ call'[e].file = call'[d].file => d = e
      BY DEF KeysAreFresh
    <3>1. d # c /\ call'[d] = call[d] /\ call[d].file \in Files
      BY <1>0, <2>2, CallShape DEF OnFile
    <3>2. call[d].file # f
      BY <2>1, <2>4, <3>1 DEF ImageInv, KeysAreFresh
    <3>3. call'[e].pc = "presign" => call'[e] = call[e]
      BY <1>0, <2>2
    <3> QED BY <2>3, <3>1, <3>2, <3>3 DEF ImageInv, KeysAreFresh
  <2>7. EntitiesAreReady'
    <3> SUFFICES ASSUME NEW d \in Calls, call'[d].pc \in {"save", "update"}
                 PROVE  /\ product'[call'[d].product] # "absent"
                        /\ call'[d].image # NoFile => /\ file'[call'[d].image] \in {"ready", "gone"}
                                                      /\ ProductOf[call'[d].image] = call'[d].product
      BY DEF EntitiesAreReady
    <3>1. call'[d] = call[d] /\ call[d].image \in Files \cup {NoFile}
      BY <1>0, <2>2, CallShape DEF OnSave
    <3> QED BY <2>3, <2>4, <3>1 DEF ImageInv, EntitiesAreReady
  <2> QED BY <2>5, <2>6, <2>7 DEF ImageInv
<1>5. ASSUME CompleteCommit(c) PROVE ImageInv'
  <2>1. PICK f \in Files, x \in Products : f = call[c].file /\ x = ProductOf[f]
    BY <1>0, <1>5, CallShape, FilesAssumption DEF CompleteCommit, OnFile
  <2>2. call'[c] = Done /\ \A d \in Calls \ {c} : call'[d] = call[d]
    BY <1>0, <1>5, GotoMoves DEF CompleteCommit
  <2>3. /\ file'[f] = IF Exists(f) THEN "ready" ELSE file[f]
        /\ \A g \in Files \ {f} : file'[g] = file[g]
        /\ UNCHANGED product
    BY <1>5, <2>1 DEF CompleteCommit, Types
  <2>4. /\ image'[x] = IF product[x] = "present" /\ Exists(f) THEN f ELSE image[x]
        /\ \A y \in Products \ {x} : image'[y] = image[y]
    BY <1>5, <2>1 DEF CompleteCommit, Linked, Types
  <2>5. \A g \in Files : file[g] \in {"ready", "gone"} => file'[g] = file[g]
    BY <2>3 DEF Exists
  <2>6. ImagesAreReady'
    BY <2>1, <2>3, <2>4, <2>5 DEF ImageInv, ImagesAreReady, Types
  <2>7. KeysAreFresh'
    <3> SUFFICES ASSUME NEW d \in Calls, NEW e \in Calls, call'[d].pc = "presign"
                 PROVE  /\ file'[call'[d].file] = "absent"
                        /\ call'[e].pc = "presign" /\ call'[e].file = call'[d].file => d = e
      BY DEF KeysAreFresh
    <3>1. call'[d] = call[d] /\ call[d].file \in Files /\ (call'[e].pc = "presign" => call'[e] = call[e])
      BY <1>0, <2>2, CallShape DEF OnFile
    <3>2. file[call[d].file] = "absent"
      BY <3>1 DEF ImageInv, KeysAreFresh
    <3> QED BY <2>3, <3>1, <3>2 DEF ImageInv, KeysAreFresh, Exists
  <2>8. EntitiesAreReady'
    <3> SUFFICES ASSUME NEW d \in Calls, call'[d].pc \in {"save", "update"}
                 PROVE  /\ product'[call'[d].product] # "absent"
                        /\ call'[d].image # NoFile => /\ file'[call'[d].image] \in {"ready", "gone"}
                                                      /\ ProductOf[call'[d].image] = call'[d].product
      BY DEF EntitiesAreReady
    <3>1. call'[d] = call[d] /\ call[d].image \in Files \cup {NoFile}
      BY <1>0, <2>2, CallShape DEF OnSave
    <3> QED BY <2>3, <2>5, <3>1 DEF ImageInv, EntitiesAreReady
  <2> QED BY <2>6, <2>7, <2>8 DEF ImageInv
<1>6. ASSUME RemoveRow(c) PROVE ImageInv'
  <2>1. {call[c].file} \in SUBSET Files
    BY <1>0, <1>6, CallShape DEF RemoveRow, OnFile
  <2> QED BY <1>0, <1>6, <2>1, GotoMoves, ImageDrop DEF RemoveRow
<1> QED BY <1>1, <1>2, <1>3, <1>4, <1>5, <1>6 DEF FileCall

\* PATCH and DELETE of a product keep the images READY.
LEMMA ImageProductCall ==
  ASSUME Types, ImageInv, NEW c \in Calls, ProductCall(c)
  PROVE  ImageInv'
<1>0. call \in [Calls -> Call] /\ Done.pc = "done"
  BY CallKinds DEF Types
<1> USE DEF rows, store
<1>1. ASSUME NEW x \in Products, CreateProduct(c, x) PROVE ImageInv'
  <2>1. call'[c] = Done /\ \A d \in Calls \ {c} : call'[d] = call[d]
    BY <1>0, <1>1, GotoMoves DEF CreateProduct
  <2>2. /\ product'[x] = "present" /\ \A y \in Products \ {x} : product'[y] = product[y]
        /\ UNCHANGED <<file, image>>
    BY <1>1 DEF CreateProduct, Types
  <2>3. ImagesAreReady' /\ KeysAreFresh'
    BY <1>0, <2>1, <2>2 DEF ImageInv, ImagesAreReady, KeysAreFresh
  <2>4. EntitiesAreReady'
    <3>1. \A d \in Calls : call'[d].pc \in {"save", "update"} =>
            call'[d] = call[d] /\ call[d].product \in Products
      BY <1>0, <2>1, CallShape DEF OnSave
    <3> QED BY <2>2, <3>1 DEF ImageInv, EntitiesAreReady
  <2> QED BY <2>3, <2>4 DEF ImageInv
<1>2. ASSUME NEW x \in Products, UpdateRead(c, x) PROVE ImageInv'
  <2> DEFINE state == [pc |-> "save", product |-> x, image |-> image[x], cols |-> FALSE]
  <2>1. call'[c] = state /\ \A d \in Calls \ {c} : call'[d] = call[d]
    BY <1>0, <1>2, GotoMoves DEF UpdateRead
  <2>2. state.pc = "save" /\ state.product = x /\ state.image = image[x]
    OBVIOUS
  <2> HIDE DEF state
  <2>3. UNCHANGED <<file, product, image>> /\ product[x] = "present"
    BY <1>2 DEF UpdateRead
  <2>4. ImagesAreReady' /\ KeysAreFresh'
    BY <2>1, <2>2, <2>3 DEF ImageInv, ImagesAreReady, KeysAreFresh
  <2>5. EntitiesAreReady'
    BY <2>1, <2>2, <2>3 DEF ImageInv, ImagesAreReady, EntitiesAreReady
  <2> QED BY <2>4, <2>5 DEF ImageInv
<1>3. ASSUME NEW x \in Products, RemoveProductRead(c, x) PROVE ImageInv'
  <2>1. [pc |-> "remove", product |-> x].pc = "remove"
    OBVIOUS
  <2> QED BY <1>0, <1>3, <2>1, GotoMoves, ImageQuiet DEF RemoveProductRead
<1>4. ASSUME UpdateDiff(c) PROVE ImageInv'
  <2> DEFINE state == [pc |-> "update", product |-> call[c].product, image |-> call[c].image, cols |-> Differs(c)]
  <2>1. state.pc = "update" /\ state.product = call[c].product /\ state.image = call[c].image
    OBVIOUS
  <2>2. /\ call'[c] = state \/ call'[c] = Done
        /\ \A d \in Calls \ {c} : call'[d] = call[d]
    BY <1>0, <1>4, GotoMoves DEF UpdateDiff
  <2> HIDE DEF state
  <2>3. UNCHANGED <<file, product, image>> /\ call[c].pc = "save"
    BY <1>4 DEF UpdateDiff
  <2>4. ImagesAreReady' /\ KeysAreFresh'
    BY <1>0, <2>1, <2>2, <2>3 DEF ImageInv, ImagesAreReady, KeysAreFresh
  <2>5. EntitiesAreReady'
    BY <1>0, <2>1, <2>2, <2>3 DEF ImageInv, EntitiesAreReady
  <2> QED BY <2>4, <2>5 DEF ImageInv
<1>5. ASSUME UpdateWrite(c) PROVE ImageInv'
  <2>1. PICK x \in Products, f \in Files \cup {NoFile} : x = call[c].product /\ f = call[c].image
    BY <1>0, <1>5, CallShape DEF UpdateWrite, OnSave
  <2>2. call'[c] = Done /\ \A d \in Calls \ {c} : call'[d] = call[d]
    BY <1>0, <1>5, GotoMoves DEF UpdateWrite
  <2>3. /\ image'[x] = image[x] \/ (image'[x] = f /\ product[x] = "present" /\ (f = NoFile \/ Exists(f)))
        /\ \A y \in Products \ {x} : image'[y] = image[y]
        /\ UNCHANGED <<file, product>>
    BY <1>5, <2>1 DEF UpdateWrite, Types
  <2>4. f # NoFile => file[f] \in {"ready", "gone"} /\ ProductOf[f] = x
    BY <1>5, <2>1 DEF UpdateWrite, ImageInv, EntitiesAreReady
  <2>5. ImagesAreReady'
    BY <2>3, <2>4 DEF ImageInv, ImagesAreReady, Exists
  <2>6. KeysAreFresh' /\ EntitiesAreReady'
    BY <1>0, <2>2, <2>3 DEF ImageInv, KeysAreFresh, EntitiesAreReady
  <2> QED BY <2>5, <2>6 DEF ImageInv
<1>6. ASSUME RemoveProduct(c) PROVE ImageInv'
  <2>1. PICK x \in Products : x = call[c].product
    BY <1>0, <1>6, CallShape DEF RemoveProduct, OnProduct
  <2>2. call'[c] = Done /\ \A d \in Calls \ {c} : call'[d] = call[d]
    BY <1>0, <1>6, GotoMoves DEF RemoveProduct
  <2>3. /\ image'[x] = NoFile /\ \A y \in Products \ {x} : image'[y] = image[y]
        /\ product'[x] = "gone" /\ \A y \in Products \ {x} : product'[y] = product[y]
        /\ UNCHANGED file
    BY <1>6, <2>1 DEF RemoveProduct, Types
  <2>4. ImagesAreReady' /\ KeysAreFresh'
    BY <1>0, <2>2, <2>3 DEF ImageInv, ImagesAreReady, KeysAreFresh
  <2>5. EntitiesAreReady'
    <3>1. \A d \in Calls : call'[d].pc \in {"save", "update"} =>
            call'[d] = call[d] /\ call[d].product \in Products
      BY <1>0, <2>2, CallShape DEF OnSave
    <3> QED BY <2>3, <3>1 DEF ImageInv, EntitiesAreReady
  <2> QED BY <2>4, <2>5 DEF ImageInv
<1> QED BY <1>1, <1>2, <1>3, <1>4, <1>5, <1>6 DEF ProductCall

\* Every step keeps the images READY.
LEMMA NextImage == Types /\ ImageInv /\ [Next]_vars => ImageInv'
<1> SUFFICES ASSUME Types, ImageInv, [Next]_vars PROVE ImageInv'
  OBVIOUS
<1>0. call \in [Calls -> Call] /\ Done.pc = "done"
  BY CallKinds DEF Types
<1> USE DEF rows, store
<1>1. ASSUME NEW c \in Calls, Abandon(c) PROVE ImageInv'
  BY <1>0, <1>1, GotoMoves, ImageQuiet DEF Abandon
<1>2. ASSUME NEW p \in Processes, SweepFind(p) \/ SweepStops(p) PROVE ImageInv'
  BY <1>2, ImageQuiet DEF SweepFind, SweepStops
<1>3. ASSUME NEW p \in Processes, NEW f \in Files, SweepObject(p, f) \/ Expire(p, f) PROVE ImageInv'
  BY <1>3, ImageQuiet DEF SweepObject, Expire
<1>4. ASSUME NEW p \in Processes, NEW f \in Files, SweepRow(p, f) PROVE ImageInv'
  <2>1. {f} \in SUBSET Files /\ DropRows({f}) /\ UNCHANGED <<product, call>>
    BY <1>4 DEF SweepRow
  <2> QED BY <2>1, ImageDrop
<1>5. ASSUME NEW f \in Files, Put(f) \/ CloseUrl(f) PROVE ImageInv'
  BY <1>5, ImageQuiet DEF Put, CloseUrl
<1>6. ASSUME NEW o \in Owners, RemoveOwner(o) PROVE ImageInv'
  <2> DEFINE fs == {f \in Files : OwnerOf[f] = o /\ Exists(f)}
  <2>1. fs \in SUBSET Files /\ DropRows(fs) /\ UNCHANGED <<product, call>>
    BY <1>6 DEF RemoveOwner
  <2> QED BY <2>1, ImageDrop
<1>7. CASE UNCHANGED vars
  BY <1>7, ImageQuiet DEF vars
<1> QED BY <1>1, <1>2, <1>3, <1>4, <1>5, <1>6, <1>7, ImageFileCall, ImageProductCall DEF Next, Serve, Sweep

\* The types and the image invariant hold throughout.
LEMMA AlwaysImage == Spec => [](Types /\ ImageInv)
  BY InitTypes, NextTypes, InitImage, NextImage, PTL DEF Spec

\* Every variable keeps its type, and a product's image is a row.
THEOREM TypeCorrect == Spec => []TypeOK
<1>1. Types /\ ImageInv => TypeOK
  BY DEF TypeOK, ImageInv, ImagesAreReady, Types
<1> QED BY <1>1, AlwaysImage, PTL

\* The image of a product is a READY file presigned for it, whatever completes,
\* updates, sweeps and removals run at a time.
THEOREM ImagesStayReady == Spec => []ImagesAreReady
<1>1. ImageInv => ImagesAreReady
  BY DEF ImageInv
<1> QED BY <1>1, AlwaysImage, PTL

----------------------------------------------------------------------------
(* Rows and objects                                                        *)

\* An object HeadObject has seen is there, unless the file is contested.
SeenIsThere ==
  \A c \in Calls : call[c].pc = "commit" /\ call[c].file \notin contested => call[c].file \in object

\* What a cleanup holds is not READY and not being completed, unless contested.
HeldIsPending ==
  \A p \in Processes : \A f \in sweep[p] : f \notin contested => file[f] # "ready" /\ ~Completing(f)

\* A removal contests its file.
RemovedIsContested ==
  \A c \in Calls : call[c].pc \in {"deleteObject", "deleteRow"} => call[c].file \in contested

\* Between the deletion of an object and the deletion of its row the object is
\* not there, unless the file is leaked.
DeletedIsGone ==
  \A f \in object : f \notin leaked =>
    /\ \A p \in Processes : f \notin swept[p]
    /\ \A c \in Calls : call[c].pc = "deleteRow" => call[c].file # f

StoreInv == /\ ReadyHasObject /\ SeenIsThere /\ HeldIsPending /\ RemovedIsContested
            /\ DeletedIsGone /\ GoneFromBoth

\* It holds initially.
LEMMA InitStore == Init => StoreInv
<1> SUFFICES ASSUME Init PROVE StoreInv
  OBVIOUS
<1>1. \A c \in Calls : call[c].pc = "new"
  BY CallKinds DEF Init
<1>2. ReadyHasObject /\ GoneFromBoth /\ HeldIsPending
  BY FilesAssumption DEF Init, ReadyHasObject, GoneFromBoth, HeldIsPending
<1>3. SeenIsThere /\ RemovedIsContested /\ DeletedIsGone
  BY <1>1 DEF Init, SeenIsThere, RemovedIsContested, DeletedIsGone
<1> QED BY <1>2, <1>3 DEF StoreInv

FileSteps == {"head", "commit", "deleteObject", "deleteRow"}

\* Steps that change neither row nor object and begin no step on a file.
LEMMA StoreQuiet ==
  ASSUME StoreInv, UNCHANGED <<file, object, sweep, swept, contested, leaked>>,
         \A d \in Calls : call'[d] = call[d] \/ call'[d].pc \notin FileSteps
  PROVE  StoreInv'
<1>1. ReadyHasObject' /\ GoneFromBoth'
  BY DEF StoreInv, ReadyHasObject, GoneFromBoth
<1>2. SeenIsThere' /\ RemovedIsContested' /\ DeletedIsGone'
  BY DEF StoreInv, SeenIsThere, RemovedIsContested, DeletedIsGone, FileSteps
<1>3. HeldIsPending'
  BY DEF StoreInv, HeldIsPending, Completing, FileSteps
<1> QED BY <1>1, <1>2, <1>3 DEF StoreInv

\* Dropping rows whose object is gone or leaked.
LEMMA StoreDrop ==
  ASSUME Types, StoreInv, NEW fs \in SUBSET Files, DropRows(fs),
         UNCHANGED <<object, contested>>, leaked \subseteq leaked',
         \A f \in fs : Exists(f) /\ f \in object => f \in leaked',
         \A p \in Processes : sweep'[p] \subseteq sweep[p] /\ swept'[p] \subseteq swept[p],
         \A d \in Calls : call'[d] = call[d] \/ call'[d].pc \notin FileSteps
  PROVE  StoreInv'
<1>1. \A f \in Files : file'[f] = IF f \in fs /\ Exists(f) THEN "gone" ELSE file[f]
  BY Dropped
<1>2. ReadyHasObject' /\ GoneFromBoth'
  BY <1>1 DEF StoreInv, ReadyHasObject, GoneFromBoth
<1>3. SeenIsThere' /\ RemovedIsContested'
  BY DEF StoreInv, SeenIsThere, RemovedIsContested, FileSteps
<1>4. DeletedIsGone'
  BY DEF StoreInv, DeletedIsGone, FileSteps
<1>5. HeldIsPending'
  <2> SUFFICES ASSUME NEW p \in Processes, NEW f \in sweep'[p], f \notin contested
               PROVE  file'[f] # "ready" /\ ~Completing(f)'
    BY DEF HeldIsPending
  <2>1. f \in sweep[p] /\ f \in Files
    BY DEF Types
  <2>2. file[f] # "ready" /\ ~Completing(f)
    BY <2>1 DEF StoreInv, HeldIsPending
  <2> QED BY <1>1, <2>1, <2>2 DEF Completing, FileSteps
<1> QED BY <1>2, <1>3, <1>4, <1>5 DEF StoreInv

\* Requests of FilesService keep rows and objects together.
LEMMA StoreFileCall ==
  ASSUME Types, ImageInv, StoreInv, NEW c \in Calls, FileCall(c)
  PROVE  StoreInv'
<1>0. call \in [Calls -> Call] /\ Done.pc = "done"
  BY CallKinds DEF Types
<1> USE DEF rows, store, sweeps, past
<1>1. ASSUME NEW f \in Files, PresignCheck(c, f) PROVE StoreInv'
  <2>1. [pc |-> "presign", file |-> f].pc \notin FileSteps
    BY DEF FileSteps
  <2> QED BY <1>0, <1>1, <2>1, GotoMoves, StoreQuiet DEF PresignCheck
<1>2. ASSUME PresignInsert(c) PROVE StoreInv'
  <2>1. PICK f \in Files : f = call[c].file
    BY <1>0, <1>2, CallShape DEF PresignInsert, OnFile
  <2>2. \A d \in Calls : call'[d] = call[d] \/ call'[d].pc \notin FileSteps
    BY <1>0, <1>2, GotoMoves DEF PresignInsert, FileSteps
  <2>3. /\ file'[f] = "pending" /\ \A g \in Files \ {f} : file'[g] = file[g]
        /\ UNCHANGED <<object, sweep, swept, contested, leaked>>
    BY <1>2, <2>1 DEF PresignInsert, Types
  <2>4. ReadyHasObject' /\ GoneFromBoth'
    BY <2>3 DEF StoreInv, ReadyHasObject, GoneFromBoth
  <2>5. SeenIsThere' /\ RemovedIsContested' /\ DeletedIsGone'
    BY <2>2, <2>3 DEF StoreInv, SeenIsThere, RemovedIsContested, DeletedIsGone, FileSteps
  <2>6. HeldIsPending'
    BY <2>2, <2>3 DEF StoreInv, HeldIsPending, Completing, FileSteps, Types
  <2> QED BY <2>4, <2>5, <2>6 DEF StoreInv
<1>3. ASSUME NEW f \in Files, CompleteFind(c, f) PROVE StoreInv'
  <2> DEFINE state == [pc |-> "head", file |-> f]
  <2>1. call'[c] = state /\ \A d \in Calls \ {c} : call'[d] = call[d]
    BY <1>0, <1>3, GotoMoves DEF CompleteFind
  <2>2. state.pc = "head" /\ state.file = f
    OBVIOUS
  <2> HIDE DEF state
  <2>3. /\ contested \subseteq contested' /\ (SweptNow(f) => f \in contested')
        /\ UNCHANGED <<file, object, sweep, swept, leaked>>
    BY <1>3 DEF CompleteFind
  <2>4. ReadyHasObject' /\ GoneFromBoth'
    BY <2>3 DEF StoreInv, ReadyHasObject, GoneFromBoth
  <2>5. SeenIsThere' /\ RemovedIsContested' /\ DeletedIsGone'
    BY <2>1, <2>2, <2>3 DEF StoreInv, SeenIsThere, RemovedIsContested, DeletedIsGone
  <2>6. HeldIsPending'
    <3> SUFFICES ASSUME NEW p \in Processes, NEW g \in sweep[p], g \notin contested'
                 PROVE  file[g] # "ready" /\ ~Completing(g)'
      BY <2>3 DEF HeldIsPending
    <3>1. g # f /\ g \notin contested
      BY <2>3 DEF SweptNow
    <3>2. file[g] # "ready" /\ ~Completing(g)
      BY <3>1 DEF StoreInv, HeldIsPending
    <3> QED BY <2>1, <2>2, <3>1, <3>2 DEF Completing
  <2> QED BY <2>4, <2>5, <2>6 DEF StoreInv
<1>4. ASSUME CompleteHead(c) PROVE StoreInv'
  <2> DEFINE state == [pc |-> "commit", file |-> call[c].file]
  <2>1. state.pc = "commit" /\ state.file = call[c].file
    OBVIOUS
  <2>2. /\ call'[c] = Done \/ (call'[c] = state /\ call[c].file \in object)
        /\ \A d \in Calls \ {c} : call'[d] = call[d]
    BY <1>0, <1>4, GotoMoves DEF CompleteHead, ObjectExists
  <2> HIDE DEF state
  <2>3. UNCHANGED <<file, object, sweep, swept, contested, leaked>> /\ call[c].pc = "head"
    BY <1>4 DEF CompleteHead
  <2>4. ReadyHasObject' /\ GoneFromBoth'
    BY <2>3 DEF StoreInv, ReadyHasObject, GoneFromBoth
  <2>5. SeenIsThere' /\ RemovedIsContested' /\ DeletedIsGone'
    BY <1>0, <2>1, <2>2, <2>3 DEF StoreInv, SeenIsThere, RemovedIsContested, DeletedIsGone
  <2>6. \A f \in Files : Completing(f)' => Completing(f)
    BY <1>0, <2>1, <2>2, <2>3 DEF Completing
  <2>7. HeldIsPending'
    BY <2>3, <2>6 DEF StoreInv, HeldIsPending, Types
  <2> QED BY <2>4, <2>5, <2>7 DEF StoreInv
<1>5. ASSUME CompleteCommit(c) PROVE StoreInv'
  <2>1. PICK f \in Files : f = call[c].file
    BY <1>0, <1>5, CallShape DEF CompleteCommit, OnFile
  <2>2. call'[c] = Done /\ \A d \in Calls \ {c} : call'[d] = call[d]
    BY <1>0, <1>5, GotoMoves DEF CompleteCommit
  <2>3. /\ file'[f] = IF Exists(f) THEN "ready" ELSE file[f]
        /\ \A g \in Files \ {f} : file'[g] = file[g]
        /\ UNCHANGED <<object, sweep, swept, contested, leaked>>
        /\ call[c].pc = "commit"
    BY <1>5, <2>1 DEF CompleteCommit, Types
  <2>4. f \notin contested => f \in object
    BY <2>1, <2>3 DEF StoreInv, SeenIsThere
  <2>5. ReadyHasObject' /\ GoneFromBoth'
    BY <2>3, <2>4 DEF StoreInv, ReadyHasObject, GoneFromBoth
  <2>6. SeenIsThere' /\ RemovedIsContested' /\ DeletedIsGone'
    BY <1>0, <2>2, <2>3 DEF StoreInv, SeenIsThere, RemovedIsContested, DeletedIsGone
  <2>7. \A g \in Files : Completing(g)' => Completing(g)
    BY <1>0, <2>2 DEF Completing
  <2>8. Completing(f)
    BY <2>1, <2>3 DEF Completing
  <2>9. HeldIsPending'
    BY <2>3, <2>7, <2>8 DEF StoreInv, HeldIsPending, Types
  <2> QED BY <2>5, <2>6, <2>9 DEF StoreInv
<1>6. ASSUME NEW f \in Files, RemoveFind(c, f) PROVE StoreInv'
  <2> DEFINE state == [pc |-> "deleteObject", file |-> f]
  <2>1. call'[c] = state /\ \A d \in Calls \ {c} : call'[d] = call[d]
    BY <1>0, <1>6, GotoMoves DEF RemoveFind
  <2>2. state.pc = "deleteObject" /\ state.file = f
    OBVIOUS
  <2> HIDE DEF state
  <2>3. /\ contested' = contested \cup {f}
        /\ UNCHANGED <<file, object, sweep, swept, leaked>>
    BY <1>6 DEF RemoveFind
  <2>4. ReadyHasObject' /\ GoneFromBoth'
    BY <2>3 DEF StoreInv, ReadyHasObject, GoneFromBoth
  <2>5. SeenIsThere' /\ RemovedIsContested' /\ DeletedIsGone'
    BY <2>1, <2>2, <2>3 DEF StoreInv, SeenIsThere, RemovedIsContested, DeletedIsGone
  <2>6. \A g \in Files : Completing(g)' => Completing(g)
    BY <2>1, <2>2 DEF Completing
  <2>7. HeldIsPending'
    BY <2>3, <2>6 DEF StoreInv, HeldIsPending, Types
  <2> QED BY <2>4, <2>5, <2>7 DEF StoreInv
<1>7. ASSUME RemoveObject(c) PROVE StoreInv'
  <2>1. PICK f \in Files : f = call[c].file
    BY <1>0, <1>7, CallShape DEF RemoveObject, OnFile
  <2> DEFINE state == [pc |-> "deleteRow", file |-> f]
  <2>2. state.pc = "deleteRow" /\ state.file = f
    OBVIOUS
  <2>3. (ObjectDeleted(f) /\ Goto(c, state)) \/ (DeleteFails(f) /\ Goto(c, Done))
    BY <1>7, <2>1 DEF RemoveObject, AfterError
  <2> HIDE DEF state
  <2>4. UNCHANGED <<file, sweep, swept, contested, leaked>> /\ call[c].pc = "deleteObject"
    BY <1>7 DEF RemoveObject
  <2>5. f \in contested
    BY <2>1, <2>4 DEF StoreInv, RemovedIsContested
  <2>6. object' \subseteq object /\ \A g \in object : g # f => g \in object'
    BY <2>3 DEF ObjectDeleted, DeleteFails
  <2>7. /\ call'[c] = Done \/ (call'[c] = state /\ f \notin object')
        /\ \A d \in Calls \ {c} : call'[d] = call[d]
    BY <1>0, <2>3, GotoMoves DEF ObjectDeleted
  <2>8. ReadyHasObject' /\ GoneFromBoth'
    BY <2>4, <2>5, <2>6 DEF StoreInv, ReadyHasObject, GoneFromBoth
  <2>9. SeenIsThere' /\ RemovedIsContested' /\ DeletedIsGone'
    BY <1>0, <2>2, <2>4, <2>5, <2>6, <2>7 DEF StoreInv, SeenIsThere, RemovedIsContested, DeletedIsGone
  <2>10. \A g \in Files : Completing(g)' => Completing(g)
    BY <1>0, <2>2, <2>7 DEF Completing
  <2>11. HeldIsPending'
    BY <2>4, <2>10 DEF StoreInv, HeldIsPending, Types
  <2> QED BY <2>8, <2>9, <2>11 DEF StoreInv
<1>8. ASSUME RemoveRow(c) PROVE StoreInv'
  <2>1. PICK f \in Files : f = call[c].file
    BY <1>0, <1>8, CallShape DEF RemoveRow, OnFile
  <2>2. DropRows({f}) /\ UNCHANGED <<object, sweep, swept, contested, leaked>> /\ call[c].pc = "deleteRow"
    BY <1>8, <2>1 DEF RemoveRow
  <2>3. f \in object => f \in leaked
    BY <2>1, <2>2 DEF StoreInv, DeletedIsGone
  <2>4. \A d \in Calls : call'[d] = call[d] \/ call'[d].pc \notin FileSteps
    BY <1>0, <1>8, GotoMoves DEF RemoveRow, FileSteps
  <2>5. {f} \in SUBSET Files
    OBVIOUS
  <2> QED BY <2>2, <2>3, <2>4, <2>5, StoreDrop
<1> QED BY <1>1, <1>2, <1>3, <1>4, <1>5, <1>6, <1>7, <1>8 DEF FileCall

\* Every step keeps rows and objects together.
LEMMA NextStore == Types /\ ImageInv /\ StoreInv /\ [Next]_vars => StoreInv'
<1> SUFFICES ASSUME Types, ImageInv, StoreInv, [Next]_vars PROVE StoreInv'
  OBVIOUS
<1>0. call \in [Calls -> Call] /\ Done.pc \notin FileSteps
  BY CallKinds DEF Types, FileSteps
<1> USE DEF rows, store, sweeps, past
<1>1. ASSUME NEW c \in Calls, Abandon(c) PROVE StoreInv'
  BY <1>0, <1>1, GotoMoves, StoreQuiet DEF Abandon
<1>2. ASSUME NEW c \in Calls, ProductCall(c) PROVE StoreInv'
  <2>1. UNCHANGED <<file, object, sweep, swept, contested, leaked>>
    BY <1>2 DEF ProductCall, CreateProduct, UpdateRead, RemoveProductRead, UpdateDiff, UpdateWrite, RemoveProduct
  <2>2. PICK state : Goto(c, state) /\ state.pc \notin FileSteps
    <3>1. ASSUME NEW x \in Products, UpdateRead(c, x) \/ RemoveProductRead(c, x)
          PROVE  \E state : Goto(c, state) /\ state.pc \notin FileSteps
      <4>1. /\ [pc |-> "save", product |-> x, image |-> image[x], cols |-> FALSE].pc \notin FileSteps
            /\ [pc |-> "remove", product |-> x].pc \notin FileSteps
        BY DEF FileSteps
      <4> QED BY <3>1, <4>1 DEF UpdateRead, RemoveProductRead
    <3>2. ASSUME UpdateDiff(c) PROVE \E state : Goto(c, state) /\ state.pc \notin FileSteps
      <4>1. [pc |-> "update", product |-> call[c].product, image |-> call[c].image,
             cols |-> Differs(c)].pc \notin FileSteps
        BY DEF FileSteps
      <4> QED BY <1>0, <3>2, <4>1 DEF UpdateDiff
    <3> QED BY <1>0, <1>2, <3>1, <3>2 DEF ProductCall, CreateProduct, UpdateWrite, RemoveProduct
  <2> QED BY <1>0, <2>1, <2>2, GotoMoves, StoreQuiet
<1>3. ASSUME NEW p \in Processes, SweepFind(p) PROVE StoreInv'
  <2>1. /\ sweep'[p] = ExpiredPending(p) /\ \A q \in Processes \ {p} : sweep'[q] = sweep[q]
        /\ contested' = contested \cup {f \in ExpiredPending(p) : Completing(f)}
        /\ UNCHANGED <<file, object, swept, leaked, call>>
    BY <1>3 DEF SweepFind, Types
  <2>2. ReadyHasObject' /\ GoneFromBoth' /\ SeenIsThere' /\ RemovedIsContested' /\ DeletedIsGone'
    BY <2>1 DEF StoreInv, ReadyHasObject, GoneFromBoth, SeenIsThere, RemovedIsContested, DeletedIsGone
  <2>3. \A f : Completing(f)' <=> Completing(f)
    BY <2>1 DEF Completing
  <2>4. HeldIsPending'
    BY <2>1, <2>3 DEF StoreInv, HeldIsPending, ExpiredPending
  <2> QED BY <2>2, <2>4 DEF StoreInv
<1>4. ASSUME NEW p \in Processes, NEW f \in Files, SweepObject(p, f) PROVE StoreInv'
  <2>1. /\ f \in sweep[p]
        /\ swept'[p] = {f} /\ \A q \in Processes \ {p} : swept'[q] = swept[q]
        /\ UNCHANGED <<file, sweep, contested, call>>
    BY <1>4 DEF SweepObject, Types
  <2>2. /\ object' \subseteq object /\ \A g \in object : g # f => g \in object'
        /\ leaked \subseteq leaked' /\ (f \in object' => f \in leaked')
    BY <1>4 DEF SweepObject, ObjectDeleted, DeleteFails
  <2>3. f \notin contested => file[f] # "ready" /\ ~Completing(f)
    BY <2>1 DEF StoreInv, HeldIsPending
  <2>4. ReadyHasObject' /\ GoneFromBoth'
    BY <2>1, <2>2, <2>3 DEF StoreInv, ReadyHasObject, GoneFromBoth
  <2>5. SeenIsThere'
    BY <2>1, <2>2, <2>3 DEF StoreInv, SeenIsThere, Completing
  <2>6. RemovedIsContested' /\ DeletedIsGone'
    BY <2>1, <2>2 DEF StoreInv, RemovedIsContested, DeletedIsGone
  <2>7. HeldIsPending'
    BY <2>1 DEF StoreInv, HeldIsPending, Completing
  <2> QED BY <2>4, <2>5, <2>6, <2>7 DEF StoreInv
<1>5. ASSUME NEW p \in Processes, NEW f \in Files, SweepRow(p, f) PROVE StoreInv'
  <2>1. /\ DropRows({f}) /\ {f} \in SUBSET Files /\ f \in swept[p]
        /\ UNCHANGED <<object, contested, leaked, call>>
    BY <1>5 DEF SweepRow
  <2>2. \A q \in Processes : sweep'[q] \subseteq sweep[q] /\ swept'[q] \subseteq swept[q]
    BY <1>5 DEF SweepRow, Types
  <2>3. f \in object => f \in leaked
    BY <2>1 DEF StoreInv, DeletedIsGone
  <2> QED BY <2>1, <2>2, <2>3, StoreDrop
<1>6. ASSUME NEW p \in Processes, SweepStops(p) PROVE StoreInv'
  <2>1. /\ \A q \in Processes : sweep'[q] \subseteq sweep[q] /\ swept'[q] \subseteq swept[q]
        /\ UNCHANGED <<file, object, contested, leaked, call>>
    BY <1>6 DEF SweepStops, Types
  <2>2. ReadyHasObject' /\ GoneFromBoth' /\ SeenIsThere' /\ RemovedIsContested' /\ DeletedIsGone'
    BY <2>1 DEF StoreInv, ReadyHasObject, GoneFromBoth, SeenIsThere, RemovedIsContested, DeletedIsGone
  <2>3. HeldIsPending'
    BY <2>1 DEF StoreInv, HeldIsPending, Completing
  <2> QED BY <2>2, <2>3 DEF StoreInv
<1>7. ASSUME NEW f \in Files, Put(f) PROVE StoreInv'
  <2> DEFINE state == [pc |-> "deleteRow", file |-> f]
  <2>1. /\ object' = object \cup {f} /\ leaked \subseteq leaked'
        /\ UNCHANGED <<file, sweep, swept, contested, call>>
    BY <1>7 DEF Put
  <2>2. \/ f \in leaked'
        \/ /\ file[f] # "gone"
           /\ \A p \in Processes : f \notin swept[p]
           /\ \A c \in Calls : call[c] # state
    BY <1>7 DEF Put
  <2>3. ReadyHasObject' /\ SeenIsThere' /\ RemovedIsContested'
    BY <2>1 DEF StoreInv, ReadyHasObject, SeenIsThere, RemovedIsContested
  <2>4. GoneFromBoth'
    <3> SUFFICES ASSUME NEW g \in Files, file[g] = "gone", g \in object \cup {f} PROVE g \in leaked'
      BY <2>1 DEF GoneFromBoth
    <3> QED BY <2>1, <2>2 DEF StoreInv, GoneFromBoth
  <2>5. ASSUME NEW c \in Calls, f \notin leaked', call[c].pc = "deleteRow", call[c].file = f PROVE FALSE
    <3>1. call[c] \in OnFile
      BY <1>0, <2>5, CallShape
    <3>2. call[c] = state
      BY <2>5, <3>1 DEF OnFile
    <3> HIDE DEF state
    <3> QED BY <2>2, <2>5, <3>2
  <2>6. DeletedIsGone'
    <3> SUFFICES ASSUME NEW g \in object', g \notin leaked'
                 PROVE  /\ \A p \in Processes : g \notin swept[p]
                        /\ \A c \in Calls : call[c].pc = "deleteRow" => call[c].file # g
      BY <2>1 DEF DeletedIsGone
    <3>1. CASE g = f
      BY <2>2, <2>5, <3>1
    <3>2. CASE g \in object
      BY <2>1, <3>2 DEF StoreInv, DeletedIsGone
    <3> QED BY <2>1, <3>1, <3>2
  <2>7. HeldIsPending'
    BY <2>1 DEF StoreInv, HeldIsPending, Completing
  <2> QED BY <2>3, <2>4, <2>6, <2>7 DEF StoreInv
<1>8. ASSUME NEW f \in Files, CloseUrl(f) PROVE StoreInv'
  BY <1>8, StoreQuiet DEF CloseUrl
<1>9. ASSUME NEW p \in Processes, NEW f \in Files, Expire(p, f) PROVE StoreInv'
  BY <1>9, StoreQuiet DEF Expire
<1>10. ASSUME NEW o \in Owners, RemoveOwner(o) PROVE StoreInv'
  <2> DEFINE fs == {f \in Files : OwnerOf[f] = o /\ Exists(f)}
  <2>1. /\ fs \in SUBSET Files /\ DropRows(fs) /\ leaked' = leaked \cup fs
        /\ UNCHANGED <<object, sweep, swept, contested, call>>
    BY <1>10 DEF RemoveOwner
  <2> QED BY <2>1, StoreDrop
<1>11. CASE UNCHANGED vars
  BY <1>11, StoreQuiet DEF vars
<1> QED BY <1>1, <1>2, <1>3, <1>4, <1>5, <1>6, <1>7, <1>8, <1>9, <1>10, <1>11, StoreFileCall
        DEF Next, Serve, Sweep

\* A READY file has its object, whatever fails, unless its removal was begun or
\* a cleanup held it during its complete().
THEOREM ReadyFilesHaveObjects == Spec => []ReadyHasObject
<1>1. StoreInv => ReadyHasObject
  BY DEF StoreInv
<1> QED BY <1>1, AlwaysImage, InitStore, NextStore, PTL DEF Spec

\* When a row is gone so is its object, but for the leaks the model names.
THEOREM DeletedRowsLeaveNothing == Spec => []GoneFromBoth
<1>1. StoreInv => GoneFromBoth
  BY DEF StoreInv
<1> QED BY <1>1, AlwaysImage, InitStore, NextStore, PTL DEF Spec

----------------------------------------------------------------------------
(* The last completed image                                                *)

\* The entity of a PATCH that was not overtaken has the image of its product.
EntityIsCurrent ==
  \A c \in Calls : \A x \in Products \ overtaken :
    product[x] = "present" /\ call[c].product = x =>
      /\ call[c].pc = "save" => call[c].image = image[x]
      /\ call[c].pc = "update" => ~call[c].cols

LatestInv == ImageIsLatest /\ EntityIsCurrent

\* Steps that change no image, product or latest file and read no entity.
LEMMA LatestQuiet ==
  ASSUME LatestInv, UNCHANGED <<product, image, latest>>, overtaken \subseteq overtaken',
         \A d \in Calls : call'[d] = call[d] \/ call'[d].pc \notin {"save", "update"}
  PROVE  LatestInv'
<1>1. ImageIsLatest'
  BY DEF LatestInv, ImageIsLatest
<1>2. EntityIsCurrent'
  BY DEF LatestInv, EntityIsCurrent
<1> QED BY <1>1, <1>2 DEF LatestInv

\* Dropping rows overtakes the PATCHes of the products that showed them.
LEMMA LatestDrop ==
  ASSUME Types, LatestInv, NEW fs \in SUBSET Files, DropRows(fs), UNCHANGED product,
         \A d \in Calls : call'[d] = call[d] \/ call'[d].pc \notin {"save", "update"}
  PROVE  LatestInv'
<1>1. /\ \A x \in Products : image'[x] = IF image[x] \in fs THEN NoFile ELSE image[x]
      /\ \A x \in Products : latest'[x] = IF latest[x] \in fs THEN NoFile ELSE latest[x]
      /\ overtaken' = overtaken \cup {x \in Products : image[x] \in fs /\ Saving(x)}
  BY Dropped
<1>2. ImageIsLatest'
  BY <1>1 DEF LatestInv, ImageIsLatest
<1>3. EntityIsCurrent'
  <2> SUFFICES ASSUME NEW c \in Calls, NEW x \in Products \ overtaken',
                      product[x] = "present", call'[c].product = x
               PROVE  /\ call'[c].pc = "save" => call'[c].image = image'[x]
                      /\ call'[c].pc = "update" => ~call'[c].cols
    BY DEF EntityIsCurrent
  <2>1. CASE call'[c].pc \in {"save", "update"}
    <3>1. call'[c] = call[c] /\ Saving(x)
      BY <2>1 DEF Saving
    <3>2. image'[x] = image[x] /\ x \notin overtaken
      BY <1>1, <3>1
    <3> QED BY <3>1, <3>2 DEF LatestInv, EntityIsCurrent
  <2> QED BY <2>1
<1> QED BY <1>2, <1>3 DEF LatestInv

\* The requests that write images.
LEMMA LatestLoud ==
  ASSUME Types, ImageInv, LatestInv, NEW c \in Calls,
         \/ CompleteCommit(c) \/ UpdateDiff(c) \/ UpdateWrite(c) \/ RemoveProduct(c)
         \/ \E x \in Products : CreateProduct(c, x) \/ UpdateRead(c, x)
  PROVE  LatestInv'
<1>0. call \in [Calls -> Call] /\ Done.pc = "done"
  BY CallKinds DEF Types
<1> USE DEF rows, store
<1>1. CASE CompleteCommit(c)
  <2>1. PICK f \in Files, x \in Products : f = call[c].file /\ x = ProductOf[f]
    BY <1>0, <1>1, CallShape, FilesAssumption DEF CompleteCommit, OnFile
  <2>2. call'[c] = Done /\ \A d \in Calls \ {c} : call'[d] = call[d]
    BY <1>0, <1>1, GotoMoves DEF CompleteCommit
  <2>3. /\ image'[x] = IF product[x] = "present" /\ Exists(f) THEN f ELSE image[x]
        /\ \A y \in Products \ {x} : image'[y] = image[y]
    BY <1>1, <2>1 DEF CompleteCommit, Linked, Types
  <2>4. /\ latest'[x] = IF product[x] = "present" /\ Exists(f) THEN f ELSE latest[x]
        /\ \A y \in Products \ {x} : latest'[y] = latest[y]
    BY <1>1, <2>1 DEF CompleteCommit, Types
  <2>5. UNCHANGED product /\ overtaken' = overtaken \cup {y \in {x} : Saving(y)}
    BY <1>1, <2>1 DEF CompleteCommit
  <2>6. ImageIsLatest'
    BY <2>3, <2>4, <2>5 DEF LatestInv, ImageIsLatest
  <2>7. \A d \in Calls : call'[d].pc \in {"save", "update"} =>
          call'[d] = call[d] /\ (call[d].product = x => x \in overtaken')
    BY <1>0, <2>2, <2>5 DEF Saving
  <2>8. EntityIsCurrent'
    BY <2>3, <2>5, <2>7 DEF LatestInv, EntityIsCurrent
  <2> QED BY <2>6, <2>8 DEF LatestInv
<1>2. CASE UpdateDiff(c)
  <2> DEFINE state == [pc |-> "update", product |-> call[c].product, image |-> call[c].image, cols |-> Differs(c)]
  <2>1. state.pc = "update" /\ state.product = call[c].product /\ (state.cols <=> Differs(c))
    OBVIOUS
  <2>2. /\ call'[c] = state \/ call'[c] = Done
        /\ \A d \in Calls \ {c} : call'[d] = call[d]
    BY <1>0, <1>2, GotoMoves DEF UpdateDiff
  <2> HIDE DEF state
  <2>3. UNCHANGED <<product, image, latest, overtaken>> /\ call[c].pc = "save"
    BY <1>2 DEF UpdateDiff, past
  <2>4. ImageIsLatest'
    BY <2>3 DEF LatestInv, ImageIsLatest
  <2>5. EntityIsCurrent'
    BY <1>0, <2>1, <2>2, <2>3 DEF LatestInv, EntityIsCurrent, Differs
  <2> QED BY <2>4, <2>5 DEF LatestInv
<1>3. CASE UpdateWrite(c)
  <2>1. PICK x \in Products : x = call[c].product
    BY <1>0, <1>3, CallShape DEF UpdateWrite, OnSave
  <2>2. call'[c] = Done /\ \A d \in Calls \ {c} : call'[d] = call[d]
    BY <1>0, <1>3, GotoMoves DEF UpdateWrite
  <2>3. /\ image'[x] = image[x] \/ (product[x] = "present" /\ call[c].cols)
        /\ \A y \in Products \ {x} : image'[y] = image[y]
        /\ UNCHANGED <<product, latest, overtaken>> /\ call[c].pc = "update"
    BY <1>3, <2>1 DEF UpdateWrite, Types, past
  <2>4. \A y \in Products \ overtaken : image'[y] = image[y]
    BY <2>1, <2>3 DEF LatestInv, EntityIsCurrent
  <2>5. ImageIsLatest'
    BY <2>3, <2>4 DEF LatestInv, ImageIsLatest
  <2>6. EntityIsCurrent'
    BY <1>0, <2>2, <2>3, <2>4 DEF LatestInv, EntityIsCurrent
  <2> QED BY <2>5, <2>6 DEF LatestInv
<1>4. CASE RemoveProduct(c)
  <2>1. PICK x \in Products : x = call[c].product
    BY <1>0, <1>4, CallShape DEF RemoveProduct, OnProduct
  <2>2. call'[c] = Done /\ \A d \in Calls \ {c} : call'[d] = call[d]
    BY <1>0, <1>4, GotoMoves DEF RemoveProduct
  <2>3. /\ image'[x] = NoFile /\ \A y \in Products \ {x} : image'[y] = image[y]
        /\ latest'[x] = NoFile /\ \A y \in Products \ {x} : latest'[y] = latest[y]
        /\ product'[x] = "gone" /\ \A y \in Products \ {x} : product'[y] = product[y]
        /\ UNCHANGED overtaken
    BY <1>4, <2>1 DEF RemoveProduct, Types
  <2>4. ImageIsLatest'
    BY <2>3 DEF LatestInv, ImageIsLatest
  <2>5. EntityIsCurrent'
    BY <1>0, <2>2, <2>3 DEF LatestInv, EntityIsCurrent
  <2> QED BY <2>4, <2>5 DEF LatestInv
<1>5. ASSUME NEW x \in Products, CreateProduct(c, x) PROVE LatestInv'
  <2>1. call'[c] = Done /\ \A d \in Calls \ {c} : call'[d] = call[d]
    BY <1>0, <1>5, GotoMoves DEF CreateProduct
  <2>2. /\ product[x] = "absent" /\ \A y \in Products \ {x} : product'[y] = product[y]
        /\ UNCHANGED <<image, latest, overtaken>>
    BY <1>5 DEF CreateProduct, Types, past
  <2>3. ImageIsLatest'
    BY <2>2 DEF LatestInv, ImageIsLatest
  <2>4. \A d \in Calls : call'[d].pc \in {"save", "update"} => call'[d] = call[d] /\ call[d].product # x
    BY <1>0, <2>1, <2>2 DEF ImageInv, EntitiesAreReady
  <2>5. EntityIsCurrent'
    BY <2>2, <2>4 DEF LatestInv, EntityIsCurrent
  <2> QED BY <2>3, <2>5 DEF LatestInv
<1>6. ASSUME NEW x \in Products, UpdateRead(c, x) PROVE LatestInv'
  <2> DEFINE state == [pc |-> "save", product |-> x, image |-> image[x], cols |-> FALSE]
  <2>1. call'[c] = state /\ \A d \in Calls \ {c} : call'[d] = call[d]
    BY <1>0, <1>6, GotoMoves DEF UpdateRead
  <2>2. state.pc = "save" /\ state.product = x /\ state.image = image[x]
    OBVIOUS
  <2> HIDE DEF state
  <2>3. UNCHANGED <<product, image, latest>> /\ overtaken \subseteq overtaken'
    BY <1>6 DEF UpdateRead
  <2>4. ImageIsLatest' /\ EntityIsCurrent'
    BY <2>1, <2>2, <2>3 DEF LatestInv, ImageIsLatest, EntityIsCurrent
  <2> QED BY <2>4 DEF LatestInv
<1> QED BY <1>1, <1>2, <1>3, <1>4, <1>5, <1>6

\* Every step keeps the images those last completed.
LEMMA NextLatest == Types /\ ImageInv /\ LatestInv /\ [Next]_vars => LatestInv'
<1> SUFFICES ASSUME Types, ImageInv, LatestInv, [Next]_vars PROVE LatestInv'
  OBVIOUS
<1>0. call \in [Calls -> Call] /\ Done.pc = "done"
  BY CallKinds DEF Types
<1> USE DEF rows, store, sweeps, past
<1>1. ASSUME NEW c \in Calls, Abandon(c) \/ PresignInsert(c) PROVE LatestInv'
  BY <1>0, <1>1, GotoMoves, LatestQuiet DEF Abandon, PresignInsert
<1>2. ASSUME NEW c \in Calls, NEW f \in Files, PresignCheck(c, f) \/ CompleteFind(c, f) \/ RemoveFind(c, f)
      PROVE  LatestInv'
  <2>1. PICK state : Goto(c, state) /\ state.pc \in {"presign", "head", "deleteObject"}
    BY <1>2 DEF PresignCheck, CompleteFind, RemoveFind
  <2> QED BY <1>0, <1>2, <2>1, GotoMoves, LatestQuiet DEF PresignCheck, CompleteFind, RemoveFind
<1>3. ASSUME NEW c \in Calls, CompleteHead(c) \/ RemoveObject(c) PROVE LatestInv'
  <2>1. PICK state \in {[pc |-> "commit", file |-> call[c].file], [pc |-> "deleteRow", file |-> call[c].file],
                        Done} : Goto(c, state)
    BY <1>3 DEF CompleteHead, RemoveObject, AfterError
  <2>2. state.pc \notin {"save", "update"}
    BY <1>0, <2>1
  <2> QED BY <1>0, <1>3, <2>1, <2>2, GotoMoves, LatestQuiet DEF CompleteHead, RemoveObject
<1>4. ASSUME NEW c \in Calls, RemoveRow(c) PROVE LatestInv'
  <2>1. {call[c].file} \in SUBSET Files
    BY <1>0, <1>4, CallShape DEF RemoveRow, OnFile
  <2> QED BY <1>0, <1>4, <2>1, GotoMoves, LatestDrop DEF RemoveRow
<1>5. ASSUME NEW c \in Calls, NEW x \in Products, RemoveProductRead(c, x) PROVE LatestInv'
  <2>1. [pc |-> "remove", product |-> x].pc = "remove"
    OBVIOUS
  <2> QED BY <1>0, <1>5, <2>1, GotoMoves, LatestQuiet DEF RemoveProductRead
<1>6. ASSUME NEW p \in Processes, SweepFind(p) \/ SweepStops(p) PROVE LatestInv'
  BY <1>6, LatestQuiet DEF SweepFind, SweepStops
<1>7. ASSUME NEW p \in Processes, NEW f \in Files, SweepObject(p, f) \/ Expire(p, f) PROVE LatestInv'
  BY <1>7, LatestQuiet DEF SweepObject, Expire
<1>8. ASSUME NEW p \in Processes, NEW f \in Files, SweepRow(p, f) PROVE LatestInv'
  <2>1. {f} \in SUBSET Files /\ DropRows({f}) /\ UNCHANGED <<product, call>>
    BY <1>8 DEF SweepRow
  <2> QED BY <2>1, LatestDrop
<1>9. ASSUME NEW f \in Files, Put(f) \/ CloseUrl(f) PROVE LatestInv'
  BY <1>9, LatestQuiet DEF Put, CloseUrl
<1>10. ASSUME NEW o \in Owners, RemoveOwner(o) PROVE LatestInv'
  <2> DEFINE fs == {f \in Files : OwnerOf[f] = o /\ Exists(f)}
  <2>1. fs \in SUBSET Files /\ DropRows(fs) /\ UNCHANGED <<product, call>>
    BY <1>10 DEF RemoveOwner
  <2> QED BY <2>1, LatestDrop
<1>11. CASE UNCHANGED vars
  BY <1>11, LatestQuiet DEF vars
<1>12. ASSUME NEW c \in Calls, FileCall(c) PROVE LatestInv'
  BY <1>1, <1>2, <1>3, <1>4, <1>12, LatestLoud DEF FileCall
<1>13. ASSUME NEW c \in Calls, ProductCall(c) PROVE LatestInv'
  BY <1>5, <1>13, LatestLoud DEF ProductCall
<1> QED BY <1>1, <1>6, <1>7, <1>8, <1>9, <1>10, <1>11, <1>12, <1>13 DEF Next, Serve, Sweep

\* A product shows the file last completed for it, unless the image changed
\* under a PATCH of the product.
THEOREM ImagesAreTheLatest == Spec => []ImageIsLatest
<1>1. Init => LatestInv
  BY CallKinds DEF Init, LatestInv, ImageIsLatest, EntityIsCurrent
<1>2. LatestInv => ImageIsLatest
  BY DEF LatestInv
<1> QED BY <1>1, <1>2, AlwaysImage, NextLatest, PTL DEF Spec
=============================================================================
