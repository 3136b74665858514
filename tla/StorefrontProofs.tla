-------------------------- MODULE StorefrontProofs --------------------------
(***************************************************************************)
(* Theorems about Storefront for every set of products, images, carts and  *)
(* requests: the invariants of ProductImages and of Cart, each beside the  *)
(* steps of the other.                                                     *)
(***************************************************************************)
EXTENDS Storefront, TLAPS

P == INSTANCE CartProofs WITH Products <- Creations

(* The lemmas of CartProofs are about its own copy of the definitions that *)
(* Carts names here.                                                       *)
LEMMA CartsAssumed == P!CartAssumption
  BY StorefrontAssumption DEF Carts!CartAssumption, P!CartAssumption, Carts!Requests, P!Requests,
     Carts!Rows, P!Rows, Carts!IsFiniteSet, P!IsFiniteSet

(* So are the initial states,                                              *)
LEMMA CartsInit == Carts!Init <=> P!Init
  BY DEF Carts!Init, P!Init, Carts!Requests, P!Requests

(* the steps,                                                              *)
LEMMA CartsStep ==
  ASSUME NEW r
  PROVE  Carts!CartProgress(r) <=> P!CartProgress(r)
  BY DEF Carts!CartProgress, P!CartProgress, Carts!FindCart, P!FindCart, Carts!CreateCart,
     P!CreateCart, Carts!FindItem, P!FindItem, Carts!CreateItem, P!CreateItem,
     Carts!AlreadyThere, P!AlreadyThere, Carts!Retry, P!Retry, Carts!NoSuchProduct,
     P!NoSuchProduct, Carts!RestoreItem, P!RestoreItem, Carts!IncrementItem, P!IncrementItem,
     Carts!ReadQuantity, P!ReadQuantity, Carts!Decrement, P!Decrement, Carts!CheckItem,
     P!CheckItem, Carts!UpdateItem, P!UpdateItem, Carts!NotFound, P!NotFound, Carts!ClearCart,
     P!ClearCart, Carts!NoCart, P!NoCart, Carts!OrderCart, P!OrderCart, Carts!Go, P!Go,
     Carts!Done, P!Done, Carts!Put, P!Put, Carts!NewRow, P!NewRow, Carts!Incremented,
     P!Incremented, Carts!LastOne, P!LastOne, Carts!MayMove, P!MayMove, Carts!Updated, P!Updated,
     Carts!Emptied, P!Emptied, Carts!Active, P!Active, Carts!Row, P!Row

(* and the properties.                                                     *)
LEMMA CartsTyped == P!TypeOK <=> Carts!TypeOK
  BY DEF Carts!TypeOK, P!TypeOK, Carts!Requests, P!Requests, Carts!Rows, P!Rows

(* The same of the additions that do not conflict,                         *)
LEMMA CartsPairs == P!PairsOfAddsSucceed <=> Carts!PairsOfAddsSucceed
  BY DEF Carts!PairsOfAddsSucceed, P!PairsOfAddsSucceed, Carts!Moves, P!Moves,
     Carts!Cardinality, P!Cardinality

(* and of the quantities.                                                  *)
LEMMA CartsQuantities == P!QuantityAccounts <=> Carts!QuantityAccounts
<1>1. \A f, S : P!SumFunctionOnSet(f, S) = Carts!SumFunctionOnSet(f, S)
  BY DEF P!SumFunctionOnSet, Carts!SumFunctionOnSet, P!FoldFunctionOnSet,
     Carts!FoldFunctionOnSet, P!MapThenFoldSet, Carts!MapThenFoldSet
<1>2. \A S : P!Cardinality(S) = Carts!Cardinality(S)
  BY DEF P!Cardinality, Carts!Cardinality
<1>3. \A k, u, p : P!About(k, u, p) = Carts!About(k, u, p)
  BY DEF P!About, Carts!About
<1>4. \A u : P!Overwritten(u) <=> Carts!Overwritten(u)
  BY DEF P!Overwritten, Carts!Overwritten, P!Requests, Carts!Requests
<1> QED
  BY <1>1, <1>2, <1>3, <1>4 DEF Carts!QuantityAccounts, P!QuantityAccounts

(***************************************************************************)
(* Images.  A creation that begins has sent none of its images; the ones   *)
(* it records are its own and arrived; one that inserts, or was answered,  *)
(* has recorded all of them.                                               *)
(***************************************************************************)
Recorded ==
    \A c \in Creations :
        /\ created[c] # "none" => creating[c] = "done"
        /\ created[c] = "created" => c \in products
        /\ creating[c] = "start" => \A f \in FilesOf[c] : upload[f] = "none"
        /\ creating[c] \in {"start", "upload"} => uploadedFiles[c] = {}
        /\ uploadedFiles[c] \subseteq FilesOf[c]
        /\ \A f \in uploadedFiles[c] : upload[f] = "resolved"
        /\ creating[c] = "insert" \/ created[c] = "created" => uploadedFiles[c] = FilesOf[c]

(* An image that arrived is there until it is deleted, and one whose       *)
(* deletion succeeded is gone; only a creation that fails deletes.         *)
Kept ==
    /\ \A f \in Files :
           /\ deletion[f] # "none" => upload[f] = "resolved"
           /\ deletion[f] = "fulfilled" => f \notin stored
           /\ upload[f] = "resolved" => f \in stored \/ deletion[f] # "none"
    /\ \A c \in Creations : \A f \in FilesOf[c] : deletion[f] # "none" =>
           creating[c] \in {"delete", "stopped"} \/ created[c] = "failed"
    /\ \A c \in Creations : created[c] = "failed" =>
           \A f \in uploadedFiles[c] : deletion[f] # "none"

ImagesInv == Images!TypeOK /\ Recorded /\ Kept

(* What the assumptions say of the images.                                 *)
LEMMA ImageFacts ==
    /\ \A c \in Creations : FilesOf[c] \subseteq Files
    /\ \A c, d \in Creations : c # d => FilesOf[c] \cap FilesOf[d] = {}
  BY StorefrontAssumption DEF Images!CreationsAssumption

(* At the start nothing was sent.                                          *)
LEMMA ImagesInit == Images!Init => ImagesInv
<1> SUFFICES ASSUME Images!Init PROVE ImagesInv
  OBVIOUS
<1>1. Images!TypeOK
  BY DEF Images!Init, Images!TypeOK
<1>2. Recorded /\ Kept
  BY ImageFacts DEF Images!Init, Recorded, Kept
<1> QED
  BY <1>1, <1>2 DEF ImagesInv

(* Every step of a creation or of an upload keeps the invariant.           *)
LEMMA ImagesKept == ImagesInv /\ Images!Next => ImagesInv'
<1> SUFFICES ASSUME ImagesInv, Images!Next PROVE ImagesInv'
  OBVIOUS
<1>0. Images!TypeOK /\ Recorded /\ Kept
  BY DEF ImagesInv
<1> USE ImageFacts
<1>1. ASSUME NEW c \in Creations, Images!UploadMany(c) PROVE ImagesInv'
  <2>1. Images!TypeOK'
    BY <1>0, <1>1 DEF Images!UploadMany, Images!To, Images!TypeOK
  <2>2. Recorded'
    BY <1>0, <1>1 DEF Images!UploadMany, Images!To, Images!TypeOK, Recorded
  <2>3. Kept'
    BY <1>0, <1>1 DEF Images!UploadMany, Images!To, Images!TypeOK, Recorded, Kept
  <2> QED
    BY <2>1, <2>2, <2>3 DEF ImagesInv
<1>2. ASSUME NEW c \in Creations, Images!UploadRejects(c) PROVE ImagesInv'
  <2>1. Images!TypeOK'
    BY <1>0, <1>2 DEF Images!UploadRejects, Images!To, Images!Reply, Images!TypeOK
  <2>2. Recorded'
    BY <1>0, <1>2 DEF Images!UploadRejects, Images!To, Images!Reply, Images!TypeOK, Recorded
  <2>3. Kept'
    BY <1>0, <1>2 DEF Images!UploadRejects, Images!To, Images!Reply, Images!TypeOK, Recorded, Kept
  <2> QED
    BY <2>1, <2>2, <2>3 DEF ImagesInv
<1>3. ASSUME NEW c \in Creations, Images!UploadResolves(c) PROVE ImagesInv'
  <2>1. Images!TypeOK'
    BY <1>0, <1>3 DEF Images!UploadResolves, Images!To, Images!AllResolved, Images!TypeOK
  <2>2. Recorded'
    BY <1>0, <1>3 DEF Images!UploadResolves, Images!To, Images!AllResolved, Images!TypeOK, Recorded
  <2>3. Kept'
    BY <1>0, <1>3 DEF Images!UploadResolves, Images!To, Images!AllResolved, Images!TypeOK, Recorded, Kept
  <2> QED
    BY <2>1, <2>2, <2>3 DEF ImagesInv
<1>4. ASSUME NEW c \in Creations, Images!CreateProduct(c) PROVE ImagesInv'
  <2>1. Images!TypeOK'
    BY <1>0, <1>4 DEF Images!CreateProduct, Images!To, Images!Reply, Images!TypeOK
  <2>2. Recorded'
    BY <1>0, <1>4 DEF Images!CreateProduct, Images!To, Images!Reply, Images!TypeOK, Recorded
  <2>3. Kept'
    BY <1>0, <1>4 DEF Images!CreateProduct, Images!To, Images!Reply, Images!TypeOK, Recorded, Kept
  <2> QED
    BY <2>1, <2>2, <2>3 DEF ImagesInv
<1>5. ASSUME NEW c \in Creations, Images!InsertRejected(c) PROVE ImagesInv'
  <2>1. Images!TypeOK'
    BY <1>0, <1>5 DEF Images!InsertRejected, Images!To, Images!Compensate, Images!TypeOK
  <2>2. Recorded'
    BY <1>0, <1>5 DEF Images!InsertRejected, Images!To, Images!Compensate, Images!TypeOK, Recorded
  <2>3. Kept'
    BY <1>0, <1>5 DEF Images!InsertRejected, Images!To, Images!Compensate, Images!TypeOK, Recorded, Kept
  <2> QED
    BY <2>1, <2>2, <2>3 DEF ImagesInv
<1>6. ASSUME NEW c \in Creations, Images!AcknowledgementLost(c) PROVE ImagesInv'
  <2>1. Images!TypeOK'
    BY <1>0, <1>6 DEF Images!AcknowledgementLost, Images!To, Images!Compensate, Images!TypeOK
  <2>2. Recorded'
    BY <1>0, <1>6 DEF Images!AcknowledgementLost, Images!To, Images!Compensate, Images!TypeOK, Recorded
  <2>3. Kept'
    BY <1>0, <1>6 DEF Images!AcknowledgementLost, Images!To, Images!Compensate, Images!TypeOK, Recorded, Kept
  <2> QED
    BY <2>1, <2>2, <2>3 DEF ImagesInv
<1>7. ASSUME NEW c \in Creations, NEW f \in Files, Images!FileDeleted(c, f) PROVE ImagesInv'
  <2>1. Images!TypeOK'
    BY <1>0, <1>7 DEF Images!FileDeleted, Images!Undecided, Images!TypeOK
  <2>2. Recorded'
    BY <1>0, <1>7 DEF Images!FileDeleted, Images!Undecided, Images!TypeOK, Recorded
  <2>3. Kept'
    BY <1>0, <1>7 DEF Images!FileDeleted, Images!Undecided, Images!TypeOK, Recorded, Kept
  <2> QED
    BY <2>1, <2>2, <2>3 DEF ImagesInv
<1>8. ASSUME NEW c \in Creations, NEW f \in Files, Images!DeletionFails(c, f) PROVE ImagesInv'
  <2>1. Images!TypeOK'
    BY <1>0, <1>8 DEF Images!DeletionFails, Images!Undecided, Images!TypeOK
  <2>2. Recorded'
    BY <1>0, <1>8 DEF Images!DeletionFails, Images!Undecided, Images!TypeOK, Recorded
  <2>3. Kept'
    BY <1>0, <1>8 DEF Images!DeletionFails, Images!Undecided, Images!TypeOK, Recorded, Kept
  <2> QED
    BY <2>1, <2>2, <2>3 DEF ImagesInv
<1>9. ASSUME NEW c \in Creations, Images!Rethrow(c) PROVE ImagesInv'
  <2>1. Images!TypeOK'
    BY <1>0, <1>9 DEF Images!Rethrow, Images!To, Images!Reply, Images!AllSettled, Images!TypeOK
  <2>2. Recorded'
    BY <1>0, <1>9 DEF Images!Rethrow, Images!To, Images!Reply, Images!AllSettled, Images!TypeOK, Recorded
  <2>3. Kept'
    BY <1>0, <1>9 DEF Images!Rethrow, Images!To, Images!Reply, Images!AllSettled, Images!TypeOK, Recorded, Kept
  <2> QED
    BY <2>1, <2>2, <2>3 DEF ImagesInv
<1>10. ASSUME NEW c \in Creations, Images!ServerStops(c) PROVE ImagesInv'
  <2>1. Images!TypeOK'
    BY <1>0, <1>10 DEF Images!ServerStops, Images!To, Images!TypeOK
  <2>2. Recorded'
    BY <1>0, <1>10 DEF Images!ServerStops, Images!To, Images!TypeOK, Recorded
  <2>3. Kept'
    BY <1>0, <1>10 DEF Images!ServerStops, Images!To, Images!TypeOK, Recorded, Kept
  <2> QED
    BY <2>1, <2>2, <2>3 DEF ImagesInv
<1>11. ASSUME NEW f \in Files, Images!FileStored(f) PROVE ImagesInv'
  <2>1. Images!TypeOK'
    BY <1>0, <1>11 DEF Images!FileStored, Images!TypeOK
  <2>2. Recorded'
    BY <1>0, <1>11 DEF Images!FileStored, Images!TypeOK, Recorded
  <2>3. Kept'
    BY <1>0, <1>11 DEF Images!FileStored, Images!TypeOK, Recorded, Kept
  <2> QED
    BY <2>1, <2>2, <2>3 DEF ImagesInv
<1>12. ASSUME NEW f \in Files, Images!FileFails(f) PROVE ImagesInv'
  <2>1. Images!TypeOK'
    BY <1>0, <1>12 DEF Images!FileFails, Images!TypeOK
  <2>2. Recorded'
    BY <1>0, <1>12 DEF Images!FileFails, Images!TypeOK, Recorded
  <2>3. Kept'
    BY <1>0, <1>12 DEF Images!FileFails, Images!TypeOK, Recorded, Kept
  <2> QED
    BY <2>1, <2>2, <2>3 DEF ImagesInv
<1> QED
  BY <1>1, <1>2, <1>3, <1>4, <1>5, <1>6, <1>7, <1>8, <1>9, <1>10, <1>11, <1>12
  DEF Images!Next, Images!CreationProgress, Images!UploadProgress

(* The inductive invariant of the two together.                            *)
StoreInv == ImagesInv /\ P!CartInv

(* At the start.                                                           *)
LEMMA StoreInit == Init => StoreInv
  BY ImagesInit, CartsInit, CartsAssumed, P!CartInit DEF Init, StoreInv

(* A creation leaves the carts alone, and the carts the creations.         *)
LEMMA StoreNext == StoreInv /\ [Next]_vars => StoreInv'
<1> SUFFICES ASSUME StoreInv, [Next]_vars PROVE StoreInv'
  OBVIOUS
<1>1. UNCHANGED cartVars => P!CartInv'
  BY P!CartStutter DEF cartVars, P!cartVars, StoreInv
<1>2. UNCHANGED imageVars => ImagesInv'
  BY DEF imageVars, StoreInv, ImagesInv, Images!TypeOK, Recorded, Kept
<1>3. CASE Images!Next /\ UNCHANGED cartVars
  BY <1>1, <1>3, ImagesKept DEF StoreInv
<1>4. CASE Carts!Next /\ UNCHANGED imageVars
  <2>1. PICK r \in P!Requests : P!CartProgress(r)
    BY <1>4, CartsStep DEF Carts!Next, Carts!Requests, P!Requests
  <2>2. P!CartInv'
    BY <2>1, CartsAssumed, P!CartKept DEF StoreInv
  <2> QED
    BY <1>2, <1>4, <2>2 DEF StoreInv
<1>5. CASE UNCHANGED vars
  BY <1>1, <1>2, <1>5 DEF vars, StoreInv
<1> QED
  BY <1>3, <1>4, <1>5 DEF Next

(* StoreInv holds in every state that a store reaches.                     *)
THEOREM StoreHolds == Spec => []StoreInv
  BY StoreInit, StoreNext, PTL DEF Spec

(* TypeOK: each variable of the creations and of the carts ranges over the *)
(* values the code gives it.                                               *)
THEOREM StoreTyped == Spec => []TypeOK
<1>1. StoreInv => TypeOK
  BY CartsTyped DEF StoreInv, ImagesInv, P!CartInv, TypeOK
<1> QED
  BY <1>1, StoreHolds, PTL

(* CompensationComplete: when the insertion of a product failed, none of   *)
(* its uploaded images is left but those whose deletion failed.            *)
THEOREM StoreCompensates == Spec => []CompensationComplete
<1>1. StoreInv => CompensationComplete
  <2> SUFFICES ASSUME StoreInv, NEW c \in Creations, created[c] = "failed",
                      NEW f \in uploadedFiles[c] \cap stored
               PROVE  deletion[f] = "rejected"
    BY DEF CompensationComplete, Images!CompensationComplete
  <2>1. f \in Files /\ deletion[f] # "none" /\ deletion[f] # "fulfilled"
    BY DEF StoreInv, ImagesInv, Images!TypeOK, Kept
  <2> QED
    BY <2>1 DEF StoreInv, ImagesInv, Images!TypeOK
<1> QED
  BY <1>1, StoreHolds, PTL

(* CreatedIsComplete: a product that was created has all its images, and   *)
(* no compensation deletes any of them.                                    *)
THEOREM StoreCreates == Spec => []CreatedIsComplete
<1>1. StoreInv => CreatedIsComplete
  <2> SUFFICES ASSUME StoreInv, NEW c \in Creations, created[c] = "created"
               PROVE  c \in products /\ FilesOf[c] \subseteq stored
    BY DEF CreatedIsComplete, Images!CreatedIsComplete
  <2>1. /\ c \in products /\ creating[c] = "done"
        /\ \A f \in FilesOf[c] : f \in Files /\ upload[f] = "resolved"
    BY ImageFacts DEF StoreInv, ImagesInv, Recorded
  <2>2. \A f \in FilesOf[c] : deletion[f] = "none"
    BY <2>1 DEF StoreInv, ImagesInv, Kept
  <2> QED
    BY <2>1, <2>2 DEF StoreInv, ImagesInv, Kept
<1> QED
  BY <1>1, StoreHolds, PTL

(* QuantityAccounts: as long as nobody sets the quantity of an item, it is *)
(* what was added to it less the pieces taken out.                         *)
THEOREM StoreQuantities == Spec => []QuantityAccounts
<1>1. StoreInv => QuantityAccounts
  BY P!CartQuantities, CartsQuantities DEF StoreInv, QuantityAccounts
<1> QED
  BY <1>1, StoreHolds, PTL

(* PairsOfAddsSucceed: an addition that one other request has overtaken    *)
(* does not fail for that.                                                 *)
THEOREM StorePairs == Spec => []PairsOfAddsSucceed
<1>1. StoreInv => PairsOfAddsSucceed
  BY P!CartPairs, CartsPairs, CartsAssumed DEF StoreInv, PairsOfAddsSucceed
<1> QED
  BY <1>1, StoreHolds, PTL
=============================================================================
