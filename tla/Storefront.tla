----------------------------- MODULE Storefront -----------------------------
(***************************************************************************)
(* The products an administrator creates and the carts they are put into:  *)
(* ProductImages and Cart over one table of products.  A creation names    *)
(* its product, so the products of the carts are the creations.            *)
(***************************************************************************)
EXTENDS Integers, FiniteSets

CONSTANTS
    Creations, SkuOf, Files, FilesOf, CreationFaults,
    Users, Adds, Removes, Updates, Clears, Orderings,
    CartOf, ProductOf, QuantityOf, Partial, MovesTo, NoRow

VARIABLES
    products,
    stored, upload, creating, uploadedFiles, deletion, created,
    carts, item, at, tries, seen, outcome

Images == INSTANCE ProductImages
Carts == INSTANCE Cart WITH Products <- Creations

ASSUME StorefrontAssumption == Images!CreationsAssumption /\ Carts!CartAssumption

imageVars == <<products, stored, upload, creating, uploadedFiles, deletion, created>>
cartVars == <<carts, item, at, tries, seen, outcome>>
vars == <<imageVars, cartVars>>

Init == Images!Init /\ Carts!Init

Next ==
    \/ Images!Next /\ UNCHANGED cartVars
    \/ Carts!Next /\ UNCHANGED imageVars

Spec == Init /\ [][Next]_vars

(* A server that has not stopped runs its handlers; Cloudinary answers.    *)
FairSpec ==
    /\ Spec
    /\ \A c \in Creations : WF_vars(Images!CreationProgress(c) /\ UNCHANGED cartVars)
    /\ \A f \in Files : WF_vars(Images!UploadProgress(f) /\ UNCHANGED cartVars)
-----------------------------------------------------------------------------
(* Each variable ranges over the values the code gives it.                 *)
TypeOK == Images!TypeOK /\ Carts!TypeOK

(* products.service.ts: what becomes of the images, see ProductImages.     *)
CompensationComplete == Images!CompensationComplete
(* products.service.ts:23, see ProductImages.                              *)
CreatedIsComplete == Images!CreatedIsComplete
(* products.service.ts:201, see ProductImages.                             *)
CreationsAnswered == Images!CreationsAnswered

(* cart-item.service.ts:106 and 192: what becomes of the quantities, see   *)
(* Cart.                                                                   *)
QuantityAccounts == Carts!QuantityAccounts
(* cart-item.service.ts:21, see Cart.                                      *)
PairsOfAddsSucceed == Carts!PairsOfAddsSucceed
=============================================================================
