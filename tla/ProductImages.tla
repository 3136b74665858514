--------------------------- MODULE ProductImages ---------------------------
(***************************************************************************)
(* ProductsService.create: the images of a new product go to Cloudinary,   *)
(* all at once, before the product is inserted, and are deleted again when *)
(* the insertion fails.                                                    *)
(*                                                                         *)
(* A creation names the product it makes.  An upload goes on when its      *)
(* creation has stopped waiting for it.                                    *)
(***************************************************************************)
EXTENDS FiniteSets

CONSTANTS
    Creations, SkuOf,
    Files, FilesOf,    \* the images of each creation
    CreationFaults     \* a subset of CreationFaultKinds

(* An upload or a deletion is answered with an error, an insertion fails,  *)
(* one succeeds but its answer is lost, the server stops.                  *)
CreationFaultKinds == {"upload", "delete", "insert", "acknowledgement", "crash"}

(* The types of the constants; a file belongs to one creation.             *)
CreationsAssumption ==
    /\ FilesOf \in [Creations -> (SUBSET Files) \ {{}}]
    /\ \A c, d \in Creations : c # d => FilesOf[c] \cap FilesOf[d] = {}
    /\ CreationFaults \subseteq CreationFaultKinds

VARIABLES
    products,      \* the creations whose Product row exists
    stored,        \* the files in Cloudinary
    upload,        \* what the server knows of each file's upload
    creating,      \* where each creation is
    uploadedFiles, \* create's local variable
    deletion,      \* the result of each file's deletion
    created        \* what each creation was answered

imageVars == <<products, stored, upload, creating, uploadedFiles, deletion, created>>

Init ==
    /\ products = {}
    /\ stored = {}
    /\ upload = [f \in Files |-> "none"]
    /\ creating = [c \in Creations |-> "start"]
    /\ uploadedFiles = [c \in Creations |-> {}]
    /\ deletion = [f \in Files |-> "none"]
    /\ created = [c \in Creations |-> "none"]
-----------------------------------------------------------------------------
To(c, l) == creating' = [creating EXCEPT ![c] = l]
Reply(c, what) == To(c, "done") /\ created' = [created EXCEPT ![c] = what]

(* uploadMany starts every upload.                                         *)
UploadMany(c) ==
    /\ creating[c] = "start"
    /\ upload' = [f \in Files |-> IF f \in FilesOf[c] THEN "sent" ELSE upload[f]]
    /\ To(c, "upload")
    /\ UNCHANGED <<products, stored, uploadedFiles, deletion, created>>

FileStored(f) ==
    /\ upload[f] = "sent"
    /\ upload' = [upload EXCEPT ![f] = "resolved"]
    /\ stored' = stored \cup {f}
    /\ UNCHANGED <<products, creating, uploadedFiles, deletion, created>>

(* An error says nothing of whether the file was stored.                   *)
FileFails(f) ==
    /\ "upload" \in CreationFaults
    /\ upload[f] = "sent"
    /\ upload' = [upload EXCEPT ![f] = "rejected"]
    /\ stored' \in {stored, stored \cup {f}}
    /\ UNCHANGED <<products, creating, uploadedFiles, deletion, created>>

(* Promise.all rejects with the first upload that fails: uploadedFiles is  *)
(* still empty, and nothing is deleted.                                    *)
UploadRejects(c) ==
    /\ creating[c] = "upload"
    /\ \E f \in FilesOf[c] : upload[f] = "rejected"
    /\ Reply(c, "failed")
    /\ UNCHANGED <<products, stored, upload, uploadedFiles, deletion>>

MutantAllResolved(c) == \E f \in FilesOf[c] : upload[f] = "resolved"
AllResolved(c) == \A f \in FilesOf[c] : upload[f] = "resolved"

UploadResolves(c) ==
    /\ creating[c] = "upload"
    /\ AllResolved(c)
    /\ uploadedFiles' = [uploadedFiles EXCEPT ![c] = FilesOf[c]]
    /\ To(c, "insert")
    /\ UNCHANGED <<products, stored, upload, deletion, created>>
-----------------------------------------------------------------------------
(* One nested create inserts the product, its stock and its images.        *)

SkuFree(c) == \A d \in products : SkuOf[d] # SkuOf[c]

CreateProduct(c) ==
    /\ creating[c] = "insert"
    /\ SkuFree(c)
    /\ products' = products \cup {c}
    /\ Reply(c, "created")
    /\ UNCHANGED <<stored, upload, uploadedFiles, deletion>>

MutantCompensate(c) == Reply(c, "failed")
(* The catch block.                                                        *)
Compensate(c) == To(c, "delete") /\ UNCHANGED created

InsertRejected(c) ==
    /\ creating[c] = "insert"
    /\ "insert" \in CreationFaults \/ ~ SkuFree(c)
    /\ Compensate(c)
    /\ UNCHANGED <<products, stored, upload, uploadedFiles, deletion>>

AcknowledgementLost(c) ==
    /\ "acknowledgement" \in CreationFaults
    /\ creating[c] = "insert"
    /\ SkuFree(c)
    /\ products' = products \cup {c}
    /\ Compensate(c)
    /\ UNCHANGED <<stored, upload, uploadedFiles, deletion>>
-----------------------------------------------------------------------------
(* deleteUploadedFiles: the deletions run side by side, and allSettled     *)
(* waits for every answer, good or bad.                                    *)

Undecided(c, f) ==
    creating[c] = "delete" /\ f \in uploadedFiles[c] /\ deletion[f] = "none"

FileDeleted(c, f) ==
    /\ Undecided(c, f)
    /\ stored' = stored \ {f}
    /\ deletion' = [deletion EXCEPT ![f] = "fulfilled"]
    /\ UNCHANGED <<products, upload, creating, uploadedFiles, created>>

DeletionFails(c, f) ==
    /\ "delete" \in CreationFaults
    /\ Undecided(c, f)
    /\ stored' \in {stored, stored \ {f}}
    /\ deletion' = [deletion EXCEPT ![f] = "rejected"]
    /\ UNCHANGED <<products, upload, creating, uploadedFiles, created>>

MutantAllSettled(c) == \A f \in uploadedFiles[c] : deletion[f] = "fulfilled"
AllSettled(c) == \A f \in uploadedFiles[c] : deletion[f] # "none"

Rethrow(c) ==
    /\ creating[c] = "delete"
    /\ AllSettled(c)
    /\ Reply(c, "failed")
    /\ UNCHANGED <<products, stored, upload, uploadedFiles, deletion>>

ServerStops(c) ==
    /\ "crash" \in CreationFaults
    /\ creating[c] \notin {"start", "done", "stopped"}
    /\ To(c, "stopped")
    /\ UNCHANGED <<products, stored, upload, uploadedFiles, deletion, created>>

CreationProgress(c) ==
    \/ UploadMany(c) \/ UploadRejects(c) \/ UploadResolves(c)
    \/ CreateProduct(c) \/ InsertRejected(c)
    \/ \E f \in Files : FileDeleted(c, f) \/ DeletionFails(c, f)
    \/ Rethrow(c)

UploadProgress(f) == FileStored(f) \/ FileFails(f)

Next ==
    \/ \E c \in Creations : CreationProgress(c) \/ AcknowledgementLost(c) \/ ServerStops(c)
    \/ \E f \in Files : UploadProgress(f)
-----------------------------------------------------------------------------
(* Each variable ranges over the values the code gives it.                 *)
TypeOK ==
    /\ products \subseteq Creations
    /\ stored \subseteq Files
    /\ upload \in [Files -> {"none", "sent", "resolved", "rejected"}]
    /\ creating \in [Creations -> {"start", "upload", "insert", "delete", "done", "stopped"}]
    /\ uploadedFiles \in [Creations -> SUBSET Files]
    /\ deletion \in [Files -> {"none", "fulfilled", "rejected"}]
    /\ created \in [Creations -> {"none", "created", "failed"}]

(* README.md:63 and 358: when the insertion failed, no uploaded image is   *)
(* left in Cloudinary but those whose deletion failed, which were logged.  *)
CompensationComplete ==
    \A c \in Creations : created[c] = "failed" =>
        \A f \in uploadedFiles[c] \cap stored : deletion[f] = "rejected"

(* products.service.ts:23: a creation that succeeded has all its images,   *)
(* and none of them is deleted by the compensation.                        *)
CreatedIsComplete ==
    \A c \in Creations : created[c] = "created" => c \in products /\ FilesOf[c] \subseteq stored

(* products.service.ts:201: a creation is answered although uploads and    *)
(* deletions fail, unless its server stops.                                *)
CreationsAnswered ==
    \A c \in Creations : creating[c] = "upload" ~> creating[c] \in {"done", "stopped"}
=============================================================================
