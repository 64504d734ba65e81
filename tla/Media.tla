-------------------------------- MODULE Media --------------------------------
(***************************************************************************)
(* MediaService with the S3 bucket, the client that uploads, and images of  *)
(* products.  The row and the object are written by different parties and   *)
(* removed in two steps.                                                    *)
(***************************************************************************)
EXTENDS ProductRequests

CONSTANT Assets  \* ids of media assets

VARIABLES
  asset,       \* Assets -> [status, upload, leaving] or None; upload is what the client has done
  stored,      \* assets whose object is in the bucket
  images,      \* images of products: [of, asset]
  primary,     \* Products -> asset of the image in products.primaryImageId, or None
  half         \* assets whose removal took the object and not the row

mediaVars == <<asset, stored, images, primary, half>>

MediaStatus == {"UPLOADING", "READY"}
Asset == [status : MediaStatus, upload : {"signed", "sent", "confirmed"}, leaving : BOOLEAN]

ASSUME MediaAssumption == None \notin Asset

\* A commit of media tables only.
OnlyMedia == Counted /\ UNCHANGED <<tables, index, excused, shown, faults>>

\* Mutant of Used: the images have no foreign key.
NeverUsed(m) == FALSE

\* ProductImage.mediaId has a foreign key without onDelete.
Used(m) == \E i \in images : i.asset = m

\* createUpload presigns first, so that no row is made when storage is off.
CreateUpload ==
  /\ \E m \in Assets :
       /\ asset[m] = None /\ m \notin stored
       /\ asset' = [asset EXCEPT ![m] = [status |-> "UPLOADING", upload |-> "signed", leaving |-> FALSE]]
  /\ OnlyMedia
  /\ UNCHANGED <<stored, images, primary, half>>

\* The client PUTs the bytes to the signed URL: the API is not asked.
PutObject ==
  /\ \E m \in Assets :
       /\ asset[m] # None /\ asset[m].upload = "signed"
       /\ stored' = stored \union {m}
       /\ asset' = [asset EXCEPT ![m].upload = "sent"]
  /\ UNCHANGED <<catalogueState, images, primary, half>>

\* confirmUpload takes the client's word: it does not look into the bucket.
\* The clients of this repository confirm after a PUT that was answered 2xx.
ConfirmUpload ==
  /\ \E m \in Assets :
       /\ asset[m] # None /\ asset[m].upload = "sent"
       /\ asset' = [asset EXCEPT ![m] = [status |-> "READY", upload |-> "confirmed", leaving |-> @.leaving]]
  /\ UNCHANGED <<catalogueState, stored, images, primary, half>>

\* The second transaction of addImage: any asset of the tenant, READY or not; the image becomes the
\* primary one if asked, and images that were primary keep their own flag.
AddImage(a) ==
  /\ edit[a].pc = "write" /\ edit[a].op = "addImage"
  /\ \E m \in Assets :
       /\ asset[m] # None
       /\ images' = images \union {[of |-> edit[a].p, asset |-> m]}
       /\ \/ primary' = [primary EXCEPT ![edit[a].p] = m]
          \/ primary' = primary
  /\ Ends(a)
  /\ OnlyMedia
  /\ UNCHANGED <<asset, stored, half>>

\* The asset is not there: 404.
ImageRefused(a) ==
  /\ edit[a].pc = "write" /\ edit[a].op = "addImage"
  /\ \E m \in Assets : asset[m] = None
  /\ Ends(a)
  /\ UNCHANGED <<catalogueState, mediaVars>>

\* remove, one at a time for an asset: the object first; one that is already gone is no error.
DeleteObject ==
  /\ \E m \in Assets :
       /\ asset[m] # None /\ ~asset[m].leaving
       /\ asset' = [asset EXCEPT ![m].leaving = TRUE]
       /\ stored' = stored \ {m}
  /\ UNCHANGED <<catalogueState, images, primary, half>>

\* ... then the row, which the images' foreign key refuses while it is used.
DeleteRow ==
  /\ \E m \in Assets :
       /\ asset[m] # None /\ asset[m].leaving
       /\ IF Used(m)
          THEN /\ asset' = [asset EXCEPT ![m].leaving = FALSE]
               /\ half' = half \union {m}
          ELSE /\ asset' = [asset EXCEPT ![m] = None]
               /\ half' = half \ {m}
  /\ UNCHANGED <<catalogueState, stored, images, primary>>

RemovalDies ==
  /\ Fault
  /\ \E m \in Assets :
       /\ asset[m] # None /\ asset[m].leaving
       /\ asset' = [asset EXCEPT ![m].leaving = FALSE]
       /\ half' = half \union {m}
  /\ UNCHANGED <<tables, index, excused, shown, writes, stored, images, primary>>

MediaNext ==
  \/ (CreateUpload \/ PutObject \/ ConfirmUpload \/ DeleteObject \/ DeleteRow \/ RemovalDies)
     /\ UNCHANGED edit
  \/ \E a \in Editors : AddImage(a) \/ ImageRefused(a)

MediaTypeOK ==
  /\ asset \in [Assets -> Asset \union {None}]
  /\ stored \subseteq Assets
  /\ images \subseteq [of : Products, asset : Assets]
  /\ primary \in [Products -> Assets \union {None}]
  /\ half \subseteq Assets

MediaInit ==
  /\ asset = [m \in Assets |-> None]
  /\ stored = {}
  /\ images = {}
  /\ primary = [p \in Products |-> None]
  /\ half = {}
=============================================================================
