------------------------------ MODULE Catalog ------------------------------
(***************************************************************************)
(* The media of one product and the logo of the organization, each a row   *)
(* of the database and an object of the store, and the barcode that is     *)
(* generated for a product: src/modules/catalog/catalog.service.ts,        *)
(* organizations.service.ts and storage.service.ts.                        *)
(*                                                                         *)
(* An upload checks, puts the object, writes the row, and removes the      *)
(* object if the row fails; a removal deletes the row, then the object.    *)
(* The store and the database fail on their own; an object that cannot be  *)
(* removed is logged and left.                                             *)
(***************************************************************************)
EXTENDS Integers, FiniteSets

CONSTANTS
    Uploaders,      \* the requests served at one time
    MaxImages,   \* the images of a product (8 in the code)
    MaxObjects,  \* bound: the objects ever put
    Barcodes,    \* the barcodes drawn or typed
    MaxDraws     \* the barcodes drawn for one request (5 in the code)

ASSUME CatalogAssumption ==
    /\ MaxImages \in Nat \ {0} /\ MaxObjects \in Nat /\ MaxDraws \in Nat \ {0}
    /\ "none" \notin Barcodes

VARIABLES
    objects,   \* the object store; objects are numbered as they are put
    put,       \* the number of objects put
    images,    \* ProductImage, as the objects the rows name
    video,     \* ProductVideo, likewise; the product is unique in it
    logo,      \* OrganizationBranding.logoObjectKey, or 0
    upload,    \* the request in progress
    adrift,    \* history: objects a failure, a stop or an overlap left behind
    crowded,   \* history: an image was checked before another one was added
    barcode,   \* Product.barcode, or "none"
    draw,      \* a generation in progress: the barcodes it has drawn
    told       \* history: the barcodes answered since the barcode was last typed

catalogVars == <<objects, put, images, video, logo, upload, adrift, crowded, barcode, draw, told>>
media == <<objects, put, images, video, logo, upload, adrift, crowded>>
codes == <<barcode, draw, told>>

Objects == 1..MaxObjects
Vacant == [op |-> "vacant"]

UploadOK(r) ==
    \/ r = Vacant
    \/ r \in [op : {"put"}, kind : {"image", "video", "logo"}, old : 0..MaxObjects]
    \/ r \in [op : {"write"}, kind : {"image", "video", "logo"}, old : 0..MaxObjects,
              object : Objects]
    \/ r \in [op : {"drop"}, kind : {"image", "video"}, object : Objects]
    \/ r \in [op : {"unlogo"}, old : 0..MaxObjects]
    \/ r \in [op : {"retain"}, read : SUBSET Objects, keep : SUBSET Objects]
    \/ r \in [op : {"remove"}, waste : SUBSET Objects]

CatalogTypeOK ==
    /\ objects \subseteq Objects /\ put \in 0..MaxObjects
    /\ images \subseteq Objects /\ video \subseteq Objects /\ logo \in 0..MaxObjects
    /\ \A k \in Uploaders : UploadOK(upload[k])
    /\ adrift \subseteq Objects /\ crowded \in BOOLEAN
    /\ barcode \in Barcodes \cup {"none"}
    /\ draw \in [Uploaders -> 0..MaxDraws]
    /\ told \subseteq Barcodes

CatalogInit ==
    /\ objects = {} /\ put = 0 /\ images = {} /\ video = {} /\ logo = 0
    /\ upload = [k \in Uploaders |-> Vacant]
    /\ adrift = {} /\ crowded = FALSE
    /\ barcode = "none" /\ draw = [k \in Uploaders |-> 0] /\ told = {}

-----------------------------------------------------------------------------
(* uploadProductImage, uploadProductVideo and uploadLogo.                  *)

BeginUpload(k, kind) ==
    /\ upload[k] = Vacant /\ put < MaxObjects
    /\ kind = "image" => Cardinality(images) < MaxImages
    /\ kind = "video" => video = {}
    /\ upload' = [upload EXCEPT ![k] = [op |-> "put", kind |-> kind,
                                        old |-> IF kind = "logo" THEN logo ELSE 0]]
    /\ UNCHANGED <<objects, put, images, video, logo, adrift, crowded, codes>>

PutObject(k) ==
    LET r == upload[k] IN
    /\ r.op = "put" /\ put < MaxObjects
    /\ put' = put + 1
    /\ objects' = objects \cup {put + 1}
    /\ upload' = [upload EXCEPT ![k] = [op |-> "write", kind |-> r.kind, old |-> r.old,
                                        object |-> put + 1]]
    /\ UNCHANGED <<images, video, logo, adrift, crowded, codes>>

\* Fault: the object is left where it is when its row is not written.
LeftThere(o) == {}

Compensation(o) == {o}

Removing(k, waste) ==
    upload' = [upload EXCEPT ![k] = IF waste = {} THEN Vacant
                                    ELSE [op |-> "remove", waste |-> waste]]

Writing(k, kind) == upload[k].op = "write" /\ upload[k].kind = kind

\* The number of images is not looked at again.
WriteImage(k) ==
    /\ Writing(k, "image")
    /\ images' = images \cup {upload[k].object}
    /\ crowded' = (crowded \/ Cardinality(images) >= MaxImages)
    /\ Removing(k, {})
    /\ UNCHANGED <<objects, put, video, logo, adrift, codes>>

WriteVideo(k) ==
    /\ Writing(k, "video")
    /\ video = {}                                \* the product is unique
    /\ video' = {upload[k].object}
    /\ Removing(k, {})
    /\ UNCHANGED <<objects, put, images, logo, adrift, crowded, codes>>

\* A logo that another request replaced in the meantime is left behind.
WriteLogo(k) ==
    LET r == upload[k] IN
    /\ Writing(k, "logo")
    /\ logo' = r.object
    /\ Removing(k, {r.old} \ {0})
    /\ adrift' = adrift \cup ({logo} \ {0, r.old})
    /\ UNCHANGED <<objects, put, images, video, crowded, codes>>

FailRow(k) ==
    /\ upload[k].op = "write"
    /\ Removing(k, Compensation(upload[k].object))
    /\ UNCHANGED <<objects, put, images, video, logo, adrift, crowded, codes>>

-----------------------------------------------------------------------------
(* removeProductImage, removeProductVideo, removeLogo and the images that  *)
(* an update of the product retains.                                       *)

BeginDrop(k, kind, o) ==
    /\ upload[k] = Vacant
    /\ o \in (IF kind = "image" THEN images ELSE video)
    /\ upload' = [upload EXCEPT ![k] = [op |-> "drop", kind |-> kind, object |-> o]]
    /\ UNCHANGED <<objects, put, images, video, logo, adrift, crowded, codes>>

CommitDrop(k) ==
    LET r == upload[k] IN
    /\ r.op = "drop" /\ r.object \in images \cup video
    /\ images' = images \ {r.object}
    /\ video' = video \ {r.object}
    /\ Removing(k, {r.object})
    /\ UNCHANGED <<objects, put, logo, adrift, crowded, codes>>

BeginUnlogo(k) ==
    /\ upload[k] = Vacant
    /\ upload' = [upload EXCEPT ![k] = [op |-> "unlogo", old |-> logo]]
    /\ UNCHANGED <<objects, put, images, video, logo, adrift, crowded, codes>>

CommitUnlogo(k) ==
    LET old == upload[k].old IN
    /\ upload[k].op = "unlogo"
    /\ logo' = 0
    /\ adrift' = adrift \cup ({logo} \ {0, old})
    /\ Removing(k, {old} \ {0})
    /\ UNCHANGED <<objects, put, images, video, crowded, codes>>

BeginRetain(k, keep) ==
    /\ upload[k] = Vacant /\ keep \subseteq images
    /\ upload' = [upload EXCEPT ![k] = [op |-> "retain", read |-> images, keep |-> keep]]
    /\ UNCHANGED <<objects, put, images, video, logo, adrift, crowded, codes>>

\* Fault: the objects of all images that were read are removed.
AllRead(read, keep) == read

Unretained(read, keep) == read \ keep

\* The update of a retained row that has gone fails the transaction.
CommitRetain(k) ==
    LET r == upload[k] IN
    /\ r.op = "retain" /\ r.keep \subseteq images
    /\ images' = images \ (r.read \ r.keep)
    /\ Removing(k, Unretained(r.read, r.keep))
    /\ UNCHANGED <<objects, put, video, logo, adrift, crowded, codes>>

-----------------------------------------------------------------------------

RemoveObject(k, o, ok) ==
    /\ upload[k].op = "remove" /\ o \in upload[k].waste
    /\ objects' = IF ok THEN objects \ {o} ELSE objects
    /\ adrift' = IF ok THEN adrift ELSE adrift \cup {o}
    /\ Removing(k, upload[k].waste \ {o})
    /\ UNCHANGED <<put, images, video, logo, crowded, codes>>

\* What a request holds that no row names.
Held(k) ==
    LET r == upload[k] IN
    IF r.op = "write" THEN {r.object} ELSE IF r.op = "remove" THEN r.waste ELSE {}

\* The database or the store fails before anything is written, or the process
\* stops and leaves what the request holds.
Interrupt(k) ==
    /\ upload[k] # Vacant
    /\ upload' = [upload EXCEPT ![k] = Vacant]
    /\ adrift' = adrift \cup Held(k)
    /\ UNCHANGED <<objects, put, images, video, logo, crowded, codes>>

-----------------------------------------------------------------------------
(* generateProductBarcode: up to MaxDraws barcodes are drawn, and written  *)
(* on the condition that the product has none and no other product has it. *)

BeginGenerate(k) ==
    /\ draw[k] = 0
    /\ IF barcode = "none" THEN draw' = [draw EXCEPT ![k] = 1] /\ UNCHANGED told
                           ELSE told' = told \cup {barcode} /\ UNCHANGED draw
    /\ UNCHANGED <<barcode, media>>

\* Fault: the barcode is written whatever the product has by now.
Overwritten(b) == b

Unless(b) == IF barcode = "none" THEN b ELSE barcode

Draw(k, b) ==
    /\ draw[k] > 0
    /\ barcode' = Unless(b)
    /\ told' = told \cup {barcode'}
    /\ draw' = [draw EXCEPT ![k] = 0]
    /\ UNCHANGED media

\* The barcode drawn belongs to another product.
DrawTaken(k) ==
    /\ draw[k] > 0 /\ barcode = "none"
    /\ draw' = [draw EXCEPT ![k] = IF @ < MaxDraws THEN @ + 1 ELSE 0]
    /\ UNCHANGED <<barcode, told, media>>

\* updateProduct with a barcode.
TypeBarcode(b) ==
    /\ barcode' = b
    /\ told' = {}
    /\ UNCHANGED <<draw, media>>

MediaNext ==
    \/ \E k \in Uploaders, kind \in {"image", "video", "logo"} : BeginUpload(k, kind)
    \/ \E k \in Uploaders, kind \in {"image", "video"}, o \in Objects : BeginDrop(k, kind, o)
    \/ \E k \in Uploaders, keep \in SUBSET images : BeginRetain(k, keep)
    \/ \E k \in Uploaders, o \in Objects, ok \in BOOLEAN : RemoveObject(k, o, ok)
    \/ \E k \in Uploaders :
          \/ PutObject(k) \/ WriteImage(k) \/ WriteVideo(k) \/ WriteLogo(k) \/ FailRow(k)
          \/ CommitDrop(k) \/ CommitRetain(k)
          \/ BeginUnlogo(k) \/ CommitUnlogo(k) \/ Interrupt(k)

BarcodeNext ==
    \/ \E k \in Uploaders : BeginGenerate(k) \/ DrawTaken(k)
    \/ \E k \in Uploaders, b \in Barcodes : Draw(k, b)
    \/ \E b \in Barcodes : TypeBarcode(b)

CatalogNext == MediaNext \/ BarcodeNext

CatalogSpec == CatalogInit /\ [][CatalogNext]_catalogVars

-----------------------------------------------------------------------------

Named == images \cup video \cup ({logo} \ {0})

\* Every image, video and logo that a row names is in the store: no order of
\* uploads, removals and updates takes the object of a row away.
RowsHaveObjects == Named \subseteq objects

\* Every object of the store is named by a row or held by a request, unless a
\* failure, a stop or the overlap of two logos left it; and a product has no
\* more images than it may, unless two were added at once.
NoOrphans ==
    /\ objects \subseteq Named \cup adrift \cup UNION {Held(k) : k \in Uploaders}
    /\ crowded \/ Cardinality(images) <= MaxImages

\* Everybody who has a barcode generated is told the one the product keeps,
\* until another is typed.
OneBarcodeTold == told \subseteq {barcode}

\* What is told of a product is there, and what is there is told of one.
CatalogAgrees == RowsHaveObjects /\ NoOrphans /\ OneBarcodeTold
=============================================================================
