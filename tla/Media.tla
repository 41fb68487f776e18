-------------------------------- MODULE Media --------------------------------
(***************************************************************************)
(* Product images and attachments (internal/media): the files are written  *)
(* to the object store first, the row that names them by a transaction     *)
(* after it, and every error deletes the files again.  Two uploads, or an  *)
(* upload and an edit, meet at the index that allows one primary image.    *)
(***************************************************************************)
EXTENDS Integers, FiniteSets

CONSTANTS Pictures,     \* images, all of one product
          Attachments,
          MaxPictureVersion   \* bound: versions of a row

ASSUME MediaAssumption == Pictures \cap Attachments = {} /\ MaxPictureVersion \in Nat

VARIABLES
    media,   \* product_images and product_attachments
    store,   \* keys of the object store that hold a file
    upload   \* the uploads: their step, the flag they ask for, the rows they hold

mediaVars == <<media, store, upload>>

Media == Pictures \cup Attachments
NoUpload == [at |-> "none", primary |-> FALSE, unset |-> {}]
NoMedia == [state |-> "none", primary |-> FALSE, version |-> 0, lost |-> FALSE]

MediaInit ==
    /\ media = [i \in Media |-> NoMedia]
    /\ store = {}
    /\ upload = [i \in Media |-> NoUpload]

(* Mutant: the key names the product and not the image *)
MutkeyOf(i) == IF i \in Pictures THEN "product" ELSE i
(* Every upload draws a new id, and its keys contain it *)
keyOf(i) == i

Live == {i \in Pictures : media[i].state = "live"}
(* Rows an upload has changed and not committed: others wait for them *)
Locked == UNION {upload[i].unset : i \in Pictures}

(* Deleting a file may fail, and nobody looks *)
cleanup(i) == \E gone \in SUBSET {keyOf(i)} : store' = store \ gone
(* What a reader of the row gets *)
OpenImageVariant(i) == media[i].state = "live" /\ keyOf(i) \in store
OpenAttachment(i) == media[i].state = "live" /\ keyOf(i) \in store
-----------------------------------------------------------------------------
UploadImage(i, primary) ==
    /\ i \in Pictures /\ upload[i].at = "none" /\ media[i] = NoMedia
    /\ store' = store \cup {keyOf(i)}
    /\ upload' = [upload EXCEPT ![i] = [at |-> "stored", primary |-> primary, unset |-> {}]]
    /\ UNCHANGED media
(* The first image becomes the primary one; a primary one takes the flag from
   the images it sees *)
ChoosePrimary(i) ==
    /\ i \in Pictures /\ upload[i].at = "stored"
    /\ LET primary == upload[i].primary \/ Live = {}
       IN /\ primary => Live \cap Locked = {}
          /\ upload' = [upload EXCEPT ![i] = [at |-> "chosen", primary |-> primary, unset |-> IF primary THEN Live ELSE {}]]
    /\ UNCHANGED <<media, store>>
(* The row is written, unless the index of primary images refuses it *)
Clash(i) == upload[i].primary /\ \E j \in Live \ upload[i].unset : media[j].primary
Commits(i) ==
    media' = [j \in Media |->
                 IF j = i THEN [state |-> "live", primary |-> upload[i].primary, version |-> 1, lost |-> FALSE]
                 ELSE IF j \in upload[i].unset THEN [media[j] EXCEPT !.primary = FALSE, !.version = @ + 1]
                 ELSE media[j]]
InsertImage(i) ==
    /\ i \in Pictures /\ upload[i].at = "chosen"
    /\ IF Clash(i) THEN cleanup(i) /\ UNCHANGED media
       ELSE Commits(i) /\ UNCHANGED store
    /\ upload' = [upload EXCEPT ![i] = NoUpload]
UploadAttachment(i) ==
    /\ i \in Attachments /\ upload[i].at = "none" /\ media[i] = NoMedia
    /\ store' = store \cup {keyOf(i)}
    /\ upload' = [upload EXCEPT ![i].at = "chosen"]
    /\ UNCHANGED media
InsertAttachment(i) ==
    /\ i \in Attachments /\ upload[i].at = "chosen"
    /\ Commits(i)
    /\ upload' = [upload EXCEPT ![i] = NoUpload]
    /\ UNCHANGED store
(* A statement or a later file fails, or the process stops: then nothing is cleaned up *)
UploadFails(i) ==
    /\ upload[i].at # "none"
    /\ cleanup(i)
    /\ upload' = [upload EXCEPT ![i] = NoUpload]
    /\ UNCHANGED media
(* The commit took effect and its answer was lost: to the caller it failed *)
AnswerLost(i) ==
    /\ upload[i].at = "chosen" /\ ~Clash(i)
    /\ media' = [j \in Media |->
                    IF j = i THEN [state |-> "live", primary |-> upload[i].primary, version |-> 1, lost |-> TRUE]
                    ELSE IF j \in upload[i].unset THEN [media[j] EXCEPT !.primary = FALSE, !.version = @ + 1]
                    ELSE media[j]]
    /\ cleanup(i)
    /\ upload' = [upload EXCEPT ![i] = NoUpload]
-----------------------------------------------------------------------------
(* The flag and the archive mark of an image, each left alone ("keep") or set;
   a caller with an old version is refused.  An archived image cannot be the
   primary one. *)
UpdateImagePresentation(i, primary, archived) ==
    LET others == IF primary = "yes" THEN Live \ {i} ELSE {}
        state == CASE archived = "yes" -> "archived" [] archived = "no" -> "live" [] OTHER -> media[i].state
        flag == CASE archived = "yes" -> FALSE [] primary = "yes" -> TRUE [] primary = "no" -> FALSE [] OTHER -> media[i].primary
    IN /\ i \in Pictures /\ media[i] # NoMedia
       /\ ({i} \cup others) \cap Locked = {}
       /\ state = "archived" => ~flag
       /\ \A j \in {i} \cup others : media[j].version < MaxPictureVersion
       /\ media' = [j \in Media |->
                       IF j = i THEN [media[i] EXCEPT !.state = state, !.primary = flag, !.version = @ + 1]
                       ELSE IF j \in others THEN [media[j] EXCEPT !.primary = FALSE, !.version = @ + 1]
                       ELSE media[j]]
       /\ UNCHANGED <<store, upload>>
ArchiveAttachment(i) ==
    /\ i \in Attachments /\ media[i] # NoMedia /\ media[i].version < MaxPictureVersion
    /\ media' = [media EXCEPT ![i].state = "archived", ![i].version = @ + 1]
    /\ UNCHANGED <<store, upload>>

Marked == {"yes", "no", "keep"}
MediaStep ==
    \E i \in Media :
        \/ \E primary \in BOOLEAN : UploadImage(i, primary)
        \/ ChoosePrimary(i) \/ InsertImage(i) \/ UploadAttachment(i) \/ InsertAttachment(i)
        \/ UploadFails(i) \/ AnswerLost(i)
        \/ \E primary, archived \in Marked : UpdateImagePresentation(i, primary, archived)
        \/ ArchiveAttachment(i)

MediaSpec == MediaInit /\ [][MediaStep]_mediaVars
-----------------------------------------------------------------------------
(* A row in use is never left without its file, whatever fails between the
   object store and the database, and however uploads race for the primary
   flag; and a product has one primary image at most.  The exception is a
   commit whose answer was lost: the caller takes it for a failure and
   deletes the files of a row that exists. *)
RowsHaveFiles ==
    /\ \A i \in Media : media[i].state = "live" /\ ~media[i].lost =>
           IF i \in Pictures THEN OpenImageVariant(i) ELSE OpenAttachment(i)
    /\ Cardinality({i \in Live : media[i].primary}) <= 1
=============================================================================
