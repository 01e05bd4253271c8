-------------------------------- MODULE Media --------------------------------
(***************************************************************************)
(* Rows that name an uploaded file: a member's avatar, cover and documents *)
(* (users.service.ts), the image of a blog or a category (blog.service.ts, *)
(* category.service.ts), and those of the settings, the home page, the     *)
(* testimonials, banners and pages (content.service.ts), with the store    *)
(* the files are in (upload.service.ts).                                   *)
(*                                                                         *)
(* Every update reads the row, deletes the old file, uploads the new one   *)
(* and only then writes the row; they differ in what they do without a     *)
(* file, in what they check between, and in whether they write the key     *)
(* they read back.  The settings and the hero section are single rows,     *)
(* found and then created.                                                 *)
(***************************************************************************)
EXTENDS FiniteSets, Integers

CONSTANTS
    Images,        \* updated with a file only: avatar, cover
    Documents,     \* an update deletes the old ones, file or no file
    Slugged,       \* blog, category: a slug is checked after the upload
    Contents,      \* testimonial, banner, page: the key read is written back
    Settings,      \* the settings: as Contents, and found before created
    Heroes,        \* the hero section: likewise
    MediaRequests, \* requests at once
    MaxUploads,    \* bound: files ever uploaded
    MaxMediaRows   \* bound: rows of a single

(* Documents are columns of the member, contents and singles tables of
   their own. *)
ASSUME MediaAssumption ==
    /\ IsFiniteSet(MediaRequests)
    /\ Documents \cap (Contents \cup Settings \cup Heroes) = {}
    /\ MaxUploads \in Nat /\ MaxMediaRows \in Nat \ {0}

VARIABLES
    mediaRows,  \* mediaRows[s]: rows of slot s
    image,   \* image[s]: the key its row names, 0 for none
    files,   \* keys in the store
    uploads, \* uploads so far: they made the keys 1..uploads
    editing, \* editing[m]: where request m stands
    harmed   \* slots whose file was deleted for nothing, or written back late

mediaVars == <<mediaRows, image, files, uploads, editing, harmed>>

Singles == Settings \cup Heroes
Slots == Images \cup Documents \cup Slugged \cup Contents \cup Singles
Keys == 0..MaxUploads
Undefined == 0

Editing == [slot : Slots, file : BOOLEAN, old : Keys, key : Keys,
            pc : {"find", "delete", "upload", "check", "write", "create"}]
NotEditing == [pc |-> "idle"]

MediaTypeOK ==
    /\ mediaRows \in [Slots -> 0..MaxMediaRows]
    /\ image \in [Slots -> Keys]
    /\ files \subseteq Keys \ {0}
    /\ uploads \in 0..MaxUploads
    /\ editing \in [MediaRequests -> Editing \cup {NotEditing}]
    /\ harmed \subseteq Slots

MediaInit ==
    /\ mediaRows = [s \in Slots |-> IF s \in Singles THEN 0 ELSE 1]
    /\ image = [s \in Slots |-> 0]
    /\ files = {}
    /\ uploads = 0
    /\ editing = [m \in MediaRequests |-> NotEditing]
    /\ harmed = {}

-----------------------------------------------------------------------------

Slot(m) == editing[m].slot

Edit(m, pc) == editing' = [editing EXCEPT ![m].pc = pc]

Leave(m) == editing' = [editing EXCEPT ![m] = NotEditing]

Opened(m, s, file, pc, key) ==
    /\ editing[m] = NotEditing
    /\ editing' = [editing EXCEPT ![m] = [slot |-> s, file |-> file,
                                          old |-> key, key |-> key, pc |-> pc]]

(* What the row loses its file to: a request that deleted it and ends. *)
HasDeleted(m) ==
    /\ editing[m].pc \in {"upload", "check", "write"}
    /\ editing[m].old # 0
    /\ editing[m].file \/ Slot(m) \in Documents

Harm(m) == IF HasDeleted(m) THEN harmed \cup {Slot(m)} ELSE harmed

(* An update reads the row, and deletes the file the row names when there
   is another to come. *)
AfterUpload(s) == IF s \in Slugged THEN "check" ELSE "write"

FirstStep(s, file, old) ==
    IF old # 0 /\ (file \/ s \in Documents) THEN "delete"
    ELSE IF file THEN "upload" ELSE AfterUpload(s)

StartUpdate(m, s, file) ==
    /\ mediaRows[s] > 0
    /\ Opened(m, s, file, FirstStep(s, file, image[s]), image[s])
    /\ UNCHANGED <<mediaRows, image, files, uploads, harmed>>

updateAvatar(m) == \E s \in Images : StartUpdate(m, s, TRUE)

replaceDocuments(m, file) == \E s \in Documents : StartUpdate(m, s, file)

updateBlog(m, file) == \E s \in Slugged : StartUpdate(m, s, file)

updateTestimonial(m, file) == \E s \in Contents : StartUpdate(m, s, file)

updateSiteSetting(m, file) == \E s \in Settings : StartUpdate(m, s, file)

updateHeroSection(m, file) == \E s \in Heroes : StartUpdate(m, s, file)

deleteFile(m) ==
    /\ editing[m].pc = "delete"
    /\ files' = files \ {editing[m].old}
    /\ Edit(m, IF editing[m].file THEN "upload" ELSE "write")
    /\ UNCHANGED <<mediaRows, image, uploads, harmed>>

(* A key holds the time: no two uploads share one. *)
KeyOfContent(k) == k \in Keys \ {0}      \* a slip: the hash alone
KeyOfUpload(k) == k = uploads + 1

(* The store's error is returned as if it were a result: no key. *)
uploadFile(m) ==
    /\ editing[m].pc = "upload"
    /\ uploads < MaxUploads
    /\ \/ \E k \in Keys :
            /\ KeyOfUpload(k)
            /\ files' = files \cup {k}
            /\ uploads' = uploads + 1
            /\ editing' = [editing EXCEPT ![m].key = k,
                                          ![m].pc = AfterUpload(Slot(m))]
       \/ /\ editing' = [editing EXCEPT ![m].key = Undefined,
                                        ![m].pc = AfterUpload(Slot(m))]
          /\ UNCHANGED <<files, uploads>>
    /\ UNCHANGED <<mediaRows, image, harmed>>

(* updateBlog and categoryUpdate: a slug or a name is taken, the parent is
   not there: refused, after the file was replaced. *)
CheckSlug(m) ==
    /\ editing[m].pc = "check"
    /\ \/ Edit(m, "write") /\ UNCHANGED harmed
       \/ Leave(m) /\ harmed' = Harm(m)
    /\ UNCHANGED <<mediaRows, image, files, uploads>>

(* The key an update hands to the row: the one it read unless it uploaded
   one; blog, category and documents leave the column out without a file. *)
WrittenKey(m) ==
    IF editing[m].file \/ Slot(m) \in Contents \cup Singles
    THEN editing[m].key ELSE Undefined

(* An undefined key leaves the column as it is. *)
WriteRow(m) ==
    /\ editing[m].pc = "write"
    /\ LET s == Slot(m)
           k == WrittenKey(m)
       IN  /\ image' = [image EXCEPT ![s] = IF k = Undefined THEN @ ELSE k]
           /\ harmed' =
                CASE k = Undefined -> Harm(m)
                  [] k # Undefined /\ editing[m].file -> harmed \ {s}
                  [] OTHER -> IF k = image[s] THEN harmed ELSE harmed \cup {s}
    /\ Leave(m)
    /\ UNCHANGED <<mediaRows, files, uploads>>

-----------------------------------------------------------------------------
(* Rows that are there once: each creator looks for the row, updates the one
   it finds and otherwise creates one, later. *)

FoundNone(s) == FALSE                    \* a slip: nobody looks
Found(s) == mediaRows[s] # 0

StartCreate(m, s, file) ==
    /\ ~Found(s)
    /\ Opened(m, s, file, "create", 0)
    /\ UNCHANGED <<mediaRows, image, files, uploads, harmed>>

(* The settings it finds get the new file, and keep the old one's in the
   store. *)
createSiteSetting(m, file) ==
    \E s \in Settings :
        \/ StartCreate(m, s, file)
        \/ /\ Found(s)
           /\ Opened(m, s, file, IF file THEN "upload" ELSE "write", 0)
           /\ UNCHANGED <<mediaRows, image, files, uploads, harmed>>

(* The hero section it finds is updated by updateHeroSection. *)
createHeroSection(m, file) ==
    \E s \in Heroes :
        \/ StartCreate(m, s, file)
        \/ Found(s) /\ StartUpdate(m, s, file)

(* The row is created, with the file that came. *)
CreateRow(m) ==
    /\ editing[m].pc = "create"
    /\ mediaRows[Slot(m)] < MaxMediaRows
    /\ mediaRows' = [mediaRows EXCEPT ![Slot(m)] = @ + 1]
    /\ IF editing[m].file /\ uploads < MaxUploads
       THEN /\ uploads' = uploads + 1
            /\ files' = files \cup {uploads + 1}
            /\ image' = IF mediaRows[Slot(m)] > 0 THEN image
                        ELSE [image EXCEPT ![Slot(m)] = uploads + 1]
       ELSE UNCHANGED <<uploads, files, image>>
    /\ Leave(m)
    /\ UNCHANGED harmed

(* The process dies, or a query fails. *)
EditDies(m) ==
    /\ editing[m] # NotEditing
    /\ Leave(m)
    /\ harmed' = Harm(m)
    /\ UNCHANGED <<mediaRows, image, files, uploads>>

MediaNext ==
    \E m \in MediaRequests :
        \/ updateAvatar(m)
        \/ \E file \in BOOLEAN :
             \/ replaceDocuments(m, file) \/ updateBlog(m, file)
             \/ updateTestimonial(m, file)
             \/ updateSiteSetting(m, file) \/ updateHeroSection(m, file)
             \/ createSiteSetting(m, file) \/ createHeroSection(m, file)
        \/ deleteFile(m) \/ uploadFile(m) \/ CheckSlug(m) \/ WriteRow(m)
        \/ CreateRow(m) \/ EditDies(m)

MediaSpec == MediaInit /\ [][MediaNext]_mediaVars

-----------------------------------------------------------------------------
(* Properties. *)

(* The file a row names is in the store, while the row is not being updated,
   unless it was lost for one of three causes: an update deleted it and then
   failed, was refused or uploaded nothing; the documents were updated
   without any; an update without a file wrote back a key that had been
   replaced since it was read.  Never by two replacements at once. *)
ImagesExist ==
    \A s \in Slots :
        \/ image[s] \in files \cup {0}
        \/ s \in harmed
        \/ \E m \in MediaRequests : HasDeleted(m) /\ Slot(m) = s

(* Of a row that is to be there once, there are never more than requests
   that created it at once.  (One row is what the comment at
   content.service.ts:98 has in mind; nothing locks it.) *)
SinglesAreBounded == \A s \in Singles : mediaRows[s] <= Cardinality(MediaRequests)

(* What a row shows is in the store, and of a single row there are no more
   than requests at once (users, blog, category and content.service). *)
MediaIsKept == ImagesExist /\ SinglesAreBounded
=============================================================================
