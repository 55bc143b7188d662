--------------------------- MODULE ImageMigration ---------------------------
(***************************************************************************)
(* The script that moves third-party images of the catalogue to the shop's *)
(* own image host (scripts/migrate-catalog-images.js), while staff go on   *)
(* editing.  It reads every image field of the database and the catalogue  *)
(* files, uploads each picture once with a few workers, then replaces the  *)
(* URLs: the database in one transaction whose filters repeat what was     *)
(* read, the files one by one behind a backup.  It may die anywhere and be *)
(* run again; what was uploaded before is reused.                          *)
(*                                                                         *)
(* A URL is the picture it shows and whether it is hosted by the shop; the *)
(* public id of an upload is a hash of its source URL, so it is the        *)
(* picture here.  Arguments and the dry run, which write nothing, are left *)
(* out.                                                                    *)
(***************************************************************************)
EXTENDS Integers, FiniteSets

CONSTANTS
    Picture,     \* third-party pictures
    BadPicture,  \* those that cannot be downloaded or are too large
    OwnPicture,  \* a picture staff uploaded themselves
    ImageField,  \* the image fields of the database
    SourceFile,  \* the catalogue's JSON files
    Uploader,    \* the upload workers
    MaxScripts,  \* bounds the executions of the script
    MaxEdits     \* bounds the edits by staff

ASSUME MigrationAssumption ==
    /\ BadPicture \subseteq Picture /\ OwnPicture \notin Picture
    /\ MaxScripts \in Nat /\ MaxEdits \in Nat

VARIABLES
    shows,      \* the URL in each image field
    file,       \* the URL in each file, or Torn
    backups,    \* the files copied to the artifact directories
    assets,     \* external: the migrated pictures the image host has
    script,     \* the phase of the script
    read,       \* what it read of each field, or Unread
    readFile,
    uploads,    \* the pictures not yet taken by a worker
    uploading,  \* what each worker is at
    replaced,   \* the pictures with a replacement
    unwritten,  \* the files not yet written
    chosen,     \* history: the picture staff chose last for each field
    printed,    \* history: the picture each file came with
    scripts, edits

imageVars == <<shows, file, backups, assets, script, read, readFile, uploads, uploading,
               replaced, unwritten, chosen, printed, scripts, edits>>
dbVars == <<shows, chosen, edits>>
fileVars == <<file, backups, printed, unwritten>>

URL == [picture : Picture \union {OwnPicture}, hosted : BOOLEAN]
Torn == [picture |-> OwnPicture, hosted |-> FALSE]
Unread == Torn
Idling == [picture |-> OwnPicture, pc |-> "idle"]
Phase == {"idle", "load", "upload", "failing", "database", "files", "writing", "verify"}

ImageTypeOK ==
    /\ shows \in [ImageField -> URL] /\ file \in [SourceFile -> URL]
    /\ backups \subseteq SourceFile \X URL /\ assets \subseteq Picture
    /\ script \in Phase
    /\ read \in [ImageField -> URL] /\ readFile \in [SourceFile -> URL]
    /\ uploads \subseteq Picture /\ replaced \subseteq Picture
    /\ unwritten \subseteq SourceFile
    /\ uploading \in [Uploader -> [picture : Picture \union {OwnPicture},
                                   pc : {"idle", "lookup", "upload", "validate"}]]
    /\ chosen \in [ImageField -> Picture \union {OwnPicture}]
    /\ printed \in [SourceFile -> Picture]
    /\ scripts \in 0..MaxScripts /\ edits \in 0..MaxEdits

External(p) == [picture |-> p, hosted |-> FALSE]
Hosted(p) == [picture |-> p, hosted |-> TRUE]

ImageInit ==
    /\ chosen \in [ImageField -> Picture] /\ printed \in [SourceFile -> Picture]
    /\ shows = [f \in ImageField |-> External(chosen[f])]
    /\ file = [s \in SourceFile |-> External(printed[s])]
    /\ backups = {} /\ assets = {} /\ script = "idle"
    /\ read = [f \in ImageField |-> Unread] /\ readFile = [s \in SourceFile |-> Unread]
    /\ uploads = {} /\ replaced = {} /\ unwritten = {} /\ uploading = [w \in Uploader |-> Idling]
    /\ scripts = 0 /\ edits = 0

-----------------------------------------------------------------------------
\* Staff put another picture in a field.
EditImage(f, url) ==
    /\ edits < MaxEdits /\ edits' = edits + 1
    /\ shows' = [shows EXCEPT ![f] = url] /\ chosen' = [chosen EXCEPT ![f] = url.picture]
    /\ UNCHANGED <<fileVars, assets, script, read, readFile, uploads, uploading, replaced, scripts>>

\* main with --apply
StartScript ==
    /\ script = "idle" /\ scripts < MaxScripts
    /\ script' = "load" /\ scripts' = scripts + 1
    /\ read' = [f \in ImageField |-> Unread] /\ readFile' = [s \in SourceFile |-> Unread]
    /\ uploads' = {} /\ replaced' = {} /\ uploading' = [w \in Uploader |-> Idling]
    /\ unwritten' = SourceFile
    /\ UNCHANGED <<dbVars, file, backups, printed, assets>>

\* It throws, or the process dies.
StopScript ==
    /\ script' = "idle"
    /\ UNCHANGED <<dbVars, fileVars, assets, read, readFile, uploads, uploading, replaced, scripts>>
ScriptDies == script # "idle" /\ StopScript

\* loadDatabaseCatalog: one query per collection, at different moments.
LoadField(f) ==
    /\ script = "load" /\ read[f] = Unread
    /\ read' = [read EXCEPT ![f] = shows[f]]
    /\ UNCHANGED <<dbVars, fileVars, assets, script, readFile, uploads, uploading, replaced, scripts>>

\* loadSourceCatalog: a torn file is no JSON.
LoadFile(s) ==
    /\ script = "load" /\ readFile[s] = Unread
    /\ IF file[s] = Torn THEN StopScript
       ELSE /\ readFile' = [readFile EXCEPT ![s] = file[s]]
            /\ UNCHANGED <<dbVars, fileVars, assets, script, read, uploads, uploading, replaced,
                           scripts>>

\* collectCatalogImageUrls
Pictures(urls) == {u.picture : u \in {v \in urls : ~v.hosted}} \ {OwnPicture}
Collected == Pictures({read[f] : f \in ImageField} \union {readFile[s] : s \in SourceFile})

CatalogLoaded ==
    /\ script = "load"
    /\ \A f \in ImageField : read[f] # Unread
    /\ \A s \in SourceFile : readFile[s] # Unread
    /\ uploads' = Collected
    /\ script' = IF Collected = {} THEN "idle" ELSE "upload"
    /\ UNCHANGED <<dbVars, fileVars, assets, read, readFile, uploading, replaced, scripts>>

-----------------------------------------------------------------------------
(* uploadAll, uploadSourceImage.  After a failure the other workers finish   *)
(* the picture they are at, and the script ends.                             *)

Uploads(w, p, pc) == uploading' = [uploading EXCEPT ![w] = [picture |-> p, pc |-> pc]]

TakePicture(w) ==
    /\ script = "upload" /\ uploading[w].pc = "idle"
    /\ \E p \in uploads : Uploads(w, p, "lookup") /\ uploads' = uploads \ {p}
    /\ UNCHANGED <<dbVars, fileVars, assets, script, read, readFile, replaced, scripts>>

\* An asset with the public id is reused, if it is fit.
LookupAsset(w) ==
    LET p == uploading[w].picture IN
    /\ script \in {"upload", "failing"} /\ uploading[w].pc = "lookup"
    /\ \/ /\ p \in assets /\ p \notin BadPicture
          /\ replaced' = replaced \union {p} /\ uploading' = [uploading EXCEPT ![w] = Idling]
          /\ UNCHANGED <<script, uploads>>
       \/ /\ p \in assets \intersect BadPicture
          /\ script' = "failing" /\ uploading' = [uploading EXCEPT ![w] = Idling]
          /\ UNCHANGED <<uploads, replaced>>
       \/ /\ p \notin assets
          /\ Uploads(w, p, "upload") /\ UNCHANGED <<script, uploads, replaced>>
    /\ UNCHANGED <<dbVars, fileVars, assets, read, readFile, scripts>>

UploadPicture(w) ==
    /\ script \in {"upload", "failing"} /\ uploading[w].pc = "upload"
    /\ assets' = assets \union {uploading[w].picture}
    /\ Uploads(w, uploading[w].picture, "validate")
    /\ UNCHANGED <<dbVars, fileVars, script, read, readFile, uploads, replaced, scripts>>

\* An unfit asset stops the script and is destroyed, if that does not fail in turn.
ValidateUpload(w) ==
    LET p == uploading[w].picture IN
    /\ script \in {"upload", "failing"} /\ uploading[w].pc = "validate"
    /\ IF p \in BadPicture
       THEN assets' \in {assets, assets \ {p}} /\ script' = "failing" /\ UNCHANGED replaced
       ELSE replaced' = replaced \union {p} /\ UNCHANGED <<assets, script>>
    /\ uploading' = [uploading EXCEPT ![w] = Idling]
    /\ UNCHANGED <<dbVars, fileVars, read, readFile, uploads, scripts>>

AllUploaded ==
    /\ script = "upload" /\ uploads = {} /\ \A w \in Uploader : uploading[w].pc = "idle"
    /\ script' = "database"
    /\ UNCHANGED <<dbVars, fileVars, assets, read, readFile, uploads, uploading, replaced, scripts>>

-----------------------------------------------------------------------------
(* buildDatabaseOperations, applyDatabaseOperations, updateSourceCatalog *)

\* replaceCatalogImageUrls
ReplacedURL(url) == IF ~url.hosted /\ url.picture \in replaced THEN Hosted(url.picture) ELSE url
Changed == {f \in ImageField : ReplacedURL(read[f]) # read[f]}

\* Mutant of StillAsRead: the filter names the document only.
StillThere(f) == f \in ImageField
\* snapshotCondition
StillAsRead(f) == shows[f] = read[f]

ReplaceInDatabase ==
    /\ script = "database"
    /\ IF \A f \in Changed : StillAsRead(f)
       THEN /\ shows' = [f \in ImageField |-> IF f \in Changed THEN ReplacedURL(read[f])
                                                               ELSE shows[f]]
            /\ script' = "files"
       ELSE shows' = shows /\ script' = "idle"
    /\ UNCHANGED <<chosen, edits, fileVars, assets, read, readFile, uploads, uploading, replaced,
                   scripts>>

\* Mutant of BackUpFile: the copy is taken of what is on disk afterwards.
BackUpTorn(s) ==
    /\ script = "files" /\ s \in unwritten /\ file[s] # Torn
    /\ backups' = backups \union {<<s, Torn>>} /\ file' = [file EXCEPT ![s] = Torn]
    /\ script' = "writing"
    /\ UNCHANGED <<dbVars, printed, unwritten, assets, read, readFile, uploads, uploading, replaced,
                   scripts>>

\* copyFile, then writeFile, which empties the file first.
BackUpFile(s) ==
    /\ script = "files" /\ s \in unwritten /\ file[s] # Torn
    /\ backups' = backups \union {<<s, file[s]>>} /\ file' = [file EXCEPT ![s] = Torn]
    /\ script' = "writing"
    /\ UNCHANGED <<dbVars, printed, unwritten, assets, read, readFile, uploads, uploading, replaced,
                   scripts>>

WriteFile(s) ==
    /\ script = "writing" /\ file[s] = Torn
    /\ file' = [file EXCEPT ![s] = ReplacedURL(readFile[s])]
    /\ script' = "files" /\ unwritten' = unwritten \ {s}
    /\ UNCHANGED <<dbVars, backups, printed, assets, read, readFile, uploads, uploading, replaced,
                   scripts>>

\* Every file is written: read everything again and report what is left.
VerifyMigration ==
    /\ script = "files" /\ unwritten = {}
    /\ StopScript

\* Somebody puts a torn file's backup back.
RestoreFile(s) ==
    /\ script = "idle" /\ file[s] = Torn
    /\ \E b \in backups : b[1] = s /\ file' = [file EXCEPT ![s] = b[2]]
    /\ UNCHANGED <<dbVars, backups, printed, unwritten, assets, script, read, readFile, uploads,
                   uploading, replaced, scripts>>

ImageNext ==
    \/ \E f \in ImageField, url \in {External(p) : p \in Picture} \union {Hosted(OwnPicture)} :
          EditImage(f, url)
    \/ StartScript \/ ScriptDies \/ CatalogLoaded \/ AllUploaded \/ ReplaceInDatabase
    \/ VerifyMigration
    \/ \E f \in ImageField : LoadField(f)
    \/ \E s \in SourceFile : LoadFile(s) \/ BackUpFile(s) \/ WriteFile(s) \/ RestoreFile(s)
    \/ \E w \in Uploader :
          TakePicture(w) \/ LookupAsset(w) \/ UploadPicture(w) \/ ValidateUpload(w)

ImageSpec == ImageInit /\ [][ImageNext]_imageVars

-----------------------------------------------------------------------------
\* The migration never changes which picture a field shows -- a picture staff
\* chose while it ran is not replaced by the one they took away -- and a field
\* that shows a migrated picture shows one the image host has.
ImagesKept ==
    \A f \in ImageField :
        /\ shows[f].picture = chosen[f]
        /\ shows[f].hosted => shows[f].picture \in assets \union {OwnPicture}

\* Wherever the script dies, each catalogue file still has its picture, or a
\* backup of it does.
FilesRecoverable ==
    \A s \in SourceFile :
        \/ file[s].picture = printed[s]
        \/ file[s] = Torn /\ \E b \in backups : b[1] = s /\ b[2].picture = printed[s]

=============================================================================
