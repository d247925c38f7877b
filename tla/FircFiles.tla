------------------------------ MODULE FircFiles ------------------------------
(***************************************************************************)
(* The FIRC file of one remittance.  attachFirc removes the file it finds  *)
(* linked, writes the upload, links it, and records its metadata: four     *)
(* effects on a disk and two collections, with nothing that undoes one.    *)
(* Files are named after the upload in a directory of the remittance.  The *)
(* bundle for the accountant reads the key first and the file after that,  *)
(* and leaves out a file it cannot read.                                   *)
(*                                                                         *)
(* KeepsOld is a fault that no action uses.                                *)
(***************************************************************************)
EXTENDS Handlers

CONSTANTS
  Names,      \* names an upload may have, after the unsafe characters are replaced
  MaxUploads  \* bound: uploads and bundles that are begun

ASSUME FircAssumption == None \notin Names /\ MaxUploads \in Nat

VARIABLES
  key,        \* fircStorageKey of the remittance
  files,      \* files in its directory
  metas,      \* names with a document_meta
  upload,     \* requests in flight
  uploads,    \* uploads and bundles begun so far
  fircStale,  \* history: requests that hold a key another one has removed or set
  fircRaced,  \* history: one of them has gone on
  cut,        \* history: an unlink or write failed, or a request died half-way
  missed      \* history: a bundle left the file out with no upload to blame

fircVars == <<key, files, metas, upload, uploads, fircStale, fircRaced, cut, missed>>

Upload == [pc : {"idle", "remove", "write", "link", "meta", "collect"}, old : Names \cup {None}, name : Names \cup {None}]
NoUpload == [pc |-> "idle", old |-> None, name |-> None]

FircTypeOK ==
  /\ key \in Names \cup {None}
  /\ files \subseteq Names /\ metas \subseteq Names
  /\ upload \in [Requests -> Upload]
  /\ uploads \in 0..MaxUploads
  /\ fircStale \subseteq Requests /\ fircRaced \in BOOLEAN /\ cut \in BOOLEAN /\ missed \in BOOLEAN

FircInit ==
  /\ key = None /\ files = {} /\ metas = {}
  /\ upload = [r \in Requests |-> NoUpload]
  /\ uploads = 0
  /\ fircStale = {} /\ fircRaced = FALSE /\ cut = FALSE /\ missed = FALSE

\* The effects of r reach the uploads that have begun.
Disturbs(r) ==
  /\ fircStale' = (fircStale \cup {o \in Requests : upload[o].pc # "idle"}) \ {r}
  /\ fircRaced' = (fircRaced \/ r \in fircStale)

KeepsOld(old) == "write"
\* Whether there is a file to remove first.
FirstStep(old) == IF old = None THEN "write" ELSE "remove"

\* Another upload that has begun has removed, or will replace, what is read here.
Starts(r, pc, n) ==
  /\ upload[r].pc = "idle"
  /\ uploads < MaxUploads
  /\ uploads' = uploads + 1
  /\ upload' = [upload EXCEPT ![r] = [pc |-> pc, old |-> key, name |-> n]]
  /\ fircStale' = IF \E o \in Requests : upload[o].pc \in {"write", "link"} THEN fircStale \cup {r} ELSE fircStale
  /\ UNCHANGED <<key, files, metas, fircRaced, cut, missed>>

AttachFirc(r, n) == Starts(r, FirstStep(key), n)

\* An unlink that fails is logged and the upload goes on.
RemoveOld(r) ==
  /\ upload[r].pc = "remove"
  /\ \/ files' = files \ {upload[r].old} /\ cut' = cut
     \/ files' = files /\ cut' = TRUE
  /\ upload' = [upload EXCEPT ![r].pc = "write"]
  /\ Disturbs(r)
  /\ UNCHANGED <<key, metas, uploads, missed>>

WriteFile(r) ==
  /\ upload[r].pc = "write"
  /\ \/ /\ files' = files \cup {upload[r].name}
        /\ upload' = [upload EXCEPT ![r].pc = "link"]
        /\ Disturbs(r)
        /\ cut' = cut
     \/ /\ files' = files
        /\ upload' = [upload EXCEPT ![r] = NoUpload]
        /\ fircStale' = fircStale \ {r} /\ fircRaced' = fircRaced
        /\ cut' = TRUE
  /\ UNCHANGED <<key, metas, uploads, missed>>

\* save(): a key that is the one that was read is not written.
LinkFile(r) ==
  LET q == upload[r] IN
  /\ q.pc = "link"
  /\ key' = Saved(key, q.old, q.name)
  /\ upload' = [upload EXCEPT ![r].pc = "meta"]
  /\ Disturbs(r)
  /\ UNCHANGED <<files, metas, uploads, cut, missed>>

CreateMeta(r) ==
  /\ upload[r].pc = "meta"
  /\ metas' = metas \cup {upload[r].name}
  /\ upload' = [upload EXCEPT ![r] = NoUpload]
  /\ fircStale' = fircStale \ {r}
  /\ UNCHANGED <<key, files, uploads, fircRaced, cut, missed>>

\* The invoices and clients of the year are read before, and printed after.
BuildBundle(r) ==
  /\ key # None
  /\ Starts(r, "collect", None)

CollectFirc(r) ==
  /\ upload[r].pc = "collect"
  /\ missed' = (missed \/ (upload[r].old \notin files /\ r \notin fircStale))
  /\ upload' = [upload EXCEPT ![r] = NoUpload]
  /\ fircStale' = fircStale \ {r}
  /\ UNCHANGED <<key, files, metas, uploads, fircRaced, cut>>

UploadDies(r) ==
  /\ upload[r].pc # "idle"
  /\ cut' = (cut \/ upload[r].pc \in {"write", "link", "meta"})
  /\ upload' = [upload EXCEPT ![r] = NoUpload]
  /\ fircStale' = fircStale \ {r}
  /\ UNCHANGED <<key, files, metas, uploads, fircRaced, missed>>

FircNext ==
  \E r \in Requests :
    \/ \E n \in Names : AttachFirc(r, n)
    \/ RemoveOld(r) \/ WriteFile(r) \/ LinkFile(r) \/ CreateMeta(r)
    \/ BuildBundle(r) \/ CollectFirc(r)
    \/ UploadDies(r)

FircSpec == FircInit /\ [][FircNext]_fircVars
---------------------------------------------------------------------------
(***************************************************************************)
(* Property.                                                               *)
(***************************************************************************)

\* remittances.service.ts 62-81: between uploads the directory holds the linked
\* file and no other, and a linked file has metadata (which is the first of its
\* name, line 94), unless uploads overlapped, or one was cut short; and then a
\* bundle (lines 99-117) has the file, unless an upload was under way.
FircKept ==
  ~fircRaced /\ ~cut =>
    /\ ~missed
    /\ (\A r \in Requests : upload[r].pc \in {"idle", "remove", "collect"}) =>
         /\ files = {key} \ {None}
         /\ files \subseteq metas
===========================================================================
