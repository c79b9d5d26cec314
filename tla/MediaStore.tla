----------------------------- MODULE MediaStore -----------------------------
(***************************************************************************)
(* The files behind one seller's listing, profile picture and verification *)
(* request: handlers replace rows and delete files in separate calls,      *)
(* while a nightly sweep deletes what no row refers to.                    *)
(* Source: products.service.ts (create, update, remove, adminDeleteImage), *)
(* users.service.ts (update, remove), upload.cron.ts, storage.service.ts.  *)
(*                                                                         *)
(* An image stands for its file and its thumbnail, which are stored and    *)
(* deleted together, in Spaces or on the old local disk.  One unit of time *)
(* is a fraction of MIN_AGE; handlers and the sweep take seconds, so the   *)
(* clock stands still while one is running.  A client submits a file at    *)
(* most MIN_AGE after uploading it, in one form; a form keeps only images  *)
(* the listing still had when it was submitted.                            *)
(***************************************************************************)
EXTENDS Integers, FiniteSets

CONSTANTS
  Calls,      \* how many handlers run at once at most
  Files,
  MaxImages,  \* limits.maxImagesPerProduct
  MIN_AGE,    \* younger files are spared by the sweep
  MaxTime     \* bound on the clock

MediaAssumption ==
  /\ MaxImages \in Nat /\ MIN_AGE \in Nat /\ MaxTime \in Nat
  /\ IsFiniteSet(Calls) /\ Calls # {} /\ IsFiniteSet(Files)

VARIABLES
  now,
  uploaded,  \* when each file was uploaded
  stored,    \* the files in storage
  used,      \* the files that were ever part of a row
  member,    \* whether the account exists
  listing,   \* "none", "live" or "gone"
  images,    \* product_images of the listing: rows per file
  avatar,    \* users.avatar_url, as a set of at most one (cover_url likewise)
  docs,      \* verification_requests.docs
  calls,
  sweep,     \* the references a running sweep has collected
  torn       \* history: what handlers that overlapped may have torn apart

disk == <<uploaded, stored>>
rows == <<member, listing, images, avatar, docs, used>>
vars == <<now, disk, rows, calls, sweep, torn>>

-----------------------------------------------------------------------------
Never == -1
Idle == [step |-> "idle"]
NoSweep == [running |-> FALSE]
Parts == {"listing", "profile"}
Steps == {"read", "delete", "write", "clean", "remove", "leave"}

TypeOK ==
  /\ now \in 0..MaxTime
  /\ uploaded \in [Files -> Never..MaxTime]
  /\ stored \subseteq Files
  /\ used \subseteq Files
  /\ member \in BOOLEAN
  /\ listing \in {"none", "live", "gone"}
  /\ images \in [Files -> Nat]
  /\ avatar \in SUBSET Files /\ Cardinality(avatar) <= 1
  /\ docs \subseteq Files
  /\ calls \in [Calls -> {Idle} \cup
       [parts : SUBSET Parts, step : Steps, new : SUBSET Files, old : SUBSET Files]]
  /\ sweep \in {NoSweep} \cup [running : {TRUE}, refs : SUBSET Files]
  /\ torn \subseteq Parts

Init ==
  /\ now = 0
  /\ uploaded = [f \in Files |-> Never]
  /\ stored = {}
  /\ used = {}
  /\ member = TRUE
  /\ listing = "none"
  /\ images = [f \in Files |-> 0]
  /\ avatar = {}
  /\ docs = {}
  /\ calls = [c \in Calls |-> Idle]
  /\ sweep = NoSweep
  /\ torn = {}

Shown == {f \in Files : images[f] > 0}
Running == {c \in Calls : calls[c] # Idle}
Fresh == {f \in stored : uploaded[f] + MIN_AGE >= now}
           \ (used \cup UNION {calls[c].new : c \in Running})
Photos(from) == {new \in SUBSET from : Cardinality(new) \in 1..MaxImages}
NoImages == [f \in Files |-> 0]

\* A handler starts; others on the same part are then overlapped.
Start(c, parts, step, new, old) ==
  /\ calls[c] = Idle
  /\ calls' = [calls EXCEPT ![c] = [parts |-> parts, step |-> step, new |-> new, old |-> old]]
  /\ torn' = torn \cup {p \in parts : \E d \in Running : p \in calls[d].parts}
Go(c, step) == calls' = [calls EXCEPT ![c].step = step]
End(c) == calls' = [calls EXCEPT ![c] = Idle]

-----------------------------------------------------------------------------
Upload(f) ==
  /\ uploaded[f] = Never
  /\ uploaded' = [uploaded EXCEPT ![f] = now]
  /\ stored' = stored \cup {f}
  /\ UNCHANGED <<now, rows, calls, sweep, torn>>

\* create() stores the listing and its images in one statement.
Publish ==
  \E new \in Photos(Fresh) :
    /\ member /\ listing = "none"
    /\ listing' = "live"
    /\ images' = [f \in Files |-> IF f \in new THEN 1 ELSE 0]
    /\ used' = used \cup new
    /\ UNCHANGED <<now, disk, member, avatar, docs, calls, sweep, torn>>

(***************************************************************************)
(* update() of a listing's images: the rows are read, deleted and written  *)
(* anew, then the files that were dropped are deleted.                     *)
(***************************************************************************)
StartUpdate(c) ==
  \E new \in Photos(Shown \cup Fresh) :
    /\ listing = "live"
    /\ Start(c, {"listing"}, "read", new, {})
    /\ UNCHANGED <<now, disk, rows, sweep>>

ReadImages(c) ==
  /\ calls[c] \in [parts : {{"listing"}}, step : {"read"}, new : SUBSET Files, old : {{}}]
  /\ calls' = [calls EXCEPT ![c].step = "delete", ![c].old = Shown \ calls[c].new]
  /\ UNCHANGED <<now, disk, rows, sweep, torn>>

DeleteRows(c) ==
  /\ calls[c].step = "delete"
  /\ images' = NoImages
  /\ Go(c, "write")
  /\ UNCHANGED <<now, disk, member, listing, avatar, docs, used, sweep, torn>>

WriteRows(c) ==
  /\ calls[c].step = "write" /\ calls[c].parts = {"listing"}
  /\ IF listing = "live"
     THEN /\ images' = [f \in Files |-> images[f] + IF f \in calls[c].new THEN 1 ELSE 0]
          /\ used' = used \cup calls[c].new
          /\ Go(c, "clean")
     ELSE UNCHANGED <<images, used>> /\ End(c)
  /\ UNCHANGED <<now, disk, member, listing, avatar, docs, sweep, torn>>

\* update() of a profile; users.avatar_url is written, then the file that was
\* there is deleted if it is another one.
StartProfile(c) ==
  \E new \in {avatar, {}} \cup {{f} : f \in Fresh} :
    /\ member
    /\ Start(c, {"profile"}, "write", new, avatar \ new)
    /\ UNCHANGED <<now, disk, rows, sweep>>

WriteProfile(c) ==
  /\ calls[c].step = "write" /\ calls[c].parts = {"profile"}
  /\ IF member
     THEN avatar' = calls[c].new /\ used' = used \cup calls[c].new /\ Go(c, "clean")
     ELSE UNCHANGED <<avatar, used>> /\ End(c)
  /\ UNCHANGED <<now, disk, member, listing, images, docs, sweep, torn>>

\* remove() of a listing, and of an account with all it has.
StartRemove(c) ==
  /\ \/ /\ listing = "live"
        /\ Start(c, {"listing"}, "remove", {}, Shown)
     \/ /\ member
        /\ Start(c, Parts, "leave", {}, Shown \cup avatar)
  /\ UNCHANGED <<now, disk, rows, sweep>>

RemoveRows(c) ==
  /\ \/ calls[c].step = "remove" /\ listing = "live"
        /\ UNCHANGED <<member, avatar, docs>>
     \/ calls[c].step = "leave" /\ member
        /\ member' = FALSE /\ avatar' = {} /\ docs' = {}
  /\ listing' = "gone"
  /\ images' = NoImages
  /\ Go(c, "clean")
  /\ UNCHANGED <<now, disk, used, sweep, torn>>

\* A moderator deletes one image: its row, then its file.
AdminDeleteImage(c) ==
  \E f \in Shown :
    /\ Start(c, {"listing"}, "clean", {}, {f})
    /\ images' = [images EXCEPT ![f] = @ - 1]
    /\ UNCHANGED <<now, disk, member, listing, avatar, docs, used, sweep>>

\* deleteFiles: a deletion that fails is only logged.
DeleteFiles(c) ==
  /\ calls[c].step = "clean"
  /\ \E failed \in SUBSET calls[c].old : stored' = stored \ (calls[c].old \ failed)
  /\ End(c)
  /\ UNCHANGED <<now, uploaded, rows, sweep, torn>>

Fail(c) ==
  /\ calls[c] # Idle
  /\ End(c)
  /\ UNCHANGED <<now, disk, rows, sweep, torn>>

-----------------------------------------------------------------------------
RequestVerification ==
  \E new \in SUBSET Fresh :
    /\ member /\ docs = {}
    /\ docs' = new
    /\ used' = used \cup new
    /\ UNCHANGED <<now, disk, member, listing, images, avatar, calls, sweep, torn>>

(***************************************************************************)
(* cleanOrphans(): references first, then storage is listed, and what is   *)
(* old and not referred to is deleted.  Between the delete and the write   *)
(* of an update no row refers to the images the listing keeps.             *)
(***************************************************************************)
CollectReferenced ==
  /\ sweep = NoSweep
  /\ sweep' = [running |-> TRUE, refs |-> Shown \cup avatar]
  /\ torn' = torn \cup
       {"listing" : c \in {d \in Running : calls[d].step = "write"
                                             /\ calls[d].parts = {"listing"}}}
  /\ UNCHANGED <<now, disk, rows, calls>>

Old == {f \in stored : uploaded[f] + MIN_AGE < now}

\* Mutant: what no row refers to is deleted, however young.
CleanSpaces_AnyAge ==
  /\ sweep # NoSweep
  /\ \E failed \in SUBSET stored : stored' = (stored \cap sweep.refs) \cup failed
  /\ sweep' = NoSweep
  /\ UNCHANGED <<now, uploaded, rows, calls, torn>>

CleanSpaces ==
  /\ sweep # NoSweep
  /\ \E failed \in SUBSET (Old \ sweep.refs) : stored' = (stored \ (Old \ sweep.refs)) \cup failed
  /\ sweep' = NoSweep
  /\ UNCHANGED <<now, uploaded, rows, calls, torn>>

Tick ==
  /\ Running = {} /\ sweep = NoSweep
  /\ now < MaxTime
  /\ now' = now + 1
  /\ UNCHANGED <<disk, rows, calls, sweep, torn>>

Next ==
  \/ \E f \in Files : Upload(f)
  \/ Publish \/ RequestVerification
  \/ \E c \in Calls :
       \/ StartUpdate(c) \/ ReadImages(c) \/ DeleteRows(c) \/ WriteRows(c)
       \/ StartProfile(c) \/ WriteProfile(c)
       \/ StartRemove(c) \/ RemoveRows(c)
       \/ AdminDeleteImage(c) \/ DeleteFiles(c) \/ Fail(c)
  \/ CollectReferenced \/ CleanSpaces
  \/ Tick

Spec == Init /\ [][Next]_vars

-----------------------------------------------------------------------------
\* However updates of a listing overlap, none starts from the rows of
\* another: it never has more images than its plan allows for each call that
\* runs at once (update).
ImagesBounded ==
  Cardinality(UNION {{f} \X (1..images[f]) : f \in Files}) <= MaxImages * Cardinality(Calls)

\* The images a page shows can be loaded: whatever fails, and whenever the
\* sweep runs, only handlers that overlapped on the same rows leave a row
\* whose file is gone (update, remove, adminDeleteImage, cleanOrphans).
RowsHaveFiles ==
  /\ "listing" \in torn \/ Shown \subseteq stored
  /\ "profile" \in torn \/ avatar \subseteq stored

\* "Walk every column that stores a media URL" (upload.cron.ts): the sweep
\* keeps the documents of a verification request.
DocsAreKept == docs \subseteq stored

=============================================================================
