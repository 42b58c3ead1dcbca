---------------------------- MODULE ImageGallery ----------------------------
(***************************************************************************)
(* The images generated for a user: a row in the database and a file, and  *)
(* a quota that deletes the oldest ones (images/storage.py, api/images.py, *)
(* _h_generate_image).  A row is dated by the start of the transaction     *)
(* that writes it, which begins when a node is picked, before the image    *)
(* is generated: the date stands for the image.                            *)
(***************************************************************************)
EXTENDS Naturals, FiniteSets, FiniteSetsExt

CONSTANTS
  Maker,     \* requests of the studio, calls of generate_image
  Cap,       \* image_max_per_user
  MaxImages, \* bound on the images ever asked for
  MaxCut,    \* bound on the images of requests that are cut
  MaxStuck   \* bound on the files that could not be removed

ASSUME CapAssumption == Cap \in Nat /\ {MaxImages, MaxCut, MaxStuck} \subseteq Nat

VARIABLES
  rows, files,  \* the dates of the images that have one
  asked,        \* images asked for so far: the next date
  maker,          \* the requests
  cut,          \* history: the images in the hands of requests that were cut
  stuck         \* history: the images whose file once could not be removed

galleryVars == <<rows, files, asked, maker, cut, stuck>>

Quiet == [pc |-> "idle", image |-> 0, old |-> {}, gone |-> {}]

GalleryInit ==
  /\ rows = {} /\ files = {} /\ asked = 0
  /\ maker = [r \in Maker |-> Quiet]
  /\ cut = {} /\ stuck = {}

-----------------------------------------------------------------------------

MakerAt(r, pc) == maker[r].pc = pc
MakerGoto(r, pc) == maker' = [maker EXCEPT ![r].pc = pc]

\* generate, _h_generate_image: a node is picked and asked.
Generate(r) ==
  /\ MakerAt(r, "idle") /\ asked < MaxImages
  /\ asked' = asked + 1
  /\ maker' = [maker EXCEPT ![r] = [pc |-> "generating", image |-> asked + 1, old |-> {}, gone |-> {}]]
  /\ UNCHANGED <<rows, files, cut, stuck>>

\* The node is not there, answers an error or no image; or the file is written.
Generated(r) ==
  /\ MakerAt(r, "generating")
  /\ \/ maker' = [maker EXCEPT ![r] = Quiet] /\ files' = files
     \/ MakerGoto(r, "storing") /\ files' = files \cup {maker[r].image}
  /\ UNCHANGED <<rows, asked, cut, stuck>>

Store(r) ==
  /\ MakerAt(r, "storing")
  /\ MakerGoto(r, "stored")
  /\ rows' = rows \cup {maker[r].image}
  /\ UNCHANGED <<files, asked, cut, stuck>>

\* Mutant: one image more than the quota is kept.
MutBeyondCap(r) == {i \in rows : Cardinality({j \in rows : j > i}) > Cap}

\* _enforce_quota: all rows but the Cap newest.
BeyondCap(r) == {i \in rows : Cardinality({j \in rows : j > i}) >= Cap}

EnforceQuota(r) ==
  /\ MakerAt(r, "stored")
  /\ maker' = [maker EXCEPT ![r] =
       IF Cap = 0 \/ BeyondCap(r) = {} THEN Quiet
       ELSE [pc |-> "pruning", image |-> @.image, old |-> BeyondCap(r), gone |-> {}]]
  /\ UNCHANGED <<rows, files, asked, cut, stuck>>

\* os.remove of one file; that it failed is swallowed, and the file stays.
RemoveImage(i) ==
  \/ files' = files \ {i} /\ stuck' = stuck
  \/ /\ Cardinality(stuck) < MaxStuck
     /\ stuck' = stuck \cup {i} /\ files' = files

\* The files go one by one, newest first; the rows together, afterwards.
Prune(r) ==
  LET left == maker[r].old \ maker[r].gone IN
  /\ MakerAt(r, "pruning")
  /\ IF left = {}
     THEN /\ rows' = rows \ maker[r].old
          /\ maker' = [maker EXCEPT ![r] = Quiet]
          /\ UNCHANGED <<files, stuck>>
     ELSE /\ RemoveImage(Max(left))
          /\ maker' = [maker EXCEPT ![r].gone = @ \cup {Max(left)}]
          /\ rows' = rows
  /\ UNCHANGED <<asked, cut>>

\* delete_image: the row is read, then deleted, then the file removed.
DeleteReads(r) ==
  /\ MakerAt(r, "idle")
  /\ \E i \in rows : maker' = [maker EXCEPT ![r] = [pc |-> "deleting", image |-> i,
                                                old |-> {}, gone |-> {}]]
  /\ UNCHANGED <<rows, files, asked, cut, stuck>>

DeleteRow(r) ==
  /\ MakerAt(r, "deleting")
  /\ MakerGoto(r, "removing")
  /\ rows' = rows \ {maker[r].image}
  /\ UNCHANGED <<files, asked, cut, stuck>>

RemoveFile(r) ==
  /\ MakerAt(r, "removing")
  /\ maker' = [maker EXCEPT ![r] = Quiet]
  /\ RemoveImage(maker[r].image)
  /\ UNCHANGED <<rows, asked, cut>>

\* The process stops, the client of the reply leaves, or the conversation of the
\* image is deleted before its row is written.
CutRequest(r) ==
  /\ ~MakerAt(r, "idle") /\ Cardinality(cut) < MaxCut
  /\ maker' = [maker EXCEPT ![r] = Quiet]
  /\ cut' = cut \cup {maker[r].image} \cup maker[r].old
  /\ UNCHANGED <<rows, files, asked, stuck>>

GalleryNext ==
  \E r \in Maker :
    \/ Generate(r) \/ Generated(r) \/ Store(r) \/ EnforceQuota(r) \/ Prune(r)
    \/ DeleteReads(r) \/ DeleteRow(r) \/ RemoveFile(r) \/ CutRequest(r)

GallerySpec == GalleryInit /\ [][GalleryNext]_galleryVars

-----------------------------------------------------------------------------

\* A row without its file is being pruned; a file without its row is about to have
\* one, or to go; and once no request works the gallery is within its quota.  Only
\* what was cut may be left behind, and a file that could not be removed.
GalleryIsSound ==
  /\ \A i \in (rows \ files) \ cut : \E r \in Maker : MakerAt(r, "pruning") /\ i \in maker[r].old
  /\ \A i \in (files \ rows) \ (cut \cup stuck) : \E r \in Maker :
       maker[r].image = i /\ maker[r].pc \in {"storing", "removing"}
  /\ (Cap > 0 /\ cut = {} /\ \A r \in Maker : MakerAt(r, "idle")) => Cardinality(rows) <= Cap

=============================================================================
