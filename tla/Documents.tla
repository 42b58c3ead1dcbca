------------------------------ MODULE Documents ------------------------------
(***************************************************************************)
(* The documents of the RAG: the upload that looks for the hash of a file, *)
(* inserts a row, cuts the text into chunks, waits for their embeddings    *)
(* and commits; its failures, the deletion of a document meanwhile, and a  *)
(* restart of the backend.                                                 *)
(*                                                                         *)
(* A text is a sequence of paragraphs, a paragraph the sizes of its        *)
(* sentences, in units of 50 tokens.                                       *)
(***************************************************************************)
EXTENDS Naturals, Sequences, SequencesExt

CONSTANTS
  File, Text,     \* the contents, and the text of each
  Upload,         \* the uploads of a behaviour
  Owner, NoDocument

ASSUME TextAssumption ==
  /\ Text \in [File -> Seq(Seq(Nat))]
  /\ \A f \in File : \A p \in DOMAIN Text[f] :
       Text[f][p] # << >> /\ \A s \in DOMAIN Text[f][p] : Text[f][p][s] > 0

VARIABLES
  document,  \* the row of each hash, which is unique
  upload     \* how far each upload is

documentVars == <<document, upload>>

Status == {"processing", "empty", "failed", "ready"}

DocumentsTypeOK ==
  /\ DOMAIN document = File
  /\ \A f \in File : document[f] # NoDocument =>
       /\ document[f].by \in Upload /\ document[f].owner \in Owner
       /\ document[f].status \in Status
  /\ DOMAIN upload = Upload
  /\ \A u \in Upload :
       upload[u].pc \in {"free", "inserting", "embedding", "answered", "error"}

DocumentsInit ==
  /\ document = [f \in File |-> NoDocument]
  /\ upload = [u \in Upload |-> [pc |-> "free"]]

-----------------------------------------------------------------------------
(* chunk_text                                                              *)

Target == 7    \* target_tokens
Overlap == 1   \* overlap_tokens

Total(sizes) ==
  LET sum[i \in 0 .. Len(sizes)] == IF i = 0 THEN 0 ELSE sum[i - 1] + sizes[i]
  IN  sum[Len(sizes)]
Item(p, from, to) == [para |-> p, from |-> from, to |-> to]
Size(text, item) == Total(SubSeq(text[item.para], item.from, item.to))

\* A sentence that fits joins the last group.
Joined(text, groups, p, s) ==
  IF groups # << >> /\ Size(text, Last(groups)) + text[p][s] <= Target
  THEN Append(Front(groups), Item(p, Last(groups).from, s))
  ELSE Append(groups, Item(p, s, s))

\* _split_long: as many sentences as fit, and one at least.
SplitLong(text, p) ==
  LET groups[s \in 0 .. Len(text[p])] == IF s = 0 THEN << >> ELSE Joined(text, groups[s - 1], p, s)
  IN  groups[Len(text[p])]

\* A paragraph, or the parts of one that is longer than 1.5 times the target.
Items(text) ==
  FlattenSeq([p \in DOMAIN text |->
    IF 2 * Total(text[p]) > 3 * Target THEN SplitLong(text, p)
    ELSE << Item(p, 1, Len(text[p])) >>])

\* An item that does not fit begins a chunk, with the end of the last one.
Pack(text, state, item) ==
  LET size == Size(text, item) IN
  IF state.tokens + size > Target /\ state.buf # << >>
  THEN [chunks |-> Append(state.chunks, state.buf), buf |-> << item >>, tokens |-> Overlap + size]
  ELSE [state EXCEPT !.buf = Append(@, item), !.tokens = @ + size]

Packed(text) ==
  LET items == Items(text)
      state[i \in 0 .. Len(items)] ==
        IF i = 0 THEN [chunks |-> << >>, buf |-> << >>, tokens |-> 0]
        ELSE Pack(text, state[i - 1], items[i])
  IN  state[Len(items)]

\* Mutant: no flush after the last paragraph.
MutChunkText(text) == Packed(text).chunks

ChunkText(text) ==
  LET end == Packed(text) IN
  IF end.buf = << >> THEN end.chunks ELSE Append(end.chunks, end.buf)

-----------------------------------------------------------------------------

Move(u, pc) == upload' = [upload EXCEPT ![u] = [@ EXCEPT !.pc = pc]]

\* The same content again is answered with the row there is, in whatever state and of
\* whichever owner.
Look(u, f, w) ==
  /\ upload[u].pc = "free"
  /\ upload' = [upload EXCEPT ![u] =
       [pc |-> IF document[f] = NoDocument THEN "inserting" ELSE "answered", file |-> f, owner |-> w]]
  /\ UNCHANGED document

\* The hash is unique: of two uploads that found none, the second fails.
InsertDocument(u) ==
  /\ upload[u].pc = "inserting"
  /\ LET f == upload[u].file IN
     IF document[f] = NoDocument
     THEN /\ document' = [document EXCEPT ![f] =
               [by |-> u, owner |-> upload[u].owner, status |-> "processing", chunks |-> << >>]]
          /\ Move(u, "embedding")
     ELSE Move(u, "error") /\ UNCHANGED document

\* The row that this upload inserted is still there.
Own(u) == document[upload[u].file] # NoDocument /\ document[upload[u].file].by = u

\* A document without text, failed embeddings, or all chunks at once; a row deleted
\* meanwhile fails the commit.
Ingest(u) ==
  /\ upload[u].pc = "embedding"
  /\ \E outcome \in {"empty", "failed", "ready"} :
       LET f == upload[u].file
           chunks == ChunkText(Text[f]) IN
       /\ chunks = << >> => outcome = "empty"
       /\ IF Own(u)
          THEN /\ document' = [document EXCEPT ![f] =
                    [by |-> @.by, owner |-> @.owner, status |-> outcome,
                     chunks |-> IF outcome = "ready" THEN @.chunks \o chunks ELSE @.chunks]]
               /\ Move(u, IF outcome = "failed" THEN "error" ELSE "answered")
          ELSE Move(u, "error") /\ UNCHANGED document

\* DELETE of one's own document, its chunks with it.
DeleteDocument(f, w) ==
  /\ document[f] # NoDocument /\ document[f].owner = w
  /\ document' = [document EXCEPT ![f] = NoDocument]
  /\ UNCHANGED upload

\* The backend stops: the uploads under way are lost, and their rows stay.
BackendStops ==
  /\ upload' = [u \in Upload |->
       IF upload[u].pc \in {"inserting", "embedding"} THEN [upload[u] EXCEPT !.pc = "error"]
       ELSE upload[u]]
  /\ UNCHANGED document

DocumentsNext ==
  \/ \E u \in Upload :
       \/ \E f \in File, w \in Owner : Look(u, f, w)
       \/ InsertDocument(u) \/ Ingest(u)
  \/ \E f \in File, w \in Owner : DeleteDocument(f, w)
  \/ BackendStops

DocumentsSpec == DocumentsInit /\ [][DocumentsNext]_documentVars

-----------------------------------------------------------------------------

Sentences(items) ==
  FlattenSeq([i \in DOMAIN items |->
    [s \in 1 .. items[i].to - items[i].from + 1 |-> <<items[i].para, items[i].from + s - 1>>]])
WholeText(text) == Sentences([p \in DOMAIN text |-> Item(p, 1, Len(text[p]))])

\* Each sentence of the text is in one chunk, in order, and a chunk exceeds the target only
\* when one paragraph or sentence does.
ChunksAreWhole(f, chunks) ==
  /\ Sentences(FlattenSeq(chunks)) = WholeText(Text[f])
  /\ \A c \in DOMAIN chunks :
       \/ Len(chunks[c]) = 1
       \/ Total([i \in DOMAIN chunks[c] |-> Size(Text[f], chunks[c][i])]) <= Target

\* A document that searches may use has its whole text in its chunks; one that is not
\* ready has none, whatever failed, crossed or was deleted on the way.
DocumentsAreWhole ==
  \A f \in File : document[f] # NoDocument =>
    IF document[f].status = "ready" THEN ChunksAreWhole(f, document[f].chunks)
    ELSE document[f].chunks = << >>

=============================================================================
