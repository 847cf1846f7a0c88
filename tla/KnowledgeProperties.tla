------------------------ MODULE KnowledgeProperties ------------------------
(***************************************************************************)
(* What the uploads of KnowledgeBase.tla promise.                          *)
(***************************************************************************)
EXTENDS KnowledgeBase, ChunkerProperties

Steps ==
    {"new", "checked", "saved", "refused", "raised", "ended"} \cup Ingesting

(* Every variable keeps its shape, and the chunks of a document are none   *)
(* or those of its text.                                                   *)
TypeOK ==
    /\ text \in [Docs -> Text]
    /\ row \in [Ids -> {"none", "pending", "processing", "ready", "failed", "uploaded", "gone"}]
    /\ hashed \subseteq Docs
    /\ DOMAIN chunks = Docs
    /\ \A d \in Docs : chunks[d] # <<>> => chunks[d] = ChunkBlocks(text[d])
    /\ sparse \subseteq Docs /\ key \in BOOLEAN
    /\ files \subseteq Ids /\ events \subseteq Ids /\ died \subseteq Ids
    /\ pc \in [Ids -> Steps]
    /\ home \in [Ids -> SUBSET Procs]
    /\ deleting \in [Ids -> SUBSET Procs]
    /\ workspace \in {"used", "left", "emptied", "gone"}

-----------------------------------------------------------------------------
(* The caps are read before the upload is inserted (knowledge.py:71-98,    *)
(* documents.py:98-113), so uploads in several worker processes may exceed *)
(* them, but by less than one for each process.  The uploads that count    *)
(* are those of seven days, in the code; schema.sql:239-240 speaks of a    *)
(* calendar day.                                                           *)
Stored(kind) == {x \in kind : Exists(x)}

CapsBounded ==
    /\ Cardinality(Stored(Docs)) < MaxDocs + Cardinality(Procs)
    /\ Cardinality(Stored(Rfps)) < 1 + Cardinality(Procs)
    /\ Cardinality(events \cap Docs) < WeeklyCap + Cardinality(Procs)
    /\ Cardinality(events \cap Rfps) < WeeklyRfpCap + Cardinality(Procs)

(* A document that is listed has its file: it is saved before the row is   *)
(* inserted and removed after the row is deleted, whatever fails and       *)
(* whoever deletes a document that is still being ingested.                *)
RowsHaveFiles ==
    \A x \in Ids : Exists(x) => x \in files \/ (x \in Rfps /\ workspace = "emptied")

(* "Don't leave an orphaned file behind" (knowledge.py:126): a file        *)
(* without a row is one that a request is about to insert or remove, or a  *)
(* request that died, or whose write or removal the file system refused,   *)
(* has left, or a knowledge document's of a workspace that was purged: the *)
(* purge removes the directories of the deals only (cron.py:56-60).        *)
OrphansAccounted ==
    \A x \in files : ~Exists(x) =>
        home[x] # {} \/ deleting[x] # {} \/ x \in died \/ (workspace = "gone" /\ x \in Docs)

(* "Ingest inline so the row can't be left stranded mid-stage"             *)
(* (knowledge.py:130): a row that is pending or processing is in the hands *)
(* of its upload, or that upload was cut short by a crash.                 *)
StrandedByCrashOnly ==
    \A d \in Docs : row[d] \in {"pending", "processing"} => home[d] # {} \/ d \in died

-----------------------------------------------------------------------------
(* What the chunks hold. *)

(* The chunks retrieval finds are those of a ready document, and they are  *)
(* its whole text: every block below a heading once, in order, under the   *)
(* section it stands in and within the pages the chunk is cited with.      *)
AnswerableIsWhole ==
    \A d \in Docs : chunks[d] # <<>> => row[d] = "ready" /\ Whole(chunks[d], text[d])

(* "400-600 token chunks" (chunk.py:3): a chunk stays below TARGET_MIN     *)
(* only where its section ends, and exceeds TARGET_MAX only by the last    *)
(* block, added while it was below TARGET_MIN.                             *)
ChunksSized == \A d \in Docs : Sized(chunks[d], text[d])

(* "The knowledge base: past proposals, security docs and policies the org *)
(* uploads.  Retrieval draws answers from THESE" (schema.sql:80-82): what  *)
(* a ready document says is among the chunks, unless a document of the     *)
(* same words was deleted.  A duplicate is set aside for good, and stays   *)
(* ready when its original goes (ingest.py:73-86); nothing else takes away *)
(* the words of a ready document.                                          *)
RetrievableUnlessDeleted ==
    \A d \in Docs : row[d] = "ready" =>
        \E e \in Docs : SameWords(e, d) /\ (chunks[e] # <<>> \/ row[e] = "gone")

-----------------------------------------------------------------------------
(* The refinement. *)

DocStatus(d) ==
    CASE row[d] = "none" -> "absent"
      [] row[d] \in {"pending", "processing"} -> "ingesting"
      [] row[d] = "ready" /\ chunks[d] # <<>> -> "answerable"
      [] row[d] = "ready" /\ chunks[d] = <<>> -> "duplicate"
      [] row[d] = "failed" -> "failed"
      [] OTHER -> "deleted"

AbstractCorpus ==
    INSTANCE Corpus WITH text <- [d \in Docs |-> RawText(text[d])],
                         status <- [d \in Docs |-> DocStatus(d)]

(* The knowledge base implements the corpus: with uploads of the same text *)
(* in two processes, deletions while a document is embedded, failures and  *)
(* crashes, what can be retrieved changes document by document, in one     *)
(* step, and never holds a text twice (ingest.py:61-88).                   *)
ImplementsCorpus == AbstractCorpus!Spec

=============================================================================
