--------------------------- MODULE KnowledgeBase ---------------------------
(***************************************************************************)
(* What is uploaded to one workspace: the documents of its knowledge base  *)
(* (src/app/routers/knowledge.py), which are ingested inside the upload    *)
(* request (src/app/pipeline/ingest.py), and the RFPs of a deal            *)
(* (src/app/routers/documents.py); their rows, their chunks and their      *)
(* files; their deletion and the purge of the workspace                    *)
(* (src/app/routers/cron.py).                                              *)
(*                                                                         *)
(* A request keeps its process from its first statement to its last, but   *)
(* for one await: the embedding of the chunks.  There other requests of    *)
(* the process run; those of another process interleave everywhere.  Each  *)
(* transaction and each access to a file is a step.                        *)
(*                                                                         *)
(* An upload and its document have one name.  The page cap (200 pages) is  *)
(* left out: it refuses uploads on top of the caps that are here.          *)
(***************************************************************************)
EXTENDS FiniteSets, Chunker

CONSTANTS
    Docs,           \* the knowledge documents ever uploaded
    Rfps,           \* the RFPs ever uploaded, for one deal
    Procs,          \* worker processes
    MaxDocs,        \* MAX_DOCS (10 in the code)
    WeeklyCap,      \* WEEKLY_UPLOAD_CAP (3)
    WeeklyRfpCap,   \* WEEKLY_RFP_CAP (3)
    Contents        \* what the files of the documents may hold

ASSUME KnowledgeAssumption ==
    /\ Docs \cap Rfps = {}
    /\ Contents \subseteq [Docs -> Text]
    /\ IsFiniteSet(Procs) /\ Procs # {}
    /\ MaxDocs \in Nat \ {0} /\ WeeklyCap \in Nat \ {0} /\ WeeklyRfpCap \in Nat \ {0}

VARIABLES
    text,      \* the content of each document's file
    row,       \* ingestion_status, or processing_status of an RFP
    hashed,    \* the rows whose text_hash is set
    chunks,    \* the document_chunks of each document
    sparse,    \* the documents whose chunks were stored without embeddings
    key,       \* has_embeddings(): an LLM key is configured
    files,     \* the stored files
    events,    \* the upload_events of the last seven days
    pc,        \* the upload requests
    home,      \* the process each of them runs in
    deleting,  \* the process that has deleted a row and not yet its file
    workspace, \* it is in use, its guest has gone, or it is being purged
    died       \* history: the uploads and deletions cut short, by a crash or by
               \* the file system

vars ==
    <<text, row, hashed, chunks, sparse, key, files, events, pc, home, deleting, workspace, died>>

-----------------------------------------------------------------------------
Ids == Docs \cup Rfps

Exists(x) == row[x] \notin {"none", "gone"}

\* A request of the process is between two of its statements.
Busy(p) == \E x \in Ids : \/ home[x] = {p} /\ pc[x] # "embedding"
                          \/ deleting[x] = {p}

MayServe(p) == workspace = "used" /\ ~Busy(p)

Goto(x, label) == pc' = [pc EXCEPT ![x] = label] /\ UNCHANGED home

Ends(x) == pc' = [pc EXCEPT ![x] = "ended"] /\ home' = [home EXCEPT ![x] = {}]

\* An UPDATE of a row that may have been deleted.
SetRow(x, status) == row' = IF Exists(x) THEN [row EXCEPT ![x] = status] ELSE row

\* The text_hash is of the raw text, which has neither types, levels nor
\* pages.  Texts of equal lengths in Contents are texts of equal words.
RawText(blocks) == [i \in DOMAIN blocks |-> blocks[i].tokens]

SameWords(e, d) == RawText(text[e]) = RawText(text[d])

\* idx_kdocs_org_texthash
HoldsHash(e, d) == e # d /\ e \in hashed /\ SameWords(e, d)

Init ==
    /\ text \in Contents
    /\ row = [x \in Ids |-> "none"]
    /\ hashed = {} /\ sparse = {} /\ files = {} /\ events = {} /\ died = {}
    /\ key \in BOOLEAN
    /\ chunks = [d \in Docs |-> <<>>]
    /\ pc = [x \in Ids |-> "new"]
    /\ home = [x \in Ids |-> {}]
    /\ deleting = [x \in Ids |-> {}]
    /\ workspace = "used"

-----------------------------------------------------------------------------
(* upload_knowledge() and documents_upload(), up to the row. *)

Arrives(p, x) ==
    /\ pc' = [pc EXCEPT ![x] = "checked"]
    /\ home' = [home EXCEPT ![x] = {p}]
    /\ UNCHANGED <<text, row, hashed, chunks, sparse, key, files, events, deleting, workspace, died>>

\* Mutated form: deleted documents refund the quota of the week.
CheckKnowledgeRefunds(p, d) ==
    /\ MayServe(p) /\ d \in Docs /\ pc[d] = "new"
    /\ Cardinality({e \in events \cap Docs : Exists(e)}) < WeeklyCap
    /\ Cardinality({e \in Docs : Exists(e)}) < MaxDocs
    /\ Arrives(p, d)

\* The caps are read in a transaction of their own.
CheckKnowledge(p, d) ==
    /\ MayServe(p) /\ d \in Docs /\ pc[d] = "new"
    /\ Cardinality(events \cap Docs) < WeeklyCap
    /\ Cardinality({e \in Docs : Exists(e)}) < MaxDocs
    /\ Arrives(p, d)

\* They are read in the transaction that inserts; at read committed that
\* makes no difference.
CheckRfp(p, x) ==
    /\ MayServe(p) /\ x \in Rfps /\ pc[x] = "new"
    /\ \A r \in Rfps : ~Exists(r)
    /\ Cardinality(events \cap Rfps) < WeeklyRfpCap
    /\ Arrives(p, x)

SaveFile(x) ==
    /\ pc[x] = "checked"
    /\ files' = files \cup {x}
    /\ Goto(x, "saved")
    /\ UNCHANGED <<text, row, hashed, chunks, sparse, key, events, deleting, workspace, died>>

\* The write is refused, perhaps when a part of it is on the disk, or the
\* removal of the file is: the exception ends the request.
FileFails(x) ==
    /\ \/ pc[x] = "checked" /\ files' \in {files, files \cup {x}}
       \/ pc[x] = "refused" /\ UNCHANGED files
    /\ Ends(x)
    /\ died' = died \cup {x}
    /\ UNCHANGED <<text, row, hashed, chunks, sparse, key, events, deleting, workspace>>

\* The row and its upload event are committed.  The knowledge document is
\* ingested now, the RFP when the user asks for it.
InsertKnowledge(d) ==
    /\ d \in Docs /\ pc[d] = "saved"
    /\ row' = [row EXCEPT ![d] = "pending"]
    /\ events' = events \cup {d}
    /\ Goto(d, "inserted")
    /\ UNCHANGED <<text, hashed, chunks, sparse, key, files, deleting, workspace, died>>

\* Mutated form: the RFP is marked as queued before the user asks for it.
InsertRfpQueued(x) ==
    /\ x \in Rfps /\ pc[x] = "saved"
    /\ row' = [row EXCEPT ![x] = "queued"]
    /\ events' = events \cup {x}
    /\ Ends(x)
    /\ UNCHANGED <<text, hashed, chunks, sparse, key, files, deleting, workspace, died>>

InsertRfp(x) ==
    /\ x \in Rfps /\ pc[x] = "saved"
    /\ row' = [row EXCEPT ![x] = "uploaded"]
    /\ events' = events \cup {x}
    /\ Ends(x)
    /\ UNCHANGED <<text, hashed, chunks, sparse, key, files, deleting, workspace, died>>

InsertFails(x) ==
    /\ pc[x] = "saved"
    /\ Goto(x, "refused")
    /\ UNCHANGED <<text, row, hashed, chunks, sparse, key, files, events, deleting, workspace, died>>

\* Mutated form: the file stays.
LeaveFile(x) ==
    /\ pc[x] = "refused"
    /\ Ends(x)
    /\ UNCHANGED <<text, row, hashed, chunks, sparse, key, files, events, deleting, workspace, died>>

RemoveFile(x) ==
    /\ pc[x] = "refused"
    /\ files' = files \ {x}
    /\ Ends(x)
    /\ UNCHANGED <<text, row, hashed, chunks, sparse, key, events, deleting, workspace, died>>

-----------------------------------------------------------------------------
(* ingest_knowledge_document(). *)

\* _set_stage("reading"); the stages after it change no status.
SetStage(d) ==
    /\ pc[d] = "inserted"
    /\ SetRow(d, "processing")
    /\ Goto(d, "reading")
    /\ UNCHANGED <<text, hashed, chunks, sparse, key, files, events, deleting, workspace, died>>

\* The file is read and parsed, if it is still there and has any content.
Parse(d) ==
    /\ pc[d] = "reading" /\ d \in files /\ text[d] # <<>>
    /\ Goto(d, "parsed")
    /\ UNCHANGED <<text, row, hashed, chunks, sparse, key, files, events, deleting, workspace, died>>

\* Without a key nothing is embedded, and nothing awaited.
AfterChunking(d) ==
    IF ChunkBlocks(text[d]) = <<>> THEN "raised" ELSE IF key THEN "embedding" ELSE "unembedded"

\* Mutated form: any document of the same text will do.
LookupAny(d) ==
    /\ pc[d] = "parsed"
    /\ Goto(d, IF \E e \in Docs \ {d} : Exists(e) /\ SameWords(e, d)
               THEN "duplicate"
               ELSE AfterChunking(d))
    /\ UNCHANGED <<text, row, hashed, chunks, sparse, key, files, events, deleting, workspace, died>>

\* Is there a ready document of the same text?  Otherwise this one is
\* chunked.
Lookup(d) ==
    /\ pc[d] = "parsed"
    /\ Goto(d, IF \E e \in Docs : HoldsHash(e, d) /\ row[e] = "ready"
               THEN "duplicate"
               ELSE AfterChunking(d))
    /\ UNCHANGED <<text, row, hashed, chunks, sparse, key, files, events, deleting, workspace, died>>

Duplicate(d) ==
    /\ pc[d] = "duplicate"
    /\ SetRow(d, "ready")
    /\ Ends(d)
    /\ UNCHANGED <<text, hashed, chunks, sparse, key, files, events, deleting, workspace, died>>

\* embed_texts() has returned, and the process is free.
EmbedReturns(d) ==
    /\ pc[d] = "embedding" /\ \A p \in home[d] : ~Busy(p)
    /\ Goto(d, "storing")
    /\ UNCHANGED <<text, row, hashed, chunks, sparse, key, files, events, deleting, workspace, died>>

\* Mutated form: the row is updated in a transaction of its own, later.
StoreChunksFirst(d) ==
    /\ pc[d] \in {"storing", "unembedded"}
    /\ chunks' = IF Exists(d) THEN [chunks EXCEPT ![d] = ChunkBlocks(text[d])] ELSE chunks
    /\ Goto(d, IF ~Exists(d) \/ (\E e \in Docs : HoldsHash(e, d)) THEN "raised" ELSE "duplicate")
    /\ UNCHANGED <<text, key, row, hashed, sparse, files, events, deleting, workspace, died>>

\* One transaction replaces the chunks and makes the row ready.  The foreign
\* key refuses the chunks of a row that is gone, and the unique index the
\* second row with one hash: all of it is undone.
Store(d) ==
    /\ pc[d] \in {"storing", "unembedded"}
    /\ IF Exists(d) /\ ~(\E e \in Docs : HoldsHash(e, d))
       THEN /\ chunks' = [chunks EXCEPT ![d] = ChunkBlocks(text[d])]
            /\ hashed' = hashed \cup {d}
            /\ sparse' = IF pc[d] = "unembedded" THEN sparse \cup {d} ELSE sparse \ {d}
            /\ row' = [row EXCEPT ![d] = "ready"]
            /\ Ends(d)
       ELSE /\ Goto(d, "raised")
            /\ UNCHANGED <<row, hashed, chunks, sparse>>
    /\ UNCHANGED <<text, key, files, events, deleting, workspace, died>>

Ingesting == {"inserted", "reading", "parsed", "duplicate", "embedding", "storing", "unembedded"}

\* A missing file, an unreadable or empty document, an embedding that failed,
\* or an error of the database.
Raises(d) ==
    /\ pc[d] \in Ingesting
    /\ pc[d] = "embedding" => \A p \in home[d] : ~Busy(p)
    /\ Goto(d, "raised")
    /\ UNCHANGED <<text, row, hashed, chunks, sparse, key, files, events, deleting, workspace, died>>

\* Mutated form: only the caller is told.
FailSilently(d) ==
    /\ pc[d] = "raised"
    /\ Ends(d)
    /\ UNCHANGED <<text, row, hashed, chunks, sparse, key, files, events, deleting, workspace, died>>

Fail(d) ==
    /\ pc[d] = "raised"
    /\ SetRow(d, "failed")
    /\ Ends(d)
    /\ UNCHANGED <<text, hashed, chunks, sparse, key, files, events, deleting, workspace, died>>

-----------------------------------------------------------------------------
(* Deletion: delete_knowledge() and document_delete(). *)

\* Mutated form: the file first, then the row.
DeleteFileFirst(p, x) ==
    /\ MayServe(p) /\ Exists(x)
    /\ files' = files \ {x}
    /\ deleting' = [deleting EXCEPT ![x] = {p}]
    /\ UNCHANGED <<text, row, hashed, chunks, sparse, key, events, pc, home, workspace, died>>

\* The row goes, and its chunks with it ...
DeleteRow(p, x) ==
    /\ MayServe(p) /\ Exists(x)
    /\ row' = [row EXCEPT ![x] = "gone"]
    /\ hashed' = hashed \ {x}
    /\ chunks' = [d \in Docs |-> IF d = x THEN <<>> ELSE chunks[d]]
    /\ sparse' = sparse \ {x}
    /\ deleting' = [deleting EXCEPT ![x] = {p}]
    /\ UNCHANGED <<text, key, files, events, pc, home, workspace, died>>

\* ... then its file.
DeleteFile(x) ==
    /\ deleting[x] # {}
    /\ files' = files \ {x}
    /\ deleting' = [deleting EXCEPT ![x] = {}]
    /\ UNCHANGED <<text, row, hashed, chunks, sparse, key, events, pc, home, workspace, died>>

\* The exception leaves the file.
DeleteFileFails(x) ==
    /\ deleting[x] # {}
    /\ deleting' = [deleting EXCEPT ![x] = {}]
    /\ died' = died \cup {x}
    /\ UNCHANGED <<text, row, hashed, chunks, sparse, key, files, events, pc, home, workspace>>

-----------------------------------------------------------------------------
(* Time, crashes and the purge. *)

\* Seven days after the upload.
WeekPasses(x) ==
    /\ x \in events
    /\ events' = events \ {x}
    /\ UNCHANGED <<text, row, hashed, chunks, sparse, key, files, pc, home, deleting, workspace, died>>

\* The process dies, or the database refuses the last statements.
Crash(p) ==
    LET cut == {x \in Ids : home[x] = {p} \/ deleting[x] = {p}}
    IN  /\ cut # {}
        /\ died' = died \cup cut
        /\ pc' = [x \in Ids |-> IF home[x] = {p} THEN "ended" ELSE pc[x]]
        /\ home' = [x \in Ids |-> IF home[x] = {p} THEN {} ELSE home[x]]
        /\ deleting' = [x \in Ids |-> IF deleting[x] = {p} THEN {} ELSE deleting[x]]
        /\ UNCHANGED <<text, row, hashed, chunks, sparse, key, files, events, workspace>>

\* The service is restarted with the key, or without it.
Configure ==
    /\ \A x \in Ids : home[x] = {} /\ deleting[x] = {}
    /\ key' = ~key
    /\ UNCHANGED <<text, row, hashed, chunks, sparse, files, events, pc, home, deleting, workspace, died>>

\* The guest's token has lapsed; no request takes that long.
GuestLeaves ==
    /\ workspace = "used" /\ \A x \in Ids : home[x] = {} /\ deleting[x] = {}
    /\ workspace' = "left"
    /\ UNCHANGED <<text, row, hashed, chunks, sparse, key, files, events, pc, home, deleting, died>>

\* _run_cleanup(): the directories of the deals, then the workspace, which
\* takes everything with it that refers to it.
PurgeFiles ==
    /\ workspace = "left"
    /\ workspace' = "emptied"
    /\ files' = files \ Rfps
    /\ UNCHANGED <<text, row, hashed, chunks, sparse, key, events, pc, home, deleting, died>>

PurgeRows ==
    /\ workspace = "emptied"
    /\ workspace' = "gone"
    /\ row' = [x \in Ids |-> IF Exists(x) THEN "gone" ELSE row[x]]
    /\ hashed' = {} /\ sparse' = {} /\ events' = {}
    /\ chunks' = [d \in Docs |-> <<>>]
    /\ UNCHANGED <<text, key, files, pc, home, deleting, died>>

-----------------------------------------------------------------------------
UploadStep(x) ==
    \/ SaveFile(x) \/ InsertKnowledge(x) \/ InsertRfp(x) \/ InsertFails(x) \/ RemoveFile(x)
    \/ FileFails(x)

IngestStep(d) ==
    \/ SetStage(d) \/ Parse(d) \/ Lookup(d) \/ Duplicate(d)
    \/ EmbedReturns(d) \/ Store(d) \/ Raises(d) \/ Fail(d)

Next ==
    \/ \E p \in Procs, x \in Ids : CheckKnowledge(p, x) \/ CheckRfp(p, x) \/ DeleteRow(p, x)
    \/ \E x \in Ids : UploadStep(x) \/ DeleteFile(x) \/ DeleteFileFails(x) \/ WeekPasses(x)
    \/ \E d \in Docs : IngestStep(d)
    \/ \E p \in Procs : Crash(p)
    \/ Configure \/ GuestLeaves \/ PurgeFiles \/ PurgeRows

Spec == Init /\ [][Next]_vars

=============================================================================
