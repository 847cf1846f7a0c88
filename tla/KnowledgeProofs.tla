-------------------------- MODULE KnowledgeProofs --------------------------
(***************************************************************************)
(* Proofs about the uploads, for every number of documents, RFPs and       *)
(* processes, every cap and every content.                                 *)
(***************************************************************************)
EXTENDS KnowledgeProperties, ChunkerProofs

-----------------------------------------------------------------------------
(* Every step keeps the shape of the rows, the files and the requests.     *)
LEMMA TypeInductive ==
    /\ Init => TypeOK
    /\ TypeOK /\ [Next]_vars => TypeOK'
<1> USE KnowledgeAssumption DEF Ids
<1>1. Init => TypeOK
  BY DEF Init, TypeOK, Steps
<1>2. ASSUME TypeOK, [Next]_vars PROVE TypeOK'
  <2> USE DEF TypeOK, Steps, Ingesting
  <2>1. ASSUME NEW p \in Procs, NEW x \in Ids, CheckKnowledge(p, x) \/ CheckRfp(p, x) PROVE TypeOK'
    <3>1. Arrives(p, x)
      BY <2>1 DEF CheckKnowledge, CheckRfp
    <3> QED
      BY <1>2, <3>1 DEF Arrives
  <2>2. ASSUME NEW x \in Ids, SaveFile(x) \/ InsertFails(x) \/ RemoveFile(x) \/ FileFails(x)
        PROVE  TypeOK'
    <3>1. CASE SaveFile(x)
      BY <1>2, <3>1 DEF SaveFile, Goto
    <3>2. CASE InsertFails(x)
      BY <1>2, <3>2 DEF InsertFails, Goto
    <3>3. CASE RemoveFile(x)
      BY <1>2, <3>3 DEF RemoveFile, Ends
    <3>4. CASE FileFails(x)
      BY <1>2, <3>4 DEF FileFails, Ends
    <3> QED
      BY <2>2, <3>1, <3>2, <3>3, <3>4
  <2>3. ASSUME NEW x \in Ids, InsertKnowledge(x) PROVE TypeOK'
    BY <1>2, <2>3 DEF InsertKnowledge, Goto
  <2>4. ASSUME NEW x \in Ids, InsertRfp(x) PROVE TypeOK'
    BY <1>2, <2>4 DEF InsertRfp, Ends
  <2>5. ASSUME NEW d \in Docs,
               SetStage(d) \/ Parse(d) \/ Lookup(d) \/ EmbedReturns(d) \/ Raises(d)
        PROVE  TypeOK'
    <3>1. \A label \in Steps : Goto(d, label) => pc' \in [Ids -> Steps] /\ home' \in [Ids -> SUBSET Procs]
      BY <1>2 DEF Goto
    <3>2. SetRow(d, "processing") \/ UNCHANGED row
      BY <2>5 DEF SetStage, Parse, Lookup, EmbedReturns, Raises
    <3>3. row' \in [Ids -> {"none", "pending", "processing", "ready", "failed", "uploaded", "gone"}]
      BY <1>2, <3>2 DEF SetRow
    <3>4. \E label \in Steps : Goto(d, label)
      BY <2>5 DEF SetStage, Parse, Lookup, AfterChunking, EmbedReturns, Raises
    <3>5. UNCHANGED <<text, hashed, chunks, sparse, key, files, events, deleting, workspace, died>>
      BY <2>5 DEF SetStage, Parse, Lookup, EmbedReturns, Raises
    <3> QED
      BY <1>2, <3>1, <3>3, <3>4, <3>5
  <2>6. ASSUME NEW d \in Docs, Duplicate(d) \/ Fail(d) PROVE TypeOK'
    <3>1. SetRow(d, "ready") \/ SetRow(d, "failed")
      BY <2>6 DEF Duplicate, Fail
    <3>2. row' \in [Ids -> {"none", "pending", "processing", "ready", "failed", "uploaded", "gone"}]
      BY <1>2, <3>1 DEF SetRow
    <3>3. Ends(d) /\ UNCHANGED <<text, hashed, chunks, sparse, key, files, events, deleting, workspace, died>>
      BY <2>6 DEF Duplicate, Fail
    <3>4. pc' \in [Ids -> Steps] /\ home' \in [Ids -> SUBSET Procs]
      BY <1>2, <3>3 DEF Ends
    <3> QED
      BY <1>2, <3>2, <3>3, <3>4
  <2>7. ASSUME NEW d \in Docs, Store(d) PROVE TypeOK'
    <3>0. /\ Ends(d) \/ Goto(d, "raised")
          /\ UNCHANGED <<text, key, files, events, deleting, workspace, died>>
      BY <2>7 DEF Store
    <3>1. pc' \in [Ids -> Steps] /\ home' \in [Ids -> SUBSET Procs]
      BY <1>2, <3>0 DEF Goto, Ends
    <3>2. row' \in [Ids -> {"none", "pending", "processing", "ready", "failed", "uploaded", "gone"}]
      BY <1>2, <2>7 DEF Store
    <3>3. \/ UNCHANGED <<hashed, chunks, sparse>>
          \/ /\ hashed' = hashed \cup {d}
             /\ sparse' \subseteq sparse \cup {d}
             /\ chunks' = [chunks EXCEPT ![d] = ChunkBlocks(text[d])]
      BY <2>7 DEF Store
    <3>4. /\ hashed' \subseteq Docs /\ sparse' \subseteq Docs /\ DOMAIN chunks' = Docs
          /\ \A e \in Docs : chunks'[e] # <<>> => chunks'[e] = ChunkBlocks(text[e])
      BY <1>2, <3>3
    <3> QED
      BY <1>2, <3>0, <3>1, <3>2, <3>4
  <2>8. ASSUME NEW p \in Procs, NEW x \in Ids, DeleteRow(p, x) PROVE TypeOK'
    BY <1>2, <2>8 DEF DeleteRow
  <2>9. ASSUME NEW x \in Ids, DeleteFile(x) \/ DeleteFileFails(x) \/ WeekPasses(x) PROVE TypeOK'
    BY <1>2, <2>9 DEF DeleteFile, DeleteFileFails, WeekPasses
  <2>10. ASSUME NEW p \in Procs, Crash(p) PROVE TypeOK'
    BY <1>2, <2>10 DEF Crash
  <2>11. ASSUME Configure \/ GuestLeaves \/ PurgeFiles \/ PurgeRows PROVE TypeOK'
    BY <1>2, <2>11 DEF Configure, GuestLeaves, PurgeFiles, PurgeRows, Exists
  <2>12. CASE UNCHANGED vars
    BY <1>2, <2>12 DEF vars
  <2> QED
    BY <1>2, <2>1, <2>2, <2>3, <2>4, <2>5, <2>6, <2>7, <2>8, <2>9, <2>10, <2>11, <2>12
       DEF Next, UploadStep, IngestStep
<1> QED
  BY <1>1, <1>2

(* The rows, the files and the requests always have their shape.           *)
THEOREM KnowledgeTypeCorrect == Spec => []TypeOK
BY TypeInductive, PTL DEF Spec

-----------------------------------------------------------------------------
(* Where a request is says which process it keeps and what its row may be; *)
(* a deletion between its two steps has taken the row.                     *)

LocatedAt(x) ==
    /\ home[x] = {} \/ \E p \in Procs : home[x] = {p}
    /\ home[x] = {} <=> pc[x] \in {"new", "ended"}
    /\ deleting[x] # {} => row[x] = "gone"
    /\ workspace # "used" => home[x] = {} /\ deleting[x] = {}
    /\ pc[x] \in {"new", "checked", "saved", "refused"} => row[x] = "none"
    /\ pc[x] \in Ingesting \cup {"raised"} => row[x] \in {"pending", "processing", "gone"}
    /\ pc[x] = "saved" => x \in files
    /\ pc[x] = "new" => x \notin files
    /\ x \in Rfps => pc[x] \notin Ingesting \cup {"raised"}
    /\ x \in Docs => row[x] # "uploaded"

Located == \A x \in Ids : LocatedAt(x)

(* No step leaves a request without its process, or a row ahead of it.     *)
LEMMA LocatedInductive ==
    /\ Init => Located
    /\ TypeOK /\ Located /\ [Next]_vars => Located'
<1> USE KnowledgeAssumption DEF Ids
<1>1. Init => Located
  BY DEF Init, Located, LocatedAt, Ingesting
<1>2. ASSUME TypeOK, Located, [Next]_vars PROVE Located'
  <2> SUFFICES ASSUME NEW x \in Ids PROVE LocatedAt(x)'
    BY DEF Located
  <2>0. LocatedAt(x)
    BY <1>2 DEF Located
  <2> USE DEF TypeOK, LocatedAt, Steps, Ingesting
  <2>1. ASSUME NEW p \in Procs, NEW y \in Ids, CheckKnowledge(p, y) \/ CheckRfp(p, y)
        PROVE  LocatedAt(x)'
    <3>1. /\ pc[y] = "new" /\ workspace = "used" /\ Arrives(p, y)
      BY <2>1 DEF CheckKnowledge, CheckRfp, MayServe
    <3> QED
      BY <1>2, <2>0, <3>1 DEF Arrives
  <2>2. ASSUME NEW y \in Ids, SaveFile(y) \/ InsertFails(y) \/ RemoveFile(y) \/ FileFails(y)
        PROVE  LocatedAt(x)'
    <3>1. CASE SaveFile(y)
      BY <1>2, <2>0, <3>1 DEF SaveFile, Goto
    <3>2. CASE InsertFails(y)
      BY <1>2, <2>0, <3>2 DEF InsertFails, Goto
    <3>3. CASE RemoveFile(y)
      BY <1>2, <2>0, <3>3 DEF RemoveFile, Ends
    <3>4. CASE FileFails(y)
      BY <1>2, <2>0, <3>4 DEF FileFails, Ends
    <3> QED
      BY <2>2, <3>1, <3>2, <3>3, <3>4
  <2>3. ASSUME NEW y \in Ids, InsertKnowledge(y) PROVE LocatedAt(x)'
    BY <1>2, <2>0, <2>3 DEF InsertKnowledge, Goto
  <2>4. ASSUME NEW y \in Ids, InsertRfp(y) PROVE LocatedAt(x)'
    BY <1>2, <2>0, <2>4 DEF InsertRfp, Ends
  <2>5. ASSUME NEW d \in Docs, SetStage(d) PROVE LocatedAt(x)'
    BY <1>2, <2>0, <2>5 DEF SetStage, SetRow, Exists, Goto
  <2>6. ASSUME NEW d \in Docs, Parse(d) \/ Lookup(d) \/ EmbedReturns(d) \/ Raises(d)
        PROVE  LocatedAt(x)'
    <3>1. PICK label \in Ingesting \cup {"raised"} : Goto(d, label)
      BY <2>6 DEF Parse, Lookup, AfterChunking, EmbedReturns, Raises
    <3>2. pc[d] \in Ingesting /\ UNCHANGED <<row, files, deleting, workspace>>
      BY <2>6 DEF Parse, Lookup, EmbedReturns, Raises
    <3> QED
      BY <1>2, <2>0, <3>1, <3>2 DEF Goto
  <2>7. ASSUME NEW d \in Docs, Duplicate(d) \/ Fail(d) PROVE LocatedAt(x)'
    <3>1. /\ pc[d] \in Ingesting \cup {"raised"} /\ Ends(d)
          /\ SetRow(d, "ready") \/ SetRow(d, "failed")
          /\ UNCHANGED <<files, deleting, workspace>>
      BY <2>7 DEF Duplicate, Fail
    <3>2. CASE x = d
      BY <1>2, <2>0, <3>1, <3>2 DEF SetRow, Exists, Ends
    <3>3. CASE x # d
      BY <1>2, <2>0, <3>1, <3>3 DEF SetRow, Ends
    <3> QED
      BY <3>2, <3>3
  <2>8. ASSUME NEW d \in Docs, Store(d) PROVE LocatedAt(x)'
    <3>1. \/ /\ Exists(d) /\ Ends(d) /\ row' = [row EXCEPT ![d] = "ready"]
          \/ Goto(d, "raised") /\ UNCHANGED row
      BY <2>8 DEF Store
    <3>2. pc[d] \in {"storing", "unembedded"} /\ UNCHANGED <<files, deleting, workspace>>
      BY <2>8 DEF Store
    <3>3. CASE x = d
      <4>1. CASE Ends(d) /\ row' = [row EXCEPT ![d] = "ready"] /\ Exists(d)
        BY <1>2, <2>0, <3>2, <3>3, <4>1 DEF Exists, Ends
      <4>2. CASE Goto(d, "raised") /\ UNCHANGED row
        BY <1>2, <2>0, <3>2, <3>3, <4>2 DEF Goto
      <4> QED
        BY <3>1, <4>1, <4>2
    <3>4. CASE x # d
      BY <1>2, <2>0, <3>1, <3>2, <3>4 DEF Goto, Ends
    <3> QED
      BY <3>3, <3>4
  <2>9. ASSUME NEW p \in Procs, NEW y \in Ids, DeleteRow(p, y) PROVE LocatedAt(x)'
    BY <1>2, <2>0, <2>9 DEF DeleteRow, MayServe, Exists
  <2>10. ASSUME NEW y \in Ids, DeleteFile(y) \/ DeleteFileFails(y) \/ WeekPasses(y) PROVE LocatedAt(x)'
    BY <1>2, <2>0, <2>10 DEF DeleteFile, DeleteFileFails, WeekPasses
  <2>11. ASSUME NEW p \in Procs, Crash(p) PROVE LocatedAt(x)'
    BY <1>2, <2>0, <2>11 DEF Crash
  <2>12. ASSUME Configure \/ GuestLeaves \/ PurgeFiles \/ PurgeRows PROVE LocatedAt(x)'
    BY <1>2, <2>0, <2>12 DEF Configure, GuestLeaves, PurgeFiles, PurgeRows, Exists
  <2>13. CASE UNCHANGED vars
    BY <1>2, <2>0, <2>13 DEF vars
  <2> QED
    BY <1>2, <2>1, <2>2, <2>3, <2>4, <2>5, <2>6, <2>7, <2>8, <2>9, <2>10, <2>11, <2>12, <2>13
       DEF Next, UploadStep, IngestStep
<1> QED
  BY <1>1, <1>2

-----------------------------------------------------------------------------
(* Files and rows.  A file outlives its row only between the two steps of  *)
(* its deletion, and comes before its row only in its upload.              *)

FiledAt(x) ==
    /\ Exists(x) => x \in files \/ (x \in Rfps /\ workspace = "emptied")
    /\ row[x] = "none" /\ x \in files => home[x] # {} \/ x \in died
    /\ row[x] = "gone" /\ x \in files =>
          deleting[x] # {} \/ x \in died \/ (workspace = "gone" /\ x \in Docs)
    /\ row[x] \in {"pending", "processing"} => home[x] # {} \/ x \in died
    /\ workspace \in {"emptied", "gone"} /\ x \in Rfps => x \notin files

Filed == \A x \in Ids : FiledAt(x)

(* Every step keeps the files to their rows.                               *)
LEMMA FiledInductive ==
    /\ Init => Filed
    /\ TypeOK /\ Located /\ Filed /\ [Next]_vars => Filed'
<1> USE KnowledgeAssumption DEF Ids
<1>1. Init => Filed
  BY DEF Init, Filed, FiledAt, Exists
<1>2. ASSUME TypeOK, Located, Filed, [Next]_vars PROVE Filed'
  <2> SUFFICES ASSUME NEW x \in Ids PROVE FiledAt(x)'
    BY DEF Filed
  <2>0. FiledAt(x) /\ LocatedAt(x)
    BY <1>2 DEF Filed, Located
  <2> USE DEF TypeOK, FiledAt, Exists, Ingesting
  <2>1. ASSUME NEW p \in Procs, NEW y \in Ids, CheckKnowledge(p, y) \/ CheckRfp(p, y)
        PROVE  FiledAt(x)'
    <3>1. Arrives(p, y)
      BY <2>1 DEF CheckKnowledge, CheckRfp
    <3> QED
      BY <1>2, <2>0, <3>1 DEF Arrives
  <2>2. ASSUME NEW y \in Ids, SaveFile(y) \/ InsertFails(y) PROVE FiledAt(x)'
    BY <1>2, <2>0, <2>2 DEF SaveFile, InsertFails, Goto, LocatedAt
  <2>3. ASSUME NEW y \in Ids, RemoveFile(y) \/ FileFails(y) PROVE FiledAt(x)'
    <3>1. CASE RemoveFile(y)
      BY <1>2, <2>0, <3>1 DEF RemoveFile, Ends, LocatedAt
    <3>2. CASE FileFails(y)
      BY <1>2, <2>0, <3>2 DEF FileFails, Ends, LocatedAt
    <3> QED
      BY <2>3, <3>1, <3>2
  <2>4. ASSUME NEW y \in Ids, InsertKnowledge(y) PROVE FiledAt(x)'
    BY <1>2, <2>0, <2>4 DEF InsertKnowledge, Goto, LocatedAt
  <2>5. ASSUME NEW y \in Ids, InsertRfp(y) PROVE FiledAt(x)'
    BY <1>2, <2>0, <2>5 DEF InsertRfp, Ends, LocatedAt
  <2>6. ASSUME NEW d \in Docs,
               SetStage(d) \/ Parse(d) \/ Lookup(d) \/ EmbedReturns(d) \/ Raises(d)
        PROVE  FiledAt(x)'
    <3>1. /\ UNCHANGED <<home, files, deleting, workspace, died>>
          /\ SetRow(d, "processing") \/ UNCHANGED row
      BY <2>6 DEF SetStage, Parse, Lookup, EmbedReturns, Raises, Goto
    <3>2. pc[d] \in Ingesting
      BY <2>6 DEF SetStage, Parse, Lookup, EmbedReturns, Raises
    <3> QED
      BY <1>2, <2>0, <3>1, <3>2 DEF SetRow, LocatedAt
  <2>7. ASSUME NEW d \in Docs, Duplicate(d) \/ Fail(d) PROVE FiledAt(x)'
    <3>1. /\ Ends(d) /\ UNCHANGED <<files, deleting, workspace, died>>
          /\ SetRow(d, "ready") \/ SetRow(d, "failed")
          /\ pc[d] \in Ingesting \cup {"raised"}
      BY <2>7 DEF Duplicate, Fail
    <3> QED
      BY <1>2, <2>0, <3>1 DEF SetRow, Ends, LocatedAt
  <2>8. ASSUME NEW d \in Docs, Store(d) PROVE FiledAt(x)'
    <3>1. \/ /\ Exists(d) /\ Ends(d) /\ row' = [row EXCEPT ![d] = "ready"]
          \/ UNCHANGED <<row, home>>
      BY <2>8 DEF Store, Goto
    <3>2. UNCHANGED <<files, deleting, workspace, died>>
      BY <2>8 DEF Store
    <3> QED
      BY <1>2, <2>0, <3>1, <3>2 DEF Ends
  <2>9. ASSUME NEW p \in Procs, NEW y \in Ids, DeleteRow(p, y) PROVE FiledAt(x)'
    BY <1>2, <2>0, <2>9 DEF DeleteRow, LocatedAt
  <2>10. ASSUME NEW y \in Ids, DeleteFile(y) \/ DeleteFileFails(y) \/ WeekPasses(y) PROVE FiledAt(x)'
    BY <1>2, <2>0, <2>10 DEF DeleteFile, DeleteFileFails, WeekPasses, LocatedAt
  <2>11. ASSUME NEW p \in Procs, Crash(p) PROVE FiledAt(x)'
    <3>1. /\ home[x] # {} /\ home'[x] = {} => x \in died'
          /\ deleting[x] # {} /\ deleting'[x] = {} => x \in died'
          /\ x \in died => x \in died'
      BY <1>2, <2>11 DEF Crash
    <3> QED
      BY <2>0, <2>11, <3>1 DEF Crash
  <2>12. ASSUME Configure \/ GuestLeaves \/ PurgeFiles PROVE FiledAt(x)'
    BY <1>2, <2>0, <2>12 DEF Configure, GuestLeaves, PurgeFiles, LocatedAt
  <2>13. ASSUME PurgeRows PROVE FiledAt(x)'
    BY <1>2, <2>0, <2>13 DEF PurgeRows, LocatedAt
  <2>14. CASE UNCHANGED vars
    BY <1>2, <2>0, <2>14 DEF vars
  <2> QED
    BY <1>2, <2>1, <2>2, <2>3, <2>4, <2>5, <2>6, <2>7, <2>8, <2>9, <2>10, <2>11, <2>12, <2>13,
       <2>14
       DEF Next, UploadStep, IngestStep
<1> QED
  BY <1>1, <1>2

FInv == TypeOK /\ Located /\ Filed

(* All of it together.                                                    *)
LEMMA FInvInductive ==
    /\ Init => FInv
    /\ FInv /\ [Next]_vars => FInv'
BY TypeInductive, LocatedInductive, FiledInductive DEF FInv

(* A listed document has its file, whatever fails, whoever deletes it and  *)
(* whenever a process dies (knowledge.py:100-128, 182-195).                *)
THEOREM RowsHaveFilesCorrect == Spec => []RowsHaveFiles
<1>1. FInv => RowsHaveFiles
  BY DEF FInv, Filed, FiledAt, RowsHaveFiles
<1> QED
  BY <1>1, FInvInductive, PTL DEF Spec

(* A file without a row is accounted for: it is about to be inserted or    *)
(* removed, it was left by a crash or by a write or removal that the file  *)
(* system refused, or its workspace has been purged.                       *)
THEOREM OrphansAccountedCorrect == Spec => []OrphansAccounted
<1>1. FInv => OrphansAccounted
  <2> SUFFICES ASSUME FInv, NEW x \in files, ~Exists(x)
               PROVE  home[x] # {} \/ deleting[x] # {} \/ x \in died
                         \/ (workspace = "gone" /\ x \in Docs)
    BY DEF OrphansAccounted
  <2>1. x \in Ids
    BY DEF FInv, TypeOK
  <2> QED
    BY <2>1 DEF FInv, Filed, FiledAt, Exists
<1> QED
  BY <1>1, FInvInductive, PTL DEF Spec

(* Only a crash leaves a row in the middle of its ingestion                *)
(* (knowledge.py:130-133, ingest.py:137-141).                              *)
THEOREM StrandedByCrashOnlyCorrect == Spec => []StrandedByCrashOnly
<1>1. FInv => StrandedByCrashOnly
  BY DEF FInv, Filed, FiledAt, StrandedByCrashOnly, Ids
<1> QED
  BY <1>1, FInvInductive, PTL DEF Spec

-----------------------------------------------------------------------------
(* The caps.  A request that has read them is sure to insert its row, so   *)
(* it counts as inserted; a process has one such request at most, since it *)
(* serves no other before that request is done or embeds.                  *)

OneAtATime ==
    \A x, y \in Ids, p \in Procs :
        home[x] = {p} /\ home[y] = {p} /\ pc[x] # "embedding" /\ pc[y] # "embedding" => x = y

\* The processes with a request that has read the caps and not yet inserted.
Pending(kind) == {p \in Procs : \E x \in kind : home[x] = {p} /\ pc[x] \in {"checked", "saved"}}

HasRoom(S, P, cap) ==
    IsFiniteSet(S) /\ Cardinality(S) + Cardinality(P) < cap + Cardinality(Procs)

Rooms ==
    /\ HasRoom(Stored(Docs), Pending(Docs), MaxDocs)
    /\ HasRoom(Stored(Rfps), Pending(Rfps), 1)
    /\ HasRoom(events \cap Docs, Pending(Docs), WeeklyCap)
    /\ HasRoom(events \cap Rfps, Pending(Rfps), WeeklyRfpCap)

(* A set of processes can be counted.                                      *)
LEMMA ProcsFinite ==
    ASSUME NEW P, P \subseteq Procs
    PROVE  /\ IsFiniteSet(P) /\ Cardinality(P) \in Nat /\ Cardinality(Procs) \in Nat
           /\ Cardinality(P) <= Cardinality(Procs)
<1>1. IsFiniteSet(P) /\ Cardinality(P) <= Cardinality(Procs)
  BY KnowledgeAssumption, FS_Subset
<1> QED
  BY <1>1, KnowledgeAssumption, FS_CardinalityType

(* There is room where no row is inserted and no request has begun.        *)
LEMMA RoomKept ==
    ASSUME NEW S, NEW P, NEW cap \in Nat, HasRoom(S, P, cap), P \subseteq Procs,
           NEW T, NEW Q, T \subseteq S, Q \subseteq P
    PROVE  HasRoom(T, Q, cap)
<1>1. IsFiniteSet(T) /\ Cardinality(T) <= Cardinality(S)
  BY FS_Subset DEF HasRoom
<1>2. Cardinality(Q) <= Cardinality(P)
  BY ProcsFinite, FS_Subset
<1>3. /\ Cardinality(S) \in Nat /\ Cardinality(T) \in Nat
      /\ Cardinality(P) \in Nat /\ Cardinality(Q) \in Nat /\ Cardinality(Procs) \in Nat
  BY <1>1, ProcsFinite, FS_CardinalityType DEF HasRoom
<1> QED
  BY <1>1, <1>2, <1>3 DEF HasRoom

(* There is room where the cap was just read and not reached.              *)
LEMMA RoomSeen ==
    ASSUME NEW S, NEW cap \in Nat, IsFiniteSet(S), Cardinality(S) < cap,
           NEW P, P \subseteq Procs
    PROVE  HasRoom(S, P, cap)
<1>1. Cardinality(S) \in Nat
  BY FS_CardinalityType
<1> QED
  BY <1>1, ProcsFinite DEF HasRoom

(* A request that inserts its row takes the room that it had.              *)
LEMMA RoomTaken ==
    ASSUME NEW S, NEW P, NEW cap \in Nat, HasRoom(S, P, cap), P \subseteq Procs,
           NEW T, IsFiniteSet(T), Cardinality(T) <= Cardinality(S) + 1,
           NEW Q, Q \subseteq P, Q # P
    PROVE  HasRoom(T, Q, cap)
<1>1. Cardinality(Q) <= Cardinality(P) /\ Cardinality(Q) # Cardinality(P)
  BY ProcsFinite, FS_Subset
<1>2. /\ Cardinality(S) \in Nat /\ Cardinality(T) \in Nat
      /\ Cardinality(P) \in Nat /\ Cardinality(Q) \in Nat /\ Cardinality(Procs) \in Nat
  BY ProcsFinite, FS_CardinalityType DEF HasRoom
<1> QED
  BY <1>1, <1>2 DEF HasRoom

(* A set that gains one member at most has one more at most.               *)
LEMMA OneMore ==
    ASSUME NEW S, IsFiniteSet(S), NEW x, NEW T, T \subseteq S \cup {x}
    PROVE  IsFiniteSet(T) /\ Cardinality(T) <= Cardinality(S) + 1
<1>1. IsFiniteSet(S \cup {x}) /\ Cardinality(S \cup {x}) <= Cardinality(S) + 1
  <2>1. Cardinality(S) \in Nat
    BY FS_CardinalityType
  <2>2. /\ IsFiniteSet(S \cup {x})
        /\ Cardinality(S \cup {x}) = IF x \in S THEN Cardinality(S) ELSE Cardinality(S) + 1
    BY FS_AddElement
  <2> QED
    BY <2>1, <2>2
<1>2. IsFiniteSet(T) /\ Cardinality(T) <= Cardinality(S \cup {x})
  BY <1>1, FS_Subset
<1>3. Cardinality(S) \in Nat /\ Cardinality(T) \in Nat /\ Cardinality(S \cup {x}) \in Nat
  BY <1>1, <1>2, FS_CardinalityType
<1> QED
  BY <1>1, <1>2, <1>3

(* A process runs one request at a time, the embedding ones aside.         *)
LEMMA OneAtATimeInductive ==
    /\ Init => OneAtATime
    /\ TypeOK /\ Located /\ OneAtATime /\ [Next]_vars => OneAtATime'
<1> USE KnowledgeAssumption DEF Ids
<1>1. Init => OneAtATime
  BY DEF Init, OneAtATime
<1>2. ASSUME TypeOK, Located, OneAtATime, [Next]_vars PROVE OneAtATime'
  <2> SUFFICES ASSUME NEW x \in Ids, NEW y \in Ids, NEW p \in Procs,
                      home'[x] = {p}, home'[y] = {p}, pc'[x] # "embedding", pc'[y] # "embedding"
               PROVE  x = y
    BY DEF OneAtATime
  \* A step in which no request joins those that keep a process.
  <2>1. ASSUME \A z \in {x, y} : home'[z] = {p} /\ pc'[z] # "embedding" =>
                                    home[z] = {p} /\ pc[z] # "embedding"
        PROVE  x = y
    BY <1>2, <2>1 DEF OneAtATime
  \* One in which z joins, and no other did keep its process.
  <2>2. ASSUME NEW z \in Ids,
               \A w \in Ids \ {z} : home'[w] = home[w] /\ pc'[w] = pc[w],
               \A q \in home'[z] : ~Busy(q)
        PROVE  x = y
    <3>1. CASE x = z /\ y # z
      BY <2>2, <3>1 DEF Busy
    <3>2. CASE y = z /\ x # z
      BY <2>2, <3>2 DEF Busy
    <3>3. CASE x # z /\ y # z
      BY <1>2, <2>2, <3>3 DEF OneAtATime
    <3> QED
      BY <3>1, <3>2, <3>3
  <2> USE DEF TypeOK
  <2>3. ASSUME NEW q \in Procs, NEW z \in Ids, CheckKnowledge(q, z) \/ CheckRfp(q, z)
        PROVE  x = y
    <3>1. ~Busy(q) /\ Arrives(q, z)
      BY <2>3 DEF CheckKnowledge, CheckRfp, MayServe
    <3> QED
      BY <1>2, <2>2, <3>1 DEF Arrives
  <2>4. ASSUME NEW z \in Ids, pc[z] # "embedding" \/ \A q \in home[z] : ~Busy(q),
               Ends(z) \/ \E label \in Steps : Goto(z, label)
        PROVE  x = y
    <3>1. CASE Ends(z)
      BY <1>2, <2>1, <3>1 DEF Ends
    <3>2. ASSUME NEW label \in Steps, Goto(z, label) PROVE x = y
      <4>1. CASE pc[z] # "embedding"
        BY <1>2, <2>1, <3>2, <4>1 DEF Goto
      <4>2. CASE \A q \in home[z] : ~Busy(q)
        BY <1>2, <2>2, <3>2, <4>2 DEF Goto
      <4> QED
        BY <2>4, <4>1, <4>2
    <3> QED
      BY <2>4, <3>1, <3>2
  <2>5. ASSUME NEW z \in Ids, UploadStep(z) PROVE x = y
    BY <2>4, <2>5
       DEF UploadStep, SaveFile, InsertKnowledge, InsertRfp, InsertFails, RemoveFile, FileFails,
           Steps, Ingesting
  <2>6. ASSUME NEW d \in Docs, IngestStep(d) PROVE x = y
    <3>1. pc[d] # "embedding" \/ \A q \in home[d] : ~Busy(q)
      BY <2>6
         DEF IngestStep, SetStage, Parse, Lookup, Duplicate, EmbedReturns, Store, Raises, Fail
    <3>2. Ends(d) \/ \E label \in Steps : Goto(d, label)
      BY <2>6
         DEF IngestStep, SetStage, Parse, Lookup, AfterChunking, Duplicate, EmbedReturns, Store,
             Raises, Fail,
             Steps, Ingesting
    <3> QED
      BY <2>4, <3>1, <3>2
  <2>7. ASSUME NEW q \in Procs, Crash(q) PROVE x = y
    BY <1>2, <2>1, <2>7 DEF Crash
  <2>8. ASSUME UNCHANGED <<home, pc>> PROVE x = y
    BY <2>1, <2>8
  <2> QED
    BY <1>2, <2>3, <2>5, <2>6, <2>7, <2>8
       DEF Next, DeleteRow, DeleteFile, DeleteFileFails, WeekPasses, Configure, GuestLeaves, PurgeFiles, PurgeRows, vars
<1> QED
  BY <1>1, <1>2

(* Every upload finds the room that it read.                               *)
LEMMA RoomsInductive ==
    /\ Init => Rooms
    /\ TypeOK /\ Located /\ OneAtATime /\ Rooms /\ [Next]_vars => Rooms'
<1> USE KnowledgeAssumption DEF Ids
<1>0. \A kind : Pending(kind) \subseteq Procs /\ Pending(kind)' \subseteq Procs
  BY DEF Pending
<1>1. Init => Rooms
  <2> SUFFICES ASSUME Init PROVE Rooms
    OBVIOUS
  <2>1. Stored(Docs) = {} /\ Stored(Rfps) = {} /\ events \cap Docs = {} /\ events \cap Rfps = {}
    BY DEF Init, Stored, Exists
  <2>2. \A S \in {Stored(Docs), Stored(Rfps), events \cap Docs, events \cap Rfps} :
           IsFiniteSet(S) /\ Cardinality(S) = 0
    BY <2>1, FS_EmptySet
  <2> QED
    BY <1>0, <2>2, RoomSeen DEF Rooms
<1>2. ASSUME TypeOK, Located, OneAtATime, Rooms, [Next]_vars PROVE Rooms'
  <2>1. ASSUME \A x \in Ids : Exists(x)' => Exists(x),
               events' \subseteq events,
               \A x \in Ids, p \in Procs :
                  home'[x] = {p} /\ pc'[x] \in {"checked", "saved"} =>
                     home[x] = {p} /\ pc[x] \in {"checked", "saved"}
        PROVE  Rooms'
    <3>1. \A kind \in {Docs, Rfps} : /\ Stored(kind)' \subseteq Stored(kind)
                                     /\ Pending(kind)' \subseteq Pending(kind)
                                     /\ (events \cap kind)' \subseteq events \cap kind
      BY <2>1 DEF Stored, Pending
    <3> QED
      BY <1>0, <1>2, <3>1, RoomKept DEF Rooms
  <2> USE DEF TypeOK
  <2>2. ASSUME NEW p \in Procs, NEW d \in Ids, CheckKnowledge(p, d) PROVE Rooms'
    <3>1. d \in Docs /\ Arrives(p, d)
      BY <2>2 DEF CheckKnowledge
    <3>2. /\ Stored(Docs)' = Stored(Docs) /\ Stored(Rfps)' = Stored(Rfps) /\ events' = events
          /\ Pending(Rfps)' \subseteq Pending(Rfps)
      BY <1>2, <3>1 DEF Arrives, Stored, Exists, Pending
    <3>3. Cardinality(Stored(Docs)) < MaxDocs /\ Cardinality(events \cap Docs) < WeeklyCap
      BY <2>2 DEF CheckKnowledge, Stored
    <3> QED
      BY <1>0, <1>2, <3>2, <3>3, RoomSeen, RoomKept DEF Rooms, HasRoom
  <2>3. ASSUME NEW p \in Procs, NEW r \in Ids, CheckRfp(p, r) PROVE Rooms'
    <3>1. r \in Rfps /\ Arrives(p, r)
      BY <2>3 DEF CheckRfp
    <3>2. /\ Stored(Docs)' = Stored(Docs) /\ Stored(Rfps)' = Stored(Rfps) /\ events' = events
          /\ Pending(Docs)' \subseteq Pending(Docs)
      BY <1>2, <3>1 DEF Arrives, Stored, Exists, Pending
    <3>3. Cardinality(Stored(Rfps)) < 1 /\ Cardinality(events \cap Rfps) < WeeklyRfpCap
      <4>1. Stored(Rfps) = {}
        BY <2>3 DEF CheckRfp, Stored
      <4> QED
        BY <2>3, <4>1, FS_EmptySet DEF CheckRfp
    <3> QED
      BY <1>0, <1>2, <3>2, <3>3, RoomSeen, RoomKept DEF Rooms, HasRoom
  <2>4. ASSUME NEW x \in Ids, NEW kind \in {Docs, Rfps}, x \in kind, pc[x] = "saved",
               Goto(x, "inserted") \/ Ends(x),
               \A y \in Ids \ {x} : row'[y] = row[y],
               events' = events \cup {x}
        PROVE  /\ \E p \in Pending(kind) : Pending(kind)' \subseteq Pending(kind) \ {p}
               /\ Stored(kind)' \subseteq Stored(kind) \cup {x}
               /\ (events \cap kind)' \subseteq (events \cap kind) \cup {x}
               /\ \A other \in {Docs, Rfps} \ {kind} :
                     /\ Pending(other)' \subseteq Pending(other)
                     /\ Stored(other)' \subseteq Stored(other)
                     /\ (events \cap other)' \subseteq events \cap other
    <3>1. PICK p \in Procs : home[x] = {p}
      BY <1>2, <2>4 DEF Located, LocatedAt
    <3>2. /\ pc'[x] \in {"inserted", "ended"}
          /\ \A y \in Ids \ {x} : pc'[y] = pc[y] /\ home'[y] = home[y]
      BY <1>2, <2>4 DEF Goto, Ends
    <3>3. p \in Pending(kind) /\ Pending(kind)' \subseteq Pending(kind) \ {p}
      <4>1. p \in Pending(kind)
        BY <2>4, <3>1 DEF Pending
      <4>2. ASSUME NEW q \in Pending(kind)' PROVE q \in Pending(kind) \ {p}
        <5>1. PICK y \in kind : home'[y] = {q} /\ pc'[y] \in {"checked", "saved"}
          BY DEF Pending
        <5>2. y # x /\ y \in Ids
          BY <3>2, <5>1
        <5>3. home[y] = {q} /\ pc[y] \in {"checked", "saved"}
          BY <3>2, <5>1, <5>2
        <5>4. q # p
          <6>1. /\ home[x] = {p} /\ pc[x] # "embedding"
                /\ home[y] = {q} /\ pc[y] # "embedding"
            BY <2>4, <3>1, <5>3
          <6> QED
            BY <1>2, <5>2, <6>1 DEF OneAtATime
        <5> QED
          BY <5>3, <5>4 DEF Pending
      <4> QED
        BY <4>1, <4>2
    <3>4. \A other \in {Docs, Rfps} \ {kind} : x \notin other /\ other \subseteq Ids
      BY <2>4
    <3>5. Stored(kind)' \subseteq Stored(kind) \cup {x}
      BY <2>4 DEF Stored, Exists
    <3>6. \A other \in {Docs, Rfps} \ {kind} : Pending(other)' \subseteq Pending(other)
      BY <3>2, <3>4 DEF Pending
    <3>7. \A other \in {Docs, Rfps} \ {kind} : Stored(other)' \subseteq Stored(other)
      BY <2>4, <3>4 DEF Stored, Exists
    <3> QED
      BY <2>4, <3>3, <3>4, <3>5, <3>6, <3>7
  <2>5. ASSUME NEW d \in Ids, InsertKnowledge(d) PROVE Rooms'
    <3>1. /\ d \in Docs /\ pc[d] = "saved" /\ Goto(d, "inserted") /\ events' = events \cup {d}
          /\ \A y \in Ids \ {d} : row'[y] = row[y]
      BY <1>2, <2>5 DEF InsertKnowledge
    <3>2. PICK p \in Pending(Docs) : Pending(Docs)' \subseteq Pending(Docs) \ {p}
      BY <2>4, <3>1
    <3>3. /\ Stored(Docs)' \subseteq Stored(Docs) \cup {d}
          /\ (events \cap Docs)' \subseteq (events \cap Docs) \cup {d}
      BY <2>4, <3>1
    <3>4. Docs = Rfps \/ /\ Pending(Rfps)' \subseteq Pending(Rfps)
                         /\ Stored(Rfps)' \subseteq Stored(Rfps)
                         /\ (events \cap Rfps)' \subseteq events \cap Rfps
      BY <2>4, <3>1
    <3>5. Docs # Rfps
      BY <3>1
    <3>6. /\ HasRoom(Stored(Docs)', Pending(Docs)', MaxDocs)
          /\ HasRoom((events \cap Docs)', Pending(Docs)', WeeklyCap)
      <4>1. /\ HasRoom(Stored(Docs), Pending(Docs), MaxDocs)
            /\ HasRoom(events \cap Docs, Pending(Docs), WeeklyCap)
            /\ MaxDocs \in Nat /\ WeeklyCap \in Nat /\ Pending(Docs) \subseteq Procs
        BY <1>0, <1>2 DEF Rooms
      <4>2. Pending(Docs)' \subseteq Pending(Docs) /\ Pending(Docs)' # Pending(Docs)
        BY <3>2
      <4>3. /\ IsFiniteSet(Stored(Docs)')
            /\ Cardinality(Stored(Docs)') <= Cardinality(Stored(Docs)) + 1
        BY <3>3, <4>1, OneMore DEF HasRoom
      <4>4. /\ IsFiniteSet((events \cap Docs)')
            /\ Cardinality((events \cap Docs)') <= Cardinality(events \cap Docs) + 1
        BY <3>3, <4>1, OneMore DEF HasRoom
      <4> QED
        BY <4>1, <4>2, <4>3, <4>4, RoomTaken
    <3>7. /\ HasRoom(Stored(Rfps)', Pending(Rfps)', 1)
          /\ HasRoom((events \cap Rfps)', Pending(Rfps)', WeeklyRfpCap)
      BY <1>0, <1>2, <3>4, <3>5, RoomKept DEF Rooms
    <3> QED
      BY <3>6, <3>7 DEF Rooms
  <2>6. ASSUME NEW r \in Ids, InsertRfp(r) PROVE Rooms'
    <3>1. /\ r \in Rfps /\ pc[r] = "saved" /\ Ends(r) /\ events' = events \cup {r}
          /\ \A y \in Ids \ {r} : row'[y] = row[y]
      BY <1>2, <2>6 DEF InsertRfp
    <3>2. PICK p \in Pending(Rfps) : Pending(Rfps)' \subseteq Pending(Rfps) \ {p}
      BY <2>4, <3>1
    <3>3. /\ Stored(Rfps)' \subseteq Stored(Rfps) \cup {r}
          /\ (events \cap Rfps)' \subseteq (events \cap Rfps) \cup {r}
      BY <2>4, <3>1
    <3>4. Docs = Rfps \/ /\ Pending(Docs)' \subseteq Pending(Docs)
                         /\ Stored(Docs)' \subseteq Stored(Docs)
                         /\ (events \cap Docs)' \subseteq events \cap Docs
      BY <2>4, <3>1
    <3>5. Docs # Rfps
      BY <3>1
    <3>6. /\ HasRoom(Stored(Rfps)', Pending(Rfps)', 1)
          /\ HasRoom((events \cap Rfps)', Pending(Rfps)', WeeklyRfpCap)
      <4>1. /\ HasRoom(Stored(Rfps), Pending(Rfps), 1)
            /\ HasRoom(events \cap Rfps, Pending(Rfps), WeeklyRfpCap)
            /\ 1 \in Nat /\ WeeklyRfpCap \in Nat /\ Pending(Rfps) \subseteq Procs
        BY <1>0, <1>2 DEF Rooms
      <4>2. Pending(Rfps)' \subseteq Pending(Rfps) /\ Pending(Rfps)' # Pending(Rfps)
        BY <3>2
      <4>3. /\ IsFiniteSet(Stored(Rfps)')
            /\ Cardinality(Stored(Rfps)') <= Cardinality(Stored(Rfps)) + 1
        BY <3>3, <4>1, OneMore DEF HasRoom
      <4>4. /\ IsFiniteSet((events \cap Rfps)')
            /\ Cardinality((events \cap Rfps)') <= Cardinality(events \cap Rfps) + 1
        BY <3>3, <4>1, OneMore DEF HasRoom
      <4> QED
        BY <4>1, <4>2, <4>3, <4>4, RoomTaken
    <3>7. /\ HasRoom(Stored(Docs)', Pending(Docs)', MaxDocs)
          /\ HasRoom((events \cap Docs)', Pending(Docs)', WeeklyCap)
      BY <1>0, <1>2, <3>4, <3>5, RoomKept DEF Rooms
    <3> QED
      BY <3>6, <3>7 DEF Rooms
  <2>7. ASSUME NEW x \in Ids, SaveFile(x) \/ InsertFails(x) \/ RemoveFile(x) \/ FileFails(x)
        PROVE  Rooms'
    <3>1. /\ UNCHANGED <<row, events>>
          /\ \A y \in Ids : home'[y] # {} => home'[y] = home[y]
          /\ \A y \in Ids : pc'[y] \in {"checked", "saved"} => pc[y] \in {"checked", "saved"}
      BY <1>2, <2>7 DEF SaveFile, InsertFails, RemoveFile, FileFails, Goto, Ends
    <3> QED
      BY <2>1, <3>1 DEF Exists
  <2>8. ASSUME NEW d \in Docs, IngestStep(d) PROVE Rooms'
    <3>1. events' = events /\ \A x \in Ids : Exists(x)' => Exists(x)
      BY <1>2, <2>8
         DEF IngestStep, SetStage, Parse, Lookup, Duplicate, EmbedReturns, Store, Raises, Fail,
             SetRow, Exists
    <3>2. Ends(d) \/ \E label \in Ingesting \cup {"raised"} : Goto(d, label)
      BY <2>8
         DEF IngestStep, SetStage, Parse, Lookup, AfterChunking, Duplicate, EmbedReturns, Store,
             Raises, Fail, Ingesting
    <3>3. /\ \A y \in Ids : home'[y] # {} => home'[y] = home[y]
          /\ \A y \in Ids : pc'[y] \in {"checked", "saved"} => pc[y] \in {"checked", "saved"}
      BY <1>2, <3>2 DEF Goto, Ends, Ingesting
    <3> QED
      BY <2>1, <3>1, <3>3
  <2>9. ASSUME NEW p \in Procs, Crash(p) PROVE Rooms'
    <3>1. /\ UNCHANGED <<row, events>>
          /\ \A y \in Ids : home'[y] # {} => home'[y] = home[y]
          /\ \A y \in Ids : pc'[y] \in {"checked", "saved"} => pc[y] \in {"checked", "saved"}
      BY <1>2, <2>9 DEF Crash
    <3> QED
      BY <2>1, <3>1 DEF Exists
  <2>10. ASSUME UNCHANGED <<home, pc>>, events' \subseteq events,
                \A x \in Ids : row'[x] = row[x] \/ row'[x] = "gone"
         PROVE  Rooms'
    BY <2>1, <2>10 DEF Exists
  <2>11. ASSUME NEW p \in Procs, NEW x \in Ids, \/ DeleteRow(p, x) \/ DeleteFile(x)
                                              \/ DeleteFileFails(x) \/ WeekPasses(x)
         PROVE  Rooms'
    BY <1>2, <2>10, <2>11 DEF DeleteRow, DeleteFile, DeleteFileFails, WeekPasses
  <2>12. ASSUME Configure \/ GuestLeaves \/ PurgeFiles \/ PurgeRows \/ UNCHANGED vars PROVE Rooms'
    BY <1>2, <2>10, <2>12 DEF Configure, GuestLeaves, PurgeFiles, PurgeRows, vars
  <2>13. \E p : p \in Procs
    OBVIOUS
  <2> QED
    BY <1>2, <2>2, <2>3, <2>5, <2>6, <2>7, <2>8, <2>9, <2>11, <2>12, <2>13 DEF Next, UploadStep
<1> QED
  BY <1>1, <1>2

(* The caps on documents, on RFPs and on the uploads of a week may be      *)
(* exceeded, but by less than one for each process (knowledge.py:71-98,    *)
(* documents.py:98-113).                                                   *)
THEOREM CapsBoundedCorrect == Spec => []CapsBounded
<1> DEFINE CInv == TypeOK /\ Located /\ OneAtATime /\ Rooms
<1>1. Init => CInv
  BY TypeInductive, LocatedInductive, OneAtATimeInductive, RoomsInductive
<1>2. CInv /\ [Next]_vars => CInv'
  BY TypeInductive, LocatedInductive, OneAtATimeInductive, RoomsInductive
<1>3. CInv => CapsBounded
  <2>1. \A S, P, cap : P \subseteq Procs /\ cap \in Nat /\ HasRoom(S, P, cap) =>
                          Cardinality(S) < cap + Cardinality(Procs)
    BY ProcsFinite, FS_CardinalityType DEF HasRoom
  <2>2. \A kind : Pending(kind) \subseteq Procs
    BY DEF Pending
  <2> QED
    BY <2>1, <2>2, KnowledgeAssumption DEF Rooms, CapsBounded
<1> HIDE DEF CInv
<1> QED
  BY <1>1, <1>2, <1>3, PTL DEF Spec

-----------------------------------------------------------------------------
(* What retrieval finds.  A document has chunks, its hash is set and its   *)
(* row is ready together; one that was found to be a duplicate has an      *)
(* original, which may have been deleted since.                            *)

IsOriginal(e) == row[e] = "gone" \/ e \in hashed

AnsweringAt(d) ==
    /\ chunks[d] # <<>> <=> d \in hashed
    /\ d \in hashed => row[d] = "ready"
    /\ row[d] = "ready" => pc[d] = "ended" /\ \E e \in Docs : SameWords(e, d) /\ IsOriginal(e)
    /\ pc[d] \in {"embedding", "storing", "unembedded"} => ChunkBlocks(text[d]) # <<>>
    /\ pc[d] = "duplicate" => \E e \in Docs \ {d} : SameWords(e, d) /\ IsOriginal(e)

Answering == \A d \in Docs : AnsweringAt(d)

AInv == TypeOK /\ Located /\ Answering

(* Every step keeps the chunks to the rows, and the originals.             *)
LEMMA AnsweringInductive ==
    /\ Init => Answering
    /\ AInv /\ [Next]_vars => Answering'
<1> USE KnowledgeAssumption DEF Ids
<1>1. Init => Answering
  BY DEF Init, Answering, AnsweringAt
<1>2. ASSUME AInv, [Next]_vars PROVE Answering'
  <2>0. TypeOK /\ Located /\ Answering
    BY <1>2 DEF AInv
  <2> SUFFICES ASSUME NEW x \in Docs PROVE AnsweringAt(x)'
    BY DEF Answering
  <2>1. AnsweringAt(x) /\ LocatedAt(x) /\ x \in Ids
    BY <2>0 DEF Answering, Located
  <2> USE <2>0 DEF TypeOK
  <2>2. ASSUME NEW p \in Procs, NEW y \in Ids, CheckKnowledge(p, y) \/ CheckRfp(p, y)
        PROVE  AnsweringAt(x)'
    <3>1. Arrives(p, y) /\ pc[y] = "new"
      BY <2>2 DEF CheckKnowledge, CheckRfp
    <3> QED
      BY <2>1, <3>1 DEF Arrives, AnsweringAt, LocatedAt, IsOriginal, SameWords
  <2>3. ASSUME NEW y \in Ids, SaveFile(y) \/ InsertFails(y) \/ RemoveFile(y) \/ FileFails(y)
        PROVE  AnsweringAt(x)'
    BY <2>1, <2>3
       DEF SaveFile, InsertFails, RemoveFile, FileFails, Goto, Ends, AnsweringAt, LocatedAt, IsOriginal,
           SameWords
  <2>4. ASSUME NEW y \in Ids, InsertKnowledge(y) \/ InsertRfp(y) PROVE AnsweringAt(x)'
    <3>1. /\ pc[y] = "saved" /\ UNCHANGED <<text, hashed, chunks>>
          /\ \E s \in {"pending", "uploaded"} : row' = [row EXCEPT ![y] = s]
          /\ Goto(y, "inserted") \/ Ends(y)
      BY <2>4 DEF InsertKnowledge, InsertRfp
    <3>2. row[y] = "none"
      BY <3>1 DEF Located, LocatedAt
    <3>3. y \in Docs => y \notin hashed
      BY <3>2 DEF Answering, AnsweringAt
    <3>4. \A e \in Docs : IsOriginal(e) => IsOriginal(e)'
      BY <3>1, <3>2 DEF IsOriginal
    <3> QED
      BY <2>1, <3>1, <3>2, <3>3, <3>4 DEF Goto, Ends, AnsweringAt, SameWords
  <2>5. ASSUME NEW d \in Docs, SetStage(d) \/ Parse(d) \/ EmbedReturns(d) \/ Raises(d)
        PROVE  AnsweringAt(x)'
    <3>1. /\ UNCHANGED <<text, hashed, chunks>>
          /\ pc[d] \in Ingesting
          /\ UNCHANGED row \/ SetRow(d, "processing")
          /\ \/ \E label \in {"reading", "parsed", "raised"} : Goto(d, label)
             \/ pc[d] = "embedding" /\ Goto(d, "storing")
      BY <2>5 DEF SetStage, Parse, EmbedReturns, Raises, Ingesting
    <3>2. pc[d] # "ended" /\ row[d] \in {"pending", "processing", "gone"}
      BY <3>1 DEF Located, LocatedAt, Ingesting
    <3>3. \A e \in Docs : IsOriginal(e) => IsOriginal(e)'
      BY <3>1, <3>2 DEF IsOriginal, SetRow, Exists
    <3> QED
      BY <2>1, <3>1, <3>2, <3>3 DEF Goto, SetRow, AnsweringAt, SameWords
  <2>6. ASSUME NEW d \in Docs, Lookup(d) PROVE AnsweringAt(x)'
    <3>1. /\ UNCHANGED <<text, hashed, chunks, row>> /\ pc[d] = "parsed"
          /\ \/ Goto(d, "duplicate") /\ \E e \in Docs : HoldsHash(e, d)
             \/ /\ Goto(d, "embedding") \/ Goto(d, "unembedded")
                /\ ChunkBlocks(text[d]) # <<>>
             \/ Goto(d, "raised")
      BY <2>6 DEF Lookup, AfterChunking
    <3>2. \A e \in Docs : IsOriginal(e)' <=> IsOriginal(e)
      BY <3>1 DEF IsOriginal
    <3> QED
      BY <2>1, <3>1, <3>2 DEF Goto, AnsweringAt, HoldsHash, IsOriginal, SameWords
  <2>7. ASSUME NEW d \in Docs, Duplicate(d) \/ Fail(d) PROVE AnsweringAt(x)'
    <3>1. /\ UNCHANGED <<text, hashed, chunks>> /\ Ends(d)
          /\ pc[d] \in {"duplicate", "raised"}
          /\ SetRow(d, "ready") \/ SetRow(d, "failed")
      BY <2>7 DEF Duplicate, Fail
    <3>2. row[d] \in {"pending", "processing", "gone"}
      BY <3>1 DEF Located, LocatedAt, Ingesting
    <3>3. d \notin hashed
      BY <3>2 DEF Answering, AnsweringAt
    <3>4. \A e \in Docs : IsOriginal(e) => IsOriginal(e)'
      BY <3>1, <3>2 DEF IsOriginal, SetRow, Exists
    <3>5. CASE x = d
      <4>1. pc[d] = "duplicate" => \E e \in Docs : SameWords(e, d)' /\ IsOriginal(e)'
        BY <2>1, <3>1, <3>4, <3>5 DEF AnsweringAt, SameWords
      <4>2. pc[d] = "raised" => row'[d] # "ready"
        BY <2>7, <3>2 DEF Duplicate, Fail, SetRow, Exists
      <4>3. pc'[d] = "ended" /\ chunks'[d] = chunks[d] /\ d \notin hashed'
        BY <3>1, <3>3 DEF Ends
      <4> QED
        BY <2>1, <3>1, <3>3, <3>5, <4>1, <4>2, <4>3 DEF AnsweringAt
    <3>6. CASE x # d
      <4>1. /\ chunks'[x] = chunks[x] /\ row'[x] = row[x] /\ pc'[x] = pc[x]
            /\ x \in hashed' <=> x \in hashed
        BY <3>1, <3>6 DEF Ends, SetRow
      <4> QED
        BY <2>1, <3>1, <3>4, <4>1 DEF AnsweringAt, SameWords
    <3> QED
      BY <3>5, <3>6
  <2>8. ASSUME NEW d \in Docs, Store(d) PROVE AnsweringAt(x)'
    <3>1. pc[d] \in {"storing", "unembedded"} /\ UNCHANGED text /\ ChunkBlocks(text[d]) # <<>>
      BY <2>8 DEF Store, Answering, AnsweringAt
    <3>2. CASE Goto(d, "raised") /\ UNCHANGED <<row, hashed, chunks>>
      BY <2>1, <3>1, <3>2 DEF Goto, AnsweringAt, IsOriginal, SameWords
    <3>3. CASE /\ Exists(d) /\ Ends(d)
               /\ chunks' = [chunks EXCEPT ![d] = ChunkBlocks(text[d])]
               /\ hashed' = hashed \cup {d}
               /\ row' = [row EXCEPT ![d] = "ready"]
      <4>1. \A e \in Docs : IsOriginal(e) => IsOriginal(e)'
        BY <3>3 DEF IsOriginal, Exists
      <4>2. CASE x = d
        <5>1. /\ chunks'[d] = ChunkBlocks(text[d]) /\ d \in hashed'
              /\ row'[d] = "ready" /\ pc'[d] = "ended"
          BY <3>3 DEF Ends
        <5>2. SameWords(d, d)' /\ IsOriginal(d)'
          BY <5>1 DEF SameWords, IsOriginal
        <5> QED
          BY <3>1, <4>2, <5>1, <5>2 DEF AnsweringAt
      <4>3. CASE x # d
        <5>1. /\ chunks'[x] = chunks[x] /\ row'[x] = row[x] /\ pc'[x] = pc[x]
              /\ x \in hashed' <=> x \in hashed
          BY <3>3, <4>3 DEF Ends
        <5> QED
          BY <2>1, <3>1, <4>1, <5>1 DEF AnsweringAt, SameWords
      <4> QED
        BY <4>2, <4>3
    <3> QED
      BY <2>8, <3>2, <3>3 DEF Store
  <2>9. ASSUME NEW p \in Procs, NEW y \in Ids, DeleteRow(p, y) PROVE AnsweringAt(x)'
    <3>1. \A e \in Docs : IsOriginal(e) => IsOriginal(e)'
      BY <2>9 DEF DeleteRow, IsOriginal
    <3>2. /\ chunks'[x] = IF x = y THEN <<>> ELSE chunks[x]
          /\ row'[x] = IF x = y THEN "gone" ELSE row[x]
          /\ x \in hashed' <=> x \in hashed /\ x # y
          /\ UNCHANGED <<text, pc>>
      BY <2>1, <2>9 DEF DeleteRow
    <3> QED
      BY <2>1, <3>1, <3>2 DEF AnsweringAt, SameWords
  <2>10. ASSUME NEW p \in Procs, Crash(p) PROVE AnsweringAt(x)'
    <3>1. /\ UNCHANGED <<text, row, hashed, chunks>>
          /\ pc'[x] = pc[x] \/ pc'[x] = "ended"
      BY <2>1, <2>10 DEF Crash
    <3>2. \A e \in Docs : IsOriginal(e) => IsOriginal(e)'
      BY <3>1 DEF IsOriginal
    <3> QED
      BY <2>1, <3>1, <3>2 DEF AnsweringAt, SameWords
  <2>11. ASSUME PurgeRows PROVE AnsweringAt(x)'
    <3>1. \A e \in Docs : IsOriginal(e) => IsOriginal(e)'
      BY <2>11 DEF PurgeRows, IsOriginal, Exists, Answering, AnsweringAt
    <3>2. /\ chunks'[x] = <<>> /\ row'[x] \in {"none", "gone"} /\ x \notin hashed'
          /\ UNCHANGED <<text, pc>>
      BY <2>1, <2>11 DEF PurgeRows, Exists
    <3> QED
      BY <2>1, <3>1, <3>2 DEF AnsweringAt, SameWords
  <2>12. ASSUME UNCHANGED <<text, row, hashed, chunks, pc>> PROVE AnsweringAt(x)'
    BY <2>1, <2>12 DEF AnsweringAt, IsOriginal, SameWords
  <2> QED
    BY <1>2, <2>2, <2>3, <2>4, <2>5, <2>6, <2>7, <2>8, <2>9, <2>10, <2>11, <2>12
       DEF Next, UploadStep, IngestStep, DeleteFile, DeleteFileFails, WeekPasses, Configure, GuestLeaves, PurgeFiles, vars
<1> QED
  BY <1>1, <1>2

(* All of it together.                                                     *)
LEMMA AInvInductive ==
    /\ Init => AInv
    /\ AInv /\ [Next]_vars => AInv'
BY TypeInductive, LocatedInductive, AnsweringInductive DEF AInv

(* What retrieval finds is the whole text of a ready document, block by    *)
(* block, under its section and with its pages, however uploads, deletions *)
(* and crashes interleave (ingest.py:91-133, chunk.py:50-105).             *)
THEOREM AnswerableIsWholeCorrect == Spec => []AnswerableIsWhole
<1>1. AInv => AnswerableIsWhole
  <2> SUFFICES ASSUME AInv, NEW d \in Docs, chunks[d] # <<>>
               PROVE  row[d] = "ready" /\ Whole(chunks[d], text[d])
    BY DEF AnswerableIsWhole
  <2>1. row[d] = "ready"
    BY DEF AInv, Answering, AnsweringAt
  <2>2. chunks[d] = ChunkBlocks(text[d]) /\ text[d] \in Text
    BY DEF AInv, TypeOK
  <2> QED
    BY <2>1, <2>2, ChunksWhole
<1> QED
  BY <1>1, AInvInductive, PTL DEF Spec

(* The words of a ready document are among the chunks until a document of  *)
(* the same words is deleted: a duplicate is set aside only for one that   *)
(* had them (ingest.py:73-86).                                             *)
THEOREM RetrievableUnlessDeletedCorrect == Spec => []RetrievableUnlessDeleted
<1>1. AInv => RetrievableUnlessDeleted
  BY DEF AInv, Answering, AnsweringAt, IsOriginal, RetrievableUnlessDeleted
<1> QED
  BY <1>1, AInvInductive, PTL DEF Spec

(* Every stored chunk is as long as the targets say, for any targets       *)
(* (chunk.py:79-105).                                                      *)
THEOREM ChunksSizedCorrect == Spec => []ChunksSized
<1>1. TypeOK => ChunksSized
  <2> SUFFICES ASSUME TypeOK, NEW d \in Docs PROVE Sized(chunks[d], text[d])
    BY DEF ChunksSized
  <2>1. CASE chunks[d] = <<>>
    BY <2>1 DEF Sized
  <2>2. CASE chunks[d] # <<>>
    <3>1. chunks[d] = ChunkBlocks(text[d]) /\ text[d] \in Text
      BY <2>2 DEF TypeOK
    <3> QED
      BY <3>1, ChunksSizedWell
  <2> QED
    BY <2>1, <2>2
<1> QED
  BY <1>1, TypeInductive, PTL DEF Spec

-----------------------------------------------------------------------------
(* The refinement: each step of the knowledge base is one of the corpus,   *)
(* or leaves the status of every document as it is.                        *)

\* What the status of a document depends on.
Same(d) == UNCHANGED <<row[d], chunks[d]>>

(* The status of a document follows from its row and its chunks, in each   *)
(* state and in the next.                                                  *)
LEMMA StatusOf ==
    ASSUME NEW d \in Docs
    PROVE  /\ row[d] = "none" <=> DocStatus(d) = "absent"
           /\ row[d] \in {"pending", "processing"} <=> DocStatus(d) = "ingesting"
           /\ row[d] = "ready" /\ chunks[d] # <<>> <=> DocStatus(d) = "answerable"
           /\ row[d] = "ready" /\ chunks[d] = <<>> <=> DocStatus(d) = "duplicate"
           /\ row[d] = "failed" <=> DocStatus(d) = "failed"
           /\ row[d] \notin {"none", "pending", "processing", "ready", "failed"} <=>
                 DocStatus(d) = "deleted"
BY DEF DocStatus

(* The same of the next state. *)
LEMMA StatusNext ==
    ASSUME NEW d \in Docs
    PROVE  /\ row'[d] = "none" => DocStatus(d)' = "absent"
           /\ row'[d] \in {"pending", "processing"} => DocStatus(d)' = "ingesting"
           /\ row'[d] = "ready" /\ chunks'[d] # <<>> => DocStatus(d)' = "answerable"
           /\ row'[d] = "ready" /\ chunks'[d] = <<>> => DocStatus(d)' = "duplicate"
           /\ row'[d] = "failed" => DocStatus(d)' = "failed"
           /\ row'[d] = "gone" => DocStatus(d)' = "deleted"
           /\ Same(d) => DocStatus(d)' = DocStatus(d)
BY DEF DocStatus, Same

(* The step of one document is a step of the corpus.                       *)
LEMMA OneDocument ==
    ASSUME NEW d \in Docs, NEW new, DocStatus(d)' = new,
           \A e \in Docs \ {d} : Same(e), UNCHANGED text
    PROVE  AbstractCorpus!Becomes(d, new)
<1>1. \A e \in Docs \ {d} : DocStatus(e)' = DocStatus(e)
  BY StatusNext
<1> QED
  BY <1>1 DEF AbstractCorpus!Becomes

(* Where no document changes, the corpus stutters.                         *)
LEMMA NoDocument ==
    ASSUME \A d \in Docs : Same(d), UNCHANGED text
    PROVE  UNCHANGED AbstractCorpus!vars
<1>1. \A d \in Docs : DocStatus(d)' = DocStatus(d)
  BY StatusNext
<1> QED
  BY <1>1 DEF AbstractCorpus!vars

(* Every step maps to a step of the corpus or to a stutter.                *)
LEMMA StepRefines ==
    ASSUME AInv, [Next]_vars
    PROVE  [AbstractCorpus!Next]_(AbstractCorpus!vars)
<1> USE KnowledgeAssumption DEF Ids
<1>0. TypeOK /\ Located /\ Answering
  BY DEF AInv
<1> USE <1>0 DEF TypeOK
<1>1. ASSUME UNCHANGED <<text, row, chunks>> PROVE UNCHANGED AbstractCorpus!vars
  BY <1>1, NoDocument DEF Same
<1>2. ASSUME NEW d \in Ids, InsertKnowledge(d) PROVE AbstractCorpus!Next
  <2>1. /\ d \in Docs /\ row[d] = "none" /\ row'[d] = "pending" /\ UNCHANGED text
        /\ \A e \in Docs \ {d} : Same(e)
    BY <1>2 DEF InsertKnowledge, Same, Located, LocatedAt
  <2>2. AbstractCorpus!Upload(d)
    BY <2>1, StatusOf, StatusNext, OneDocument DEF AbstractCorpus!Upload
  <2> QED
    BY <2>1, <2>2 DEF AbstractCorpus!Next
<1>3. ASSUME NEW r \in Ids, InsertRfp(r) PROVE UNCHANGED AbstractCorpus!vars
  <2>1. UNCHANGED text /\ \A d \in Docs : Same(d)
    BY <1>3 DEF InsertRfp, Same
  <2> QED
    BY <2>1, NoDocument
<1>4. ASSUME NEW d \in Docs, SetStage(d) PROVE UNCHANGED AbstractCorpus!vars
  <2>1. /\ row[d] \in {"pending", "processing", "gone"} /\ UNCHANGED <<text, chunks>>
        /\ SetRow(d, "processing")
    BY <1>4 DEF SetStage, Located, LocatedAt, Ingesting
  <2>2. DocStatus(d)' = DocStatus(d)
    BY <2>1, StatusOf, StatusNext DEF SetRow, Exists, Same
  <2>3. \A e \in Docs \ {d} : Same(e)
    BY <2>1 DEF SetRow, Same
  <2>4. \A e \in Docs : DocStatus(e)' = DocStatus(e)
    BY <2>2, <2>3, StatusNext
  <2> QED
    BY <2>1, <2>4 DEF AbstractCorpus!vars
<1>5. ASSUME NEW d \in Docs, Duplicate(d) PROVE [AbstractCorpus!Next]_(AbstractCorpus!vars)
  <2>1. /\ row[d] \in {"pending", "processing", "gone"} /\ UNCHANGED <<text, chunks>>
        /\ SetRow(d, "ready") /\ pc[d] = "duplicate"
    BY <1>5 DEF Duplicate, Located, LocatedAt, Ingesting
  <2>2. \A e \in Docs \ {d} : Same(e)
    BY <2>1 DEF SetRow, Same
  <2>3. CASE row[d] = "gone"
    <3>1. \A e \in Docs : Same(e)
      BY <2>1, <2>2, <2>3 DEF SetRow, Exists, Same
    <3> QED
      BY <2>1, <3>1, NoDocument
  <2>4. CASE row[d] \in {"pending", "processing"}
    <3>1. row'[d] = "ready" /\ chunks'[d] = <<>>
      BY <2>1, <2>4 DEF SetRow, Exists, Answering, AnsweringAt
    <3>2. PICK e \in Docs \ {d} : SameWords(e, d) /\ IsOriginal(e)
      BY <2>1 DEF Answering, AnsweringAt
    <3>3. DocStatus(e) \in {"answerable", "deleted"}
      BY <3>2, StatusOf DEF IsOriginal, Answering, AnsweringAt
    <3>4. AbstractCorpus!SetAside(d)
      BY <2>1, <2>2, <2>4, <3>1, <3>2, <3>3, StatusOf, StatusNext, OneDocument
         DEF AbstractCorpus!SetAside, AbstractCorpus!InCorpus, SameWords
    <3> QED
      BY <3>4 DEF AbstractCorpus!Next
  <2> QED
    BY <2>1, <2>3, <2>4
<1>6. ASSUME NEW d \in Docs, Fail(d) PROVE [AbstractCorpus!Next]_(AbstractCorpus!vars)
  <2>1. /\ row[d] \in {"pending", "processing", "gone"} /\ UNCHANGED <<text, chunks>>
        /\ SetRow(d, "failed")
    BY <1>6 DEF Fail, Located, LocatedAt, Ingesting
  <2>2. \A e \in Docs \ {d} : Same(e)
    BY <2>1 DEF SetRow, Same
  <2>3. CASE row[d] = "gone"
    <3>1. \A e \in Docs : Same(e)
      BY <2>1, <2>2, <2>3 DEF SetRow, Exists, Same
    <3> QED
      BY <2>1, <3>1, NoDocument
  <2>4. CASE row[d] \in {"pending", "processing"}
    <3>1. row'[d] = "failed"
      BY <2>1, <2>4 DEF SetRow, Exists
    <3>2. AbstractCorpus!Fail(d)
      BY <2>1, <2>2, <2>4, <3>1, StatusOf, StatusNext, OneDocument DEF AbstractCorpus!Fail
    <3> QED
      BY <3>2 DEF AbstractCorpus!Next
  <2> QED
    BY <2>1, <2>3, <2>4
<1>7. ASSUME NEW d \in Docs, Store(d) PROVE [AbstractCorpus!Next]_(AbstractCorpus!vars)
  <2>1. CASE UNCHANGED <<row, chunks>>
    BY <1>1, <1>7, <2>1 DEF Store
  <2>2. CASE /\ Exists(d) /\ ~(\E e \in Docs : HoldsHash(e, d))
             /\ chunks' = [chunks EXCEPT ![d] = ChunkBlocks(text[d])]
             /\ row' = [row EXCEPT ![d] = "ready"]
    <3>1. /\ pc[d] \in {"storing", "unembedded"} /\ UNCHANGED text /\ ChunkBlocks(text[d]) # <<>>
      BY <1>7 DEF Store, Answering, AnsweringAt
    <3>2. row[d] \in {"pending", "processing"}
      BY <2>2, <3>1 DEF Exists, Located, LocatedAt, Ingesting
    <3>3. row'[d] = "ready" /\ chunks'[d] # <<>> /\ \A e \in Docs \ {d} : Same(e)
      BY <2>2, <3>1 DEF Same
    <3>4. ASSUME NEW e \in Docs, DocStatus(e) = "answerable" PROVE ~SameWords(e, d)
      <4>1. e # d /\ e \in hashed
        BY <3>2, <3>4, StatusOf DEF Answering, AnsweringAt
      <4> QED
        BY <2>2, <4>1 DEF HoldsHash
    <3>5. AbstractCorpus!Publish(d)
      BY <3>1, <3>2, <3>3, <3>4, StatusOf, StatusNext, OneDocument
         DEF AbstractCorpus!Publish, AbstractCorpus!InCorpus, SameWords
    <3> QED
      BY <3>5 DEF AbstractCorpus!Next
  <2> QED
    BY <1>7, <2>1, <2>2 DEF Store
<1>8. ASSUME NEW p \in Procs, NEW x \in Ids, DeleteRow(p, x)
      PROVE  [AbstractCorpus!Next]_(AbstractCorpus!vars)
  <2>1. /\ row[x] \notin {"none", "gone"} /\ UNCHANGED text
        /\ \A e \in Docs \ {x} : Same(e)
        /\ row'[x] = "gone"
    BY <1>8 DEF DeleteRow, Exists, Same
  <2>2. CASE x \in Docs
    <3>1. row[x] # "uploaded"
      BY <2>2 DEF Located, LocatedAt
    <3>2. AbstractCorpus!Delete(x)
      BY <2>1, <2>2, <3>1, StatusOf, StatusNext, OneDocument DEF AbstractCorpus!Delete
    <3> QED
      BY <2>2, <3>2 DEF AbstractCorpus!Next
  <2>3. CASE x \notin Docs
    BY <2>1, <2>3, NoDocument
  <2> QED
    BY <2>2, <2>3
<1>9. ASSUME PurgeRows PROVE AbstractCorpus!Next
  <2>1. UNCHANGED text /\ \A d \in Docs : row'[d] = IF row[d] = "none" THEN "none" ELSE "gone"
    BY <1>9 DEF PurgeRows, Exists
  <2>2. \A d \in Docs :
           DocStatus(d)' = IF DocStatus(d) = "absent" THEN "absent" ELSE "deleted"
    BY <2>1, StatusOf, StatusNext
  <2>3. AbstractCorpus!DeleteAll
    BY <2>1, <2>2 DEF AbstractCorpus!DeleteAll
  <2> QED
    BY <2>3 DEF AbstractCorpus!Next
<1>10. ASSUME NEW p \in Procs, NEW x \in Ids, CheckKnowledge(p, x) \/ CheckRfp(p, x)
       PROVE  UNCHANGED AbstractCorpus!vars
  BY <1>1, <1>10 DEF CheckKnowledge, CheckRfp, Arrives
<1>11. ASSUME NEW x \in Ids, \/ SaveFile(x) \/ InsertFails(x) \/ RemoveFile(x) \/ FileFails(x)
                             \/ DeleteFile(x) \/ DeleteFileFails(x) \/ WeekPasses(x)
       PROVE  UNCHANGED AbstractCorpus!vars
  BY <1>1, <1>11 DEF SaveFile, InsertFails, RemoveFile, FileFails, DeleteFile, DeleteFileFails,
                        WeekPasses
<1>12. ASSUME NEW d \in Docs, Parse(d) \/ Lookup(d) \/ EmbedReturns(d) \/ Raises(d)
       PROVE  UNCHANGED AbstractCorpus!vars
  BY <1>1, <1>12 DEF Parse, Lookup, EmbedReturns, Raises
<1>13. ASSUME \/ Configure \/ GuestLeaves \/ PurgeFiles \/ UNCHANGED vars \/ \E p \in Procs : Crash(p)
       PROVE  UNCHANGED AbstractCorpus!vars
  BY <1>1, <1>13 DEF Configure, GuestLeaves, PurgeFiles, Crash, vars
<1> QED
  BY <1>2, <1>3, <1>4, <1>5, <1>6, <1>7, <1>8, <1>9, <1>10, <1>11, <1>12, <1>13
     DEF Next, UploadStep, IngestStep

(* The knowledge base implements the corpus, for any contents and any      *)
(* number of documents and processes: a text is answerable once, at once   *)
(* and until it is deleted (ingest.py:61-133).                             *)
THEOREM KnowledgeImplementsCorpus == Spec => ImplementsCorpus
<1>1. Init => AInv /\ AbstractCorpus!Init
  <2>1. Init => AInv
    BY AInvInductive
  <2>2. Init => AbstractCorpus!Init
    BY StatusOf DEF Init, Ids, AbstractCorpus!Init
  <2> QED
    BY <2>1, <2>2
<1>2. AInv /\ [Next]_vars => AInv'
  BY AInvInductive
<1>3. AInv /\ [Next]_vars => [AbstractCorpus!Next]_(AbstractCorpus!vars)
  BY StepRefines
<1> QED
  BY <1>1, <1>2, <1>3, PTL DEF Spec, ImplementsCorpus, AbstractCorpus!Spec

=============================================================================
