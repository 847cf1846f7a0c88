------------------------------- MODULE Corpus -------------------------------
(***************************************************************************)
(* What a knowledge base promises to the answers that are drawn from it:   *)
(* at any time the answerable documents, each complete and no text twice.  *)
(* A document becomes answerable in one step and stays so until it is      *)
(* deleted; a document whose text is, or was, in the corpus already is     *)
(* kept as a duplicate, which answers nothing.  KnowledgeBase.tla          *)
(* implements this.                                                        *)
(***************************************************************************)
CONSTANTS Docs

VARIABLES
    text,     \* what each document says
    status    \* what has become of it

vars == <<text, status>>

Status == {"absent", "ingesting", "answerable", "duplicate", "failed", "deleted"}

InCorpus(d) == status[d] = "answerable"

Becomes(d, new) == status' = [status EXCEPT ![d] = new] /\ UNCHANGED text

Init == status = [d \in Docs |-> "absent"]

Upload(d) == status[d] = "absent" /\ Becomes(d, "ingesting")

Publish(d) ==
    /\ status[d] = "ingesting"
    /\ \A e \in Docs : InCorpus(e) => text[e] # text[d]
    /\ Becomes(d, "answerable")

\* The original may have been deleted since it was found.
SetAside(d) ==
    /\ status[d] = "ingesting"
    /\ \E e \in Docs \ {d} : text[e] = text[d] /\ (InCorpus(e) \/ status[e] = "deleted")
    /\ Becomes(d, "duplicate")

Fail(d) == status[d] = "ingesting" /\ Becomes(d, "failed")

Delete(d) == status[d] \notin {"absent", "deleted"} /\ Becomes(d, "deleted")

\* The workspace is purged.
DeleteAll ==
    /\ status' = [d \in Docs |-> IF status[d] = "absent" THEN "absent" ELSE "deleted"]
    /\ UNCHANGED text

Next ==
    \/ \E d \in Docs : Upload(d) \/ Publish(d) \/ SetAside(d) \/ Fail(d) \/ Delete(d)
    \/ DeleteAll

Spec == Init /\ [][Next]_vars

=============================================================================
