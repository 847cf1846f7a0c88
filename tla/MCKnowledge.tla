---------------------------- MODULE MCKnowledge ----------------------------
(***************************************************************************)
(* A small instance of the uploads for TLC.                                *)
(***************************************************************************)
EXTENDS KnowledgeProperties, TLC

CONSTANTS d1, d2, d3, r1, r2

\* Blocks at the boundaries of TargetMin = 2 and TargetMax = 3: two of the
\* short ones reach the first, two and a half exceed 1.5 times the second.
Kinds ==
    {<<"heading", 1, 1>>, <<"heading", 2, 1>>} \cup
    ({"paragraph"} \X {0} \X {1, 2, 5}) \cup ({"list_item"} \X {0} \X {1, 2})

BlockAt(i, kind) ==
    [type |-> kind[1], level |-> kind[2], tokens |-> kind[3], page |-> (i + 1) \div 2]

BlockSeqs(n) == {[i \in 1..n |-> BlockAt(i, s[i])] : s \in [1..n -> Kinds]}

MaxBlocks == 4

Short == <<BlockAt(1, <<"paragraph", 0, 1>>)>>
ShortLater == <<BlockAt(3, <<"paragraph", 0, 1>>)>>
Other == <<BlockAt(1, <<"list_item", 0, 2>>)>>

\* Either three documents, two of them with the same words on different
\* pages, or one document with any text.
SameTexts ==
    {[d \in Docs |-> IF d = d3 THEN Other ELSE IF d = e THEN ShortLater ELSE Short] : e \in {d1, d2}}

AnyText == {[d \in Docs |-> IF d = d3 THEN s ELSE <<>>] : s \in UNION {BlockSeqs(n) : n \in 0..MaxBlocks}}

SomeContents == SameTexts \cup AnyText

Unused(x) == pc[x] = "new"

\* Bound: the uploads that are no longer counted after seven days.
OneWeekPassed ==
    workspace = "gone" \/ Cardinality({x \in Ids : row[x] # "none" /\ x \notin events}) <= 1

\* Bound: with any text only d3 is uploaded; otherwise RFPs and knowledge
\* documents, which share no cap, are not uploaded in one behaviour.
Bounded ==
    IF text \in SameTexts
    THEN OneWeekPassed /\ ((\A r \in Rfps : Unused(r)) \/ (\A d \in Docs : Unused(d)))
    ELSE /\ \A x \in Ids \ {d3} : Unused(x)
         /\ deleting[d3] = {} /\ d3 \notin died /\ workspace = "used" /\ key

\* Processes, RFPs and the two documents of one text are interchangeable.
Interchangeable == Permutations(Procs) \cup Permutations(Rfps) \cup Permutations({d1, d2})
=============================================================================
