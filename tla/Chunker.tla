------------------------------ MODULE Chunker ------------------------------
(***************************************************************************)
(* chunk_blocks() of src/app/pipeline/chunk.py: the blocks of a parsed     *)
(* document become chunks that carry their section and their pages.        *)
(*                                                                         *)
(* A block is its type, its heading level, its page and its length in      *)
(* tokens.  Its text is its position in the document: a chunk is a         *)
(* sequence of positions, and so is the heading path of its section.       *)
(***************************************************************************)
EXTENDS Integers, Sequences, FiniteSetsExt

CONSTANTS
    TargetMin,   \* TARGET_MIN (400 in the code)
    TargetMax    \* TARGET_MAX (600)

ASSUME ChunkerAssumption == TargetMin \in Nat \ {0} /\ TargetMax \in Nat /\ TargetMin <= TargetMax

\* A heading has a level of at least one (b.level or 1), another block has 0.
\* No parser makes a block without text, and a list item begins with its bullet.
Block ==
    [type : {"heading", "paragraph", "list_item", "table"}, level : Nat, page : Nat,
     tokens : Nat \ {0}]

\* The parsers go through a document page by page.
Text ==
    {blocks \in Seq(Block) :
        \A i, j \in DOMAIN blocks : i <= j => blocks[i].page <= blocks[j].page}

\* What is accumulated: the heading stack, the open chunk (none or one) and
\* the chunks that are done.
Start == [stack |-> <<>>, open |-> <<>>, chunks |-> <<>>]

\* push(): an open chunk without text is dropped.
Push(s) ==
    [s EXCEPT !.chunks = IF s.open # <<>> /\ s.open[1].parts # <<>>
                         THEN Append(@, s.open[1]) ELSE @,
              !.open = <<>>]

\* ensure(): a new chunk opens in the current section.
Fresh(section, page) ==
    [parts |-> <<>>, section |-> section, first |-> page, last |-> page,
     tokens |-> 0, list |-> FALSE]

Ensure(s, page) ==
    IF s.open # <<>> THEN s ELSE [s EXCEPT !.open = <<Fresh(s.stack, page)>>]

\* A heading takes its level and those below off the end of the stack, and
\* closes the open chunk.  Its text is in the path only.
Heading(s, blocks, i) ==
    LET higher == {k \in DOMAIN s.stack : blocks[s.stack[k]].level < blocks[i].level}
        above == SubSeq(s.stack, 1, Max(higher \cup {0}))
    IN  Push([s EXCEPT !.stack = Append(above, i)])

\* A block that is no list item does not join a list that is long enough.
LeaveList(s, b) ==
    IF s.open # <<>> /\ s.open[1].list /\ b.type # "list_item" /\ s.open[1].tokens >= TargetMin
    THEN Push(s) ELSE s

\* Mutated form: a chunk that would get too long is pushed, however short.
MakeRoomAlways(s, b) ==
    IF s.open[1].tokens + b.tokens > TargetMax
    THEN Ensure(Push(s), b.page) ELSE s

\* A block does not join a chunk that is long enough and would get too long.
MakeRoom(s, b) ==
    IF s.open[1].tokens + b.tokens > TargetMax /\ s.open[1].tokens >= TargetMin
    THEN Ensure(Push(s), b.page) ELSE s

Joined(c, b, i) ==
    [c EXCEPT !.parts = Append(@, i),
              !.tokens = @ + b.tokens,
              !.last = IF b.page > @ THEN b.page ELSE @,
              !.list = (b.type = "list_item")]

Add(s, b, i) == [s EXCEPT !.open = <<Joined(s.open[1], b, i)>>]

\* The chunk is far too long (1.5 TARGET_MAX).
Overflow(s) == IF 2 * s.open[1].tokens > 3 * TargetMax THEN Push(s) ELSE s

\* Mutated form: the chunk that is open when a list ends is forgotten.
AbsorbForgets(s, blocks, i) ==
    LET b == blocks[i]
        t == LeaveList(s, b)
    IN  IF b.type = "heading" THEN Heading(s, blocks, i)
        ELSE Overflow(Add(MakeRoom(Ensure([t EXCEPT !.chunks = s.chunks], b.page), b), b, i))

\* The body of the loop.
Absorb(s, blocks, i) ==
    LET b == blocks[i]
    IN  IF b.type = "heading" THEN Heading(s, blocks, i)
        ELSE Overflow(Add(MakeRoom(Ensure(LeaveList(s, b), b.page), b), b, i))

ChunkBlocks(blocks) ==
    LET after[i \in 0..Len(blocks)] ==
            IF i = 0 THEN Start ELSE Absorb(after[i - 1], blocks, i)
    IN  Push(after[Len(blocks)]).chunks

=============================================================================
