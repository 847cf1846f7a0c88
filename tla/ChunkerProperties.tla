------------------------- MODULE ChunkerProperties -------------------------
(***************************************************************************)
(* What chunk_blocks() promises of the chunks it makes of a text.          *)
(***************************************************************************)
EXTENDS Chunker

Increasing(s) == \A k, l \in DOMAIN s : k < l => s[k] < s[l]

\* The blocks that are not headings.
Body(blocks) == {i \in DOMAIN blocks : blocks[i].type # "heading"}

\* The headings above block i, by their definition: those that no later
\* heading of their level, or above it, has closed.
Above(blocks, i) ==
    {h \in 1..(i - 1) :
        /\ blocks[h].type = "heading"
        /\ \A k \in (h + 1)..(i - 1) :
              blocks[k].type = "heading" => blocks[k].level > blocks[h].level}

\* Every block of the body is in one chunk, the chunks and their parts are in
\* the order of the text, and a chunk carries the section of its parts and
\* the pages they are on.
Whole(cs, blocks) ==
    /\ UNION {Range(cs[k].parts) : k \in DOMAIN cs} = Body(blocks)
    /\ \A k, l \in DOMAIN cs : k < l =>
          \A i \in Range(cs[k].parts), j \in Range(cs[l].parts) : i < j
    /\ \A k \in DOMAIN cs :
          /\ Increasing(cs[k].parts) /\ Increasing(cs[k].section)
          /\ \A i \in Range(cs[k].parts) :
                /\ Range(cs[k].section) = Above(blocks, i)
                /\ blocks[i].page \in cs[k].first..cs[k].last

\* A chunk exceeds TargetMax only by its last block, and is shorter than
\* TargetMin only when it is the last one or a heading follows.
Sized(cs, blocks) ==
    \A k \in DOMAIN cs :
        LET parts == cs[k].parts
        IN  /\ \/ cs[k].tokens <= TargetMax
               \/ cs[k].tokens - blocks[parts[Len(parts)]].tokens < TargetMin
            /\ cs[k].tokens < TargetMin /\ k < Len(cs) =>
                  blocks[cs[k + 1].parts[1] - 1].type = "heading"

=============================================================================
