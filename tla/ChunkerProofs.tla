--------------------------- MODULE ChunkerProofs ---------------------------
(***************************************************************************)
(* Proofs about chunk_blocks(), for texts of any length, and any targets.  *)
(***************************************************************************)
EXTENDS ChunkerProperties, SequenceTheorems, FiniteSetTheorems, TLAPS

-----------------------------------------------------------------------------
(* Numbers and sequences.                                                  *)

(* A set of numbers that is not empty has a smallest one.                  *)
LEMMA SmallestNumber ==
    ASSUME NEW S, S \subseteq Nat, S # {}
    PROVE  \E n \in S : \A m \in S : n <= m
<1> DEFINE Upto == {0..n : n \in S}
<1>1. \A n \in Nat : IsFiniteSet(0..n)
  BY FS_Interval
<1>2. Upto \subseteq FiniteSubsetsOf(Nat) /\ Upto # {}
  <2>1. \A n \in S : 0..n \in FiniteSubsetsOf(Nat)
    BY <1>1 DEF FiniteSubsetsOf
  <2> QED
    BY <2>1
<1> HIDE DEF Upto
<1>3. PICK I \in Upto : \A J \in Upto : ~(<<J, I>> \in StrictSubsetOrdering(Nat))
  BY <1>2, FS_StrictSubsetOrderingWellFounded, WFMin
<1>4. PICK n \in S : I = 0..n
  BY DEF Upto
<1>5. ASSUME NEW m \in S PROVE n <= m
  <2>1. ASSUME m < n PROVE FALSE
    <3>1. 0..m \subseteq 0..n /\ 0..m # 0..n /\ 0..m \in SUBSET Nat /\ 0..n \in SUBSET Nat
      BY <2>1
    <3>2. 0..m \in Upto
      BY DEF Upto
    <3> QED
      BY <1>3, <1>4, <3>1, <3>2 DEF StrictSubsetOrdering
  <2> QED
    BY <2>1
<1> QED
  BY <1>5

(* Max is the largest element of a bounded set.                            *)
LEMMA MaxIsLargest ==
    ASSUME NEW n \in Nat, NEW S, S \subseteq 0..n, S # {}
    PROVE  Max(S) \in S /\ \A x \in S : x <= Max(S)
<1> DEFINE T == {n - x : x \in S}
<1>1. T \subseteq Nat /\ T # {}
  <2>1. \A x \in S : x \in Nat /\ n - x \in Nat
    OBVIOUS
  <2> QED
    BY <2>1
<1> HIDE DEF T
<1>2. PICK m \in T : \A k \in T : m <= k
  BY <1>1, SmallestNumber
<1>3. \E x \in S : \A y \in S : x >= y
  <2>1. PICK x \in S : m = n - x
    BY DEF T
  <2>2. ASSUME NEW y \in S PROVE x >= y
    <3>1. n - y \in T
      BY DEF T
    <3>2. n - x <= n - y /\ x \in Int /\ y \in Int
      BY <1>2, <2>1, <3>1
    <3> QED
      BY <3>2
  <2> QED
    BY <2>2
<1>4. Max(S) \in S /\ \A y \in S : Max(S) >= y
  BY <1>3 DEF Max
<1> QED
  BY <1>4

(* One more element at the end.                                            *)
LEMMA AppendRange ==
    ASSUME NEW s \in Seq(Nat), NEW x \in Nat
    PROVE  /\ Append(s, x) \in Seq(Nat) /\ Append(s, x) # <<>>
           /\ Len(Append(s, x)) = Len(s) + 1 /\ Append(s, x)[Len(s) + 1] = x
           /\ \A k \in 1..Len(s) : Append(s, x)[k] = s[k]
           /\ Range(Append(s, x)) = Range(s) \cup {x}
<1> DEFINE t == Append(s, x)
<1>1. /\ t \in Seq(Nat) /\ t # <<>> /\ Len(t) = Len(s) + 1 /\ t[Len(s) + 1] = x
      /\ \A k \in 1..Len(s) : t[k] = s[k]
  BY AppendProperties
<1>2. DOMAIN t = 1..(Len(s) + 1) /\ DOMAIN s = 1..Len(s) /\ Len(s) \in Nat
  BY <1>1, LenProperties
<1> HIDE DEF t
<1>3. Range(t) = Range(s) \cup {x}
  <2>1. ASSUME NEW y \in Range(t) PROVE y \in Range(s) \cup {x}
    <3>1. PICK k \in 1..(Len(s) + 1) : y = t[k]
      BY <1>2 DEF Range
    <3>2. CASE k = Len(s) + 1
      BY <1>1, <3>1, <3>2
    <3>3. CASE k # Len(s) + 1
      <4>1. k \in DOMAIN s /\ y = s[k]
        BY <1>1, <1>2, <3>1, <3>3
      <4> QED
        BY <4>1 DEF Range
    <3> QED
      BY <3>2, <3>3
  <2>2. ASSUME NEW y \in Range(s) PROVE y \in Range(t)
    <3>1. PICK k \in 1..Len(s) : y = s[k]
      BY <1>2 DEF Range
    <3>2. k \in DOMAIN t /\ y = t[k]
      BY <1>1, <1>2, <3>1
    <3> QED
      BY <3>2 DEF Range
  <2>3. x \in Range(t)
    <3>1. Len(s) + 1 \in DOMAIN t
      BY <1>2
    <3> QED
      BY <1>1, <3>1 DEF Range
  <2> QED
    BY <2>1, <2>2, <2>3
<1> QED
  BY <1>1, <1>3 DEF t

(* One more element at the end, larger than all of them.                   *)
LEMMA AppendIncreasing ==
    ASSUME NEW s \in Seq(Nat), NEW x \in Nat, Increasing(s), \A y \in Range(s) : y < x
    PROVE  Increasing(Append(s, x))
<1> SUFFICES ASSUME NEW t, t = Append(s, x) PROVE Increasing(t)
  OBVIOUS
<1>1. /\ Len(t) = Len(s) + 1 /\ t[Len(s) + 1] = x /\ t \in Seq(Nat)
      /\ \A k \in 1..Len(s) : t[k] = s[k]
  BY AppendProperties
<1>2. DOMAIN t = 1..(Len(s) + 1) /\ DOMAIN s = 1..Len(s) /\ Len(s) \in Nat
  BY <1>1, LenProperties
<1> SUFFICES ASSUME NEW k \in 1..(Len(s) + 1), NEW l \in 1..(Len(s) + 1), k < l
             PROVE  t[k] < t[l]
  BY <1>2 DEF Increasing
<1>3. k \in 1..Len(s) /\ k \in DOMAIN s
  BY <1>2
<1>4. t[k] = s[k] /\ s[k] \in Range(s)
  BY <1>1, <1>3 DEF Range
<1>5. CASE l \in 1..Len(s)
  BY <1>1, <1>2, <1>3, <1>4, <1>5 DEF Increasing
<1>6. CASE l = Len(s) + 1
  BY <1>1, <1>4, <1>6
<1> QED
  BY <1>2, <1>5, <1>6

(* The blocks of a text.                                                   *)
LEMMA BlockOf ==
    ASSUME NEW blocks \in Seq(Block), NEW i \in 1..Len(blocks)
    PROVE  /\ blocks[i].level \in Nat /\ blocks[i].page \in Nat
           /\ blocks[i].tokens \in Nat /\ blocks[i].tokens > 0
<1>1. blocks[i] \in Block
  BY ElementOfSeq
<1> QED
  BY <1>1 DEF Block

-----------------------------------------------------------------------------
(* The heading stack.                                                      *)

Path(stack, blocks, i) ==
    stack \in Seq(Nat) /\ Increasing(stack) /\ Range(stack) = Above(blocks, i)

(* A block that is no heading leaves the headings above as they are.       *)
LEMMA AboveBody ==
    ASSUME NEW blocks, NEW i \in Nat, blocks[i].type # "heading", i > 0
    PROVE  Above(blocks, i + 1) = Above(blocks, i)
BY DEF Above

(* A heading takes the place of those of its level and below.              *)
LEMMA AboveHeading ==
    ASSUME NEW blocks \in Seq(Block), NEW i \in 1..Len(blocks), blocks[i].type = "heading"
    PROVE  Above(blocks, i + 1) =
               {h \in Above(blocks, i) : blocks[h].level < blocks[i].level} \cup {i}
<1>1. \A h \in 1..Len(blocks) : blocks[h].level \in Nat
  BY BlockOf
<1>2. ASSUME NEW h \in Above(blocks, i + 1)
      PROVE  h = i \/ (h \in Above(blocks, i) /\ blocks[h].level < blocks[i].level)
  BY DEF Above
<1>3. ASSUME NEW h \in Above(blocks, i), blocks[h].level < blocks[i].level
      PROVE  h \in Above(blocks, i + 1)
  <2>1. h \in 1..(i - 1) /\ h \in 1..(i + 1 - 1) /\ blocks[h].type = "heading"
    BY DEF Above
  <2>2. ASSUME NEW k \in (h + 1)..(i + 1 - 1), blocks[k].type = "heading"
        PROVE  blocks[k].level > blocks[h].level
    <3>1. CASE k = i
      BY <1>1, <1>3, <2>1, <3>1
    <3>2. CASE k # i
      <4>1. k \in (h + 1)..(i - 1)
        BY <2>1, <3>2
      <4> QED
        BY <2>2, <4>1 DEF Above
    <3> QED
      BY <3>1, <3>2
  <2> QED
    BY <2>1, <2>2 DEF Above
<1>4. i \in Above(blocks, i + 1)
  BY DEF Above
<1> QED
  BY <1>2, <1>3, <1>4

(* What a heading leaves of the stack, with the heading itself, is the     *)
(* path of what follows.                                                   *)
LEMMA HeadingPath ==
    ASSUME NEW blocks \in Seq(Block), NEW i \in 1..Len(blocks), blocks[i].type = "heading",
           NEW stack, Path(stack, blocks, i)
    PROVE  LET higher == {k \in DOMAIN stack : blocks[stack[k]].level < blocks[i].level}
               above == SubSeq(stack, 1, Max(higher \cup {0}))
           IN  Path(Append(above, i), blocks, i + 1)
<1> DEFINE higher == {k \in DOMAIN stack : blocks[stack[k]].level < blocks[i].level}
           m == Max(higher \cup {0})
           above == SubSeq(stack, 1, m)
<1>0. /\ stack \in Seq(Nat) /\ Len(stack) \in Nat /\ DOMAIN stack = 1..Len(stack)
      /\ Increasing(stack) /\ Range(stack) = Above(blocks, i)
  BY LenProperties DEF Path
<1>1. m \in higher \cup {0} /\ \A k \in higher : k <= m
  <2>1. higher \cup {0} \subseteq 0..Len(stack) /\ higher \cup {0} # {}
    BY <1>0
  <2> HIDE DEF higher
  <2> QED
    BY <1>0, <2>1, MaxIsLargest
<1>2. m \in 0..Len(stack)
  <2>1. higher \subseteq 1..Len(stack)
    BY <1>0
  <2> HIDE DEF higher, m
  <2> QED
    BY <1>0, <1>1, <2>1
<1> HIDE DEF m
<1>3. /\ above \in Seq(Nat) /\ Len(above) = m /\ DOMAIN above = 1..m
      /\ \A k \in 1..m : above[k] = stack[k]
  <2>1. \A k \in 1..m : stack[k] \in Nat
    BY <1>0, <1>2
  <2>2. /\ above \in Seq(Nat) /\ Len(above) = IF 1 <= m THEN m - 1 + 1 ELSE 0
        /\ \A k \in 1..(m - 1 + 1) : above[k] = stack[1 + k - 1]
    BY <1>2, <2>1, SubSeqProperties
  <2>3. Len(above) = m /\ DOMAIN above = 1..Len(above)
    BY <1>2, <2>2, LenProperties
  <2>4. \A k \in 1..m : above[k] = stack[k]
    BY <1>2, <2>2
  <2> QED
    BY <2>2, <2>3, <2>4
<1> HIDE DEF above
<1>4. \A h \in Range(stack) : h \in 1..(i - 1) /\ blocks[h].level \in Nat
  <2>1. \A h \in Range(stack) : h \in 1..(i - 1) /\ h \in 1..Len(blocks)
    BY <1>0, LenProperties DEF Above
  <2> QED
    BY <2>1, BlockOf
\* The levels grow along the stack, so the entries of a lower level come first.
<1>5. Range(above) = {h \in Range(stack) : blocks[h].level < blocks[i].level}
  <2>1. ASSUME NEW k \in 1..Len(stack)
        PROVE  k <= m <=> blocks[stack[k]].level < blocks[i].level
    <3>1. ASSUME k <= m PROVE blocks[stack[k]].level < blocks[i].level
      <4>1. m \in 1..Len(stack) /\ blocks[stack[m]].level < blocks[i].level
        BY <1>0, <1>1, <3>1
      <4>2. stack[k] \in Above(blocks, i) /\ stack[m] \in Above(blocks, i)
        BY <1>0, <4>1 DEF Range
      <4>3. CASE k = m
        BY <4>1, <4>3
      <4>4. CASE k < m
        <5>1. stack[k] < stack[m]
          BY <1>0, <4>1, <4>4 DEF Increasing
        <5>2. blocks[stack[m]].level > blocks[stack[k]].level
          BY <4>2, <5>1 DEF Above
        <5>3. blocks[stack[k]].level \in Nat /\ blocks[stack[m]].level \in Nat
          BY <1>0, <1>4, <4>2
        <5>4. blocks[i].level \in Nat
          BY BlockOf
        <5> QED
          BY <4>1, <5>2, <5>3, <5>4
      <4> QED
        BY <1>2, <3>1, <4>3, <4>4
    <3>2. ASSUME blocks[stack[k]].level < blocks[i].level PROVE k <= m
      BY <1>0, <1>1, <3>2
    <3> QED
      BY <3>1, <3>2
  <2>2. ASSUME NEW h \in Range(above)
        PROVE  h \in Range(stack) /\ blocks[h].level < blocks[i].level
    <3>1. PICK k \in 1..m : h = above[k]
      BY <1>3 DEF Range
    <3>2. k \in 1..Len(stack) /\ h = stack[k]
      BY <1>2, <1>3, <3>1
    <3>3. h \in Range(stack)
      BY <1>0, <3>2 DEF Range
    <3>4. blocks[stack[k]].level < blocks[i].level
      BY <2>1, <3>2
    <3> QED
      BY <3>2, <3>3, <3>4
  <2>3. ASSUME NEW h \in Range(stack), blocks[h].level < blocks[i].level PROVE h \in Range(above)
    <3>1. PICK k \in 1..Len(stack) : h = stack[k]
      BY <1>0 DEF Range
    <3>2. k \in 1..m /\ h = above[k]
      BY <1>2, <1>3, <2>1, <2>3, <3>1
    <3> QED
      BY <1>3, <3>2 DEF Range
  <2> QED
    BY <2>2, <2>3
<1>6. Increasing(above)
  BY <1>0, <1>2, <1>3 DEF Increasing
<1>7. \A h \in Range(above) : h < i
  BY <1>4, <1>5
<1>8. /\ Append(above, i) \in Seq(Nat) /\ Increasing(Append(above, i))
      /\ Range(Append(above, i)) = Range(above) \cup {i}
  <2>1. i \in Nat
    OBVIOUS
  <2>2. Increasing(Append(above, i))
    BY <1>3, <1>6, <1>7, <2>1, AppendIncreasing
  <2> QED
    BY <1>3, <2>1, <2>2, AppendRange
<1>9. Range(Append(above, i)) = Above(blocks, i + 1)
  BY <1>0, <1>5, <1>8, AboveHeading
<1> QED
  BY <1>8, <1>9 DEF Path, above, m

-----------------------------------------------------------------------------
(* The steps of the loop.                                                  *)

Chunk ==
    [parts : Seq(Nat), section : Seq(Nat), first : Nat, last : Nat, tokens : Nat,
     list : BOOLEAN]

State ==
    [stack : Seq(Nat), open : {<<>>} \cup {<<c>> : c \in Chunk}, chunks : Seq(Chunk)]

\* The chunks that are done and the one that is open.
All(s) == IF s.open = <<>> THEN s.chunks ELSE Append(s.chunks, s.open[1])

(* An open chunk is one chunk.                                             *)
LEMMA OpenChunk ==
    ASSUME NEW s \in State
    PROVE  /\ s.stack \in Seq(Nat) /\ s.chunks \in Seq(Chunk)
           /\ s.open # <<>> => s.open[1] \in Chunk /\ s.open = <<s.open[1]>>
           /\ \A c \in Chunk : <<c>> # <<>> /\ <<c>>[1] = c
BY DEF State

(* push() moves the open chunk to those that are done.                     *)
LEMMA PushEffect ==
    ASSUME NEW s \in State
    PROVE  LET r == Push(s)
           IN  /\ r \in State /\ r.stack = s.stack /\ r.open = <<>>
               /\ r.chunks = IF s.open # <<>> /\ s.open[1].parts # <<>>
                             THEN Append(s.chunks, s.open[1]) ELSE s.chunks
<1> DEFINE done == IF s.open # <<>> /\ s.open[1].parts # <<>>
                   THEN Append(s.chunks, s.open[1]) ELSE s.chunks
<1>1. done \in Seq(Chunk)
  BY OpenChunk, AppendProperties
<1>2. Push(s) = [s EXCEPT !.chunks = done, !.open = <<>>]
  BY DEF Push
<1> HIDE DEF done
<1>3. LET r == [s EXCEPT !.chunks = done, !.open = <<>>]
      IN  r \in State /\ r.stack = s.stack /\ r.open = <<>> /\ r.chunks = done
  BY <1>1 DEF State
<1> QED
  BY <1>2, <1>3 DEF done

Opened(s, c) == [s EXCEPT !.open = <<c>>]

(* Another open chunk changes nothing else.                                *)
LEMMA OpenEffect ==
    ASSUME NEW s \in State, NEW c \in Chunk
    PROVE  LET r == Opened(s, c)
           IN  /\ r \in State /\ r.stack = s.stack /\ r.chunks = s.chunks
               /\ r.open # <<>> /\ r.open[1] = c
BY DEF State, Opened

(* A chunk that opens is empty.                                            *)
LEMMA FreshEffect ==
    ASSUME NEW section \in Seq(Nat), NEW page \in Nat
    PROVE  LET c == Fresh(section, page)
           IN  /\ c \in Chunk /\ c.parts = <<>> /\ c.section = section /\ c.first = page
               /\ c.last = page /\ c.tokens = 0
BY EmptySeq DEF Fresh, Chunk

(* ensure() opens a chunk in the section if none is open.                  *)
LEMMA EnsureOpens ==
    ASSUME NEW s \in State, NEW page \in Nat, s.open = <<>>
    PROVE  LET r == Ensure(s, page)
           IN  /\ r \in State /\ r.stack = s.stack /\ r.chunks = s.chunks /\ r.open # <<>>
               /\ r.open[1] = Fresh(s.stack, page)
<1>1. Fresh(s.stack, page) \in Chunk
  BY OpenChunk, FreshEffect
<1>2. Ensure(s, page) = Opened(s, Fresh(s.stack, page))
  BY DEF Ensure, Opened
<1> QED
  BY <1>1, <1>2, OpenEffect

(* A block that joins a chunk.                                             *)
LEMMA JoinedEffect ==
    ASSUME NEW c \in Chunk, NEW b \in Block, NEW i \in Nat
    PROVE  LET j == Joined(c, b, i)
           IN  /\ j \in Chunk /\ j.parts = Append(c.parts, i) /\ j.section = c.section
               /\ j.first = c.first /\ j.last \in Nat /\ j.last >= c.last /\ j.last >= b.page
               /\ j.tokens = c.tokens + b.tokens
<1> DEFINE parts == Append(c.parts, i)
           tokens == c.tokens + b.tokens
           last == IF b.page > c.last THEN b.page ELSE c.last
           list == (b.type = "list_item")
<1>1. /\ parts \in Seq(Nat) /\ tokens \in Nat /\ last \in Nat /\ list \in BOOLEAN
      /\ last >= c.last /\ last >= b.page
  BY AppendRange DEF Chunk, Block
<1>2. Joined(c, b, i) = [c EXCEPT !.parts = parts, !.tokens = tokens, !.last = last, !.list = list]
  BY DEF Joined
<1> HIDE DEF parts, tokens, last, list
<1>3. LET j == [c EXCEPT !.parts = parts, !.tokens = tokens, !.last = last, !.list = list]
      IN  /\ j \in Chunk /\ j.parts = parts /\ j.section = c.section /\ j.first = c.first
          /\ j.last = last /\ j.tokens = tokens
  BY <1>1 DEF Chunk
<1> QED
  BY <1>1, <1>2, <1>3 DEF parts, tokens

\* Before a block is added: the open chunk takes it, or a fresh one does, and
\* then the chunk that was open has reached TargetMin.
Roomy(s, v, b) ==
    /\ v \in State /\ v.stack = s.stack /\ v.open # <<>>
    /\ \/ /\ s.open # <<>> /\ v.open[1] = s.open[1] /\ v.chunks = s.chunks
          /\ s.open[1].tokens + b.tokens <= TargetMax \/ s.open[1].tokens < TargetMin
       \/ /\ v.open[1] = Fresh(s.stack, b.page) /\ v.chunks = All(s)
          /\ s.open # <<>> => s.open[1].tokens >= TargetMin

(* A block finds a chunk that has room for it.                             *)
LEMMA RoomMade ==
    ASSUME NEW s \in State, s.open # <<>> => s.open[1].parts # <<>>, NEW b \in Block
    PROVE  Roomy(s, MakeRoom(Ensure(LeaveList(s, b), b.page), b), b)
<1> SUFFICES ASSUME NEW t, t = LeaveList(s, b), NEW u, u = Ensure(t, b.page),
                    NEW v, v = MakeRoom(u, b), NEW fresh, fresh = Fresh(s.stack, b.page)
             PROVE  Roomy(s, v, b)
  OBVIOUS
<1>0. /\ b.page \in Nat /\ b.tokens \in Nat /\ TargetMin \in Nat /\ TargetMax \in Nat
      /\ s.stack \in Seq(Nat)
  BY ChunkerAssumption, OpenChunk DEF Block
<1>1. /\ t \in State /\ t.stack = s.stack
      /\ \/ t.open = s.open /\ t.chunks = s.chunks
         \/ t.open = <<>> /\ t.chunks = All(s) /\ s.open # <<>> /\ s.open[1].tokens >= TargetMin
  <2>1. CASE t = s
    BY <2>1
  <2>2. CASE s.open # <<>> /\ s.open[1].tokens >= TargetMin /\ t = Push(s)
    BY <2>2, PushEffect DEF All
  <2> QED
    BY <2>1, <2>2 DEF LeaveList
<1>2. /\ fresh \in Chunk /\ fresh.parts = <<>> /\ fresh.tokens = 0
  BY <1>0, FreshEffect
<1>3. /\ u \in State /\ u.stack = s.stack /\ u.open # <<>>
      /\ \/ s.open # <<>> /\ u.open[1] = s.open[1] /\ u.chunks = s.chunks
         \/ /\ u.open[1] = fresh /\ u.chunks = All(s)
            /\ s.open # <<>> => s.open[1].tokens >= TargetMin
  <2>1. CASE t.open # <<>>
    <3>1. u = t
      BY <2>1 DEF Ensure
    <3> QED
      BY <1>1, <2>1, <3>1
  <2>2. CASE t.open = <<>>
    <3>1. t \in State /\ b.page \in Nat
      BY <1>0, <1>1
    <3>2. /\ u \in State /\ u.stack = t.stack /\ u.open # <<>> /\ u.chunks = t.chunks
          /\ u.open[1] = Fresh(t.stack, b.page)
      BY <2>2, <3>1, EnsureOpens
    <3>3. t.chunks = All(s) /\ (s.open # <<>> => s.open[1].tokens >= TargetMin)
      BY <1>1, <2>2 DEF All
    <3> QED
      BY <1>1, <3>2, <3>3
  <2> QED
    BY <2>1, <2>2
<1>4. CASE ~(u.open[1].tokens + b.tokens > TargetMax /\ u.open[1].tokens >= TargetMin)
  <2>1. v = u
    BY <1>4 DEF MakeRoom
  <2>2. u.open[1].tokens \in Nat
    BY <1>3, OpenChunk DEF Chunk
  <2>3. u.open[1].tokens + b.tokens <= TargetMax \/ u.open[1].tokens < TargetMin
    BY <1>0, <1>4, <2>2
  <2> QED
    BY <1>3, <2>1, <2>3 DEF Roomy
<1>5. CASE u.open[1].tokens + b.tokens > TargetMax /\ u.open[1].tokens >= TargetMin
  <2> SUFFICES ASSUME NEW p, p = Push(u) PROVE Roomy(s, v, b)
    OBVIOUS
  <2>1. v = Ensure(p, b.page)
    BY <1>5 DEF MakeRoom
  <2>2. /\ p \in State /\ p.stack = s.stack /\ p.open = <<>>
        /\ p.chunks = IF u.open[1].parts # <<>> THEN Append(u.chunks, u.open[1]) ELSE u.chunks
    BY <1>3, PushEffect
  <2>3. /\ p.chunks = All(s)
        /\ s.open # <<>> => s.open[1].tokens >= TargetMin
    BY <1>2, <1>3, <1>5, <2>2 DEF All
  <2>4. /\ v \in State /\ v.stack = p.stack /\ v.open # <<>> /\ v.chunks = p.chunks
        /\ v.open[1] = Fresh(p.stack, b.page)
    <3>1. p \in State /\ p.open = <<>> /\ b.page \in Nat
      BY <1>0, <2>2
    <3> QED
      BY <2>1, <3>1, EnsureOpens
  <2> QED
    BY <2>2, <2>3, <2>4 DEF Roomy
<1> QED
  BY <1>4, <1>5

-----------------------------------------------------------------------------
(* What holds of the chunks between two steps.                             *)

\* A chunk by itself.
Fine(c, blocks) ==
    /\ c.parts # <<>> /\ Increasing(c.parts) /\ Range(c.parts) \subseteq Body(blocks)
    /\ Increasing(c.section)
    /\ \A i \in Range(c.parts) :
          Range(c.section) = Above(blocks, i) /\ blocks[i].page \in c.first..c.last
    /\ \/ c.tokens <= TargetMax
       \/ c.tokens - blocks[c.parts[Len(c.parts)]].tokens < TargetMin

\* The chunks of the first n blocks.
Good(cs, blocks, n) ==
    /\ \A k \in 1..Len(cs) : Fine(cs[k], blocks)
    /\ UNION {Range(cs[k].parts) : k \in 1..Len(cs)} = {i \in Body(blocks) : i <= n}
    /\ \A k, l \in 1..Len(cs) : k < l =>
          \A i \in Range(cs[k].parts), j \in Range(cs[l].parts) : i < j
    /\ \A k \in 1..(Len(cs) - 1) :
          cs[k].tokens < TargetMin => blocks[cs[k + 1].parts[1] - 1].type = "heading"

Short(cs) == cs # <<>> /\ cs[Len(cs)].tokens < TargetMin

\* The open chunk takes what the chunks before it leave of the first n blocks.
Completes(c, cs, blocks, n) ==
    /\ Fine(c, blocks)
    /\ \E m \in Nat : /\ Good(cs, blocks, m)
                      /\ Range(c.parts) = {i \in Body(blocks) : m < i /\ i <= n}
                      /\ m <= n
    /\ Short(cs) => blocks[c.parts[1] - 1].type = "heading"

(* The open chunk can be pushed.                                           *)
LEMMA Completed ==
    ASSUME NEW blocks \in Seq(Block), NEW n \in Nat, NEW cs \in Seq(Chunk), NEW c \in Chunk,
           Completes(c, cs, blocks, n)
    PROVE  Good(Append(cs, c), blocks, n)
<1> SUFFICES ASSUME NEW ds, ds = Append(cs, c) PROVE Good(ds, blocks, n)
  OBVIOUS
<1>0. /\ Len(cs) \in Nat /\ Len(ds) = Len(cs) + 1 /\ ds[Len(cs) + 1] = c
      /\ \A k \in 1..Len(cs) : ds[k] = cs[k]
  BY AppendProperties, LenProperties
<1>1. PICK m \in Nat : /\ Good(cs, blocks, m) /\ m <= n
                       /\ Range(c.parts) = {i \in Body(blocks) : m < i /\ i <= n}
  BY DEF Completes
<1>2. \A i \in Body(blocks) : i \in Nat
  BY LenProperties DEF Body
<1>3. \A k \in 1..Len(ds) : Fine(ds[k], blocks)
  <2>1. \A k \in 1..Len(cs) : Fine(cs[k], blocks)
    BY <1>1 DEF Good
  <2>2. Fine(c, blocks)
    BY DEF Completes
  <2> QED
    BY <1>0, <2>1, <2>2
<1>4. \A k \in 1..Len(cs) : \A i \in Range(cs[k].parts) : i \in Body(blocks) /\ i <= m
  BY <1>1 DEF Good
<1>5. UNION {Range(ds[k].parts) : k \in 1..Len(ds)} = {i \in Body(blocks) : i <= n}
  <2>1. ASSUME NEW k \in 1..Len(ds), NEW i \in Range(ds[k].parts)
        PROVE  i \in Body(blocks) /\ i <= n
    <3>1. CASE k \in 1..Len(cs)
      <4>1. i \in Range(cs[k].parts)
        BY <1>0, <3>1
      <4>2. i \in Body(blocks) /\ i <= m
        BY <1>4, <3>1, <4>1
      <4> QED
        BY <1>1, <1>2, <4>2
    <3>2. CASE k = Len(cs) + 1
      BY <1>0, <1>1, <3>2
    <3> QED
      BY <1>0, <3>1, <3>2
  <2>2. ASSUME NEW i \in Body(blocks), i <= n
        PROVE  \E k \in 1..Len(ds) : i \in Range(ds[k].parts)
    <3>1. CASE i <= m
      <4>1. i \in UNION {Range(cs[k].parts) : k \in 1..Len(cs)}
        BY <1>1, <3>1 DEF Good
      <4>2. PICK k \in 1..Len(cs) : i \in Range(cs[k].parts)
        BY <4>1
      <4>3. k \in 1..Len(ds) /\ ds[k] = cs[k]
        BY <1>0
      <4> QED
        BY <4>2, <4>3
    <3>2. CASE m < i
      <4>1. Len(cs) + 1 \in 1..Len(ds) /\ i \in Range(ds[Len(cs) + 1].parts)
        BY <1>0, <1>1, <2>2, <3>2
      <4> QED
        BY <4>1
    <3> QED
      BY <1>2, <3>1, <3>2
  <2> QED
    BY <2>1, <2>2
<1>6. ASSUME NEW k \in 1..Len(ds), NEW l \in 1..Len(ds), k < l,
             NEW i \in Range(ds[k].parts), NEW j \in Range(ds[l].parts)
      PROVE  i < j
  <2>1. k \in 1..Len(cs) /\ ds[k] = cs[k]
    BY <1>0, <1>6
  <2>2. CASE l \in 1..Len(cs)
    <3>1. i \in Range(cs[k].parts) /\ j \in Range(cs[l].parts)
      BY <1>0, <2>1, <2>2
    <3> QED
      BY <1>1, <1>6, <2>1, <2>2, <3>1 DEF Good
  <2>3. CASE l = Len(cs) + 1
    <3>1. i <= m /\ m < j /\ i \in Nat /\ j \in Nat
      BY <1>0, <1>1, <1>2, <1>4, <2>1, <2>3
    <3> QED
      BY <3>1
  <2> QED
    BY <1>0, <2>2, <2>3
<1>7. ASSUME NEW k \in 1..(Len(ds) - 1), ds[k].tokens < TargetMin
      PROVE  blocks[ds[k + 1].parts[1] - 1].type = "heading"
  <2>1. k \in 1..Len(cs) /\ ds[k] = cs[k]
    BY <1>0
  <2>2. CASE k = Len(cs)
    <3>1. cs # <<>> /\ cs[Len(cs)].tokens < TargetMin
      <4>1. Len(cs) # 0
        BY <2>1, <2>2
      <4> QED
        BY <1>7, <2>1, <2>2, <4>1, EmptySeq
    <3>2. ds[k + 1] = c
      BY <1>0, <2>2
    <3> QED
      BY <3>1, <3>2 DEF Completes, Short
  <2>3. CASE k # Len(cs)
    <3>1. k \in 1..(Len(cs) - 1) /\ ds[k + 1] = cs[k + 1]
      BY <1>0, <2>1, <2>3
    <3> QED
      BY <1>1, <1>7, <2>1, <3>1 DEF Good
  <2> QED
    BY <2>2, <2>3
<1> QED
  BY <1>3, <1>5, <1>6, <1>7 DEF Good

(* A block that joins a chunk whose parts come before it, in the section   *)
(* of its own place, makes it a chunk of the text.                         *)
LEMMA JoinedIsFine ==
    ASSUME NEW blocks \in Text, NEW i \in 1..Len(blocks), blocks[i].type # "heading",
           NEW c \in Chunk, NEW stack, Path(stack, blocks, i), c.section = stack,
           c.parts = <<>> \/ Fine(c, blocks), \A k \in Range(c.parts) : k < i,
           c.parts = <<>> => c.first = blocks[i].page /\ c.tokens = 0,
           \/ c.tokens + blocks[i].tokens <= TargetMax
           \/ c.tokens < TargetMin
    PROVE  Fine(Joined(c, blocks[i], i), blocks)
<1> DEFINE b == blocks[i]
<1>0. /\ blocks \in Seq(Block) /\ b \in Block /\ i \in Nat /\ b.page \in Nat /\ b.tokens \in Nat
      /\ DOMAIN blocks = 1..Len(blocks) /\ Len(blocks) \in Nat
      /\ TargetMin \in Nat /\ TargetMax \in Nat /\ c.tokens \in Nat /\ c.parts \in Seq(Nat)
      /\ c.first \in Nat /\ c.last \in Nat
  BY ChunkerAssumption, LenProperties, ElementOfSeq, BlockOf DEF Text, Chunk
<1> SUFFICES ASSUME NEW j, j = Joined(c, b, i) PROVE Fine(j, blocks)
  OBVIOUS
<1>1. /\ j \in Chunk /\ j.parts = Append(c.parts, i) /\ j.section = c.section
      /\ j.first = c.first /\ j.last \in Nat /\ j.last >= c.last /\ j.last >= b.page
      /\ j.tokens = c.tokens + b.tokens
  <2>1. b \in Block /\ i \in Nat
    BY <1>0
  <2> QED
    BY <2>1, JoinedEffect
<1>2. /\ j.parts # <<>> /\ Len(j.parts) = Len(c.parts) + 1 /\ j.parts[Len(c.parts) + 1] = i
      /\ Range(j.parts) = Range(c.parts) \cup {i}
      /\ Increasing(c.parts) => Increasing(j.parts)
  <2>1. c.parts \in Seq(Nat) /\ i \in Nat
    BY <1>0
  <2>2. \A k \in Range(c.parts) : k < i
    OBVIOUS
  <2> SUFFICES ASSUME NEW q, q = c.parts, NEW p, p = Append(q, i)
               PROVE  /\ p # <<>> /\ Len(p) = Len(q) + 1 /\ p[Len(q) + 1] = i
                      /\ Range(p) = Range(q) \cup {i} /\ (Increasing(q) => Increasing(p))
    BY <1>1
  <2>3. q \in Seq(Nat) /\ \A k \in Range(q) : k < i
    BY <2>1, <2>2
  <2>4. p # <<>> /\ Len(p) = Len(q) + 1 /\ p[Len(q) + 1] = i /\ Range(p) = Range(q) \cup {i}
    BY <2>1, <2>3, AppendRange
  <2>5. Increasing(q) => Increasing(p)
    BY <2>1, <2>3, AppendIncreasing
  <2> QED
    BY <2>4, <2>5
<1>3. Increasing(c.parts) /\ Range(c.parts) \subseteq Body(blocks)
  <2>1. CASE c.parts = <<>>
    BY <2>1 DEF Increasing, Range
  <2>2. CASE Fine(c, blocks)
    BY <2>2 DEF Fine
  <2> QED
    BY <2>1, <2>2
<1>4. i \in Body(blocks)
  BY <1>0 DEF Body
<1>5. ASSUME NEW k \in Range(j.parts)
      PROVE  Range(j.section) = Above(blocks, k) /\ blocks[k].page \in j.first..j.last
  <2>1. c.parts # <<>> => c.first <= b.page
    <3>1. SUFFICES ASSUME c.parts # <<>> PROVE c.first <= b.page
      OBVIOUS
    <3>2. Len(c.parts) # 0 /\ Len(c.parts) \in Nat
      BY <1>0, <3>1, EmptySeq, LenProperties
    <3>3. c.parts[1] \in Range(c.parts)
      <4>1. 1 \in DOMAIN c.parts
        BY <1>0, <3>2, LenProperties
      <4> QED
        BY <4>1 DEF Range
    <3>4. c.parts[1] \in 1..Len(blocks) /\ c.parts[1] < i
      BY <1>0, <1>3, <3>3 DEF Body
    <3>5. blocks[c.parts[1]].page <= b.page /\ blocks[c.parts[1]].page \in Nat
      <4>1. c.parts[1] \in DOMAIN blocks /\ i \in DOMAIN blocks /\ c.parts[1] <= i
        BY <1>0, <3>4
      <4>2. blocks[c.parts[1]].page <= blocks[i].page
        BY <4>1 DEF Text
      <4>3. blocks[c.parts[1]].page \in Nat
        BY <1>0, <3>4, BlockOf
      <4> QED
        BY <4>2, <4>3
    <3>6. blocks[c.parts[1]].page \in c.first..c.last
      BY <3>1, <3>3 DEF Fine
    <3>7. c.first \in Nat /\ c.last \in Nat /\ b.page \in Nat
      BY <1>0
    <3> QED
      BY <3>5, <3>6, <3>7
  <2>2. CASE k = i
    <3>1. Range(j.section) = Above(blocks, i)
      BY <1>1 DEF Path
    <3>2. c.first <= b.page
      BY <1>0, <2>1
    <3> QED
      BY <1>0, <1>1, <2>2, <3>1, <3>2
  <2>3. CASE k \in Range(c.parts)
    <3>1. c.parts # <<>>
      BY <2>3 DEF Range
    <3>2. Range(c.section) = Above(blocks, k) /\ blocks[k].page \in c.first..c.last
      BY <2>3, <3>1 DEF Fine
    <3>3. /\ c.last \in Nat /\ j.last \in Nat /\ c.first \in Nat /\ j.last >= c.last
          /\ j.first = c.first /\ j.section = c.section
      BY <1>0, <1>1
    <3> QED
      BY <3>2, <3>3
  <2> QED
    BY <1>2, <2>2, <2>3
<1>6. Increasing(j.section)
  BY <1>1 DEF Path
<1>7. \/ j.tokens <= TargetMax
      \/ j.tokens - blocks[j.parts[Len(j.parts)]].tokens < TargetMin
  BY <1>0, <1>1, <1>2
<1> QED
  BY <1>2, <1>3, <1>4, <1>5, <1>6, <1>7 DEF Fine

\* After the first n blocks.
Between(s, blocks, n) ==
    /\ s \in State /\ Path(s.stack, blocks, n + 1)
    /\ s.open = <<>> =>
          Good(s.chunks, blocks, n) /\ (Short(s.chunks) => blocks[n].type = "heading")
    /\ s.open # <<>> =>
          Completes(s.open[1], s.chunks, blocks, n) /\ s.open[1].section = s.stack

(* Before the first block.                                                 *)
LEMMA BetweenStart == ASSUME NEW blocks \in Seq(Block) PROVE Between(Start, blocks, 0)
<1>0. /\ Start.stack = <<>> /\ Start.open = <<>> /\ Start.chunks = <<>> /\ Start \in State
  BY EmptySeq DEF Start, State
<1>1. Path(<<>>, blocks, 1)
  BY EmptySeq DEF Path, Increasing, Range, Above
<1>2. \A i \in Body(blocks) : ~(i <= 0)
  BY LenProperties DEF Body
<1>3. Good(<<>>, blocks, 0)
  BY <1>2 DEF Good
<1> QED
  BY <1>0, <1>1, <1>3 DEF Between, Short

(* All the chunks, the open one included, are those of the first n blocks. *)
LEMMA AllGood ==
    ASSUME NEW blocks \in Seq(Block), NEW n \in Nat, NEW s, Between(s, blocks, n)
    PROVE  /\ All(s) \in Seq(Chunk) /\ Good(All(s), blocks, n)
           /\ Push(s) \in State /\ Push(s).stack = s.stack /\ Push(s).open = <<>>
           /\ Push(s).chunks = All(s)
<1>0. s \in State
  BY DEF Between
<1>1. CASE s.open = <<>>
  BY <1>0, <1>1, PushEffect, OpenChunk DEF Between, All
<1>2. CASE s.open # <<>>
  <2>1. s.open[1] \in Chunk /\ s.chunks \in Seq(Chunk)
    BY <1>0, <1>2, OpenChunk
  <2>2. Completes(s.open[1], s.chunks, blocks, n) /\ s.open[1].parts # <<>>
    BY <1>2 DEF Between, Completes, Fine
  <2>3. Append(s.chunks, s.open[1]) \in Seq(Chunk) /\ Good(Append(s.chunks, s.open[1]), blocks, n)
    BY <2>1, <2>2, Completed, AppendProperties
  <2> QED
    BY <1>0, <1>2, <2>2, <2>3, PushEffect DEF All
<1> QED
  BY <1>1, <1>2

(* A heading.                                                              *)
LEMMA BetweenHeading ==
    ASSUME NEW blocks \in Seq(Block), NEW n \in Nat, n + 1 <= Len(blocks),
           blocks[n + 1].type = "heading", NEW s, Between(s, blocks, n)
    PROVE  Between(Heading(s, blocks, n + 1), blocks, n + 1)
<1> DEFINE i == n + 1
           higher == {k \in DOMAIN s.stack : blocks[s.stack[k]].level < blocks[i].level}
           stack == Append(SubSeq(s.stack, 1, Max(higher \cup {0})), i)
           t == [s EXCEPT !.stack = stack]
<1>0. s \in State /\ i \in 1..Len(blocks) /\ Path(s.stack, blocks, i)
  BY LenProperties DEF Between
<1>1. Path(stack, blocks, i + 1)
  BY <1>0, HeadingPath
<1>2. Heading(s, blocks, i) = Push(t)
  BY DEF Heading
<1> HIDE DEF stack, higher
<1>3. stack \in Seq(Nat)
  BY <1>1 DEF Path
<1>4. t \in State /\ t.stack = stack /\ t.open = s.open /\ t.chunks = s.chunks
  BY <1>0, <1>3 DEF State
<1> HIDE DEF t
<1>5. All(s) \in Seq(Chunk) /\ Good(All(s), blocks, n)
  BY AllGood
<1>6. s.open # <<>> => s.open[1].parts # <<>>
  BY DEF Between, Completes, Fine
<1>7. /\ Push(t) \in State /\ Push(t).stack = stack /\ Push(t).open = <<>>
      /\ Push(t).chunks = All(s)
  BY <1>4, <1>6, PushEffect DEF All
<1>8. Good(All(s), blocks, i)
  <2>1. {k \in Body(blocks) : k <= n} = {k \in Body(blocks) : k <= i}
    BY <1>0, LenProperties DEF Body
  <2> QED
    BY <1>5, <2>1 DEF Good
<1> QED
  BY <1>1, <1>2, <1>7, <1>8 DEF Between

(* A block that is added to the chunk that has room for it completes the   *)
(* chunks before it.                                                       *)
LEMMA AddCompletes ==
    ASSUME NEW blocks \in Text, NEW n \in Nat, n + 1 <= Len(blocks),
           blocks[n + 1].type # "heading", NEW s, Between(s, blocks, n),
           NEW v, Roomy(s, v, blocks[n + 1])
    PROVE  LET j == Joined(v.open[1], blocks[n + 1], n + 1)
           IN  /\ j \in Chunk /\ Completes(j, v.chunks, blocks, n + 1)
               /\ j.section = s.stack
<1> DEFINE i == n + 1
           b == blocks[i]
           c == v.open[1]
<1>0. /\ blocks \in Seq(Block) /\ i \in 1..Len(blocks) /\ i \in Nat /\ b \in Block
      /\ b.page \in Nat /\ b.tokens \in Nat /\ TargetMin \in Nat /\ TargetMax \in Nat
      /\ s \in State /\ v \in State /\ v.open # <<>> /\ c \in Chunk /\ v.chunks \in Seq(Chunk)
      /\ s.stack \in Seq(Nat) /\ Path(s.stack, blocks, i)
  <2>1. blocks \in Seq(Block) /\ i \in 1..Len(blocks) /\ i \in Nat
    BY LenProperties DEF Text
  <2>2. b \in Block /\ b.page \in Nat /\ b.tokens \in Nat
    BY <2>1, ElementOfSeq, BlockOf
  <2>3. s \in State /\ v \in State /\ v.open # <<>> /\ Path(s.stack, blocks, i)
    BY DEF Between, Roomy
  <2> QED
    BY <2>1, <2>2, <2>3, OpenChunk, ChunkerAssumption
<1> SUFFICES ASSUME NEW j, j = Joined(c, b, i)
             PROVE  /\ j \in Chunk /\ Completes(j, v.chunks, blocks, i)
                    /\ j.section = s.stack
  OBVIOUS
<1> HIDE DEF c
<1>1. j \in Chunk /\ j.parts = Append(c.parts, i) /\ j.section = c.section
  <2>1. b \in Block /\ i \in Nat /\ c \in Chunk
    BY <1>0
  <2> QED
    BY <2>1, JoinedEffect
<1>2. c.parts \in Seq(Nat)
  BY <1>0 DEF Chunk
<1>3. /\ Range(j.parts) = Range(c.parts) \cup {i} /\ Len(j.parts) = Len(c.parts) + 1
      /\ j.parts[Len(c.parts) + 1] = i /\ \A k \in 1..Len(c.parts) : j.parts[k] = c.parts[k]
  <2>1. i \in Nat
    OBVIOUS
  <2> SUFFICES ASSUME NEW p, p = Append(c.parts, i)
               PROVE  /\ Range(p) = Range(c.parts) \cup {i} /\ Len(p) = Len(c.parts) + 1
                      /\ p[Len(c.parts) + 1] = i /\ \A k \in 1..Len(c.parts) : p[k] = c.parts[k]
    BY <1>1
  <2> HIDE DEF i
  <2> QED
    BY <1>2, <2>1, AppendRange
<1>4. i \in Body(blocks) /\ \A k \in Body(blocks) : k \in Nat
  BY <1>0, LenProperties DEF Body
<1>5. CASE /\ s.open # <<>> /\ c = s.open[1] /\ v.chunks = s.chunks
           /\ c.tokens + b.tokens <= TargetMax \/ c.tokens < TargetMin
  <2>1. Completes(c, s.chunks, blocks, n) /\ c.section = s.stack
    BY <1>5 DEF Between
  <2>2. PICK m \in Nat : /\ Good(s.chunks, blocks, m) /\ m <= n
                         /\ Range(c.parts) = {k \in Body(blocks) : m < k /\ k <= n}
    BY <2>1 DEF Completes
  <2>3. Fine(c, blocks) /\ c.parts # <<>>
    BY <2>1 DEF Completes, Fine
  <2>4. Fine(j, blocks)
    <3>1. \A k \in Range(c.parts) : k < i
      BY <1>4, <2>2
    <3>2. Path(s.stack, blocks, i) /\ i \in 1..Len(blocks) /\ c \in Chunk
      BY <1>0
    <3> QED
      BY <1>5, <2>1, <2>3, <3>1, <3>2, JoinedIsFine
  <2>5. Range(j.parts) = {k \in Body(blocks) : m < k /\ k <= i}
    BY <1>3, <1>4, <2>2
  <2>6. j.parts[1] = c.parts[1]
    BY <1>2, <1>3, <2>3, EmptySeq
  <2>7. m <= i /\ Good(v.chunks, blocks, m)
    BY <1>5, <2>2
  <2>8. Short(v.chunks) => blocks[j.parts[1] - 1].type = "heading"
    BY <1>5, <2>1, <2>6 DEF Completes
  <2> QED
    BY <1>1, <2>1, <2>4, <2>5, <2>7, <2>8 DEF Completes
<1>6. CASE /\ c = Fresh(s.stack, b.page) /\ v.chunks = All(s)
           /\ s.open # <<>> => s.open[1].tokens >= TargetMin
  <2>1. c.parts = <<>> /\ c.section = s.stack /\ c.first = b.page /\ c.tokens = 0
    <3>1. s.stack \in Seq(Nat) /\ b.page \in Nat
      BY <1>0
    <3> QED
      BY <1>6, <3>1, FreshEffect
  <2>2. Range(c.parts) = {} /\ Len(c.parts) = 0
    BY <2>1, EmptySeq DEF Range
  <2>3. Fine(j, blocks)
    <3>1. \A k \in Range(c.parts) : k < i
      BY <2>2
    <3>2. Path(s.stack, blocks, i) /\ i \in 1..Len(blocks) /\ c \in Chunk
      BY <1>0
    <3>3. c.tokens < TargetMin
      BY <2>1, ChunkerAssumption
    <3> QED
      BY <2>1, <3>1, <3>2, <3>3, JoinedIsFine
  <2>4. Range(j.parts) = {k \in Body(blocks) : n < k /\ k <= i} /\ j.parts[1] = i
    BY <1>3, <1>4, <2>2
  <2>5. Good(v.chunks, blocks, n) /\ n <= i
    BY <1>0, <1>6, AllGood
  <2>6. ASSUME Short(v.chunks) PROVE blocks[j.parts[1] - 1].type = "heading"
    <3>1. CASE s.open = <<>>
      <4>1. blocks[n].type = "heading"
        BY <1>6, <2>6, <3>1 DEF Between, All
      <4> QED
        BY <2>4, <4>1
    <3>2. CASE s.open # <<>>
      <4>1. s.chunks \in Seq(Chunk) /\ s.open[1] \in Chunk /\ v.chunks = Append(s.chunks, s.open[1])
        BY <1>0, <1>6, <3>2, OpenChunk DEF All
      <4>2. v.chunks[Len(v.chunks)] = s.open[1]
        BY <4>1, AppendProperties
      <4>3. s.open[1].tokens \in Nat /\ s.open[1].tokens < TargetMin /\ s.open[1].tokens >= TargetMin
        BY <1>6, <2>6, <3>2, <4>1, <4>2 DEF Short, Chunk
      <4> QED
        BY <1>0, <4>3
    <3> QED
      BY <3>1, <3>2
  <2> QED
    BY <1>1, <2>1, <2>3, <2>4, <2>5, <2>6 DEF Completes
<1> QED
  BY <1>0, <1>5, <1>6 DEF Roomy, c

(* Far too long is long enough.                                            *)
LEMMA OverflowIsLong ==
    ASSUME NEW k \in Nat, 2 * k > 3 * TargetMax
    PROVE  ~(k < TargetMin)
BY ChunkerAssumption

(* A chunk that is far too long is pushed, and none is too short by that.  *)
LEMMA BetweenOverflow ==
    ASSUME NEW blocks \in Seq(Block), NEW i \in Nat, NEW t, Between(t, blocks, i), t.open # <<>>
    PROVE  Between(Overflow(t), blocks, i)
<1> SUFFICES ASSUME NEW j, j = t.open[1], NEW r, r = Overflow(t) PROVE Between(r, blocks, i)
  OBVIOUS
<1>1. t \in State /\ Path(t.stack, blocks, i + 1)
  BY DEF Between
<1>2. j \in Chunk /\ t.chunks \in Seq(Chunk)
  BY <1>1, OpenChunk
<1>3. CASE ~(2 * j.tokens > 3 * TargetMax)
  BY <1>3 DEF Overflow
<1>4. CASE 2 * j.tokens > 3 * TargetMax
  <2>1. r = Push(t)
    BY <1>4 DEF Overflow
  <2>2. /\ Good(All(t), blocks, i) /\ r \in State /\ r.stack = t.stack
        /\ r.open = <<>> /\ r.chunks = All(t)
    BY <2>1, AllGood
  <2>3. All(t) = Append(t.chunks, j)
    BY DEF All
  <2>4. All(t)[Len(All(t))] = j
    BY <1>2, <2>3, AppendProperties
  <2>5. ~(j.tokens < TargetMin)
    <3>1. j.tokens \in Nat
      BY <1>2 DEF Chunk
    <3> QED
      BY <1>4, <3>1, OverflowIsLong
  <2>6. ~Short(r.chunks)
    BY <2>2, <2>4, <2>5 DEF Short
  <2> QED
    BY <1>1, <2>2, <2>6 DEF Between
<1> QED
  BY <1>3, <1>4

(* A block that is added to the chunk that has room for it.                *)
LEMMA BetweenAdd ==
    ASSUME NEW blocks \in Text, NEW n \in Nat, n + 1 <= Len(blocks),
           blocks[n + 1].type # "heading", NEW s, Between(s, blocks, n),
           NEW v, Roomy(s, v, blocks[n + 1])
    PROVE  LET t == Add(v, blocks[n + 1], n + 1)
           IN  Between(t, blocks, n + 1) /\ t.open # <<>>
<1> SUFFICES ASSUME NEW j, j = Joined(v.open[1], blocks[n + 1], n + 1), NEW t, t = Opened(v, j)
             PROVE  Between(t, blocks, n + 1) /\ t.open # <<>>
  BY DEF Add, Opened
<1>1. j \in Chunk /\ Completes(j, v.chunks, blocks, n + 1) /\ j.section = s.stack
  BY AddCompletes
<1>2. v \in State /\ v.stack = s.stack
  BY DEF Roomy
<1>3. /\ t \in State /\ t.stack = v.stack /\ t.chunks = v.chunks
      /\ t.open # <<>> /\ t.open[1] = j
  <2>1. j \in Chunk
    BY <1>1
  <2> QED
    BY <1>2, <2>1, OpenEffect
<1>4. Path(s.stack, blocks, n + 1 + 1)
  <2>1. Path(s.stack, blocks, n + 1)
    BY DEF Between
  <2>2. n + 1 \in Nat /\ n + 1 > 0
    OBVIOUS
  <2>3. Above(blocks, n + 1 + 1) = Above(blocks, n + 1)
    BY <2>2, AboveBody
  <2> QED
    BY <2>1, <2>3 DEF Path
<1> QED
  BY <1>1, <1>2, <1>3, <1>4 DEF Between

(* A block that is no heading.                                             *)
LEMMA BetweenBody ==
    ASSUME NEW blocks \in Text, NEW n \in Nat, n + 1 <= Len(blocks),
           blocks[n + 1].type # "heading", NEW s, Between(s, blocks, n)
    PROVE  Between(Absorb(s, blocks, n + 1), blocks, n + 1)
<1> DEFINE b == blocks[n + 1]
           v == MakeRoom(Ensure(LeaveList(s, b), b.page), b)
<1>1. blocks \in Seq(Block) /\ n + 1 \in 1..Len(blocks) /\ n + 1 \in Nat
  BY LenProperties DEF Text
<1>2. Roomy(s, v, b)
  <2>1. s \in State /\ (s.open # <<>> => s.open[1].parts # <<>>)
    BY DEF Between, Completes, Fine
  <2>2. b \in Block
    BY <1>1, ElementOfSeq
  <2> HIDE DEF b
  <2> QED
    BY <2>1, <2>2, RoomMade
<1>3. Absorb(s, blocks, n + 1) = Overflow(Add(v, b, n + 1))
  BY DEF Absorb
<1> HIDE DEF v
<1>4. Between(Add(v, b, n + 1), blocks, n + 1) /\ Add(v, b, n + 1).open # <<>>
  BY <1>2, BetweenAdd
<1> QED
  BY <1>1, <1>3, <1>4, BetweenOverflow

-----------------------------------------------------------------------------
(* The loop.                                                               *)

\* The states of the first n rounds.
Rounds(f, blocks, n) ==
    f = [i \in 0..n |-> IF i = 0 THEN Start ELSE Absorb(f[i - 1], blocks, i)]

(* There are rounds for every number of blocks: were there a smallest      *)
(* number without, the rounds before it could be continued.                *)
LEMMA RoundsExist == ASSUME NEW blocks, NEW n \in Nat PROVE \E f : Rounds(f, blocks, n)
<1> DEFINE S == {m \in Nat : ~\E f : Rounds(f, blocks, m)}
<1>1. SUFFICES ASSUME S # {} PROVE FALSE
  OBVIOUS
<1>2. PICK m \in S : \A k \in S : m <= k
  <2>1. S \subseteq Nat
    OBVIOUS
  <2> HIDE DEF S
  <2> QED
    BY <1>1, <2>1, SmallestNumber
<1>3. m \in Nat /\ ~\E f : Rounds(f, blocks, m)
  OBVIOUS
<1>4. CASE m = 0
  <2> DEFINE f == [i \in 0..0 |-> Start]
  <2>1. f = [i \in 0..0 |-> IF i = 0 THEN Start ELSE Absorb(f[i - 1], blocks, i)]
    OBVIOUS
  <2> QED
    BY <1>3, <1>4, <2>1 DEF Rounds
<1>5. CASE m # 0
  <2>1. m - 1 \in Nat /\ ~(m <= m - 1)
    BY <1>3, <1>5
  <2>2. PICK f : Rounds(f, blocks, m - 1)
    BY <1>2, <2>1
  <2>3. /\ DOMAIN f = 0..(m - 1)
        /\ \A i \in 0..(m - 1) : f[i] = IF i = 0 THEN Start ELSE Absorb(f[i - 1], blocks, i)
    BY <2>2 DEF Rounds
  <2> DEFINE g == [i \in 0..m |-> IF i < m THEN f[i] ELSE Absorb(f[i - 1], blocks, i)]
  <2>4. ASSUME NEW i \in 0..m
        PROVE  g[i] = IF i = 0 THEN Start ELSE Absorb(g[i - 1], blocks, i)
    <3>1. CASE i = 0
      BY <1>3, <1>5, <2>3, <3>1
    <3>2. CASE i # 0
      <4>1. i - 1 \in 0..m /\ i - 1 < m
        BY <1>3, <3>2
      <4>2. g[i - 1] = f[i - 1]
        BY <4>1
      <4>3. g[i] = Absorb(f[i - 1], blocks, i)
        BY <1>3, <2>3, <3>2
      <4> QED
        BY <3>2, <4>2, <4>3
    <3> QED
      BY <3>1, <3>2
  <2>5. g = [i \in 0..m |-> g[i]]
    OBVIOUS
  <2> HIDE DEF g
  <2>6. g = [i \in 0..m |-> IF i = 0 THEN Start ELSE Absorb(g[i - 1], blocks, i)]
    BY <2>4, <2>5
  <2> QED
    BY <1>3, <2>6 DEF Rounds
<1> QED
  BY <1>4, <1>5

(* The invariant holds after every round: were there a first round after   *)
(* which it does not, that round would break it.                           *)
LEMMA BetweenRounds ==
    ASSUME NEW blocks \in Text, NEW f, Rounds(f, blocks, Len(blocks)), NEW n \in 0..Len(blocks)
    PROVE  Between(f[n], blocks, n)
<1> DEFINE S == {m \in 0..Len(blocks) : ~Between(f[m], blocks, m)}
<1>0. /\ blocks \in Seq(Block) /\ Len(blocks) \in Nat
      /\ \A i \in 0..Len(blocks) : f[i] = IF i = 0 THEN Start ELSE Absorb(f[i - 1], blocks, i)
  BY LenProperties DEF Text, Rounds
<1>1. SUFFICES ASSUME S # {} PROVE FALSE
  OBVIOUS
<1>2. PICK m \in S : \A k \in S : m <= k
  <2>1. S \subseteq Nat
    BY <1>0
  <2> HIDE DEF S
  <2> QED
    BY <1>1, <2>1, SmallestNumber
<1>3. m \in 0..Len(blocks) /\ ~Between(f[m], blocks, m)
  OBVIOUS
<1>4. CASE m = 0
  <2>1. f[m] = Start
    BY <1>0, <1>3, <1>4
  <2> QED
    BY <1>0, <1>3, <1>4, <2>1, BetweenStart
<1>5. CASE m # 0
  <2> SUFFICES ASSUME NEW k, k = m - 1 PROVE FALSE
    OBVIOUS
  <2>1. /\ k \in Nat /\ k \in 0..Len(blocks) /\ k + 1 = m /\ k + 1 <= Len(blocks)
        /\ ~(m <= k)
    BY <1>0, <1>3, <1>5
  <2>2. Between(f[k], blocks, k)
    BY <1>2, <2>1
  <2>3. f[m] = Absorb(f[k], blocks, k + 1)
    BY <1>0, <1>3, <1>5, <2>1
  <2>4. CASE blocks[k + 1].type = "heading"
    <3>1. Absorb(f[k], blocks, k + 1) = Heading(f[k], blocks, k + 1)
      BY <2>4 DEF Absorb
    <3>2. Between(Heading(f[k], blocks, k + 1), blocks, k + 1)
      BY <1>0, <2>1, <2>2, <2>4, BetweenHeading
    <3> QED
      BY <1>3, <2>1, <2>3, <3>1, <3>2
  <2>5. CASE blocks[k + 1].type # "heading"
    <3>1. Between(Absorb(f[k], blocks, k + 1), blocks, k + 1)
      BY <2>1, <2>2, <2>5, BetweenBody
    <3> QED
      BY <1>3, <2>1, <2>3, <3>1
  <2> QED
    BY <2>4, <2>5
<1> QED
  BY <1>4, <1>5

(* The chunks are those of the whole text.                                 *)
LEMMA ChunksAreGood ==
    ASSUME NEW blocks \in Text
    PROVE  ChunkBlocks(blocks) \in Seq(Chunk) /\ Good(ChunkBlocks(blocks), blocks, Len(blocks))
<1> DEFINE n == Len(blocks)
           f == CHOOSE f : f = [i \in 0..n |-> IF i = 0 THEN Start ELSE Absorb(f[i - 1], blocks, i)]
<1>0. blocks \in Seq(Block) /\ n \in Nat /\ n \in 0..n
  BY LenProperties DEF Text
<1>1. ChunkBlocks(blocks) = Push(f[n]).chunks
  BY DEF ChunkBlocks
<1>2. Rounds(f, blocks, n)
  <2>1. \E g : g = [i \in 0..n |-> IF i = 0 THEN Start ELSE Absorb(g[i - 1], blocks, i)]
    BY <1>0, RoundsExist DEF Rounds
  <2> QED
    BY <2>1 DEF Rounds
<1> HIDE DEF f
<1>3. Between(f[n], blocks, n)
  BY <1>0, <1>2, BetweenRounds
<1> QED
  BY <1>0, <1>1, <1>3, AllGood

(* Every block of the body is in one chunk, in order, with its section and *)
(* its page.                                                               *)
THEOREM ChunksWhole == ASSUME NEW blocks \in Text PROVE Whole(ChunkBlocks(blocks), blocks)
<1> SUFFICES ASSUME NEW cs, cs = ChunkBlocks(blocks) PROVE Whole(cs, blocks)
  OBVIOUS
<1>1. cs \in Seq(Chunk) /\ Good(cs, blocks, Len(blocks)) /\ DOMAIN cs = 1..Len(cs)
  BY ChunksAreGood, LenProperties
<1>2. {i \in Body(blocks) : i <= Len(blocks)} = Body(blocks)
  BY LenProperties DEF Body, Text
<1> QED
  BY <1>1, <1>2 DEF Whole, Good, Fine

(* A chunk is too long by its last block only, and too short only where a  *)
(* heading, or the end, cuts it off.                                       *)
THEOREM ChunksSizedWell == ASSUME NEW blocks \in Text PROVE Sized(ChunkBlocks(blocks), blocks)
<1> SUFFICES ASSUME NEW cs, cs = ChunkBlocks(blocks) PROVE Sized(cs, blocks)
  OBVIOUS
<1>1. /\ cs \in Seq(Chunk) /\ Good(cs, blocks, Len(blocks)) /\ DOMAIN cs = 1..Len(cs)
      /\ Len(cs) \in Nat
  BY ChunksAreGood, LenProperties
<1>2. \A k \in 1..Len(cs) : Fine(cs[k], blocks)
  BY <1>1 DEF Good
<1>3. \A k \in 1..Len(cs) : k < Len(cs) => k \in 1..(Len(cs) - 1)
  BY <1>1
<1> QED
  BY <1>1, <1>2, <1>3 DEF Sized, Good, Fine

=============================================================================
