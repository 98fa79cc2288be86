----------------------- MODULE SimulationWorkerProofs -----------------------
(***************************************************************************)
(* Proofs about the code of simulation.worker.js: the translation of a     *)
(* contestant's Python (PythonTranspiler), for programs of any length and  *)
(* depth, and the local simulator that runs it (SimulationWorker), for     *)
(* runs of any length, with any prices, volumes and capacities.            *)
(*                                                                         *)
(* The translator never looks at where a block's first line begins: it     *)
(* assumes four columns right of the header and closes the block at the    *)
(* first line left of that.  For blocks that are indented by four or more  *)
(* this is where Python ends the block, too, because no line of the        *)
(* program can begin between the header and the block's own lines.  So     *)
(* indentStack has one entry for each block that is open for Python.  That *)
(* indentStack is never popped empty holds for any indentation.            *)
(*                                                                         *)
(* The second half begins with sums over finite sets and goes on to the    *)
(* volume of a level, to what each operation does to the book, and to the  *)
(* invariant WorkerInv with one lemma per action.                          *)
(***************************************************************************)
EXTENDS SimulationWorker, PythonTranspiler, SequenceTheorems, FiniteSetTheorems,
        WellFoundedInduction, TLAPS

(***************************************************************************)
(* Blocks p that are open, b the indentation of the whole body.            *)
(***************************************************************************)
Nested(p, b) ==
    /\ p \in Seq(Block)
    /\ \A k \in 1..Len(p) : b <= p[k].head /\ p[k].head < p[k].body
    /\ \A j, k \in 1..Len(p) : j < k => p[j].body <= p[k].head /\ ~p[j].inline

Wide(p) == \A k \in 1..Len(p) : ~p[k].inline => p[k].head + 4 <= p[k].body

\* indentStack s for the blocks p.
Matches(s, p) ==
    /\ s \in Seq(Nat) /\ Len(s) = Len(p) + 1 /\ s[1] = 0
    /\ \A k \in 1..Len(p) : s[k + 1] = p[k].head + 4

\* The braces b that are open for the blocks p; a def has no brace, and then
\* one brace too many has been or will be closed.
Braces(b, o, pl, p) ==
    /\ b \in Seq(Nat)
    /\ pl => o /\ b = Ids(p)
    /\ ~pl => ~o \/ Len(b) < Len(p)

\* The next line of a block that has no line yet is its first.
MustBegin == must # 0 =>
    Len(py) > 0 /\ must = py[Len(py)].body /\ ~py[Len(py)].inline

\* Where the blocks are, whatever their indentation.
Placed ==
    /\ base \in Nat \ {0} /\ must \in Nat
    /\ Nested(py, base) /\ MustBegin

Open ==
    /\ n \in Nat /\ base \in Nat \ {0} /\ must \in Nat
    /\ Nested(py, base) /\ Wide(py) /\ MustBegin
    /\ Matches(stack, py) /\ Braces(js, ok, plain, py)
    /\ plain /\ split => kept

Closed ==
    /\ plain => ok /\ js = <<>>
    /\ plain /\ split => kept
    /\ ~plain => ~ok

TInv ==
    /\ ok \in BOOLEAN /\ kept \in BOOLEAN /\ plain \in BOOLEAN
    /\ wide \in BOOLEAN /\ split \in BOOLEAN /\ ended \in BOOLEAN
    /\ wide /\ ~ended => Open
    /\ wide /\ ended => Closed

LEMMA OpenPlaced == Open => Placed
BY DEF Open, Placed

\* The first e elements of a sequence.
LEMMA Prefix ==
    ASSUME NEW S, NEW s \in Seq(S), NEW e \in 0..Len(s)
    PROVE  /\ SubSeq(s, 1, e) \in Seq(S) /\ Len(SubSeq(s, 1, e)) = e
           /\ \A k \in 1..e : SubSeq(s, 1, e)[k] = s[k] /\ k \in 1..Len(s)
OBVIOUS

LEMMA IdsType ==
    ASSUME NEW p \in Seq(Block)
    PROVE  Ids(p) \in Seq(Nat) /\ Len(Ids(p)) = Len(p)
           /\ \A k \in 1..Len(p) : Ids(p)[k] = p[k].id
<1>1. DOMAIN p = 1..Len(p) /\ Len(p) \in Nat
  OBVIOUS
<1>2. \A k \in 1..Len(p) : p[k].id \in Nat
  <2>1. \A k \in 1..Len(p) : p[k] \in Block
    OBVIOUS
  <2> QED BY <2>1 DEF Block
<1>3. Ids(p) = [k \in 1..Len(p) |-> p[k].id]
  BY <1>1 DEF Ids
<1>4. Ids(p) \in [1..Len(p) -> Nat]
  BY <1>2, <1>3
<1>5. Ids(p) \in Seq(Nat)
  BY <1>1, <1>4
<1>6. Len(Ids(p)) = Len(p)
  BY <1>1, <1>3
<1> QED BY <1>3, <1>5, <1>6

(***************************************************************************)
(* Ending blocks: all but the first e.                                     *)
(***************************************************************************)
LEMMA NestedCut ==
    ASSUME NEW p, NEW b, Nested(p, b), NEW e \in 0..Len(p)
    PROVE  LET q == SubSeq(p, 1, e) IN
           /\ Nested(q, b) /\ Len(q) = e
           /\ \A k \in 1..e : q[k] = p[k]
           /\ Wide(p) => Wide(q)
<1> DEFINE q == SubSeq(p, 1, e)
<1>1. p \in Seq(Block) /\ Len(p) \in Nat
  BY DEF Nested
<1>2. q \in Seq(Block) /\ Len(q) = e /\ \A k \in 1..e : q[k] = p[k] /\ k \in 1..Len(p)
  BY <1>1
<1> HIDE DEF q
<1>3. Nested(q, b)
  BY <1>1, <1>2 DEF Nested
<1>4. Wide(p) => Wide(q)
  BY <1>1, <1>2 DEF Wide
<1> QED BY <1>2, <1>3, <1>4 DEF q

LEMMA MatchesCut ==
    ASSUME NEW p \in Seq(Block), NEW s, Matches(s, p), NEW e \in 0..Len(p)
    PROVE  Matches(SubSeq(s, 1, e + 1), SubSeq(p, 1, e))
<1> DEFINE q == SubSeq(p, 1, e)
<1> DEFINE t == SubSeq(s, 1, e + 1)
<1>1. s \in Seq(Nat) /\ Len(s) = Len(p) + 1 /\ Len(p) \in Nat /\ s[1] = 0
  BY DEF Matches
<1>2. Len(q) = e /\ \A k \in 1..e : q[k] = p[k] /\ k \in 1..Len(p)
  BY <1>1
<1>3. t \in Seq(Nat) /\ Len(t) = e + 1 /\ \A k \in 1..(e + 1) : t[k] = s[k]
  BY <1>1
<1>4. t[1] = 0
  BY <1>1, <1>3
<1>5. \A k \in 1..e : t[k + 1] = s[k + 1]
  BY <1>1, <1>3
<1> HIDE DEF q, t
<1>6. \A k \in 1..e : t[k + 1] = q[k].head + 4
  BY <1>2, <1>5 DEF Matches
<1>7. Matches(t, q)
  BY <1>2, <1>3, <1>4, <1>6 DEF Matches
<1> QED BY <1>7 DEF q, t

\* The braces of the blocks that end are closed.
LEMMA BracesCut ==
    ASSUME NEW p \in Seq(Block), NEW o \in BOOLEAN, NEW pl \in BOOLEAN,
           Braces(js, o, pl, p), NEW e \in 0..Len(p)
    PROVE  Braces(Closing(Len(p) - e), o /\ Len(p) - e =< Len(js), pl, SubSeq(p, 1, e))
<1> DEFINE q == SubSeq(p, 1, e)
<1> DEFINE m == Len(p) - e
<1>1. js \in Seq(Nat) /\ Len(js) \in Nat /\ Len(p) \in Nat /\ m \in Nat
  BY DEF Braces
<1>2. q \in Seq(Block) /\ Len(q) = e /\ \A k \in 1..e : q[k] = p[k] /\ k \in 1..Len(p)
  BY <1>1
<1>3. CASE m =< Len(js)
  <2>1. Closing(m) = SubSeq(js, 1, Len(js) - m)
    BY <1>3 DEF Closing
  <2>2. /\ Closing(m) \in Seq(Nat) /\ Len(Closing(m)) = Len(js) - m
        /\ \A k \in 1..(Len(js) - m) : Closing(m)[k] = js[k]
    <3>0. Len(js) - m \in 0..Len(js)
      BY <1>1, <1>3
    <3>1. PICK d \in 0..Len(js) : d = Len(js) - m
      BY <3>0
    <3>2. /\ SubSeq(js, 1, d) \in Seq(Nat) /\ Len(SubSeq(js, 1, d)) = d
          /\ \A k \in 1..d : SubSeq(js, 1, d)[k] = js[k]
      BY <1>1, Prefix
    <3> HIDE DEF m
    <3> QED BY <2>1, <3>1, <3>2
  <2>3. CASE pl
    <3>1. o /\ js = Ids(p) /\ Len(js) = Len(p)
      BY <2>3, IdsType DEF Braces
    <3>2. Len(Closing(m)) = e /\ \A k \in 1..e : Closing(m)[k] = q[k].id
      <4>1. Len(js) - m = e
        BY <1>1, <3>1
      <4>2. \A k \in 1..e : Closing(m)[k] = js[k] /\ js[k] = p[k].id /\ q[k] = p[k]
        BY <1>2, <2>2, <3>1, <4>1, IdsType
      <4> QED BY <2>2, <4>1, <4>2
    <3>3. Ids(q) \in Seq(Nat) /\ Len(Ids(q)) = e /\ \A k \in 1..e : Ids(q)[k] = q[k].id
      BY <1>2, IdsType
    <3> HIDE DEF q, m
    <3>4. Closing(m) = Ids(q)
      BY <2>2, <3>2, <3>3, SeqEqual
    <3>5. Braces(Closing(m), o /\ m =< Len(js), pl, q)
      BY <1>3, <2>2, <2>3, <3>1, <3>4 DEF Braces
    <3> QED BY <3>5 DEF q, m
  <2>4. CASE ~pl
    <3>1. ~o \/ Len(Closing(m)) < Len(q)
      BY <1>1, <1>2, <2>2, <2>4 DEF Braces
    <3> QED BY <2>2, <2>4, <3>1 DEF Braces
  <2> QED BY <2>3, <2>4
<1>4. CASE ~(m =< Len(js))
  <2>1. ~pl
    BY <1>1, <1>4, IdsType DEF Braces
  <2>2. Closing(m) = <<>>
    BY <1>4 DEF Closing
  <2>3. <<>> \in Seq(Nat)
    OBVIOUS
  <2>4. Closing(m) \in Seq(Nat)
    BY <2>2, <2>3, Zenon
  <2> QED BY <1>4, <2>1, <2>4 DEF Braces
<1> QED BY <1>3, <1>4

(***************************************************************************)
(* Beginning a block.                                                      *)
(***************************************************************************)
LEMMA NestedAppend ==
    ASSUME NEW p, NEW b, Nested(p, b), NEW r \in Block, b <= r.head, r.head < r.body, b \in Nat,
           \A k \in 1..Len(p) : p[k].body <= r.head /\ ~p[k].inline
    PROVE  /\ Nested(Append(p, r), b)
           /\ Wide(p) /\ (~r.inline => r.head + 4 <= r.body) => Wide(Append(p, r))
<1> DEFINE q == Append(p, r)
<1>1. p \in Seq(Block) /\ Len(p) \in Nat
  BY DEF Nested
<1>2. /\ q \in Seq(Block) /\ Len(q) = Len(p) + 1 /\ q[Len(p) + 1] = r
      /\ \A k \in 1..Len(p) : q[k] = p[k]
  BY <1>1
<1>3. \A k \in 1..Len(q) : k \in 1..Len(p) \/ k = Len(p) + 1
  BY <1>1, <1>2
<1> HIDE DEF q
<1>4. \A k \in 1..Len(q) : b <= q[k].head /\ q[k].head < q[k].body
  BY <1>2, <1>3 DEF Nested
<1>5. ASSUME NEW j \in 1..Len(q), NEW k \in 1..Len(q), j < k
      PROVE  q[j].body <= q[k].head /\ ~q[j].inline
  <2>1. j \in 1..Len(p)
    BY <1>1, <1>2, <1>5
  <2>2. CASE k \in 1..Len(p)
    BY <1>2, <1>5, <2>1, <2>2 DEF Nested
  <2>3. CASE k = Len(p) + 1
    BY <1>2, <2>1, <2>3
  <2> QED BY <1>3, <2>2, <2>3
<1>6. Nested(q, b)
  BY <1>2, <1>4, <1>5 DEF Nested
<1>7. Wide(p) /\ (~r.inline => r.head + 4 <= r.body) => Wide(q)
  BY <1>2, <1>3 DEF Wide
<1> QED BY <1>6, <1>7 DEF q

LEMMA MatchesAppend ==
    ASSUME NEW p \in Seq(Block), NEW s, Matches(s, p), NEW r \in Block
    PROVE  Matches(Append(s, r.head + 4), Append(p, r))
<1> DEFINE q == Append(p, r)
<1> DEFINE t == Append(s, r.head + 4)
<1>1. s \in Seq(Nat) /\ Len(s) = Len(p) + 1 /\ Len(p) \in Nat /\ s[1] = 0 /\ r.head + 4 \in Nat
  BY DEF Matches, Block
<1>2. Len(q) = Len(p) + 1 /\ q[Len(p) + 1] = r /\ \A k \in 1..Len(p) : q[k] = p[k]
  BY <1>1
<1>3. /\ t \in Seq(Nat) /\ Len(t) = Len(p) + 2 /\ t[Len(p) + 2] = r.head + 4
      /\ \A k \in 1..(Len(p) + 1) : t[k] = s[k]
  BY <1>1
<1>4. t[1] = 0
  BY <1>1, <1>3
<1> HIDE DEF q, t
<1>5. ASSUME NEW k \in 1..Len(q) PROVE t[k + 1] = q[k].head + 4
  <2>1. CASE k \in 1..Len(p)
    <3>1. k + 1 \in 1..(Len(p) + 1)
      BY <1>1, <2>1
    <3> QED BY <1>2, <1>3, <2>1, <3>1 DEF Matches
  <2>2. CASE k = Len(p) + 1
    BY <1>1, <1>2, <1>3, <2>2
  <2> QED BY <1>1, <1>2, <2>1, <2>2
<1>6. Matches(t, q)
  BY <1>1, <1>2, <1>3, <1>4, <1>5 DEF Matches
<1> QED BY <1>6 DEF q, t

\* The header of a block opens a brace, that of a def does not.
LEMMA BracesAppend ==
    ASSUME NEW p \in Seq(Block), NEW b, NEW o \in BOOLEAN, NEW pl \in BOOLEAN,
           Braces(b, o, pl, p), NEW r \in Block
    PROVE  /\ Braces(Append(b, r.id), o, pl, Append(p, r))
           /\ Braces(b, o, FALSE, Append(p, r))
<1> DEFINE q == Append(p, r)
<1> DEFINE c == Append(b, r.id)
<1>1. b \in Seq(Nat) /\ r.id \in Nat /\ Len(p) \in Nat /\ Len(b) \in Nat
  BY DEF Braces, Block
<1>2. /\ q \in Seq(Block) /\ Len(q) = Len(p) + 1 /\ q[Len(p) + 1] = r
      /\ \A k \in 1..Len(p) : q[k] = p[k]
  OBVIOUS
<1>3. /\ c \in Seq(Nat) /\ Len(c) = Len(b) + 1 /\ c[Len(b) + 1] = r.id
      /\ \A k \in 1..Len(b) : c[k] = b[k]
  BY <1>1
<1>4. /\ Ids(q) \in Seq(Nat) /\ Len(Ids(q)) = Len(q)
      /\ \A k \in 1..Len(q) : Ids(q)[k] = q[k].id
  BY <1>2, IdsType
<1>5. /\ Len(Ids(p)) = Len(p) /\ \A k \in 1..Len(p) : Ids(p)[k] = p[k].id
  BY IdsType
<1>6. pl => Len(b) = Len(p)
  BY <1>5 DEF Braces
<1> HIDE DEF q, c
<1>7. ASSUME pl PROVE c = Ids(q)
  <2>1. b = Ids(p)
    BY <1>7 DEF Braces
  <2>2. Len(c) = Len(Ids(q))
    BY <1>2, <1>3, <1>4, <1>6, <1>7
  <2>3. ASSUME NEW k \in 1..Len(q) PROVE c[k] = Ids(q)[k]
    <3>1. CASE k \in 1..Len(p)
      BY <1>2, <1>3, <1>4, <1>5, <1>6, <1>7, <2>1, <3>1
    <3>2. CASE k = Len(p) + 1
      BY <1>2, <1>3, <1>4, <1>6, <1>7, <3>2
    <3> QED BY <1>1, <1>2, <3>1, <3>2
  <2>4. \A k \in 1..Len(c) : c[k] = Ids(q)[k]
    BY <1>4, <2>2, <2>3
  <2> QED BY <1>3, <1>4, <2>2, <2>4, SeqEqual
<1>8. Braces(c, o, pl, q)
  BY <1>1, <1>2, <1>3, <1>7 DEF Braces
<1>9. Len(b) < Len(q) \/ ~o
  BY <1>1, <1>2, <1>6 DEF Braces
<1>10. Braces(b, o, FALSE, q)
  BY <1>1, <1>9 DEF Braces
<1> QED BY <1>8, <1>10 DEF q, c

(***************************************************************************)
(* Where a line begins, Python and the translator end the same blocks.     *)
(***************************************************************************)
IsDepth(i, e) ==
    /\ \A j \in 1..e : InBlock(i, j)
    /\ \A j \in (e + 1)..Len(py) : ~InBlock(i, j)

\* Every place a line can begin at is inside of the first few blocks.
LEMMA DepthExists ==
    ASSUME Placed, NEW i \in Indents
    PROVE  \E e \in 0..Len(py) : IsDepth(i, e)
<1>1. /\ py \in Seq(Block) /\ Len(py) \in Nat /\ base \in Nat /\ base > 0 /\ must \in Nat
      /\ DOMAIN py = 1..Len(py)
  BY DEF Placed, Nested
<1>2. \A k \in 1..Len(py) : /\ py[k].head \in Nat /\ py[k].body \in Nat
                            /\ py[k].inline \in BOOLEAN
                            /\ base <= py[k].head /\ py[k].head < py[k].body
  <2>1. \A k \in 1..Len(py) : py[k] \in Block
    BY <1>1
  <2> QED BY <2>1 DEF Block, Placed, Nested
<1>3. \A j, k \in 1..Len(py) : j < k => py[j].body <= py[k].head /\ ~py[j].inline
  BY DEF Placed, Nested
<1>4. CASE i = base \/ i = 0
  <2>1. \A j \in 1..Len(py) : ~InBlock(i, j)
    BY <1>1, <1>2, <1>4 DEF InBlock
  <2>2. IsDepth(i, 0)
    BY <1>1, <2>1 DEF IsDepth
  <2> QED BY <1>1, <2>2
<1>5. ASSUME NEW k \in 1..Len(py), i = py[k].body, ~py[k].inline
      PROVE  IsDepth(i, k)
  <2>1. ASSUME NEW j \in 1..k PROVE InBlock(i, j)
    <3>1. CASE j = k
      BY <1>2, <1>5, <3>1 DEF InBlock
    <3>2. CASE j # k
      <4>1. j \in 1..Len(py) /\ j < k
        BY <1>1, <3>2
      <4>2. py[j].body <= py[k].head /\ ~py[j].inline
        BY <1>3, <4>1
      <4> QED BY <1>2, <1>5, <4>1, <4>2 DEF InBlock
    <3> QED BY <3>1, <3>2
  <2>2. ASSUME NEW j \in (k + 1)..Len(py) PROVE ~InBlock(i, j)
    <3>1. j \in 1..Len(py) /\ k < j
      BY <1>1
    <3>2. py[k].body <= py[j].head
      BY <1>3, <3>1
    <3> QED BY <1>2, <1>5, <3>1, <3>2 DEF InBlock
  <2> QED BY <2>1, <2>2 DEF IsDepth
<1>6. CASE i = must /\ must # 0
  <2>1. Len(py) \in 1..Len(py) /\ i = py[Len(py)].body /\ ~py[Len(py)].inline
    BY <1>1, <1>6 DEF Placed, MustBegin
  <2> QED BY <1>1, <1>5, <2>1
<1>7. ASSUME NEW k \in 1..Len(py), i = py[k].body, py[k].inline
      PROVE  \E e \in 0..Len(py) : IsDepth(i, e)
  <2>1. k = Len(py)
    <3>1. k \in Nat /\ 1 <= k /\ k <= Len(py)
      BY <1>1
    <3>2. Len(py) \in 1..Len(py)
      BY <1>1, <3>1
    <3>3. ~(k < Len(py))
      BY <1>3, <1>7, <3>2
    <3>4. Len(py) \in Nat
      BY <1>1
    <3> QED BY <3>1, <3>3, <3>4
  <2>2. ASSUME NEW j \in 1..(k - 1) PROVE InBlock(i, j)
    <3>1. j \in 1..Len(py) /\ j < k
      BY <1>1
    <3>2. py[j].body <= py[k].head /\ ~py[j].inline
      BY <1>3, <3>1
    <3> QED BY <1>2, <1>7, <3>1, <3>2 DEF InBlock
  <2>3. ASSUME NEW j \in (k - 1 + 1)..Len(py) PROVE ~InBlock(i, j)
    <3>1. j = k
      BY <1>1, <2>1
    <3> QED BY <1>7, <3>1 DEF InBlock
  <2>4. IsDepth(i, k - 1)
    BY <2>2, <2>3 DEF IsDepth
  <2> QED BY <1>1, <2>4
<1>8. i = base \/ i = must \/ \E k \in 1..Len(py) : i = py[k].body
  BY <1>1 DEF Indents
<1>9. CASE \E k \in 1..Len(py) : i = py[k].body
  <2>1. PICK k \in 1..Len(py) : i = py[k].body
    BY <1>9
  <2>2. k \in 0..Len(py)
    BY <1>1
  <2>3. CASE py[k].inline
    BY <1>7, <2>1, <2>3
  <2>4. CASE ~py[k].inline
    BY <1>5, <2>1, <2>2, <2>4
  <2> QED BY <2>3, <2>4
<1> QED BY <1>4, <1>6, <1>8, <1>9

LEMMA Depth ==
    ASSUME Placed, NEW i \in Indents
    PROVE  Enclosing(i) \in 0..Len(py) /\ IsDepth(i, Enclosing(i))
<1>1. \E e \in 0..Len(py) : /\ \A j \in 1..e : InBlock(i, j)
                            /\ \A j \in (e + 1)..Len(py) : ~InBlock(i, j)
  BY DepthExists DEF IsDepth
<1> QED BY <1>1 DEF Enclosing, IsDepth

\* The line begins where one of the blocks, or the whole body, does; or it
\* continues a block that ends here.
Begins(i) ==
    \/ i \in Levels
    \/ Enclosing(i) < Len(py) /\ py[Enclosing(i) + 1].head = i

\* No line begins between a header and four columns further to the right
\* without being in that block.
LEMMA SameSide ==
    ASSUME Open, NEW i \in Indents, Begins(i), NEW k \in 1..Len(py)
    PROVE  InBlock(i, k) <=> stack[k + 1] =< i
<1>1. /\ py \in Seq(Block) /\ Len(py) \in Nat /\ base \in Nat /\ must \in Nat
      /\ DOMAIN py = 1..Len(py)
  BY DEF Open, Nested
<1>2. \A j \in 1..Len(py) : /\ py[j].head \in Nat /\ py[j].body \in Nat
                            /\ py[j].inline \in BOOLEAN
                            /\ base <= py[j].head /\ py[j].head < py[j].body
  <2>1. \A j \in 1..Len(py) : py[j] \in Block
    BY <1>1
  <2> QED BY <2>1 DEF Block, Open, Nested
<1>3. \A j, m \in 1..Len(py) : j < m => py[j].body <= py[m].head /\ ~py[j].inline
  BY DEF Open, Nested
<1>4. /\ stack[k + 1] = py[k].head + 4
      /\ ~py[k].inline => py[k].head + 4 <= py[k].body
  BY DEF Open, Matches, Wide
<1>5. i \in Nat
  BY <1>1, <1>2 DEF Indents
<1>6. InBlock(i, k) => stack[k + 1] =< i
  BY <1>2, <1>4, <1>5 DEF InBlock
<1>7. CASE i = base
  BY <1>1, <1>2, <1>4, <1>6, <1>7
<1>8. ASSUME NEW m \in 1..Len(py), i = py[m].body, ~py[m].inline
      PROVE  InBlock(i, k) <=> stack[k + 1] =< i
  <2>1. CASE m < k
    <3>1. py[m].body <= py[k].head
      BY <1>3, <2>1
    <3> QED BY <1>2, <1>4, <1>6, <1>8, <3>1
  <2>2. CASE m = k
    BY <1>2, <1>4, <1>6, <1>8, <2>2 DEF InBlock
  <2>3. CASE k < m
    <3>1. py[k].body <= py[m].head /\ ~py[k].inline
      BY <1>3, <2>3
    <3> QED BY <1>2, <1>4, <1>6, <1>8, <3>1 DEF InBlock
  <2> QED BY <1>1, <2>1, <2>2, <2>3
<1>9. CASE i \in Levels
  <2>1. CASE must # 0
    <3>1. i = must /\ Len(py) \in 1..Len(py) /\ i = py[Len(py)].body /\ ~py[Len(py)].inline
      BY <1>1, <1>9, <2>1 DEF Levels, Open, MustBegin
    <3> QED BY <1>8, <3>1
  <2>2. CASE must = 0
    <3>1. i = base \/ \E m \in 1..Len(py) : i = py[m].body /\ ~py[m].inline
      BY <1>1, <1>9, <2>2 DEF Levels
    <3> QED BY <1>7, <1>8, <3>1
  <2> QED BY <2>1, <2>2
<1>10. CASE Enclosing(i) < Len(py) /\ py[Enclosing(i) + 1].head = i
  <2> DEFINE e == Enclosing(i)
  <2>1. e \in 0..Len(py) /\ IsDepth(i, e)
    BY Depth, OpenPlaced
  <2>2. CASE k \in 1..e
    BY <1>6, <2>1, <2>2 DEF IsDepth
  <2>3. CASE k \notin 1..e
    <3>1. e + 1 \in 1..Len(py) /\ (k = e + 1 \/ e + 1 < k)
      BY <1>1, <1>10, <2>1, <2>3
    <3>2. i <= py[k].head
      <4>1. CASE k = e + 1
        BY <1>2, <1>10, <4>1
      <4>2. CASE e + 1 < k
        <5> DEFINE d == e + 1
        <5>1. d \in 1..Len(py) /\ d < k /\ py[d].head = i
          BY <1>10, <3>1, <4>2
        <5> HIDE DEF d
        <5>2. py[d].body <= py[k].head /\ py[d].head < py[d].body
          BY <1>2, <1>3, <5>1
        <5> QED BY <1>2, <5>1, <5>2
      <4> QED BY <3>1, <4>1, <4>2
    <3> QED BY <1>2, <1>4, <1>5, <1>6, <3>2
  <2> QED BY <2>2, <2>3
<1> QED BY <1>9, <1>10 DEF Begins

LEMMA KeptIsDepth ==
    ASSUME Open, NEW i \in Indents, Begins(i)
    PROVE  Kept(i) = Enclosing(i) + 1 /\ Dedented(i) = Len(py) - Enclosing(i)
<1> DEFINE e == Enclosing(i)
<1>1. e \in 0..Len(py) /\ IsDepth(i, e) /\ Len(py) \in Nat
  BY Depth, OpenPlaced DEF Open, Nested
<1>2. stack \in Seq(Nat) /\ Len(stack) = Len(py) + 1 /\ stack[1] = 0
  BY DEF Open, Matches
<1>3. i \in Nat
  <2>1. \A j \in 1..Len(py) : py[j] \in Block
    BY DEF Open, Nested
  <2>2. \A j \in 1..Len(py) : py[j].body \in Nat
    BY <2>1 DEF Block
  <2>3. DOMAIN py = 1..Len(py)
    BY DEF Open, Nested
  <2> QED BY <2>2, <2>3 DEF Open, Indents
<1>4. \A k \in 1..Len(py) : InBlock(i, k) <=> stack[k + 1] =< i
  BY SameSide
<1>5. \A k \in 1..Len(stack) : stack[k] \in Nat
  BY <1>2
<1>6. \A k \in 2..Len(stack) : k - 1 \in 1..Len(py) /\ stack[(k - 1) + 1] = stack[k]
  BY <1>1, <1>2
<1>7. \A k \in 2..Len(stack) : InBlock(i, k - 1) <=> stack[k] =< i
  BY <1>4, <1>6
<1> HIDE DEF e
<1>8. e + 1 \in 1..Len(stack) /\ stack[e + 1] =< i
  <2>1. CASE e = 0
    BY <1>1, <1>2, <1>3, <2>1
  <2>2. CASE e # 0
    <3>1. e + 1 \in 2..Len(stack) /\ e \in 1..e /\ e \in 1..Len(py)
      BY <1>1, <1>2, <2>2
    <3>2. InBlock(i, e)
      BY <1>1, <3>1 DEF IsDepth
    <3> QED BY <1>2, <1>4, <3>1, <3>2
  <2> QED BY <2>1, <2>2
<1>9. \A j \in (e + 1 + 1)..Len(stack) : i < stack[j]
  <2>1. SUFFICES ASSUME NEW j \in (e + 1 + 1)..Len(stack) PROVE i < stack[j]
    OBVIOUS
  <2>2. j \in 2..Len(stack) /\ j - 1 \in (e + 1)..Len(py) /\ j \in 1..Len(stack)
    BY <1>1, <1>2
  <2>3. ~InBlock(i, j - 1)
    BY <1>1, <2>2 DEF IsDepth
  <2>4. ~(stack[j] =< i)
    BY <1>7, <2>2, <2>3
  <2> QED BY <1>3, <1>5, <2>2, <2>4
<1> DEFINE P(k) == stack[k] =< i /\ \A j \in (k + 1)..Len(stack) : i < stack[j]
<1>10. Kept(i) \in 1..Len(stack) /\ P(Kept(i))
  <2>1. \E k \in 1..Len(stack) : P(k)
    BY <1>8, <1>9
  <2>2. Kept(i) = CHOOSE k \in 1..Len(stack) : P(k)
    BY DEF Kept
  <2> HIDE DEF P
  <2> QED BY <2>1, <2>2
<1>11. Kept(i) = e + 1
  <2> DEFINE K == Kept(i)
  <2>1. /\ K \in 1..Len(stack) /\ stack[K] =< i
        /\ \A j \in (K + 1)..Len(stack) : i < stack[j]
    BY <1>10
  <2> HIDE DEF K, P
  <2>2. ASSUME K < e + 1 PROVE FALSE
    <3>1. e + 1 \in (K + 1)..Len(stack)
      BY <1>1, <1>8, <2>1, <2>2
    <3>2. i < stack[e + 1]
      BY <2>1, <3>1
    <3> QED BY <1>3, <1>5, <1>8, <3>2
  <2>3. ASSUME e + 1 < K PROVE FALSE
    <3>1. K \in (e + 1 + 1)..Len(stack)
      BY <1>1, <1>2, <2>1, <2>3
    <3>2. i < stack[K]
      BY <1>9, <3>1
    <3> QED BY <1>3, <1>5, <2>1, <3>2
  <2>4. K = e + 1
    BY <1>1, <1>2, <2>1, <2>2, <2>3
  <2> QED BY <2>4 DEF K
<1>12. Dedented(i) = Len(py) - e
  BY <1>1, <1>2, <1>11 DEF Dedented
<1> QED BY <1>11, <1>12 DEF e

(***************************************************************************)
(* The lines.                                                              *)
(***************************************************************************)

\* A line at i ends blocks; what is left fits together, and the block of a
\* header at i may be added to it.
LEMMA LineEnds ==
    ASSUME Open, ok \in BOOLEAN, plain \in BOOLEAN, NEW i \in Indents, Begins(i)
    PROVE  LET p == Outer(i)
               s == SubSeq(stack, 1, Kept(i))
               o == ok /\ Dedented(i) =< Len(js)
           IN  /\ Nested(p, base) /\ Wide(p) /\ Matches(s, p)
               /\ Braces(Closing(Dedented(i)), o, plain, p)
               /\ \A k \in 1..Len(p) : p[k].body <= i /\ ~p[k].inline
               /\ p \in Seq(Block)
<1> DEFINE e == Enclosing(i)
<1>1. e \in 0..Len(py) /\ IsDepth(i, e)
  BY Depth, OpenPlaced
<1>2. /\ Nested(py, base) /\ Wide(py) /\ Matches(stack, py) /\ Braces(js, ok, plain, py)
      /\ py \in Seq(Block)
  BY DEF Open, Nested
<1>3. Outer(i) = SubSeq(py, 1, e) /\ Kept(i) = e + 1 /\ Dedented(i) = Len(py) - e
  BY KeptIsDepth DEF Outer
<1> HIDE DEF e
<1>4. /\ Nested(SubSeq(py, 1, e), base) /\ Wide(SubSeq(py, 1, e)) /\ Len(SubSeq(py, 1, e)) = e
      /\ \A k \in 1..e : SubSeq(py, 1, e)[k] = py[k]
  BY <1>1, <1>2, NestedCut
<1>5. Matches(SubSeq(stack, 1, e + 1), SubSeq(py, 1, e))
  BY <1>1, <1>2, MatchesCut
<1>6. Braces(Closing(Len(py) - e), ok /\ Len(py) - e =< Len(js), plain, SubSeq(py, 1, e))
  BY <1>1, <1>2, BracesCut
<1>7. \A k \in 1..e : py[k].body <= i /\ ~py[k].inline
  BY <1>1 DEF IsDepth, InBlock
<1>8. SubSeq(py, 1, e) \in Seq(Block)
  BY <1>4 DEF Nested
<1> QED BY <1>3, <1>4, <1>5, <1>6, <1>7, <1>8

\* A header at i of a block indented by u.
LEMMA BlockBegins ==
    ASSUME Open, ok \in BOOLEAN, plain \in BOOLEAN, NEW i \in Indents, Begins(i), base <= i,
           NEW u \in Units, NEW inline \in BOOLEAN, inline \/ u >= 4
    PROVE  LET r == [head |-> i, body |-> i + u, id |-> n + 1, inline |-> inline]
               p == Append(Outer(i), r)
               s == Append(SubSeq(stack, 1, Kept(i)), Pushed(i))
               o == ok /\ Dedented(i) =< Len(js)
           IN  /\ Nested(p, base) /\ Wide(p) /\ Matches(s, p)
               /\ Braces(Append(Closing(Dedented(i)), n + 1), o, plain, p)
               /\ Braces(Closing(Dedented(i)), o, FALSE, p)
               /\ Len(p) \in Nat /\ Len(p) > 0 /\ p[Len(p)] = r
<1> DEFINE r == [head |-> i, body |-> i + u, id |-> n + 1, inline |-> inline]
<1> DEFINE q == Outer(i)
<1> DEFINE o == ok /\ Dedented(i) =< Len(js)
<1>1. /\ Nested(q, base) /\ Wide(q) /\ Matches(SubSeq(stack, 1, Kept(i)), q)
      /\ Braces(Closing(Dedented(i)), o, plain, q)
      /\ \A k \in 1..Len(q) : q[k].body <= i /\ ~q[k].inline
      /\ q \in Seq(Block)
  BY LineEnds
<1>2. i \in Nat /\ u \in Nat /\ u > 0 /\ n + 1 \in Nat /\ base \in Nat
  <2>1. \A j \in 1..Len(py) : py[j] \in Block
    BY DEF Open, Nested
  <2>2. \A j \in 1..Len(py) : py[j].body \in Nat
    BY <2>1 DEF Block
  <2>3. DOMAIN py = 1..Len(py)
    BY DEF Open, Nested
  <2> QED BY <2>2, <2>3, TranspilerAssumption DEF Open, Indents
<1>3. r \in Block /\ r.head = i /\ r.body = i + u /\ r.id = n + 1 /\ r.inline = inline
  BY <1>2 DEF Block
<1>4. base <= r.head /\ r.head < r.body /\ (~r.inline => r.head + 4 <= r.body)
  BY <1>2, <1>3
<1>5. o \in BOOLEAN
  OBVIOUS
<1> HIDE DEF r, q, o
<1>6. Nested(Append(q, r), base) /\ Wide(Append(q, r))
  BY <1>1, <1>2, <1>3, <1>4, NestedAppend
<1>7. Matches(Append(SubSeq(stack, 1, Kept(i)), r.head + 4), Append(q, r))
  BY <1>1, <1>3, MatchesAppend
<1>8. /\ Braces(Append(Closing(Dedented(i)), r.id), o, plain, Append(q, r))
      /\ Braces(Closing(Dedented(i)), o, FALSE, Append(q, r))
  BY <1>1, <1>3, <1>5, BracesAppend
<1>9. LET p == Append(q, r) IN Len(p) \in Nat /\ Len(p) > 0 /\ p[Len(p)] = r
  BY <1>1
<1>10. r.head + 4 = Pushed(i) /\ r.id = n + 1
  BY <1>3 DEF Pushed
<1> QED BY <1>6, <1>7, <1>8, <1>9, <1>10 DEF r, q, o

\* A line begins at or right of where the body does.
LEMMA LevelsRight ==
    ASSUME Placed, NEW i \in Indents, Begins(i)
    PROVE  base <= i
<1>1. \A j \in 1..Len(py) : py[j] \in Block
  BY DEF Placed, Nested
<1>2. \A j \in 1..Len(py) : /\ py[j].body \in Nat /\ py[j].head \in Nat
                            /\ base <= py[j].head /\ py[j].head < py[j].body
  BY <1>1 DEF Block, Placed, Nested
<1>3. DOMAIN py = 1..Len(py) /\ Len(py) \in Nat /\ base \in Nat
  BY DEF Placed, Nested
<1>4. \A j \in 1..Len(py) : base <= py[j].body
  BY <1>2, <1>3
<1>5. CASE i \in Levels
  BY <1>3, <1>4, <1>5 DEF Levels, Placed, MustBegin
<1>6. CASE Enclosing(i) < Len(py) /\ py[Enclosing(i) + 1].head = i
  <2>1. Enclosing(i) + 1 \in 1..Len(py)
    BY <1>3, <1>6, Depth
  <2> QED BY <1>2, <1>6, <2>1
<1> QED BY <1>5, <1>6 DEF Begins

LEMMA StepPreserves == TInv /\ [Line]_lineVars => TInv'
<1> SUFFICES ASSUME TInv, [Line]_lineVars PROVE TInv'
  OBVIOUS
<1>0. /\ ok \in BOOLEAN /\ kept \in BOOLEAN /\ plain \in BOOLEAN
      /\ wide \in BOOLEAN /\ split \in BOOLEAN /\ ended \in BOOLEAN
  BY DEF TInv
<1>1. CASE Blank
  <2>1. /\ n' = n + 1
        /\ UNCHANGED <<base, py, must, stack, js, ok, kept, plain, wide, split, ended>>
    BY <1>1 DEF Blank, Reads, source
  <2> QED BY <2>1 DEF TInv, Open, Closed, MustBegin
<1>2. ASSUME NEW i \in Indents, Statement(i) PROVE TInv'
  <2>1. /\ ~ended /\ ended' = FALSE /\ n' = n + 1 /\ i \in Levels
        /\ py' = Outer(i) /\ must' = 0 /\ base' = base /\ plain' = plain /\ wide' = wide
        /\ split' = split
        /\ stack' = SubSeq(stack, 1, Kept(i))
        /\ js' = Closing(Dedented(i)) /\ ok' = (ok /\ Dedented(i) =< Len(js))
        /\ kept' = (kept /\ js' = Ids(py'))
    BY <1>0, <1>2 DEF Statement, Reads
  <2>2. ok' \in BOOLEAN /\ kept' \in BOOLEAN /\ plain' \in BOOLEAN /\ wide' \in BOOLEAN
        /\ split' \in BOOLEAN
    BY <1>0, <2>1
  <2>3. ASSUME wide PROVE Open'
    <3>1. Open /\ Begins(i)
      BY <2>1, <2>3 DEF TInv, Begins
    <3>2. /\ Nested(py', base) /\ Wide(py') /\ Matches(stack', py')
          /\ Braces(js', ok', plain, py')
      BY <1>0, <2>1, <3>1, LineEnds
    <3>3. plain => js' = Ids(py')
      BY <3>2 DEF Braces
    <3>4. n' \in Nat /\ base' \in Nat \ {0} /\ must' \in Nat
      BY <2>1, <3>1 DEF Open
    <3>5. plain' /\ split' => kept'
      BY <2>1, <3>1, <3>3, Zenon DEF Open
    <3> QED BY <2>1, <3>2, <3>4, <3>5 DEF Open, MustBegin
  <2> QED BY <2>1, <2>2, <2>3 DEF TInv
<1>3. ASSUME NEW i \in Indents, NEW u \in Units, BlockOpen(i, u) PROVE TInv'
  <2> DEFINE r == [head |-> i, body |-> i + u, id |-> n + 1, inline |-> FALSE]
  <2>1. /\ ~ended /\ ended' = FALSE /\ n' = n + 1 /\ i \in Levels
        /\ py' = Append(Outer(i), r) /\ must' = i + u
        /\ wide' = (wide /\ u >= 4) /\ UNCHANGED <<base, kept, plain, split>>
        /\ stack' = Append(SubSeq(stack, 1, Kept(i)), Pushed(i))
        /\ js' = Append(Closing(Dedented(i)), n + 1) /\ ok' = (ok /\ Dedented(i) =< Len(js))
    BY <1>0, <1>3 DEF BlockOpen, Reads
  <2>2. ok' \in BOOLEAN /\ kept' \in BOOLEAN /\ plain' \in BOOLEAN /\ wide' \in BOOLEAN
        /\ split' \in BOOLEAN
    BY <1>0, <2>1
  <2>3. ASSUME wide' PROVE Open'
    <3>1. wide /\ u >= 4 /\ Open /\ Begins(i)
      BY <2>1, <2>3 DEF TInv, Begins
    <3>2. base <= i
      BY <3>1, LevelsRight, OpenPlaced
    <3>3. /\ Nested(py', base) /\ Wide(py') /\ Matches(stack', py')
          /\ Braces(js', ok', plain, py')
          /\ Len(py') > 0 /\ py'[Len(py')] = r
      BY <1>0, <2>1, <3>1, <3>2, BlockBegins
    <3>4. n' \in Nat /\ base' \in Nat \ {0} /\ must' \in Nat /\ (plain' /\ split' => kept')
      <4>1. py'[Len(py')].body \in Nat
        <5>1. py' \in Seq(Block)
          BY <3>3 DEF Nested
        <5>2. py'[Len(py')] \in Block
          BY <3>3, <5>1
        <5> QED BY <5>2 DEF Block
      <4> QED BY <2>1, <3>1, <3>3, <4>1 DEF Open
    <3>5. MustBegin'
      BY <2>1, <3>3 DEF MustBegin
    <3> QED BY <2>1, <3>3, <3>4, <3>5 DEF Open
  <2> QED BY <2>1, <2>2, <2>3 DEF TInv
<1>4. ASSUME NEW i \in Indents, NEW u \in Units, NestedDef(i, u) PROVE TInv'
  <2> DEFINE r == [head |-> i, body |-> i + u, id |-> n + 1, inline |-> FALSE]
  <2>1. /\ ~ended /\ ended' = FALSE /\ n' = n + 1 /\ i \in Levels
        /\ py' = Append(Outer(i), r) /\ must' = i + u
        /\ wide' = (wide /\ u >= 4) /\ UNCHANGED <<base, kept, split>> /\ plain' = FALSE
        /\ stack' = Append(SubSeq(stack, 1, Kept(i)), Pushed(i))
        /\ js' = Closing(Dedented(i)) /\ ok' = (ok /\ Dedented(i) =< Len(js))
    BY <1>0, <1>4 DEF NestedDef, Reads
  <2>2. ok' \in BOOLEAN /\ kept' \in BOOLEAN /\ plain' \in BOOLEAN /\ wide' \in BOOLEAN
        /\ split' \in BOOLEAN
    BY <1>0, <2>1
  <2>3. ASSUME wide' PROVE Open'
    <3>1. wide /\ u >= 4 /\ Open /\ Begins(i)
      BY <2>1, <2>3 DEF TInv, Begins
    <3>2. base <= i
      BY <3>1, LevelsRight, OpenPlaced
    <3>3. /\ Nested(py', base) /\ Wide(py') /\ Matches(stack', py')
          /\ Braces(js', ok', FALSE, py')
          /\ Len(py') > 0 /\ py'[Len(py')] = r
      BY <1>0, <2>1, <3>1, <3>2, BlockBegins
    <3>4. n' \in Nat /\ base' \in Nat \ {0} /\ must' \in Nat /\ ~plain'
      <4>1. py'[Len(py')].body \in Nat
        <5>1. py' \in Seq(Block)
          BY <3>3 DEF Nested
        <5>2. py'[Len(py')] \in Block
          BY <3>3, <5>1
        <5> QED BY <5>2 DEF Block
      <4> QED BY <2>1, <3>1, <3>3, <4>1 DEF Open
    <3>5. MustBegin'
      BY <2>1, <3>3 DEF MustBegin
    <3> QED BY <2>1, <3>3, <3>4, <3>5 DEF Open
  <2> QED BY <2>1, <2>2, <2>3 DEF TInv
<1>5. ASSUME NEW i \in Indents, NEW u \in Units, NEW inline \in BOOLEAN, Continues(i, u, inline)
      PROVE  TInv'
  <2> DEFINE r == [head |-> i, body |-> i + u, id |-> n + 1, inline |-> inline]
  <2> DEFINE m == Dedented(i) + (IF Joins(i) THEN 0 ELSE 1)
  <2>1. /\ ~ended /\ ended' = FALSE /\ n' = n + 1 /\ Begins(i)
        /\ Enclosing(i) < Len(py)
        /\ py' = Append(Outer(i), r) /\ must' = IF inline THEN 0 ELSE i + u
        /\ wide' = (wide /\ (inline \/ u >= 4)) /\ UNCHANGED <<base, plain>>
        /\ kept' = (kept /\ ~inline) /\ split' = (split /\ ~inline)
        /\ stack' = Append(SubSeq(stack, 1, Kept(i)), Pushed(i))
        /\ js' = Append(Closing(m), n + 1) /\ ok' = (ok /\ m =< Len(js))
    BY <1>0, <1>5 DEF Continues, Reads, Begins
  <2>2. ok' \in BOOLEAN /\ kept' \in BOOLEAN /\ plain' \in BOOLEAN /\ wide' \in BOOLEAN
        /\ split' \in BOOLEAN
    BY <1>0, <2>1
  <2>3. ASSUME wide' PROVE Open'
    <3>1. wide /\ (inline \/ u >= 4) /\ Open
      BY <2>1, <2>3 DEF TInv
    <3>2. base <= i
      BY <2>1, <3>1, LevelsRight, OpenPlaced
    <3>3. m = Dedented(i)
      <4>1. Dedented(i) = Len(py) - Enclosing(i) /\ Enclosing(i) \in 0..Len(py)
        BY <2>1, <3>1, KeptIsDepth, Depth, OpenPlaced
      <4>2. Len(py) \in Nat
        BY <3>1 DEF Open, Nested
      <4>3. Dedented(i) > 0 /\ Dedented(i) \in Nat
        BY <2>1, <4>1, <4>2
      <4> QED BY <4>3 DEF Joins
    <3> HIDE DEF m
    <3>4. /\ Nested(py', base) /\ Wide(py') /\ Matches(stack', py')
          /\ Braces(js', ok', plain, py')
          /\ Len(py') > 0 /\ py'[Len(py')] = r
      BY <1>0, <2>1, <3>1, <3>2, <3>3, BlockBegins
    <3>5. n' \in Nat /\ base' \in Nat \ {0} /\ must' \in Nat /\ (plain' /\ split' => kept')
      <4>1. py'[Len(py')].body \in Nat
        <5>1. py' \in Seq(Block)
          BY <3>4 DEF Nested
        <5>2. py'[Len(py')] \in Block
          BY <3>4, <5>1
        <5> QED BY <5>2 DEF Block
      <4> QED BY <2>1, <3>1, <3>4, <4>1 DEF Open
    <3>6. MustBegin'
      BY <2>1, <3>4 DEF MustBegin
    <3> QED BY <2>1, <3>4, <3>5, <3>6 DEF Open
  <2> QED BY <2>1, <2>2, <2>3 DEF TInv
<1>6. CASE Finish
  <2>1. /\ ~ended /\ ended' = TRUE /\ UNCHANGED <<kept, plain, wide, split>>
        /\ js' = Closing(Len(stack) - 1) /\ ok' = (ok /\ Len(stack) - 1 =< Len(js))
    BY <1>6 DEF Finish
  <2>2. ok' \in BOOLEAN /\ kept' \in BOOLEAN /\ plain' \in BOOLEAN /\ wide' \in BOOLEAN
        /\ split' \in BOOLEAN
    BY <1>0, <2>1
  <2>3. ASSUME wide PROVE Closed'
    <3>1. Open
      BY <2>1, <2>3 DEF TInv
    <3>2. /\ py \in Seq(Block) /\ Len(py) \in Nat /\ Len(stack) - 1 = Len(py) - 0
          /\ 0 \in 0..Len(py)
      BY <3>1 DEF Open, Nested, Matches
    <3>3. Braces(js', ok', plain, SubSeq(py, 1, 0))
      BY <1>0, <2>1, <3>1, <3>2, BracesCut DEF Open
    <3>4. SubSeq(py, 1, 0) = <<>>
      BY <3>2
    <3>5. Len(js') \in Nat /\ Len(SubSeq(py, 1, 0)) = 0 /\ Ids(SubSeq(py, 1, 0)) = <<>>
      BY <3>3, <3>4 DEF Braces, Ids
    <3> QED BY <2>1, <3>1, <3>3, <3>5 DEF Closed, Braces, Open
  <2> QED BY <2>1, <2>2, <2>3 DEF TInv
<1>7. CASE UNCHANGED lineVars
  BY <1>7 DEF lineVars, source, TInv, Open, Closed, MustBegin
<1> QED BY <1>1, <1>2, <1>3, <1>4, <1>5, <1>6, <1>7 DEF Line

LEMMA InitHolds == Begin => TInv
<1> SUFFICES ASSUME Begin PROVE TInv
  OBVIOUS
<1>1. /\ py = <<>> /\ Len(py) = 0 /\ stack = <<0>> /\ js = <<>> /\ Ids(py) = <<>>
      /\ py \in Seq(Block) /\ stack \in Seq(Nat) /\ Len(stack) = 1 /\ stack[1] = 0
      /\ js \in Seq(Nat)
  BY DEF Begin, Ids
<1>2. Nested(py, base) /\ Wide(py) /\ Matches(stack, py)
  BY <1>1 DEF Nested, Wide, Matches
<1>3. Braces(js, ok, plain, py) /\ ok /\ kept /\ plain /\ wide /\ split /\ ~ended
  BY <1>1 DEF Braces, Begin
<1>4. n \in Nat /\ base \in Nat \ {0} /\ must = 0
  BY TranspilerAssumption DEF Begin
<1>5. Open
  BY <1>2, <1>3, <1>4 DEF Open, MustBegin
<1> QED BY <1>5 DEF Begin, TInv

\* A translation that compiles has every statement in the blocks it was written
\* in (ContestantRunner._transpile), if blocks are indented by four or more.
THEOREM NestingIsKept == Transpile => []CompiledKeepsNesting
<1>1. TInv => CompiledKeepsNesting
  BY DEF TInv, Closed, CompiledKeepsNesting, Compiles
<1> QED BY <1>1, InitHolds, StepPreserves, PTL DEF Transpile

\* Such a program without a def compiles, as far as braces go.
THEOREM TranslationCompiles == Transpile => []BracesMatch
<1>1. TInv => BracesMatch
  BY DEF TInv, Closed, BracesMatch, Compiles
<1> QED BY <1>1, InitHolds, StepPreserves, PTL DEF Transpile

(***************************************************************************)
(* The shape of the state, for programs indented in any way.  A block that *)
(* is indented by less than four has no place of its own on indentStack,   *)
(* so nothing relates the two sides; what counts is that every line finds  *)
(* an entry to stop at.                                                    *)
(***************************************************************************)
ShapeInv == WellFormed /\ Nested(py, base) /\ MustBegin

\* Of numbers up to m there is a largest.
LEMMA GreatestNumber ==
    ASSUME NEW m \in Nat, NEW T \in SUBSET (0..m), T # {}
    PROVE  \E x \in T : \A y \in T : y <= x
<1> DEFINE D == {m - x : x \in T}
<1> DEFINE R == OpToRel(<, Nat)
<1>1. D \in SUBSET Nat /\ D # {}
  <2>1. \A x \in T : x \in 0..m
    OBVIOUS
  <2>2. \A x \in T : m - x \in Nat
    BY <2>1
  <2>3. D # {}
    OBVIOUS
  <2> QED BY <2>2, <2>3
<1>2. \A x, y \in Nat : y < x => <<y, x>> \in R
  BY DEF OpToRel
<1>3. IsWellFoundedOn(R, Nat)
  BY NatLessThanWellFounded
<1> HIDE DEF R
<1>4. PICK d \in D : \A y \in D : ~(<<y, d>> \in R)
  BY <1>1, <1>3, WFMin
<1>5. PICK x \in T : d = m - x
  BY <1>4
<1>6. ASSUME NEW y \in T PROVE y <= x
  <2>1. m - y \in D /\ m - y \in Nat /\ d \in Nat /\ y \in Nat /\ x \in Nat
    BY <1>5
  <2>2. ~(m - y < d)
    BY <1>2, <1>4, <2>1
  <2> QED BY <1>5, <2>1, <2>2
<1> QED BY <1>6

\* The ground level ends every search on indentStack.
LEMMA KeptExists ==
    ASSUME WellFormed, NEW i \in Nat
    PROVE  Kept(i) \in 1..Len(stack) /\ Dedented(i) \in Nat
<1>1. stack \in Seq(Nat) /\ Len(stack) \in Nat /\ Len(stack) >= 1 /\ stack[1] = 0
  BY DEF WellFormed
<1> DEFINE T == {k \in 1..Len(stack) : stack[k] =< i}
<1>2. \A k \in 1..Len(stack) : stack[k] \in Nat
  BY <1>1
<1>3. T \in SUBSET (0..Len(stack)) /\ 1 \in T
  BY <1>1
<1>4. PICK x \in T : \A y \in T : y <= x
  BY <1>1, <1>3, GreatestNumber
<1>5. x \in 1..Len(stack) /\ stack[x] =< i
  BY <1>4
<1>6. ASSUME NEW j \in (x + 1)..Len(stack) PROVE i < stack[j]
  <2>1. j \in 1..Len(stack) /\ ~(j <= x) /\ stack[j] \in Nat
    BY <1>1, <1>2, <1>5
  <2>2. ~(stack[j] =< i)
    BY <1>4, <2>1
  <2> QED BY <2>1, <2>2
<1> HIDE DEF T
<1>7. Kept(i) \in 1..Len(stack)
  <2> DEFINE P(k) == stack[k] =< i /\ \A j \in (k + 1)..Len(stack) : i < stack[j]
  <2>1. P(x)
    BY <1>5, <1>6
  <2>2. Kept(i) = CHOOSE k \in 1..Len(stack) : P(k)
    BY DEF Kept
  <2> HIDE DEF P
  <2> QED BY <1>5, <2>1, <2>2
<1> QED BY <1>1, <1>7 DEF Dedented

LEMMA ClosingType ==
    ASSUME WellFormed, NEW m \in Nat
    PROVE  Closing(m) \in Seq(Nat)
<1>1. js \in Seq(Nat) /\ Len(js) \in Nat
  BY DEF WellFormed
<1>2. CASE m =< Len(js)
  <2>0. Len(js) - m \in 0..Len(js)
    BY <1>1, <1>2
  <2>1. PICK e \in 0..Len(js) : e = Len(js) - m
    BY <2>0
  <2>2. SubSeq(js, 1, e) \in Seq(Nat)
    BY <1>1, Prefix
  <2> QED BY <1>2, <2>1, <2>2 DEF Closing
<1>3. CASE ~(m =< Len(js))
  <2>1. <<>> \in Seq(Nat)
    OBVIOUS
  <2>2. Closing(m) = <<>>
    BY <1>3 DEF Closing
  <2> QED BY <2>1, <2>2, Zenon
<1> QED BY <1>2, <1>3

\* indentStack after a line at i, and after a header there.
LEMMA StackType ==
    ASSUME WellFormed, NEW i \in Nat
    PROVE  LET s == SubSeq(stack, 1, Kept(i))
               t == Append(s, Pushed(i))
           IN  /\ s \in Seq(Nat) /\ Len(s) >= 1 /\ s[1] = 0
               /\ t \in Seq(Nat) /\ Len(t) >= 1 /\ t[1] = 0
<1> DEFINE s == SubSeq(stack, 1, Kept(i))
<1>1. stack \in Seq(Nat) /\ Len(stack) \in Nat /\ stack[1] = 0
  BY DEF WellFormed
<1>0. Kept(i) \in 1..Len(stack)
  BY KeptExists
<1>2. PICK e \in 1..Len(stack) : e = Kept(i)
  BY <1>0
<1>3. s = SubSeq(stack, 1, e)
  BY <1>2
<1>4. s \in Seq(Nat) /\ Len(s) = e /\ \A k \in 1..e : s[k] = stack[k]
  <2>1. e \in 0..Len(stack)
    BY <1>1
  <2> HIDE DEF s
  <2> QED BY <1>1, <1>3, <2>1, Prefix
<1>5. 1 \in 1..e /\ e \in Nat
  BY <1>1, <1>2
<1>6. s \in Seq(Nat) /\ Len(s) \in Nat /\ Len(s) >= 1 /\ s[1] = 0
  BY <1>1, <1>2, <1>4, <1>5
<1>7. Pushed(i) \in Nat
  BY DEF Pushed
<1> HIDE DEF s
<1>8. Append(s, Pushed(i)) \in Seq(Nat) /\ Len(Append(s, Pushed(i))) = Len(s) + 1
      /\ Append(s, Pushed(i))[1] = s[1]
  BY <1>6, <1>7
<1> QED BY <1>6, <1>8 DEF s

\* Lines begin at numbers, blocks are indented by numbers.
LEMMA IndentsAreNumbers ==
    ASSUME ShapeInv
    PROVE  /\ Placed /\ \A i \in Indents : i \in Nat
           /\ \A u \in Units : u \in Nat /\ u > 0
<1>1. base \in Nat \ {0} /\ must \in Nat /\ py \in Seq(Block)
  BY TranspilerAssumption DEF ShapeInv, WellFormed
<1>2. \A k \in 1..Len(py) : py[k].body \in Nat
  <2>1. \A k \in 1..Len(py) : py[k] \in Block
    BY <1>1
  <2> QED BY <2>1 DEF Block
<1>3. DOMAIN py = 1..Len(py)
  BY <1>1
<1>4. \A i \in Indents : i \in Nat
  BY <1>1, <1>2, <1>3 DEF Indents
<1> QED BY <1>1, <1>4, TranspilerAssumption DEF Placed, ShapeInv

\* The blocks a line at i is in.
LEMMA OuterPlaced ==
    ASSUME ShapeInv, NEW i \in Indents
    PROVE  /\ Nested(Outer(i), base) /\ Outer(i) \in Seq(Block)
           /\ \A k \in 1..Len(Outer(i)) : Outer(i)[k].body <= i /\ ~Outer(i)[k].inline
<1> DEFINE e == Enclosing(i)
<1> DEFINE p == SubSeq(py, 1, e)
<1>1. e \in 0..Len(py) /\ IsDepth(i, e)
  BY IndentsAreNumbers, Depth
<1>2. Nested(py, base)
  BY DEF ShapeInv
<1> HIDE DEF e
<1>3. Nested(p, base) /\ Len(p) = e /\ \A k \in 1..e : p[k] = py[k]
  BY <1>1, <1>2, NestedCut
<1> HIDE DEF p
<1>4. \A k \in 1..e : py[k].body <= i /\ ~py[k].inline
  BY <1>1 DEF IsDepth, InBlock
<1>5. Outer(i) = p
  BY DEF Outer, p, e
<1> QED BY <1>3, <1>4, <1>5 DEF Nested

\* And those after a header at i of a block indented by u.
LEMMA BlockPlaced ==
    ASSUME ShapeInv, NEW i \in Indents, Begins(i), NEW u \in Units, NEW inline \in BOOLEAN
    PROVE  LET r == [head |-> i, body |-> i + u, id |-> n + 1, inline |-> inline]
               p == Append(Outer(i), r)
           IN  /\ Nested(p, base) /\ p \in Seq(Block)
               /\ Len(p) > 0 /\ p[Len(p)] = r
<1> DEFINE r == [head |-> i, body |-> i + u, id |-> n + 1, inline |-> inline]
<1> DEFINE q == Outer(i)
<1>1. i \in Nat /\ u \in Nat /\ u > 0 /\ n + 1 \in Nat /\ base \in Nat /\ Placed
  BY IndentsAreNumbers DEF ShapeInv, WellFormed, Placed
<1>2. base <= i
  BY <1>1, LevelsRight
<1>3. /\ Nested(q, base) /\ q \in Seq(Block)
      /\ \A k \in 1..Len(q) : q[k].body <= i /\ ~q[k].inline
  BY OuterPlaced
<1>4. r \in Block /\ r.head = i /\ r.body = i + u
  BY <1>1 DEF Block
<1>5. base <= r.head /\ r.head < r.body
  BY <1>1, <1>2, <1>4
<1> HIDE DEF r, q
<1>6. Nested(Append(q, r), base)
  BY <1>1, <1>3, <1>4, <1>5, NestedAppend
<1>7. /\ Append(q, r) \in Seq(Block)
      /\ Len(Append(q, r)) > 0 /\ Append(q, r)[Len(Append(q, r))] = r
  BY <1>3, <1>4
<1> QED BY <1>6, <1>7 DEF r, q

LEMMA ShapeStep == ShapeInv /\ [Line]_lineVars => ShapeInv'
<1> SUFFICES ASSUME ShapeInv, [Line]_lineVars PROVE ShapeInv'
  OBVIOUS
<1>0. /\ WellFormed /\ n \in Nat /\ base \in Units /\ must \in Nat
      /\ ok \in BOOLEAN /\ kept \in BOOLEAN /\ plain \in BOOLEAN
      /\ wide \in BOOLEAN /\ split \in BOOLEAN /\ ended \in BOOLEAN
      /\ \A i \in Indents : i \in Nat
      /\ \A u \in Units : u \in Nat
  BY IndentsAreNumbers DEF ShapeInv, WellFormed
\* What a header at i leaves, with or without a brace.
<1>1. ASSUME NEW i \in Indents, NEW u \in Units, NEW inline \in BOOLEAN, NEW m \in Nat, Begins(i),
             n' = n + 1, base' = base,
             py' = Append(Outer(i), [head |-> i, body |-> i + u, id |-> n + 1, inline |-> inline]),
             must' = IF inline THEN 0 ELSE i + u,
             stack' = Append(SubSeq(stack, 1, Kept(i)), Pushed(i)),
             js' = Append(Closing(m), n + 1) \/ js' = Closing(m),
             ok' \in BOOLEAN, kept' \in BOOLEAN, plain' \in BOOLEAN,
             wide' \in BOOLEAN, split' \in BOOLEAN, ended' \in BOOLEAN
      PROVE  ShapeInv'
  <2>1. /\ Nested(py', base) /\ py' \in Seq(Block) /\ Len(py') > 0
        /\ py'[Len(py')] = [head |-> i, body |-> i + u, id |-> n + 1, inline |-> inline]
    BY <1>1, BlockPlaced
  <2>2. stack' \in Seq(Nat) /\ Len(stack') >= 1 /\ stack'[1] = 0
    BY <1>0, <1>1, StackType
  <2>3. js' \in Seq(Nat)
    <3>1. Closing(m) \in Seq(Nat) /\ n + 1 \in Nat
      BY <1>0, ClosingType
    <3>2. Append(Closing(m), n + 1) \in Seq(Nat)
      BY <3>1
    <3> QED BY <1>1, <3>1, <3>2
  <2>4. i + u \in Nat /\ n + 1 \in Nat
    BY <1>0
  <2>5. must' \in Nat
    BY <1>1, <2>4
  <2>6. MustBegin'
    BY <1>1, <2>1 DEF MustBegin
  <2>7. n' \in Nat /\ base' \in Units
    BY <1>0, <1>1, <2>4
  <2>8. WellFormed'
    BY <1>1, <2>1, <2>2, <2>3, <2>5, <2>7 DEF WellFormed
  <2> QED BY <1>1, <2>1, <2>6, <2>8 DEF ShapeInv
<1>2. CASE Blank
  <2>1. /\ n' = n + 1
        /\ UNCHANGED <<base, py, must, stack, js, ok, kept, plain, wide, split, ended>>
    BY <1>2 DEF Blank, Reads, source
  <2> QED BY <1>0, <2>1 DEF ShapeInv, WellFormed, MustBegin
<1>3. ASSUME NEW i \in Indents, Statement(i) PROVE ShapeInv'
  <2>1. /\ n' = n + 1 /\ py' = Outer(i) /\ must' = 0 /\ UNCHANGED <<base, plain, wide, split, ended>>
        /\ stack' = SubSeq(stack, 1, Kept(i)) /\ js' = Closing(Dedented(i))
        /\ ok' \in BOOLEAN /\ kept' \in BOOLEAN
    BY <1>0, <1>3 DEF Statement, Reads
  <2>2. Nested(py', base') /\ py' \in Seq(Block)
    BY <2>1, OuterPlaced
  <2>3. stack' \in Seq(Nat) /\ Len(stack') >= 1 /\ stack'[1] = 0
    BY <1>0, <2>1, StackType
  <2>4. js' \in Seq(Nat)
    BY <1>0, <2>1, KeptExists, ClosingType
  <2>5. MustBegin'
    BY <2>1 DEF MustBegin
  <2>6. n' \in Nat /\ base' \in Units /\ must' \in Nat
    BY <1>0, <2>1
  <2>7. WellFormed'
    BY <1>0, <2>1, <2>2, <2>3, <2>4, <2>6 DEF WellFormed
  <2> QED BY <2>2, <2>5, <2>7 DEF ShapeInv
<1>4. ASSUME NEW i \in Indents, NEW u \in Units, BlockOpen(i, u) \/ NestedDef(i, u)
      PROVE  ShapeInv'
  <2>1. /\ Begins(i) /\ n' = n + 1 /\ base' = base
        /\ py' = Append(Outer(i), [head |-> i, body |-> i + u, id |-> n + 1, inline |-> FALSE])
        /\ must' = i + u /\ stack' = Append(SubSeq(stack, 1, Kept(i)), Pushed(i))
        /\ js' = Append(Closing(Dedented(i)), n + 1) \/ js' = Closing(Dedented(i))
    BY <1>4 DEF BlockOpen, NestedDef, Reads, Begins
  <2>2. /\ ok' \in BOOLEAN /\ kept' \in BOOLEAN /\ plain' \in BOOLEAN
        /\ wide' \in BOOLEAN /\ split' \in BOOLEAN /\ ended' \in BOOLEAN
    BY <1>0, <1>4 DEF BlockOpen, NestedDef
  <2>3. Dedented(i) \in Nat
    BY <1>0, KeptExists
  <2> QED BY <1>1, <2>1, <2>2, <2>3
<1>5. ASSUME NEW i \in Indents, NEW u \in Units, NEW inline \in BOOLEAN, Continues(i, u, inline)
      PROVE  ShapeInv'
  <2> DEFINE m == Dedented(i) + (IF Joins(i) THEN 0 ELSE 1)
  <2>1. /\ Begins(i) /\ n' = n + 1 /\ base' = base
        /\ py' = Append(Outer(i), [head |-> i, body |-> i + u, id |-> n + 1, inline |-> inline])
        /\ must' = (IF inline THEN 0 ELSE i + u)
        /\ stack' = Append(SubSeq(stack, 1, Kept(i)), Pushed(i))
        /\ js' = Append(Closing(m), n + 1)
    BY <1>5 DEF Continues, Reads, Begins
  <2>2. /\ ok' \in BOOLEAN /\ kept' \in BOOLEAN /\ plain' \in BOOLEAN
        /\ wide' \in BOOLEAN /\ split' \in BOOLEAN /\ ended' \in BOOLEAN
    BY <1>0, <1>5 DEF Continues
  <2>3. m \in Nat
    <3>1. Dedented(i) \in Nat
      BY <1>0, KeptExists
    <3> QED BY <3>1
  <2> HIDE DEF m
  <2> QED BY <1>1, <2>1, <2>2, <2>3
<1>6. CASE Finish
  <2>1. /\ UNCHANGED <<n, base, py, must, kept, plain, wide, split>> /\ stack' = <<0>>
        /\ js' = Closing(Len(stack) - 1) /\ ok' \in BOOLEAN /\ ended' \in BOOLEAN
    BY <1>0, <1>6 DEF Finish, source
  <2>2. Len(stack) - 1 \in Nat
    BY <1>0 DEF WellFormed
  <2>3. js' \in Seq(Nat)
    BY <1>0, <2>1, <2>2, ClosingType
  <2>4. stack' \in Seq(Nat) /\ Len(stack') >= 1 /\ stack'[1] = 0
    BY <2>1
  <2>5. WellFormed'
    BY <1>0, <2>1, <2>3, <2>4 DEF WellFormed
  <2> QED BY <2>1, <2>5 DEF ShapeInv, MustBegin
<1>7. CASE UNCHANGED lineVars
  BY <1>7 DEF lineVars, source, ShapeInv, WellFormed, MustBegin
<1> QED BY <1>2, <1>3, <1>4, <1>5, <1>6, <1>7 DEF Line

\* Whatever the indentation of the program, the search for the level of a line
\* ends on indentStack: its ground level is never popped (_transpile).
THEOREM TranslatorKeepsShape == Transpile => []WellFormed
<1>1. Begin => ShapeInv
  <2> SUFFICES ASSUME Begin PROVE ShapeInv
    OBVIOUS
  <2>1. /\ py = <<>> /\ Len(py) = 0 /\ stack = <<0>> /\ py \in Seq(Block)
        /\ stack \in Seq(Nat) /\ Len(stack) = 1 /\ stack[1] = 0 /\ js \in Seq(Nat)
    BY DEF Begin
  <2>2. Nested(py, base)
    BY <2>1 DEF Nested
  <2>3. /\ n \in Nat /\ base \in Units /\ must \in Nat /\ must = 0
        /\ ok \in BOOLEAN /\ kept \in BOOLEAN /\ plain \in BOOLEAN
        /\ wide \in BOOLEAN /\ split \in BOOLEAN /\ ended \in BOOLEAN
    BY DEF Begin
  <2>4. Len(stack) >= 1
    BY <2>1
  <2>5. WellFormed
    BY <2>1, <2>3, <2>4, Zenon DEF WellFormed
  <2> QED BY <2>2, <2>3, <2>5 DEF ShapeInv, MustBegin
<1>2. ShapeInv => WellFormed
  BY DEF ShapeInv
<1> QED BY <1>1, <1>2, ShapeStep, PTL DEF Transpile

-------------------------- (* The local simulator *) --------------------------

(***************************************************************************)
(* Sums over finite sets.  The library defines them by taking elements in  *)
(* an unspecified order; what follows shows that the order does not        *)
(* matter.  Inductions are by least counterexample.                        *)
(***************************************************************************)
LEMMA LeastNumber ==
    ASSUME NEW T \in SUBSET Nat, T # {}
    PROVE  \E x \in T : \A y \in T : x <= y
<1> DEFINE R == OpToRel(<, Nat)
<1>1. \A x, y \in Nat : y < x => <<y, x>> \in R
  BY DEF OpToRel
<1>2. IsWellFoundedOn(R, Nat)
  BY NatLessThanWellFounded
<1> HIDE DEF R
<1>3. PICK x \in T : \A y \in T : ~(<<y, x>> \in R)
  BY <1>2, WFMin
<1>4. ASSUME NEW y \in T PROVE x <= y
  <2>1. x \in Nat /\ y \in Nat /\ ~(<<y, x>> \in R)
    BY <1>3
  <2>2. ~(y < x)
    BY <1>1, <2>1
  <2> QED BY <2>1, <2>2
<1> QED BY <1>4

\* Of sets of numbers' sizes one is the smallest.
LEMMA SmallestSet ==
    ASSUME NEW C, C # {}, \A s \in C : IsFiniteSet(s)
    PROVE  \E s \in C : \A t \in C : Cardinality(s) <= Cardinality(t)
<1> DEFINE T == {Cardinality(s) : s \in C}
<1>1. T \in SUBSET Nat /\ T # {}
  BY FS_CardinalityType
<1> HIDE DEF T
<1>2. PICK x \in T : \A y \in T : x <= y
  BY <1>1, LeastNumber
<1> QED BY <1>2 DEF T

Chosen(s) == CHOOSE x \in s : TRUE

\* it is the recursion of SumFunctionOnSet over the subsets of S.
Sums(f, S, it) ==
    it = [s \in SUBSET S |-> IF s = {} THEN 0 ELSE f[Chosen(s)] + it[s \ {Chosen(s)}]]

LEMMA SumIsChosen ==
    ASSUME NEW f, NEW S
    PROVE  SumFunctionOnSet(f, S) = (CHOOSE it : Sums(f, S, it))[S]
BY DEF SumFunctionOnSet, FoldFunctionOnSet, MapThenFoldSet, Sums, Chosen

LEMMA SmallerBy ==
    ASSUME NEW s, IsFiniteSet(s), NEW x \in s
    PROVE  /\ IsFiniteSet(s \ {x})
           /\ Cardinality(s) \in Nat /\ Cardinality(s \ {x}) \in Nat
           /\ Cardinality(s \ {x}) < Cardinality(s)
<1>1. IsFiniteSet(s \ {x}) /\ Cardinality(s \ {x}) = Cardinality(s) - 1
  BY FS_RemoveElement
<1>2. Cardinality(s) \in Nat /\ Cardinality(s \ {x}) \in Nat
  BY <1>1, FS_CardinalityType
<1> QED BY <1>1, <1>2

LEMMA Smaller ==
    ASSUME NEW s, IsFiniteSet(s), s # {}
    PROVE  /\ Chosen(s) \in s /\ IsFiniteSet(s \ {Chosen(s)})
           /\ Cardinality(s) \in Nat /\ Cardinality(s \ {Chosen(s)}) \in Nat
           /\ Cardinality(s \ {Chosen(s)}) < Cardinality(s)
<1>1. Chosen(s) \in s
  BY DEF Chosen
<1> QED BY <1>1, SmallerBy

LEMMA SumsAgree ==
    ASSUME NEW f, NEW S, NEW T, NEW a, NEW b, Sums(f, S, a), Sums(f, T, b),
           NEW z \in SUBSET S, z \in SUBSET T, IsFiniteSet(z)
    PROVE  a[z] = b[z]
<1> DEFINE C == {s \in SUBSET z : a[s] # b[s]}
<1> SUFFICES ASSUME C # {} PROVE FALSE
  OBVIOUS
<1>1. \A s \in C : IsFiniteSet(s)
  BY FS_Subset
<1>2. PICK s \in C : \A t \in C : Cardinality(s) <= Cardinality(t)
  <2> HIDE DEF C
  <2> QED BY <1>1, SmallestSet
<1>3. s \in SUBSET S /\ s \in SUBSET T /\ IsFiniteSet(s)
  BY <1>1, <1>2
<1>4. /\ a[s] = IF s = {} THEN 0 ELSE f[Chosen(s)] + a[s \ {Chosen(s)}]
      /\ b[s] = IF s = {} THEN 0 ELSE f[Chosen(s)] + b[s \ {Chosen(s)}]
  BY <1>3 DEF Sums
<1>5. s # {}
  BY <1>2, <1>4
<1>6. s \ {Chosen(s)} \notin C
  BY <1>2, <1>3, <1>5, Smaller
<1>7. a[s \ {Chosen(s)}] = b[s \ {Chosen(s)}]
  BY <1>2, <1>6
<1> QED BY <1>2, <1>4, <1>7

\* The recursion defines a function, and a sum is the value at its set.
LEMMA SumsExist ==
    ASSUME NEW f, NEW Z, IsFiniteSet(Z)
    PROVE  \E it : Sums(f, Z, it)
<1> DEFINE C == {s \in SUBSET Z : ~\E it : Sums(f, s, it)}
<1> SUFFICES ASSUME C # {} PROVE FALSE
  OBVIOUS
<1>1. \A s \in C : IsFiniteSet(s)
  BY FS_Subset
<1>2. PICK S \in C : \A t \in C : Cardinality(S) <= Cardinality(t)
  <2> HIDE DEF C
  <2> QED BY <1>1, SmallestSet
<1>3. IsFiniteSet(S) /\ S \subseteq Z
  BY <1>1, <1>2
<1> DEFINE fn(s) == CHOOSE it : Sums(f, s, it)
<1>4. ASSUME NEW s \in SUBSET S, s # S PROVE Sums(f, s, fn(s))
  <2>1. IsFiniteSet(s) /\ Cardinality(s) < Cardinality(S)
    BY <1>3, <1>4, FS_Subset, FS_CardinalityType
  <2>2. s \notin C
    BY <1>2, <1>3, <2>1, FS_CardinalityType
  <2> QED BY <1>3, <2>2
<1> DEFINE low(s) == fn(s)[s]
<1>5. ASSUME NEW s \in SUBSET S, s # S
      PROVE  low(s) = IF s = {} THEN 0 ELSE f[Chosen(s)] + low(s \ {Chosen(s)})
  <2>1. Sums(f, s, fn(s))
    BY <1>4, <1>5
  <2>2. low(s) = IF s = {} THEN 0 ELSE f[Chosen(s)] + fn(s)[s \ {Chosen(s)}]
    <3> DEFINE it == fn(s)
    <3>1. Sums(f, s, it)
      BY <2>1
    <3> HIDE DEF it, fn
    <3>2. it[s] = IF s = {} THEN 0 ELSE f[Chosen(s)] + it[s \ {Chosen(s)}]
      BY <3>1 DEF Sums
    <3> QED BY <3>2 DEF it
  <2>3. CASE s = {}
    BY <2>2, <2>3
  <2>4. CASE s # {}
    <3>0. IsFiniteSet(s)
      BY <1>3, FS_Subset
    <3>1. Chosen(s) \in s
      BY <2>4 DEF Chosen
    <3> DEFINE t == s \ {Chosen(s)}
    <3>2. t \in SUBSET s /\ t \in SUBSET S /\ t # S /\ IsFiniteSet(t)
      BY <3>0, <3>1, FS_Subset
    <3>3. Sums(f, t, fn(t))
      BY <1>4, <3>2
    <3> HIDE DEF fn, t
    <3>4. fn(s)[t] = fn(t)[t]
      BY <2>1, <3>2, <3>3, SumsAgree
    <3> QED BY <2>2, <2>4, <3>4 DEF t
  <2> QED BY <2>3, <2>4
<1> HIDE DEF low, fn, C
<1> DEFINE val(s) == IF s = S /\ S # {} THEN f[Chosen(S)] + low(S \ {Chosen(S)})
                     ELSE IF s = {} THEN 0 ELSE low(s)
<1> DEFINE g == [s \in SUBSET S |-> val(s)]
<1>6. ASSUME NEW s \in SUBSET S
      PROVE  g[s] = IF s = {} THEN 0 ELSE f[Chosen(s)] + g[s \ {Chosen(s)}]
  <2>1. CASE s = {}
    BY <2>1
  <2>2. CASE s # {}
    <3> DEFINE t == s \ {Chosen(s)}
    <3>1. Chosen(s) \in s
      BY <2>2 DEF Chosen
    <3>2. t \in SUBSET S /\ t # S
      BY <3>1
    <3>3. g[t] = low(t)
      <4>1. t = {} => low(t) = 0
        BY <1>5, <3>2
      <4> QED BY <3>2, <4>1
    <3>4. CASE s = S
      BY <2>2, <3>3, <3>4
    <3>5. CASE s # S
      <4>1. low(s) = f[Chosen(s)] + low(t)
        BY <1>5, <2>2, <3>5
      <4>2. g[s] = low(s)
        BY <2>2, <3>5
      <4> QED BY <2>2, <3>3, <4>1, <4>2
    <3> QED BY <3>4, <3>5
  <2> QED BY <2>1, <2>2
<1>7. Sums(f, S, g)
  <2>1. g = [s \in SUBSET S |-> g[s]]
    OBVIOUS
  <2> HIDE DEF g
  <2> QED BY <1>6, <2>1 DEF Sums
<1> QED BY <1>2, <1>7 DEF C

LEMMA SumStep ==
    ASSUME NEW f, NEW S, IsFiniteSet(S)
    PROVE  SumFunctionOnSet(f, S) =
             IF S = {} THEN 0 ELSE f[Chosen(S)] + SumFunctionOnSet(f, S \ {Chosen(S)})
<1> DEFINE fn(s) == CHOOSE it : Sums(f, s, it)
<1>1. Sums(f, S, fn(S))
  BY SumsExist
<1>2. SumFunctionOnSet(f, S) = fn(S)[S]
  BY SumIsChosen
<1>3. fn(S)[S] = IF S = {} THEN 0 ELSE f[Chosen(S)] + fn(S)[S \ {Chosen(S)}]
  <2> DEFINE it == fn(S)
  <2>1. Sums(f, S, it)
    BY <1>1
  <2> HIDE DEF it, fn
  <2>2. it[S] = IF S = {} THEN 0 ELSE f[Chosen(S)] + it[S \ {Chosen(S)}]
    BY <2>1 DEF Sums
  <2> QED BY <2>2 DEF it
<1>4. CASE S # {}
  <2> DEFINE T == S \ {Chosen(S)}
  <2>1. IsFiniteSet(T) /\ T \in SUBSET S /\ T \in SUBSET T
    BY FS_Subset
  <2>2. Sums(f, T, fn(T))
    BY <2>1, SumsExist
  <2>3. SumFunctionOnSet(f, T) = fn(T)[T]
    BY SumIsChosen
  <2> HIDE DEF fn, T
  <2>4. fn(S)[T] = fn(T)[T]
    BY <1>1, <2>1, <2>2, SumsAgree
  <2> QED BY <1>2, <1>3, <1>4, <2>3, <2>4 DEF T
<1> QED BY <1>2, <1>3, <1>4

LEMMA SumEmpty == ASSUME NEW f PROVE SumFunctionOnSet(f, {}) = 0
BY SumStep, FS_EmptySet

LEMMA SumIsNat ==
    ASSUME NEW f, NEW Z, IsFiniteSet(Z), \A x \in Z : f[x] \in Nat
    PROVE  SumFunctionOnSet(f, Z) \in Nat
<1> DEFINE C == {s \in SUBSET Z : SumFunctionOnSet(f, s) \notin Nat}
<1> SUFFICES ASSUME C # {} PROVE FALSE
  OBVIOUS
<1>1. \A s \in C : IsFiniteSet(s)
  BY FS_Subset
<1>2. PICK s \in C : \A t \in C : Cardinality(s) <= Cardinality(t)
  <2> HIDE DEF C
  <2> QED BY <1>1, SmallestSet
<1>3. s \subseteq Z /\ IsFiniteSet(s) /\ SumFunctionOnSet(f, s) \notin Nat
  BY <1>1, <1>2
<1>4. s # {}
  BY <1>3, SumEmpty
<1> DEFINE t == s \ {Chosen(s)}
<1>5. t \notin C /\ Chosen(s) \in s
  BY <1>2, <1>3, <1>4, Smaller
<1>6. SumFunctionOnSet(f, t) \in Nat /\ f[Chosen(s)] \in Nat
  BY <1>3, <1>5
<1>7. SumFunctionOnSet(f, s) = f[Chosen(s)] + SumFunctionOnSet(f, t)
  BY <1>3, <1>4, SumStep
<1> HIDE DEF t
<1> QED BY <1>3, <1>6, <1>7

\* Any element may be taken out first.
LEMMA SumRemove ==
    ASSUME NEW f, NEW Z, IsFiniteSet(Z), \A x \in Z : f[x] \in Nat, NEW e \in Z
    PROVE  SumFunctionOnSet(f, Z) = f[e] + SumFunctionOnSet(f, Z \ {e})
<1> DEFINE Bad(s) == \E x \in s : SumFunctionOnSet(f, s) # f[x] + SumFunctionOnSet(f, s \ {x})
<1> DEFINE C == {s \in SUBSET Z : Bad(s)}
<1> SUFFICES ASSUME C # {} PROVE FALSE
  OBVIOUS
<1>1. \A s \in C : IsFiniteSet(s)
  BY FS_Subset
<1>2. PICK s \in C : \A t \in C : Cardinality(s) <= Cardinality(t)
  <2> HIDE DEF C
  <2> QED BY <1>1, SmallestSet
<1>3. s \subseteq Z /\ IsFiniteSet(s) /\ Bad(s)
  BY <1>1, <1>2
<1>4. PICK x \in s : SumFunctionOnSet(f, s) # f[x] + SumFunctionOnSet(f, s \ {x})
  BY <1>3
<1> DEFINE c == Chosen(s)
<1>5. c \in s /\ x \in Z /\ c \in Z /\ f[x] \in Nat /\ f[c] \in Nat
  BY <1>3, <1>4 DEF Chosen
<1>6. SumFunctionOnSet(f, s) = f[c] + SumFunctionOnSet(f, s \ {c})
  BY <1>3, <1>4, SumStep
<1>7. c # x
  BY <1>4, <1>6
<1>8. ASSUME NEW y \in s, NEW z \in s, y # z
      PROVE  SumFunctionOnSet(f, s \ {y}) = f[z] + SumFunctionOnSet(f, s \ {y, z})
  <2>1. /\ Cardinality(s \ {y}) < Cardinality(s) /\ IsFiniteSet(s \ {y})
        /\ Cardinality(s \ {y}) \in Nat /\ Cardinality(s) \in Nat
    BY <1>3, SmallerBy
  <2>2. s \ {y} \in SUBSET Z /\ s \ {y} \notin C
    <3>1. s \ {y} \in SUBSET Z
      BY <1>3
    <3> HIDE DEF C
    <3>2. s \ {y} \notin C
      BY <1>2, <2>1
    <3> QED BY <3>1, <3>2
  <2>3. ~Bad(s \ {y}) /\ z \in s \ {y}
    BY <1>8, <2>2
  <2>4. (s \ {y}) \ {z} = s \ {y, z}
    OBVIOUS
  <2> QED BY <2>3, <2>4
<1> DEFINE rest == SumFunctionOnSet(f, s \ {c, x})
<1>9. /\ SumFunctionOnSet(f, s \ {c}) = f[x] + rest
      /\ SumFunctionOnSet(f, s \ {x}) = f[c] + rest
  <2>1. s \ {c, x} = s \ {x, c}
    OBVIOUS
  <2> HIDE DEF c
  <2> QED BY <1>4, <1>5, <1>7, <1>8, <2>1
<1>10. rest \in Nat
  <2>1. IsFiniteSet(s \ {c, x}) /\ s \ {c, x} \subseteq Z
    BY <1>3, FS_Subset
  <2> QED BY <2>1, SumIsNat
<1> HIDE DEF c, rest
<1> QED BY <1>4, <1>5, <1>6, <1>9, <1>10

LEMMA SumSame ==
    ASSUME NEW f, NEW g, NEW Z, IsFiniteSet(Z), \A x \in Z : f[x] = g[x]
    PROVE  SumFunctionOnSet(f, Z) = SumFunctionOnSet(g, Z)
<1> DEFINE C == {s \in SUBSET Z : SumFunctionOnSet(f, s) # SumFunctionOnSet(g, s)}
<1> SUFFICES ASSUME C # {} PROVE FALSE
  OBVIOUS
<1>1. \A s \in C : IsFiniteSet(s)
  BY FS_Subset
<1>2. PICK s \in C : \A t \in C : Cardinality(s) <= Cardinality(t)
  <2> HIDE DEF C
  <2> QED BY <1>1, SmallestSet
<1>3. s \subseteq Z /\ IsFiniteSet(s)
  BY <1>1, <1>2
<1>4. s # {}
  BY <1>2, SumEmpty
<1> DEFINE t == s \ {Chosen(s)}
<1>5. t \notin C /\ Chosen(s) \in s
  BY <1>2, <1>3, <1>4, Smaller
<1>6. SumFunctionOnSet(f, t) = SumFunctionOnSet(g, t) /\ f[Chosen(s)] = g[Chosen(s)]
  BY <1>3, <1>5
<1>7. /\ SumFunctionOnSet(f, s) = f[Chosen(s)] + SumFunctionOnSet(f, t)
      /\ SumFunctionOnSet(g, s) = g[Chosen(s)] + SumFunctionOnSet(g, t)
  BY <1>3, <1>4, SumStep
<1> QED BY <1>2, <1>6, <1>7

(***************************************************************************)
(* The volumes of the orders of a level.                                   *)
(***************************************************************************)
Owners == {"MM", "MR", "NOISE", "CONTESTANT"}

Order == [id : Nat \ {0}, who : Owners, volume : Nat]

\* Volume of the first k orders.
Upto(orders, k) == VolumeBefore(orders, k + 1)

NatOn(f, Z) == IsFiniteSet(Z) /\ \A x \in Z : f[x] \in Nat

LEMMA SumWithout ==
    ASSUME NEW f, NEW Z, NatOn(f, Z), NEW e \in Z
    PROVE  SumFunctionOnSet(f, Z) = f[e] + SumFunctionOnSet(f, Z \ {e})
  BY SumRemove DEF NatOn

LEMMA UpToK ==
    \A top \in Nat : \A k \in 1..top :
        /\ k \in Nat /\ k - 1 \in Nat /\ k \in 0..top /\ k - 1 \in 0..top /\ k \in 1..k
        /\ (1..k) \ {k} = 1..(k - 1)
  OBVIOUS

LEMMA VolumeStep ==
    ASSUME NEW orders \in Seq(Order)
    PROVE  /\ Upto(orders, 0) = 0
           /\ \A k \in 0..Len(orders) : Upto(orders, k) \in Nat
           /\ \A k \in 1..Len(orders) :
                 /\ Upto(orders, k) = Upto(orders, k - 1) + orders[k].volume
                 /\ orders[k].volume \in Nat /\ orders[k] \in Order
                 /\ VolumeBefore(orders, k) = Upto(orders, k - 1)
           /\ Volume(orders) = Upto(orders, Len(orders))
<1> DEFINE v == [j \in DOMAIN orders |-> orders[j].volume]
<1>0. DOMAIN orders = 1..Len(orders) /\ Len(orders) \in Nat
  OBVIOUS
<1>1. \A k \in 1..Len(orders) : orders[k] \in Order
  OBVIOUS
<1>2. \A k \in 1..Len(orders) : v[k] = orders[k].volume /\ v[k] \in Nat
  BY <1>0, <1>1 DEF Order
<1>3. \A k \in Nat : Upto(orders, k) = SumFunctionOnSet(v, 1..k)
  <2> SUFFICES ASSUME NEW k \in Nat PROVE Upto(orders, k) = SumFunctionOnSet(v, 1..k)
    OBVIOUS
  <2>1. (k + 1) - 1 = k
    OBVIOUS
  <2> QED BY <2>1 DEF Upto, VolumeBefore
<1> HIDE DEF v
<1>4. Upto(orders, 0) = 0
  <2>1. 1..0 = {}
    OBVIOUS
  <2> QED BY <1>3, <2>1, SumEmpty
<1>5. ASSUME NEW k \in 0..Len(orders) PROVE IsFiniteSet(1..k) /\ \A x \in 1..k : v[x] \in Nat
  BY <1>0, <1>2, FS_Interval
<1>6. \A k \in 0..Len(orders) : Upto(orders, k) \in Nat
  BY <1>0, <1>3, <1>5, SumIsNat
<1>7. ASSUME NEW k \in 1..Len(orders)
      PROVE  Upto(orders, k) = Upto(orders, k - 1) + orders[k].volume
  <2>1. k \in 0..Len(orders) /\ k - 1 \in 0..Len(orders) /\ k \in 1..k
    BY <1>0, UpToK, Zenon
  <2>2. (1..k) \ {k} = 1..(k - 1)
    BY <1>0, UpToK, Zenon
  <2>3. SumFunctionOnSet(v, 1..k) = v[k] + SumFunctionOnSet(v, (1..k) \ {k})
    <3> DEFINE I == 1..k
    <3>1. NatOn(v, I) /\ k \in I
      BY <1>5, <2>1, Zenon DEF NatOn
    <3> HIDE DEF I
    <3>2. SumFunctionOnSet(v, I) = v[k] + SumFunctionOnSet(v, I \ {k})
      BY <3>1, SumWithout
    <3> QED BY <3>2 DEF I
  <2>4. k \in Nat /\ k - 1 \in Nat
    BY <1>0, UpToK, Zenon
  <2>5. /\ Upto(orders, k) = SumFunctionOnSet(v, 1..k)
        /\ Upto(orders, k - 1) = SumFunctionOnSet(v, 1..(k - 1))
    BY <1>3, <2>4
  <2>6. Upto(orders, k) = v[k] + Upto(orders, k - 1)
    BY <2>2, <2>3, <2>5
  <2> QED BY <1>2, <1>6, <2>1, <2>6
<1>8. \A k \in 1..Len(orders) : VolumeBefore(orders, k) = Upto(orders, k - 1)
  <2> SUFFICES ASSUME NEW k \in 1..Len(orders) PROVE VolumeBefore(orders, k) = Upto(orders, k - 1)
    OBVIOUS
  <2>1. (k - 1) + 1 = k
    BY <1>0
  <2> QED BY <2>1 DEF Upto
<1>9. Volume(orders) = Upto(orders, Len(orders))
  BY DEF Volume, Upto
<1> QED BY <1>1, <1>2, <1>4, <1>6, <1>7, <1>8, <1>9

\* Induction along 0..m, for a set of numbers.
LEMMA Climb ==
    ASSUME NEW m \in Nat, NEW S, 0 \in S, \A k \in 1..m : k - 1 \in S => k \in S
    PROVE  \A k \in 0..m : k \in S
<1> DEFINE C == {k \in 0..m : k \notin S}
<1> SUFFICES ASSUME C # {} PROVE FALSE
  OBVIOUS
<1>1. C \in SUBSET Nat
  OBVIOUS
<1>2. PICK k \in C : \A i \in C : k <= i
  <2> HIDE DEF C
  <2> QED BY <1>1, LeastNumber
<1>3. k \in 1..m /\ k - 1 \in 0..m
  BY <1>2
<1>4. k - 1 \notin C
  BY <1>2, <1>3
<1> QED BY <1>2, <1>3, <1>4

LEMMA OrderFields ==
    ASSUME NEW orders \in Seq(Order), NEW k \in 1..Len(orders)
    PROVE  /\ orders[k] \in Order /\ orders[k].volume \in Nat
           /\ orders[k].id \in Nat \ {0} /\ orders[k].who \in Owners
<1>1. orders[k] \in Order
  OBVIOUS
<1> QED BY <1>1 DEF Order

\* Equal volumes have equal sums.
LEMMA VolumeAppend ==
    ASSUME NEW orders \in Seq(Order), NEW o \in Order
    PROVE  /\ Append(orders, o) \in Seq(Order)
           /\ Volume(Append(orders, o)) = Volume(orders) + o.volume
<1> DEFINE t == Append(orders, o)
           m == Len(orders)
           S == {k \in 0..m : Upto(t, k) = Upto(orders, k)}
<1>1. t \in Seq(Order) /\ Len(t) = m + 1 /\ m \in Nat /\ t[m + 1] = o
  OBVIOUS
<1>2. \A k \in 1..m : t[k] = orders[k]
  OBVIOUS
<1> HIDE DEF t
<1>3. 0 \in S
  BY <1>1, VolumeStep
<1>4. ASSUME NEW k \in 1..m, k - 1 \in S PROVE k \in S
  <2>1. k \in 1..Len(t) /\ k \in 1..Len(orders) /\ k \in 0..m
    BY <1>1
  <2>2. Upto(t, k) = Upto(t, k - 1) + t[k].volume
    BY <1>1, <2>1, VolumeStep
  <2>3. Upto(orders, k) = Upto(orders, k - 1) + orders[k].volume
    BY <1>1, <2>1, VolumeStep
  <2> QED BY <1>2, <1>4, <2>1, <2>2, <2>3
<1>5. m \in S
  <2> HIDE DEF S
  <2>1. \A k \in 0..m : k \in S
    BY <1>1, <1>3, <1>4, Climb
  <2> QED BY <1>1, <2>1
<1>6. Upto(t, m + 1) = Upto(t, m) + o.volume
  <2>1. m + 1 \in 1..Len(t) /\ (m + 1) - 1 = m
    BY <1>1
  <2> QED BY <1>1, <2>1, VolumeStep
<1> QED BY <1>1, <1>5, <1>6, VolumeStep DEF t

LEMMA Removed ==
    ASSUME NEW orders \in Seq(Order), NEW i \in 1..Len(orders)
    PROVE  LET t == RemoveAt(orders, i) IN
           /\ t \in Seq(Order) /\ Len(t) = Len(orders) - 1
           /\ \A k \in 1..Len(t) : t[k] = IF k < i THEN orders[k] ELSE orders[k + 1]
<1> DEFINE a == SubSeq(orders, 1, i - 1)
           b == SubSeq(orders, i + 1, Len(orders))
<1>1. Len(orders) \in Nat /\ i \in Nat
  OBVIOUS
<1>2. a \in Seq(Order) /\ Len(a) = i - 1 /\ \A k \in 1..(i - 1) : a[k] = orders[k]
  <2>1. 1 \in 1..(Len(orders) + 1) /\ i - 1 \in (1 - 1)..Len(orders)
    BY <1>1
  <2> QED BY <1>1, <2>1, SubSeqProperties
<1>3. /\ b \in Seq(Order) /\ Len(b) = Len(orders) - i
      /\ \A k \in 1..(Len(orders) - i) : b[k] = orders[i + k]
  <2>1. i + 1 \in 1..(Len(orders) + 1) /\ Len(orders) \in ((i + 1) - 1)..Len(orders)
    BY <1>1
  <2>2. b \in Seq(Order) /\ Len(b) = IF i + 1 <= Len(orders) THEN Len(orders) - (i + 1) + 1 ELSE 0
    BY <1>1, <2>1, SubSeqProperties
  <2>3. Len(b) = Len(orders) - i
    BY <1>1, <2>2
  <2>4. ASSUME NEW k \in 1..(Len(orders) - i) PROVE b[k] = orders[i + k]
    <3>1. b[k] = orders[(i + 1) + k - 1]
      BY <1>1
    <3>2. (i + 1) + k - 1 = i + k
      BY <1>1
    <3> QED BY <3>1, <3>2
  <2> QED BY <2>2, <2>3, <2>4
<1>4. RemoveAt(orders, i) = a \o b
  BY DEF RemoveAt
<1> HIDE DEF a, b
<1>5. /\ a \o b \in Seq(Order) /\ Len(a \o b) = Len(orders) - 1
  <2>1. a \o b \in Seq(Order) /\ Len(a \o b) = Len(a) + Len(b)
    BY <1>2, <1>3, ConcatProperties
  <2> QED BY <1>1, <1>2, <1>3, <2>1
<1>6. ASSUME NEW k \in 1..(Len(orders) - 1)
      PROVE  (a \o b)[k] = IF k < i THEN orders[k] ELSE orders[k + 1]
  <2>1. (a \o b)[k] = IF k <= Len(a) THEN a[k] ELSE b[k - Len(a)]
    BY <1>1, <1>2, <1>3
  <2>2. CASE k < i
    BY <1>1, <1>2, <2>1, <2>2
  <2>3. CASE ~(k < i)
    <3>1. k - Len(a) \in 1..(Len(orders) - i) /\ i + (k - Len(a)) = k + 1 /\ ~(k <= Len(a))
      BY <1>1, <1>2, <2>3
    <3> QED BY <1>3, <2>1, <2>3, <3>1
  <2> QED BY <2>2, <2>3
<1> QED BY <1>4, <1>5, <1>6

LEMMA VolumeRemove ==
    ASSUME NEW orders \in Seq(Order), NEW i \in 1..Len(orders)
    PROVE  Volume(RemoveAt(orders, i)) = Volume(orders) - orders[i].volume
<1> DEFINE t == RemoveAt(orders, i)
           m == Len(t)
           Sum(k) == IF k < i THEN Upto(orders, k) ELSE Upto(orders, k + 1) - orders[i].volume
           S == {k \in 0..m : Upto(t, k) = Sum(k)}
<1>1. /\ t \in Seq(Order) /\ m = Len(orders) - 1 /\ m \in Nat /\ i \in Nat
      /\ \A k \in 1..m : t[k] = IF k < i THEN orders[k] ELSE orders[k + 1]
  BY Removed
<1> HIDE DEF t
<1>2. 0 \in S
  <2>1. Upto(t, 0) = 0 /\ Upto(orders, 0) = 0
    BY <1>1, VolumeStep
  <2>2. CASE 0 < i
    BY <1>1, <2>1, <2>2
  <2> QED BY <1>1, <2>2
<1>3. ASSUME NEW k \in 1..m, k - 1 \in S PROVE k \in S
  <2>1. k \in 1..Len(t) /\ k \in 1..Len(orders) /\ k + 1 \in 1..Len(orders) /\ k \in 0..m
    BY <1>1
  <2>2. Upto(t, k) = Upto(t, k - 1) + t[k].volume
    BY <1>1, <2>1, VolumeStep
  <2>3. /\ Upto(orders, k) = Upto(orders, k - 1) + orders[k].volume
        /\ Upto(orders, k + 1) = Upto(orders, k) + orders[k + 1].volume
    <3>1. (k + 1) - 1 = k
      OBVIOUS
    <3> QED BY <1>1, <2>1, <3>1, VolumeStep
  <2>4. (k - 1) + 1 = k
    OBVIOUS
  <2>5. Upto(t, k - 1) = Sum(k - 1)
    BY <1>3
  <2>6. /\ Upto(orders, k - 1) \in Nat /\ Upto(orders, k) \in Nat /\ Upto(orders, k + 1) \in Nat
        /\ orders[k].volume \in Nat /\ orders[k + 1].volume \in Nat /\ orders[i].volume \in Nat
    <3>1. k - 1 \in 0..Len(orders) /\ k \in 0..Len(orders) /\ k + 1 \in 0..Len(orders)
      BY <2>1
    <3> QED BY <2>1, <3>1, VolumeStep
  <2>7. CASE k < i
    <3>1. Sum(k - 1) = Upto(orders, k - 1) /\ Sum(k) = Upto(orders, k) /\ t[k] = orders[k]
      BY <1>1, <2>7
    <3> QED BY <2>1, <2>2, <2>3, <2>5, <3>1
  <2>8. CASE k = i
    <3>1. /\ Sum(k - 1) = Upto(orders, k - 1) /\ t[k] = orders[k + 1]
          /\ Sum(k) = Upto(orders, k + 1) - orders[k].volume
      BY <1>1, <2>8
    <3>2. Upto(t, k) = Sum(k)
      <4>1. Upto(t, k) = Sum(k - 1) + orders[k + 1].volume
        BY <2>2, <2>5, <3>1
      <4> HIDE DEF Sum, S, m
      <4>2. Sum(k) = (Upto(orders, k) + orders[k + 1].volume) - orders[k].volume
        BY <2>3, <2>6, <3>1
      <4>3. Upto(t, k) = Upto(orders, k - 1) + orders[k + 1].volume
        BY <3>1, <4>1
      <4> DEFINE a == Upto(orders, k - 1)
                 u == orders[k].volume
                 w == orders[k + 1].volume
      <4>4. a \in Nat /\ u \in Nat /\ w \in Nat
        BY <2>6
      <4> HIDE DEF a, u, w
      <4>5. a + w = ((a + u) + w) - u
        BY <4>4
      <4> QED BY <2>3, <4>2, <4>3, <4>5 DEF a, u, w
    <3> QED BY <2>1, <3>2
  <2>9. CASE k > i
    <3>1. /\ Sum(k - 1) = Upto(orders, k) - orders[i].volume /\ t[k] = orders[k + 1]
          /\ Sum(k) = Upto(orders, k + 1) - orders[i].volume
      BY <1>1, <2>4, <2>9
    <3>2. Upto(t, k) = Sum(k)
      <4>1. Upto(t, k) = Sum(k - 1) + orders[k + 1].volume
        BY <2>2, <2>5, <3>1
      <4> HIDE DEF Sum, S, m
      <4>2. Sum(k) = (Upto(orders, k) + orders[k + 1].volume) - orders[i].volume
        BY <2>3, <2>6, <3>1
      <4>3. Upto(t, k) = (Upto(orders, k) - orders[i].volume) + orders[k + 1].volume
        BY <3>1, <4>1
      <4> DEFINE a == Upto(orders, k)
                 u == orders[i].volume
                 w == orders[k + 1].volume
      <4>4. a \in Nat /\ u \in Nat /\ w \in Nat
        BY <2>6
      <4> HIDE DEF a, u, w
      <4>5. (a - u) + w = (a + w) - u
        BY <4>4
      <4> QED BY <4>2, <4>3, <4>5 DEF a, u, w
    <3> QED BY <2>1, <3>2
  <2> QED BY <1>1, <2>7, <2>8, <2>9
<1>4. m \in S
  <2> HIDE DEF S
  <2>1. \A k \in 0..m : k \in S
    BY <1>1, <1>2, <1>3, Climb
  <2> QED BY <1>1, <2>1
<1>5. CASE m < i
  <2>1. i = m + 1 /\ i \in 1..Len(orders) /\ i - 1 = m
    BY <1>1, <1>5
  <2>2. Upto(orders, i) = Upto(orders, i - 1) + orders[i].volume
    BY <2>1, VolumeStep
  <2>3. Upto(orders, i - 1) \in Nat /\ orders[i].volume \in Nat
    <3>1. i - 1 \in 0..Len(orders)
      BY <2>1
    <3> QED BY <2>1, <3>1, VolumeStep
  <2>4. Upto(t, m) = Upto(orders, m)
    BY <1>4, <1>5
  <2>5. Volume(t) = Upto(t, m) /\ Volume(orders) = Upto(orders, i)
    <3>1. Len(orders) = i
      BY <1>1, <2>1
    <3> QED BY <1>1, <3>1, VolumeStep
  <2> QED BY <2>1, <2>2, <2>3, <2>4, <2>5 DEF t
<1>6. CASE ~(m < i)
  <2>1. Upto(t, m) = Upto(orders, m + 1) - orders[i].volume /\ m + 1 = Len(orders)
    BY <1>1, <1>4, <1>6
  <2> QED BY <1>1, <2>1, VolumeStep DEF t
<1> QED BY <1>5, <1>6

LEMMA MinOf ==
    ASSUME NEW a \in Int, NEW b \in Int
    PROVE  /\ Min({a, b}) = IF a <= b THEN a ELSE b
           /\ Max({a, b}) = IF a <= b THEN b ELSE a
<1>1. \A x \in {a, b} : (\A y \in {a, b} : x <= y) <=> x = (IF a <= b THEN a ELSE b)
  OBVIOUS
<1>2. \A x \in {a, b} : (\A y \in {a, b} : x >= y) <=> x = (IF a <= b THEN b ELSE a)
  OBVIOUS
<1>3. Min({a, b}) = IF a <= b THEN a ELSE b
  <2>1. (IF a <= b THEN a ELSE b) \in {a, b}
    OBVIOUS
  <2> QED BY <1>1, <2>1 DEF Min
<1>4. Max({a, b}) = IF a <= b THEN b ELSE a
  <2>1. (IF a <= b THEN b ELSE a) \in {a, b}
    OBVIOUS
  <2> QED BY <1>2, <2>1 DEF Max
<1> QED BY <1>3, <1>4

\* What the first k orders of a level give to an order with r to fill.
Given(orders, k, r) == IF Upto(orders, k) <= r THEN Upto(orders, k) ELSE r

LEMMA FillStep ==
    ASSUME NEW orders \in Seq(Order), NEW r \in Nat
    PROVE  /\ Given(orders, 0, r) = 0
           /\ \A k \in 0..Len(orders) :
                 Given(orders, k, r) \in Nat /\ Given(orders, k, r) <= Upto(orders, k)
           /\ \A k \in 1..Len(orders) :
                 /\ FillOf(orders, k, r) \in Nat
                 /\ FillOf(orders, k, r) <= orders[k].volume
                 /\ Given(orders, k, r) = Given(orders, k - 1, r) + FillOf(orders, k, r)
<1>1. Given(orders, 0, r) = 0
  BY VolumeStep DEF Given
<1>2. \A k \in 0..Len(orders) :
         Given(orders, k, r) \in Nat /\ Given(orders, k, r) <= Upto(orders, k)
  BY VolumeStep DEF Given
<1>3. ASSUME NEW k \in 1..Len(orders)
      PROVE  /\ FillOf(orders, k, r) \in Nat
             /\ FillOf(orders, k, r) <= orders[k].volume
             /\ Given(orders, k, r) = Given(orders, k - 1, r) + FillOf(orders, k, r)
  <2> DEFINE u == Upto(orders, k - 1)
             v == orders[k].volume
             left == IF 0 <= r - u THEN r - u ELSE 0
  <2>1. k - 1 \in 0..Len(orders)
    OBVIOUS
  <2>2. u \in Nat /\ v \in Nat /\ VolumeBefore(orders, k) = u /\ Upto(orders, k) = u + v
    BY <2>1, VolumeStep
  <2> HIDE DEF u, v
  <2>3. Max({0, r - u}) = left /\ left \in Nat
    <3> DEFINE d == r - u
    <3>1. d \in Int /\ 0 \in Int
      BY <2>2
    <3> HIDE DEF d
    <3>2. Max({0, d}) = IF 0 <= d THEN d ELSE 0
      BY <3>1, MinOf, Zenon
    <3> QED BY <3>1, <3>2 DEF d
  <2>4. FillOf(orders, k, r) = Min({v, left})
    BY <2>2, <2>3 DEF FillOf, v
  <2>5. FillOf(orders, k, r) = IF v <= left THEN v ELSE left
    <3> HIDE DEF left
    <3> QED BY <2>2, <2>3, <2>4, MinOf
  <2>6. /\ Given(orders, k, r) = IF u + v <= r THEN u + v ELSE r
        /\ Given(orders, k - 1, r) = IF u <= r THEN u ELSE r
    BY <2>2 DEF Given, u
  <2> QED BY <2>2, <2>3, <2>5, <2>6 DEF v
<1> QED BY <1>1, <1>2, <1>3

\* What a level gives in all.
LEMMA TakenIs ==
    ASSUME NEW orders \in Seq(Order), NEW r \in Nat
    PROVE  SumFunction([i \in DOMAIN orders |-> FillOf(orders, i, r)]) = Given(orders, Len(orders), r)
<1> DEFINE f == [i \in DOMAIN orders |-> FillOf(orders, i, r)]
           m == Len(orders)
           S == {k \in 0..m : SumFunctionOnSet(f, 1..k) = Given(orders, k, r)}
<1>1. DOMAIN f = 1..m /\ m \in Nat
  OBVIOUS
<1>2. \A k \in 1..m : f[k] = FillOf(orders, k, r) /\ f[k] \in Nat
  <2>1. \A k \in 1..m : f[k] = FillOf(orders, k, r)
    BY <1>1
  <2>2. \A k \in 1..m : FillOf(orders, k, r) \in Nat
    BY FillStep
  <2> HIDE DEF f
  <2> QED BY <2>1, <2>2
<1>3. SumFunction(f) = SumFunctionOnSet(f, 1..m)
  <2>1. SumFunction(f) = SumFunctionOnSet(f, DOMAIN f)
    BY DEF SumFunction, FoldFunction, SumFunctionOnSet
  <2> HIDE DEF f
  <2> QED BY <1>1, <2>1
<1> HIDE DEF f
<1>4. 0 \in S
  <2>1. 1..0 = {}
    OBVIOUS
  <2> QED BY <1>1, <2>1, SumEmpty, FillStep
<1>5. ASSUME NEW k \in 1..m, k - 1 \in S PROVE k \in S
  <2>1. IsFiniteSet(1..k) /\ (\A x \in 1..k : f[x] \in Nat) /\ k \in 1..k /\ (1..k) \ {k} = 1..(k - 1)
    <3>1. IsFiniteSet(1..k)
      BY <1>1, FS_Interval
    <3>2. \A x \in 1..k : x \in 1..m
      BY <1>1
    <3>3. \A x \in 1..k : f[x] \in Nat
      BY <1>2, <3>2
    <3>4. k \in 1..k /\ (1..k) \ {k} = 1..(k - 1)
      BY <1>1
    <3> QED BY <3>1, <3>3, <3>4
  <2>2. SumFunctionOnSet(f, 1..k) = f[k] + SumFunctionOnSet(f, 1..(k - 1))
    BY <2>1, SumRemove
  <2>3. Given(orders, k, r) = Given(orders, k - 1, r) + FillOf(orders, k, r)
    BY FillStep
  <2>4. Given(orders, k - 1, r) \in Nat /\ k \in 0..m
    <3>1. k - 1 \in 0..m /\ k \in 0..m
      BY <1>1
    <3> QED BY <3>1, FillStep
  <2> QED BY <1>2, <1>5, <2>2, <2>3, <2>4
<1>6. m \in S
  <2> HIDE DEF S
  <2>1. \A k \in 0..m : k \in S
    BY <1>1, <1>4, <1>5, Climb
  <2> QED BY <1>1, <2>1
<1> QED BY <1>3, <1>6 DEF f

LEMMA OrderIs ==
    ASSUME NEW i \in Nat \ {0}, NEW w \in Owners, NEW v \in Nat
    PROVE  [id |-> i, who |-> w, volume |-> v] \in Order
BY DEF Order

LEMMA CutType ==
    ASSUME NEW orders \in Seq(Order), NEW r \in Nat
    PROVE  /\ Cut(orders, r) \in Seq(Order) /\ Len(Cut(orders, r)) = Len(orders)
           /\ \A k \in 1..Len(orders) :
                 /\ Cut(orders, r)[k].id = orders[k].id
                 /\ Cut(orders, r)[k].who = orders[k].who
                 /\ Cut(orders, r)[k].volume = orders[k].volume - FillOf(orders, k, r)
<1> DEFINE t == Cut(orders, r)
           x(k) == [id |-> orders[k].id, who |-> orders[k].who,
                    volume |-> orders[k].volume - FillOf(orders, k, r)]
<1>1. t = [k \in 1..Len(orders) |-> x(k)] /\ Len(orders) \in Nat
  BY DEF Cut
<1>2. ASSUME NEW k \in 1..Len(orders) PROVE x(k) \in Order
  <2>1. /\ orders[k].id \in Nat \ {0} /\ orders[k].who \in Owners /\ orders[k].volume \in Nat
        /\ FillOf(orders, k, r) \in Nat /\ FillOf(orders, k, r) <= orders[k].volume
    BY OrderFields, FillStep
  <2>2. orders[k].volume - FillOf(orders, k, r) \in Nat
    BY <2>1
  <2> QED BY <2>1, <2>2, OrderIs
<1> HIDE DEF t
<1>3. \A k \in 1..Len(orders) : t[k] = x(k)
  BY <1>1
<1>4. t \in Seq(Order) /\ Len(t) = Len(orders)
  <2> HIDE DEF x
  <2>1. t \in [1..Len(orders) -> Order]
    BY <1>1, <1>2
  <2> QED BY <1>1, <2>1
<1>5. \A k \in 1..Len(orders) :
         /\ t[k].id = orders[k].id /\ t[k].who = orders[k].who
         /\ t[k].volume = orders[k].volume - FillOf(orders, k, r)
  <2> SUFFICES ASSUME NEW k \in 1..Len(orders)
               PROVE  /\ t[k].id = orders[k].id /\ t[k].who = orders[k].who
                      /\ t[k].volume = orders[k].volume - FillOf(orders, k, r)
    OBVIOUS
  <2> DEFINE d == orders[k].volume - FillOf(orders, k, r)
  <2>1. t[k] = [id |-> orders[k].id, who |-> orders[k].who, volume |-> d]
    BY <1>3
  <2> HIDE DEF d
  <2>2. t[k].id = orders[k].id /\ t[k].who = orders[k].who /\ t[k].volume = d
    BY <2>1
  <2> QED BY <2>2 DEF d
<1> HIDE DEF x
<1> QED BY <1>4, <1>5 DEF t

LEMMA VolumeCut ==
    ASSUME NEW orders \in Seq(Order), NEW r \in Nat
    PROVE  \A k \in 0..Len(orders) :
             Upto(Cut(orders, r), k) = Upto(orders, k) - Given(orders, k, r)
<1> DEFINE t == Cut(orders, r)
           m == Len(orders)
           S == {k \in 0..m : Upto(t, k) = Upto(orders, k) - Given(orders, k, r)}
<1>1. /\ t \in Seq(Order) /\ Len(t) = m /\ m \in Nat
      /\ \A k \in 1..m : t[k].volume = orders[k].volume - FillOf(orders, k, r)
  BY CutType
<1> HIDE DEF t
<1>2. 0 \in S
  <2>1. Upto(t, 0) = 0 /\ Upto(orders, 0) = 0 /\ Given(orders, 0, r) = 0
    BY <1>1, VolumeStep, FillStep
  <2> QED BY <1>1, <2>1
<1>3. ASSUME NEW k \in 1..m, k - 1 \in S PROVE k \in S
  <2>1. k \in 0..m /\ k - 1 \in 0..m /\ k \in 1..Len(t)
    BY <1>1
  <2>2. Upto(t, k) = Upto(t, k - 1) + t[k].volume
    BY <1>1, <2>1, VolumeStep
  <2>3. Upto(orders, k) = Upto(orders, k - 1) + orders[k].volume
    BY VolumeStep
  <2>4. Given(orders, k, r) = Given(orders, k - 1, r) + FillOf(orders, k, r)
    BY FillStep
  <2>5. Upto(t, k - 1) = Upto(orders, k - 1) - Given(orders, k - 1, r)
    BY <1>3
  <2>6. /\ Upto(orders, k - 1) \in Nat /\ Given(orders, k - 1, r) \in Nat
        /\ orders[k].volume \in Nat /\ FillOf(orders, k, r) \in Nat
    BY <2>1, VolumeStep, FillStep
  <2>7. t[k].volume = orders[k].volume - FillOf(orders, k, r)
    BY <1>1
  <2> QED BY <2>1, <2>2, <2>3, <2>4, <2>5, <2>6, <2>7
<1>4. \A k \in 0..m : k \in S
  <2> HIDE DEF S
  <2> QED BY <1>1, <1>2, <1>3, Climb
<1> QED BY <1>4 DEF t

LEMMA FirstLeftIs ==
    ASSUME NEW orders \in Seq(Order), NEW r \in Nat
    PROVE  /\ FirstLeft(orders, r) \in 1..(Len(orders) + 1)
           /\ \A k \in 1..Len(orders) :
                 k < FirstLeft(orders, r) => FillOf(orders, k, r) = orders[k].volume
<1> DEFINE T == {i \in DOMAIN orders : \/ r - VolumeBefore(orders, i) <= 0
                                       \/ FillOf(orders, i, r) < orders[i].volume}
                  \cup {Len(orders) + 1}
<1>1. T \in SUBSET (1..(Len(orders) + 1)) /\ T \in SUBSET Nat /\ T # {}
  OBVIOUS
<1>2. \A k \in 1..Len(orders) : FillOf(orders, k, r) < orders[k].volume => k \in T
  OBVIOUS
<1>3. FirstLeft(orders, r) = Min(T)
  BY DEF FirstLeft
<1> HIDE DEF T
<1>4. Min(T) \in T /\ \A i \in T : Min(T) <= i
  BY <1>1, LeastNumber DEF Min
<1>5. ASSUME NEW k \in 1..Len(orders), k < Min(T) PROVE FillOf(orders, k, r) = orders[k].volume
  <2> DEFINE x == Min(T)
  <2>1. k \notin T
    <3>1. x \in T /\ (\A i \in T : x <= i) /\ k < x
      BY <1>4, <1>5
    <3> HIDE DEF x
    <3>2. x \in Nat /\ k \in Nat
      BY <1>1, <3>1
    <3> QED BY <3>1, <3>2
  <2>2. FillOf(orders, k, r) \in Nat /\ orders[k].volume \in Nat /\ FillOf(orders, k, r) <= orders[k].volume
    BY FillStep, OrderFields
  <2> QED BY <1>2, <2>1, <2>2
<1> QED BY <1>1, <1>3, <1>4, <1>5

\* The orders from the m-th on have the volume of all when those before have none.
LEMMA VolumeSuffix ==
    ASSUME NEW orders \in Seq(Order), NEW m \in 1..(Len(orders) + 1),
           \A k \in 1..Len(orders) : k < m => orders[k].volume = 0
    PROVE  LET t == SubSeq(orders, m, Len(orders)) IN
           /\ t \in Seq(Order) /\ Len(t) = Len(orders) - m + 1
           /\ \A k \in 1..Len(t) : t[k] = orders[(m - 1) + k] /\ (m - 1) + k \in 1..Len(orders)
           /\ Volume(t) = Volume(orders)
<1> DEFINE t == SubSeq(orders, m, Len(orders))
           l == Len(t)
           Low == {k \in 0..(m - 1) : Upto(orders, k) = 0}
           S == {k \in 0..l : Upto(t, k) = Upto(orders, (m - 1) + k)}
<1>1. Len(orders) \in Nat /\ m \in Nat /\ m - 1 \in Nat
  OBVIOUS
<1>2. t \in Seq(Order) /\ l = Len(orders) - m + 1 /\ l \in Nat
  <2>1. Len(orders) \in (m - 1)..Len(orders)
    BY <1>1
  <2>2. t \in Seq(Order) /\ l = IF m <= Len(orders) THEN Len(orders) - m + 1 ELSE 0
    BY <1>1, <2>1, SubSeqProperties
  <2> QED BY <1>1, <2>2
<1>3. ASSUME NEW k \in 1..l PROVE t[k] = orders[(m - 1) + k] /\ (m - 1) + k \in 1..Len(orders)
  <2>1. k \in 1..(Len(orders) - m + 1) /\ k \in Nat
    BY <1>2
  <2>2. t[k] = orders[m + k - 1]
    BY <1>1, <2>1
  <2>3. m + k - 1 = (m - 1) + k /\ (m - 1) + k \in 1..Len(orders)
    BY <1>1, <2>1
  <2> QED BY <2>2, <2>3
<1> HIDE DEF t
<1>4. m - 1 \in Low
  <2>1. 0 \in Low
    BY <1>1, VolumeStep
  <2>2. ASSUME NEW k \in 1..(m - 1), k - 1 \in Low PROVE k \in Low
    <3>1. k \in 1..Len(orders) /\ k < m /\ k \in 0..(m - 1)
      BY <1>1
    <3>2. Upto(orders, k) = Upto(orders, k - 1) + orders[k].volume
      BY <3>1, VolumeStep
    <3>3. Upto(orders, k - 1) = 0 /\ orders[k].volume = 0
      BY <2>2, <3>1
    <3> QED BY <3>1, <3>2, <3>3
  <2> HIDE DEF Low
  <2>3. \A k \in 0..(m - 1) : k \in Low
    BY <1>1, <2>1, <2>2, Climb
  <2> QED BY <1>1, <2>3
<1>5. 0 \in S
  <2>1. Upto(t, 0) = 0 /\ (m - 1) + 0 = m - 1
    BY <1>1, <1>2, VolumeStep
  <2> QED BY <1>2, <1>4, <2>1
<1>6. ASSUME NEW k \in 1..l, k - 1 \in S PROVE k \in S
  <2>1. (m - 1) + k \in 1..Len(orders) /\ ((m - 1) + k) - 1 = (m - 1) + (k - 1) /\ k \in 0..l
    BY <1>1, <1>2, <1>3
  <2>2. Upto(t, k) = Upto(t, k - 1) + t[k].volume
    BY <1>2, VolumeStep
  <2>3. Upto(orders, (m - 1) + k) = Upto(orders, (m - 1) + (k - 1)) + orders[(m - 1) + k].volume
    <3> DEFINE x == (m - 1) + k
    <3>1. Upto(orders, x) = Upto(orders, x - 1) + orders[x].volume
      <4> HIDE DEF x
      <4>1. x \in 1..Len(orders)
        BY <2>1 DEF x
      <4> QED BY <4>1, VolumeStep
    <3> QED BY <2>1, <3>1
  <2> QED BY <1>3, <1>6, <2>1, <2>2, <2>3
<1>7. l \in S
  <2> HIDE DEF S
  <2>1. \A k \in 0..l : k \in S
    BY <1>2, <1>5, <1>6, Climb
  <2> QED BY <1>2, <2>1
<1>8. Volume(t) = Volume(orders)
  <2>1. (m - 1) + l = Len(orders)
    BY <1>1, <1>2
  <2> QED BY <1>2, <1>7, <2>1, VolumeStep
<1> QED BY <1>2, <1>3, <1>8 DEF t

(***************************************************************************)
(* A level of the book, and what the three operations make of it.          *)
(***************************************************************************)
Rising(orders) ==
    \A i, j \in 1..Len(orders) : i < j => orders[i].id < orders[j].id

Summed(l) ==
    /\ l \in [volume : Nat, orders : Seq(Order)]
    /\ l.volume = Volume(l.orders)
    /\ Rising(l.orders)

GoodLevel(l) == Summed(l) /\ l.orders # <<>>

HasOrder(l, id, who) ==
    \E i \in 1..Len(l.orders) : l.orders[i].id = id /\ l.orders[i].who = who

LEMMA SummedFields ==
    ASSUME NEW l, Summed(l)
    PROVE  /\ l.orders \in Seq(Order) /\ l.volume \in Nat
           /\ l.volume = Volume(l.orders) /\ Rising(l.orders)
BY DEF Summed

LEMMA LevelIs ==
    ASSUME NEW v \in Nat, NEW os \in Seq(Order), v = Volume(os), Rising(os)
    PROVE  Summed([volume |-> v, orders |-> os])
BY DEF Summed

LEMMA VolumeIsNat ==
    ASSUME NEW os \in Seq(Order)
    PROVE  /\ Volume(os) \in Nat /\ Volume(<<>>) = 0
           /\ \A i \in 1..Len(os) : os[i].volume \in Nat /\ os[i].volume <= Volume(os)
<1>1. Len(os) \in Nat /\ Len(os) \in 0..Len(os)
  OBVIOUS
<1>2. Volume(os) \in Nat
  BY <1>1, VolumeStep
<1>3. Volume(<<>>) = 0
  <2>1. <<>> \in Seq(Order) /\ Len(<<>>) = 0
    OBVIOUS
  <2>2. Volume(<<>>) = Upto(<<>>, Len(<<>>)) /\ Upto(<<>>, 0) = 0
    BY <2>1, VolumeStep
  <2> QED BY <2>1, <2>2
<1>4. ASSUME NEW i \in 1..Len(os) PROVE os[i].volume \in Nat /\ os[i].volume <= Volume(os)
  <2> DEFINE S == {k \in 0..Len(os) : i <= k => os[i].volume <= Upto(os, k)}
  <2>1. os[i].volume \in Nat /\ i \in Nat
    BY <1>1, OrderFields
  <2>2. 0 \in S
    BY <1>1, <2>1
  <2>3. ASSUME NEW k \in 1..Len(os), k - 1 \in S PROVE k \in S
    <3>1. k \in 0..Len(os) /\ k - 1 \in 0..Len(os)
      BY <1>1
    <3>2. Upto(os, k) = Upto(os, k - 1) + os[k].volume
      BY VolumeStep
    <3>3. Upto(os, k - 1) \in Nat /\ os[k].volume \in Nat
      BY <3>1, VolumeStep
    <3>4. CASE i = k
      BY <3>1, <3>2, <3>3, <3>4
    <3>5. CASE i < k
      <4>1. os[i].volume <= Upto(os, k - 1)
        BY <2>3, <3>1, <3>5, <2>1
      <4> QED BY <2>1, <3>1, <3>2, <3>3, <4>1
    <3>6. CASE i > k
      BY <2>1, <3>1, <3>6
    <3> QED BY <2>1, <3>1, <3>4, <3>5, <3>6
  <2>4. Len(os) \in S
    <3> HIDE DEF S
    <3>1. \A k \in 0..Len(os) : k \in S
      BY <1>1, <2>2, <2>3, Climb
    <3> QED BY <1>1, <3>1
  <2> QED BY <1>1, <2>1, <2>4, VolumeStep
<1> QED BY <1>2, <1>3, <1>4

\* marketOrder on one level.
LEMMA LevelAfterGood ==
    ASSUME NEW l, Summed(l), NEW r \in Nat
    PROVE  /\ Summed(LevelAfter(l, r))
           /\ LevelAfter(l, r).volume > 0 => GoodLevel(LevelAfter(l, r))
           /\ \A id, who : HasOrder(LevelAfter(l, r), id, who) => HasOrder(l, id, who)
<1> DEFINE os == l.orders
           c == Cut(os, r)
           m == FirstLeft(os, r)
           t == SubSeq(c, m, Len(c))
           v == l.volume - Given(os, Len(os), r)
<1>1. os \in Seq(Order) /\ l.volume \in Nat /\ l.volume = Volume(os) /\ Rising(os)
  BY SummedFields
<1>2. LevelAfter(l, r) = [volume |-> v, orders |-> t]
  <2>1. Len(c) = Len(os)
    BY <1>1, CutType
  <2>2. SumFunction([i \in DOMAIN os |-> FillOf(os, i, r)]) = Given(os, Len(os), r)
    BY <1>1, TakenIs
  <2> QED BY <2>1, <2>2 DEF LevelAfter
<1>3. /\ c \in Seq(Order) /\ Len(c) = Len(os) /\ Len(os) \in Nat
      /\ \A k \in 1..Len(os) : /\ c[k].id = os[k].id /\ c[k].who = os[k].who
                               /\ c[k].volume = os[k].volume - FillOf(os, k, r)
  BY <1>1, CutType
<1>4. m \in 1..(Len(c) + 1) /\ \A k \in 1..Len(c) : k < m => c[k].volume = 0
  <2>1. m \in 1..(Len(c) + 1)
    BY <1>1, <1>3, FirstLeftIs
  <2>2. ASSUME NEW k \in 1..Len(c), k < m PROVE c[k].volume = 0
    <3>1. FillOf(os, k, r) = os[k].volume /\ os[k].volume \in Nat
      BY <1>1, <1>3, <2>2, FirstLeftIs, OrderFields
    <3> QED BY <1>3, <3>1
  <2> QED BY <2>1, <2>2
<1>5. v = Volume(c) /\ v \in Nat
  <2>1. Len(os) \in 0..Len(os)
    BY <1>3
  <2>2. Upto(c, Len(os)) = Upto(os, Len(os)) - Given(os, Len(os), r)
    BY <1>1, <2>1, VolumeCut
  <2>3. Volume(c) = Upto(c, Len(os)) /\ Volume(os) = Upto(os, Len(os))
    BY <1>1, <1>3, VolumeStep
  <2>4. v = Volume(c)
    BY <1>1, <2>2, <2>3
  <2> QED BY <1>3, <2>4, VolumeIsNat
<1> HIDE DEF c, m, v
<1>6. /\ t \in Seq(Order) /\ Len(t) = Len(c) - m + 1
      /\ \A k \in 1..Len(t) : t[k] = c[(m - 1) + k] /\ (m - 1) + k \in 1..Len(c)
      /\ Volume(t) = Volume(c)
  BY <1>3, <1>4, VolumeSuffix
<1> HIDE DEF t
<1>7. \A k \in 1..Len(t) : /\ t[k].id = os[(m - 1) + k].id /\ t[k].who = os[(m - 1) + k].who
                           /\ (m - 1) + k \in 1..Len(os)
  BY <1>3, <1>6
<1>8. Rising(t)
  <2> SUFFICES ASSUME NEW i \in 1..Len(t), NEW j \in 1..Len(t), i < j
               PROVE  t[i].id < t[j].id
    BY DEF Rising
  <2>1. (m - 1) + i < (m - 1) + j
    BY <1>4, <1>3
  <2>2. os[(m - 1) + i].id < os[(m - 1) + j].id
    BY <1>1, <1>7, <2>1 DEF Rising
  <2> QED BY <1>7, <2>2
<1>9. Summed(LevelAfter(l, r))
  BY <1>2, <1>5, <1>6, <1>8, LevelIs
<1>10. ASSUME LevelAfter(l, r).volume > 0 PROVE GoodLevel(LevelAfter(l, r))
  <2>1. Volume(t) > 0 /\ t = LevelAfter(l, r).orders
    BY <1>2, <1>5, <1>6, <1>10
  <2>2. t # <<>>
    <3>1. Volume(<<>>) = 0
      BY <1>6, VolumeIsNat
    <3> QED BY <2>1, <3>1
  <2> QED BY <1>9, <2>1, <2>2 DEF GoodLevel
<1>11. ASSUME NEW id, NEW who, HasOrder(LevelAfter(l, r), id, who) PROVE HasOrder(l, id, who)
  <2>1. PICK k \in 1..Len(t) : t[k].id = id /\ t[k].who = who
    BY <1>2, <1>11 DEF HasOrder
  <2> QED BY <1>7, <2>1 DEF HasOrder
<1> QED BY <1>9, <1>10, <1>11

\* addOrder on one level, which may be new.
LEMMA LevelAdd ==
    ASSUME NEW l, Summed(l), NEW o \in Order,
           \A i \in 1..Len(l.orders) : l.orders[i].id < o.id
    PROVE  LET t == [volume |-> l.volume + o.volume, orders |-> Append(l.orders, o)] IN
           /\ GoodLevel(t)
           /\ \A id, who : HasOrder(t, id, who) => \/ HasOrder(l, id, who)
                                                   \/ id = o.id /\ who = o.who
<1> DEFINE os == l.orders
           a == Append(os, o)
           t == [volume |-> l.volume + o.volume, orders |-> a]
<1>1. os \in Seq(Order) /\ l.volume \in Nat /\ l.volume = Volume(os) /\ Rising(os)
  BY SummedFields
<1>2. a \in Seq(Order) /\ Volume(a) = Volume(os) + o.volume
  BY <1>1, VolumeAppend
<1>3. Len(a) = Len(os) + 1 /\ Len(os) \in Nat /\ a[Len(os) + 1] = o
  BY <1>1
<1>4. \A i \in 1..Len(os) : a[i] = os[i]
  BY <1>1
<1>5. a # <<>>
  BY <1>3
<1> HIDE DEF a
<1>6. o.volume \in Nat
  BY DEF Order
<1>7. Rising(a)
  <2> SUFFICES ASSUME NEW i \in 1..Len(a), NEW j \in 1..Len(a), i < j
               PROVE  a[i].id < a[j].id
    BY DEF Rising
  <2>1. i \in 1..Len(os)
    BY <1>3
  <2>2. CASE j \in 1..Len(os)
    BY <1>1, <1>4, <2>1, <2>2 DEF Rising
  <2>3. CASE j = Len(os) + 1
    BY <1>3, <1>4, <2>1, <2>3
  <2> QED BY <1>3, <2>2, <2>3
<1>8. GoodLevel(t)
  <2>1. Summed(t)
    <3>1. l.volume + o.volume \in Nat /\ l.volume + o.volume = Volume(a)
      BY <1>1, <1>2, <1>6
    <3> QED BY <1>2, <1>7, <3>1, LevelIs
  <2> QED BY <1>5, <2>1 DEF GoodLevel
<1>9. ASSUME NEW id, NEW who, HasOrder(t, id, who)
      PROVE  HasOrder(l, id, who) \/ (id = o.id /\ who = o.who)
  <2>1. PICK k \in 1..Len(a) : a[k].id = id /\ a[k].who = who
    BY <1>9 DEF HasOrder
  <2>2. CASE k \in 1..Len(os)
    BY <1>4, <2>1, <2>2 DEF HasOrder
  <2>3. CASE k = Len(os) + 1
    BY <1>3, <2>1, <2>3
  <2> QED BY <1>3, <2>2, <2>3
<1> QED BY <1>8, <1>9 DEF a

\* cancelOrder on one level that keeps volume.
LEMMA LevelRemove ==
    ASSUME NEW l, Summed(l), NEW i \in 1..Len(l.orders), l.volume - l.orders[i].volume > 0
    PROVE  LET t == [volume |-> l.volume - l.orders[i].volume, orders |-> RemoveAt(l.orders, i)] IN
           /\ GoodLevel(t)
           /\ \A id, who : HasOrder(t, id, who) => HasOrder(l, id, who) /\ id # l.orders[i].id
<1> DEFINE os == l.orders
           a == RemoveAt(os, i)
           v == l.volume - os[i].volume
           t == [volume |-> v, orders |-> a]
<1>1. os \in Seq(Order) /\ l.volume \in Nat /\ l.volume = Volume(os) /\ Rising(os)
  BY SummedFields
<1>2. /\ a \in Seq(Order) /\ Len(a) = Len(os) - 1 /\ Len(os) \in Nat /\ i \in Nat
      /\ \A k \in 1..Len(a) : a[k] = IF k < i THEN os[k] ELSE os[k + 1]
  <2>1. i \in 1..Len(os) /\ Len(os) \in Nat /\ i \in Nat
    BY <1>1
  <2> HIDE DEF os
  <2> QED BY <1>1, <2>1, Removed
<1>3. Volume(a) = v
  BY <1>1, VolumeRemove
<1> HIDE DEF a
<1>4. v \in Nat /\ v > 0
  BY <1>1, OrderFields
<1>5. a # <<>>
  <2>1. Volume(<<>>) = 0
    BY <1>1, VolumeIsNat
  <2> QED BY <1>3, <1>4, <2>1
<1> HIDE DEF v
\* Where an order that stays was.
<1> DEFINE from(k) == IF k < i THEN k ELSE k + 1
<1>6. ASSUME NEW k \in 1..Len(a)
      PROVE  a[k] = os[from(k)] /\ from(k) \in 1..Len(os) /\ from(k) # i
  BY <1>2
<1>7. \A k, h \in 1..Len(a) : k < h => from(k) < from(h)
  BY <1>2
<1> HIDE DEF from
<1>8. Rising(a)
  BY <1>1, <1>6, <1>7 DEF Rising
<1>9. GoodLevel(t)
  <2>1. Summed(t)
    BY <1>2, <1>3, <1>4, <1>8, LevelIs
  <2> QED BY <1>5, <2>1 DEF GoodLevel
<1>10. ASSUME NEW id, NEW who, HasOrder(t, id, who)
       PROVE  HasOrder(l, id, who) /\ id # os[i].id
  <2>1. PICK k \in 1..Len(a) : a[k].id = id /\ a[k].who = who
    BY <1>10 DEF HasOrder
  <2> DEFINE h == from(k)
  <2>2. os[h].id = id /\ os[h].who = who /\ h \in 1..Len(os) /\ h # i
    BY <1>6, <2>1
  <2> HIDE DEF h
  <2>3. HasOrder(l, id, who)
    BY <2>2 DEF HasOrder
  <2>4. os[h].id \in Nat /\ os[i].id \in Nat
    BY <1>1, <2>2, OrderFields
  <2>5. h < i \/ i < h
    BY <1>2, <2>2
  <2>6. os[h].id < os[i].id \/ os[i].id < os[h].id
    BY <1>1, <2>2, <2>5 DEF Rising
  <2> QED BY <2>2, <2>3, <2>4, <2>6
<1> QED BY <1>9, <1>10 DEF a, v

(***************************************************************************)
(* The book: every level is good, ids are below the next one, no id rests  *)
(* at two prices, and the tracked best of a side with orders is a price.   *)
(***************************************************************************)
Rests(b, s, p, id, who) == p \in DOMAIN b.book[s] /\ HasOrder(b.book[s][p], id, who)

Shaped(b) ==
    /\ b.nextOrderId \in Nat \ {0} /\ DOMAIN b.book = Sides
    /\ \A s \in Sides : DOMAIN b.book[s] \subseteq Grid
    /\ \A s \in Sides : \A p \in DOMAIN b.book[s] : GoodLevel(b.book[s][p])

Sound(b) ==
    /\ Shaped(b)
    /\ \A s \in Sides : \A p \in DOMAIN b.book[s] :
         \A id \in IdsAt(b, s, p) : id < b.nextOrderId
    /\ \A s, t \in Sides : \A p \in DOMAIN b.book[s], q \in DOMAIN b.book[t] :
         \A id \in IdsAt(b, s, p) : id \in IdsAt(b, t, q) => s = t /\ p = q

Tracked(b) ==
    /\ DOMAIN b.best = Sides
    /\ \A s \in Sides : /\ b.best[s] \in Grid \cup {NewBook.best[s]}
                        /\ DOMAIN b.book[s] # {} => b.best[s] \in Grid

\* c holds no order that b does not hold.
Fewer(c, b) ==
    /\ c.nextOrderId = b.nextOrderId
    /\ \A s \in Sides : \A p, id, who : Rests(c, s, p, id, who) => Rests(b, s, p, id, who)

LEMMA IdsRest ==
    ASSUME NEW b, Shaped(b), NEW s \in Sides, NEW p, NEW id
    PROVE  /\ id \in IdsAt(b, s, p) <=> \E who : Rests(b, s, p, id, who)
           /\ id \in IdsAt(b, s, p) => id \in Nat \ {0}
<1>1. CASE p \in DOMAIN b.book[s]
  <2> DEFINE os == b.book[s][p].orders
  <2>1. os \in Seq(Order)
    BY <1>1, SummedFields DEF Shaped, GoodLevel
  <2>2. DOMAIN os = 1..Len(os)
    BY <2>1
  <2>3. IdsAt(b, s, p) = {os[i].id : i \in 1..Len(os)}
    BY <1>1, <2>2 DEF IdsAt
  <2>4. \A i \in 1..Len(os) : os[i].id \in Nat \ {0}
    BY <2>1, OrderFields
  <2>5. (\E who : Rests(b, s, p, id, who)) <=> \E i \in 1..Len(os) : os[i].id = id
    BY <1>1 DEF Rests, HasOrder
  <2> HIDE DEF os
  <2> QED BY <2>3, <2>4, <2>5
<1>2. CASE p \notin DOMAIN b.book[s]
  BY <1>2 DEF IdsAt, Rests
<1> QED BY <1>1, <1>2

\* The same in terms of Rests.
LEMMA SoundRests ==
    ASSUME NEW b, Shaped(b)
    PROVE  Sound(b) <=>
             /\ \A s \in Sides : \A p, id, who : Rests(b, s, p, id, who) => id < b.nextOrderId
             /\ \A s, t \in Sides : \A p, q, id, who, whom :
                   Rests(b, s, p, id, who) /\ Rests(b, t, q, id, whom) => s = t /\ p = q
<1>0. \A s \in Sides : \A p, id, who : Rests(b, s, p, id, who) => p \in DOMAIN b.book[s]
  BY DEF Rests
<1>1. \A s \in Sides : \A p, id : id \in IdsAt(b, s, p) <=> \E who : Rests(b, s, p, id, who)
  BY IdsRest
<1>2. ASSUME Sound(b)
      PROVE  /\ \A s \in Sides : \A p, id, who : Rests(b, s, p, id, who) => id < b.nextOrderId
             /\ \A s, t \in Sides : \A p, q, id, who, whom :
                   Rests(b, s, p, id, who) /\ Rests(b, t, q, id, whom) => s = t /\ p = q
  <2>1. \A s \in Sides : \A p, id, who : Rests(b, s, p, id, who) => id < b.nextOrderId
    BY <1>0, <1>1, <1>2 DEF Sound
  <2>2. ASSUME NEW s \in Sides, NEW t \in Sides, NEW p, NEW q, NEW id, NEW who, NEW whom,
               Rests(b, s, p, id, who), Rests(b, t, q, id, whom)
        PROVE  s = t /\ p = q
    <3>1. /\ p \in DOMAIN b.book[s] /\ q \in DOMAIN b.book[t]
          /\ id \in IdsAt(b, s, p) /\ id \in IdsAt(b, t, q)
      BY <1>0, <1>1, <2>2
    <3> QED BY <1>2, <3>1 DEF Sound
  <2> QED BY <2>1, <2>2
<1>3. ASSUME /\ \A s \in Sides : \A p, id, who : Rests(b, s, p, id, who) => id < b.nextOrderId
             /\ \A s, t \in Sides : \A p, q, id, who, whom :
                   Rests(b, s, p, id, who) /\ Rests(b, t, q, id, whom) => s = t /\ p = q
      PROVE  Sound(b)
  <2>1. \A s \in Sides : \A p \in DOMAIN b.book[s] : \A id \in IdsAt(b, s, p) : id < b.nextOrderId
    BY <1>1, <1>3
  <2>2. ASSUME NEW s \in Sides, NEW t \in Sides, NEW p \in DOMAIN b.book[s],
               NEW q \in DOMAIN b.book[t], NEW id \in IdsAt(b, s, p), id \in IdsAt(b, t, q)
        PROVE  s = t /\ p = q
    <3>1. PICK who : Rests(b, s, p, id, who)
      BY <1>1
    <3>2. PICK whom : Rests(b, t, q, id, whom)
      BY <1>1, <2>2
    <3> QED BY <1>3, <3>1, <3>2
  <2> QED BY <2>1, <2>2 DEF Sound
<1> QED BY <1>2, <1>3

LEMMA FewerSound ==
    ASSUME NEW b, NEW c, Sound(b), Shaped(c), Fewer(c, b)
    PROVE  Sound(c)
<1>1. Shaped(b)
  BY DEF Sound
<1>2. \A s \in Sides : \A p, id, who : Rests(b, s, p, id, who) => id < b.nextOrderId
  BY <1>1, SoundRests
<1>3. \A s, t \in Sides : \A p, q, id, who, whom :
         Rests(b, s, p, id, who) /\ Rests(b, t, q, id, whom) => s = t /\ p = q
  BY <1>1, SoundRests
<1>4. \A s \in Sides : \A p, id, who : Rests(c, s, p, id, who) => id < c.nextOrderId
  BY <1>2 DEF Fewer
<1>5. \A s, t \in Sides : \A p, q, id, who, whom :
         Rests(c, s, p, id, who) /\ Rests(c, t, q, id, whom) => s = t /\ p = q
  BY <1>3 DEF Fewer
<1> QED BY <1>4, <1>5, SoundRests

LEMMA FewerTrans ==
    ASSUME NEW a, NEW b, NEW c, Fewer(c, b), Fewer(b, a)
    PROVE  Fewer(c, a)
BY DEF Fewer

\* A level map on one side of a book.
LEMMA WithLevelsIs ==
    ASSUME NEW b, DOMAIN b.book = Sides, NEW side \in Sides, NEW levels
    PROVE  LET c == WithLevels(b, side, levels) IN
           /\ c.nextOrderId = b.nextOrderId /\ c.best = b.best /\ DOMAIN c.book = Sides
           /\ \A s \in Sides : c.book[s] = IF s = side THEN levels ELSE b.book[s]
<1> DEFINE new == [b.book EXCEPT ![side] = levels]
<1>1. WithLevels(b, side, levels) = [book |-> new, best |-> b.best, nextOrderId |-> b.nextOrderId]
  BY DEF WithLevels
<1>2. DOMAIN new = Sides /\ \A s \in Sides : new[s] = IF s = side THEN levels ELSE b.book[s]
  OBVIOUS
<1> HIDE DEF new
<1> QED BY <1>1, <1>2

LEMMA WithLevelsSound ==
    ASSUME NEW b, Sound(b), NEW side \in Sides, NEW levels,
           DOMAIN levels \subseteq DOMAIN b.book[side],
           \A p \in DOMAIN levels : /\ GoodLevel(levels[p])
                                    /\ \A id, who : HasOrder(levels[p], id, who)
                                          => HasOrder(b.book[side][p], id, who)
    PROVE  LET c == WithLevels(b, side, levels) IN
           Sound(c) /\ Fewer(c, b) /\ (Tracked(b) => Tracked(c))
<1> DEFINE c == WithLevels(b, side, levels)
<1>1. Shaped(b) /\ DOMAIN b.book = Sides
  BY DEF Sound, Shaped
<1>2. /\ c.nextOrderId = b.nextOrderId /\ c.best = b.best /\ DOMAIN c.book = Sides
      /\ \A s \in Sides : c.book[s] = IF s = side THEN levels ELSE b.book[s]
  BY <1>1, WithLevelsIs
<1> HIDE DEF c
<1>3. \A s \in Sides : DOMAIN c.book[s] \subseteq DOMAIN b.book[s]
  BY <1>2
<1>4. Fewer(c, b)
  <2> SUFFICES ASSUME NEW s \in Sides, NEW p, NEW id, NEW who, Rests(c, s, p, id, who)
               PROVE  Rests(b, s, p, id, who)
    BY <1>2 DEF Fewer
  <2>1. CASE s = side
    <3>1. p \in DOMAIN levels /\ HasOrder(levels[p], id, who)
      BY <1>2, <2>1 DEF Rests
    <3> QED BY <2>1, <3>1 DEF Rests
  <2>2. CASE s # side
    BY <1>2, <2>2 DEF Rests
  <2> QED BY <2>1, <2>2
<1>5. Shaped(c)
  <2>1. \A s \in Sides : DOMAIN c.book[s] \subseteq Grid
    BY <1>1, <1>3 DEF Shaped
  <2>2. ASSUME NEW s \in Sides, NEW p \in DOMAIN c.book[s] PROVE GoodLevel(c.book[s][p])
    BY <1>1, <1>2 DEF Shaped
  <2> QED BY <1>1, <1>2, <2>1, <2>2 DEF Shaped
<1>6. Tracked(b) => Tracked(c)
  BY <1>2, <1>3 DEF Tracked
<1> QED BY <1>4, <1>5, <1>6, FewerSound DEF c

LEMMA GridIs ==
    /\ Grid \subseteq Int /\ IsFiniteSet(Grid)
    /\ Min(Grid) \in Grid /\ Max(Grid) \in Grid /\ Grid = Min(Grid)..Max(Grid)
    /\ BasePrice \in Int /\ EmptySide.buy \in Grid /\ EmptySide.sell \in Grid
<1>1. /\ Grid \subseteq Int /\ Min(Grid) \in Grid /\ Max(Grid) \in Grid
      /\ Grid = Min(Grid)..Max(Grid) /\ BasePrice \in Int
  BY WorkerAssumption
<1>2. BasePrice - 1 \in Grid /\ BasePrice + 1 \in Grid
  BY WorkerAssumption
<1>3. IsFiniteSet(Grid)
  <2> DEFINE lo == Min(Grid) hi == Max(Grid)
  <2>1. lo \in Int /\ hi \in Int /\ Grid = lo..hi
    BY <1>1
  <2> HIDE DEF lo, hi
  <2> QED BY <2>1, FS_Interval
<1> QED BY <1>1, <1>2, <1>3 DEF EmptySide

\* A set of prices with orders has a best one on either side.
LEMMA TopIs ==
    ASSUME NEW b, NEW side \in Sides, DOMAIN b.book[side] \subseteq Grid, DOMAIN b.book[side] # {}
    PROVE  Top(b, side) \in DOMAIN b.book[side]
<1> DEFINE D == DOMAIN b.book[side]
           lo == Min(Grid)
           hi == Max(Grid)
<1>1. D \subseteq lo..hi /\ lo \in Int /\ hi \in Int /\ D # {}
  BY GridIs
<1> HIDE DEF D, lo, hi
<1>2. \E p \in D : \A q \in D \ {p} : Ahead(side, p, q)
  <2>1. CASE side = "buy"
    <3> DEFINE T == {hi - p : p \in D}
    <3>1. T \in SUBSET Nat /\ T # {}
      <4>1. \A p \in D : hi - p \in Nat
        BY <1>1
      <4> QED BY <1>1, <4>1, Zenon
    <3>2. PICK x \in T : \A y \in T : x <= y
      <4> HIDE DEF T
      <4> QED BY <3>1, LeastNumber
    <3>3. PICK p \in D : x = hi - p
      BY <3>2
    <3>4. ASSUME NEW q \in D \ {p} PROVE p > q
      <4>1. hi - p <= hi - q
        BY <3>2, <3>3
      <4> QED BY <1>1, <4>1
    <3> QED BY <2>1, <3>4 DEF Ahead
  <2>2. CASE side = "sell"
    <3> DEFINE T == {p - lo : p \in D}
    <3>1. T \in SUBSET Nat /\ T # {}
      <4>1. \A p \in D : p - lo \in Nat
        BY <1>1
      <4> QED BY <1>1, <4>1, Zenon
    <3>2. PICK x \in T : \A y \in T : x <= y
      <4> HIDE DEF T
      <4> QED BY <3>1, LeastNumber
    <3>3. PICK p \in D : x = p - lo
      BY <3>2
    <3>4. ASSUME NEW q \in D \ {p} PROVE p < q
      <4>1. p - lo <= q - lo
        BY <3>2, <3>3
      <4> QED BY <1>1, <4>1
    <3> QED BY <2>2, <3>4 DEF Ahead
  <2> QED BY <2>1, <2>2 DEF Sides
<1> QED BY <1>2 DEF Top, D

LEMMA RebuildSound ==
    ASSUME NEW b, Sound(b)
    PROVE  LET c == RebuildBest(b) IN Sound(c) /\ Fewer(c, b) /\ Tracked(c) /\ c.book = b.book
<1> DEFINE c == RebuildBest(b)
           new == [s \in Sides |-> IF DOMAIN b.book[s] = {} THEN EmptySide[s] ELSE Top(b, s)]
<1>1. c = [book |-> b.book, nextOrderId |-> b.nextOrderId, best |-> new]
  BY DEF RebuildBest
<1>2. DOMAIN new = Sides /\ \A s \in Sides : new[s] \in Grid
  <2>1. \A s \in Sides : EmptySide[s] \in Grid
    BY GridIs DEF Sides, EmptySide
  <2>2. ASSUME NEW s \in Sides, DOMAIN b.book[s] # {} PROVE Top(b, s) \in Grid
    BY <2>2, TopIs DEF Sound, Shaped
  <2> QED BY <2>1, <2>2
<1> HIDE DEF new
<1>3. c.book = b.book /\ c.nextOrderId = b.nextOrderId /\ c.best = new
  BY <1>1
<1> HIDE DEF c
<1>4. Fewer(c, b)
  BY <1>3 DEF Fewer, Rests
<1>5. Shaped(c)
  BY <1>3 DEF Sound, Shaped
<1>6. Tracked(c)
  BY <1>2, <1>3 DEF Tracked
<1> QED BY <1>3, <1>4, <1>5, <1>6, FewerSound DEF c

\* cancelOrder takes the order away, whoever asks and whatever else rests.
LEMMA CancelSound ==
    ASSUME NEW b, Sound(b), Tracked(b), NEW side \in Sides, NEW price, NEW id
    PROVE  LET c == CancelOrder(b, side, price, id) IN
           /\ Sound(c) /\ Tracked(c) /\ Fewer(c, b)
           /\ \A who : ~Rests(c, side, price, id, who)
<1> DEFINE c == CancelOrder(b, side, price, id)
           levels == b.book[side]
           level == levels[price]
           os == level.orders
<1>0. Shaped(b) /\ DOMAIN b.book = Sides
  BY DEF Sound, Shaped
<1>1. CASE id \notin IdsAt(b, side, price)
  <2>1. c = b
    BY <1>1 DEF CancelOrder
  <2>2. \A who : ~Rests(b, side, price, id, who)
    BY <1>0, <1>1, IdsRest
  <2> HIDE DEF c
  <2>3. Fewer(c, b)
    BY <2>1 DEF Fewer
  <2> QED BY <2>1, <2>2, <2>3 DEF c
<1>2. CASE id \in IdsAt(b, side, price)
  <2>1. price \in DOMAIN levels
    BY <1>2 DEF IdsAt
  <2>2. GoodLevel(level) /\ Summed(level) /\ os \in Seq(Order)
    <3>1. GoodLevel(level)
      BY <1>0, <2>1 DEF Shaped
    <3> QED BY <3>1, SummedFields DEF GoodLevel
  <2>3. DOMAIN os = 1..Len(os)
    BY <2>2
  <2>4. \E i \in DOMAIN os : os[i].id = id
    BY <1>2, <2>1 DEF IdsAt
  <2> DEFINE idx == CHOOSE i \in DOMAIN os : os[i].id = id
             left == level.volume - os[idx].volume
             without == WithLevels(b, side, Without(levels, {price}))
             smaller == [volume |-> left, orders |-> RemoveAt(os, idx)]
  <2>5. idx \in 1..Len(os) /\ os[idx].id = id
    BY <2>3, <2>4
  <2>6. c = IF left <= 0
            THEN IF price = b.best[side] THEN RebuildBest(without) ELSE without
            ELSE WithLevels(b, side, [levels EXCEPT ![price] = smaller])
    BY <1>2 DEF CancelOrder
  <2>7. left \in Int
    <3>1. os[idx].volume \in Nat /\ level.volume \in Nat
      BY <2>2, <2>5, OrderFields, SummedFields
    <3> HIDE DEF idx
    <3> QED BY <3>1
  <2> HIDE DEF c, idx
  <2>8. CASE left <= 0
    <3>1. Sound(without) /\ Fewer(without, b) /\ Tracked(without)
      <4> DEFINE rest == Without(levels, {price})
      <4>1. DOMAIN rest = DOMAIN levels \ {price} /\ \A p \in DOMAIN rest : rest[p] = levels[p]
        BY DEF Without
      <4> HIDE DEF rest
      <4>2. \A p \in DOMAIN rest : p \in DOMAIN levels /\ GoodLevel(levels[p])
        BY <1>0, <4>1 DEF Shaped
      <4>3. DOMAIN rest \subseteq DOMAIN b.book[side]
        BY <4>1
      <4>4. \A p \in DOMAIN rest : /\ GoodLevel(rest[p])
                                   /\ \A i, who : HasOrder(rest[p], i, who)
                                         => HasOrder(b.book[side][p], i, who)
        BY <4>1, <4>2
      <4>5. Sound(WithLevels(b, side, rest)) /\ Fewer(WithLevels(b, side, rest), b)
            /\ (Tracked(b) => Tracked(WithLevels(b, side, rest)))
        BY <4>3, <4>4, WithLevelsSound
      <4> QED BY <4>5 DEF rest
    <3>2. price \notin DOMAIN without.book[side]
      <4> DEFINE rest == Without(levels, {price})
      <4>1. without.book[side] = rest
        <5>1. without = WithLevels(b, side, rest)
          OBVIOUS
        <5> HIDE DEF rest, without
        <5> QED BY <1>0, <5>1, WithLevelsIs
      <4>2. price \notin DOMAIN rest
        BY DEF Without
      <4> HIDE DEF rest
      <4> QED BY <4>1, <4>2
    <3> HIDE DEF without
    <3>3. CASE price = b.best[side]
      <4>1. c = RebuildBest(without)
        BY <2>6, <2>8, <3>3
      <4>2. Sound(c) /\ Fewer(c, without) /\ Tracked(c) /\ c.book = without.book
        BY <3>1, <4>1, RebuildSound
      <4>3. Fewer(c, b)
        BY <3>1, <4>2, FewerTrans
      <4>4. \A who : ~Rests(c, side, price, id, who)
        BY <3>2, <4>2 DEF Rests
      <4> QED BY <4>2, <4>3, <4>4 DEF c
    <3>4. CASE price # b.best[side]
      <4>1. c = without
        BY <2>6, <2>8, <3>4
      <4>2. \A who : ~Rests(c, side, price, id, who)
        BY <3>2, <4>1 DEF Rests
      <4> QED BY <3>1, <4>1, <4>2 DEF c
    <3> QED BY <3>3, <3>4
  <2>9. CASE ~(left <= 0)
    <3> DEFINE fewer == [levels EXCEPT ![price] = smaller]
    <3>1. left > 0
      BY <2>7, <2>9
    <3>2. /\ GoodLevel(smaller)
          /\ \A i, who : HasOrder(smaller, i, who) => HasOrder(level, i, who) /\ i # os[idx].id
      <4> HIDE DEF level
      <4> QED BY <2>2, <2>5, <3>1, LevelRemove
    <3> HIDE DEF smaller, left
    <3>3. /\ DOMAIN fewer = DOMAIN levels /\ fewer[price] = smaller
          /\ \A p \in DOMAIN levels : p # price => fewer[p] = levels[p]
      BY <2>1
    <3> HIDE DEF fewer
    <3>4. \A p \in DOMAIN fewer : /\ GoodLevel(fewer[p])
                                  /\ \A i, who : HasOrder(fewer[p], i, who)
                                        => HasOrder(b.book[side][p], i, who)
      BY <1>0, <3>2, <3>3 DEF Shaped
    <3>5. c = WithLevels(b, side, fewer)
      BY <2>6, <2>9 DEF fewer
    <3>6. Sound(c) /\ Fewer(c, b) /\ (Tracked(b) => Tracked(c))
      BY <3>3, <3>4, <3>5, WithLevelsSound
    <3>7. c.book[side] = fewer
      BY <1>0, <3>5, WithLevelsIs
    <3>8. \A who : ~Rests(c, side, price, id, who)
      BY <2>5, <3>2, <3>3, <3>7 DEF Rests
    <3> QED BY <3>6, <3>8 DEF c
  <2> QED BY <2>8, <2>9
<1> QED BY <1>1, <1>2

\* The depth before a price is a volume.
LEMMA DepthIsNat ==
    ASSUME NEW b, Shaped(b), NEW side \in Sides, NEW p
    PROVE  DepthBefore(b.book[side], side, p) \in Nat
<1> DEFINE levels == b.book[side]
           f == [q \in DOMAIN levels |-> levels[q].volume]
           T == {q \in DOMAIN levels : Ahead(side, q, p)}
<1>1. DOMAIN levels \subseteq Grid /\ \A q \in DOMAIN levels : levels[q].volume \in Nat
  BY SummedFields DEF Shaped, GoodLevel
<1>2. T \subseteq Grid /\ \A q \in T : f[q] \in Nat
  BY <1>1
<1>3. IsFiniteSet(T)
  BY <1>2, GridIs, FS_Subset
<1>4. DepthBefore(levels, side, p) = SumFunctionOnSet(f, T)
  BY DEF DepthBefore
<1> HIDE DEF f, T
<1> QED BY <1>2, <1>3, <1>4, SumIsNat

\* marketOrder only takes volume away.
LEMMA MarketSound ==
    ASSUME NEW b, Sound(b), Tracked(b), NEW taker \in Sides, NEW volume \in Nat
    PROVE  LET c == MarketOrder(b, taker, volume) IN Sound(c) /\ Tracked(c) /\ Fewer(c, b)
<1> DEFINE c == MarketOrder(b, taker, volume)
           side == Opposite[taker]
           levels == b.book[side]
           remaining == [p \in DOMAIN levels |-> volume - DepthBefore(levels, side, p)]
           after == [p \in DOMAIN levels |->
                       IF remaining[p] > 0 THEN LevelAfter(levels[p], remaining[p])
                       ELSE levels[p]]
           gone == {p \in DOMAIN levels : remaining[p] > 0 /\ after[p].volume <= 0}
           stay == Without(after, gone)
           rest == WithLevels(b, side, stay)
<1>0. Shaped(b) /\ DOMAIN b.book = Sides /\ side \in Sides
  BY DEF Sound, Shaped, Sides, Opposite
<1>1. c = IF gone = {} THEN rest ELSE RebuildBest(rest)
  BY DEF MarketOrder
<1> HIDE DEF c, side
<1>2. ASSUME NEW p \in DOMAIN levels PROVE remaining[p] \in Int
  <2>1. DepthBefore(levels, side, p) \in Nat
    BY <1>0, DepthIsNat
  <2> HIDE DEF levels
  <2> QED BY <2>1
<1> HIDE DEF remaining
<1>3. ASSUME NEW p \in DOMAIN levels
      PROVE  /\ after[p] = IF remaining[p] > 0 THEN LevelAfter(levels[p], remaining[p]) ELSE levels[p]
             /\ p \notin gone => GoodLevel(after[p])
             /\ \A id, who : HasOrder(after[p], id, who) => HasOrder(levels[p], id, who)
  <2>1. after[p] = IF remaining[p] > 0 THEN LevelAfter(levels[p], remaining[p]) ELSE levels[p]
    OBVIOUS
  <2>2. GoodLevel(levels[p]) /\ Summed(levels[p])
    BY <1>0 DEF Shaped, GoodLevel
  <2> HIDE DEF after, levels
  <2>3. CASE remaining[p] > 0
    <3> DEFINE r == remaining[p]
               l == levels[p]
    <3>1. r \in Nat
      BY <1>2, <2>3
    <3> HIDE DEF r, l
    <3>2. /\ Summed(LevelAfter(l, r))
          /\ LevelAfter(l, r).volume > 0 => GoodLevel(LevelAfter(l, r))
          /\ \A id, who : HasOrder(LevelAfter(l, r), id, who) => HasOrder(l, id, who)
      BY <2>2, <3>1, LevelAfterGood DEF l
    <3>3. after[p] = LevelAfter(l, r)
      BY <2>1, <2>3 DEF l, r
    <3>4. LevelAfter(l, r).volume \in Nat
      BY <3>2, SummedFields
    <3>5. p \notin gone => after[p].volume > 0
      BY <2>3, <3>3, <3>4
    <3> QED BY <2>1, <3>2, <3>3, <3>5 DEF l
  <2>4. CASE ~(remaining[p] > 0)
    BY <2>1, <2>2, <2>4
  <2> QED BY <2>3, <2>4
<1>4. DOMAIN after = DOMAIN levels
  OBVIOUS
<1> HIDE DEF after, gone
<1>5. DOMAIN stay = DOMAIN levels \ gone /\ \A p \in DOMAIN stay : stay[p] = after[p]
  BY <1>4 DEF Without
<1> HIDE DEF stay
<1>6. Sound(rest) /\ Fewer(rest, b) /\ Tracked(rest)
  <2>1. DOMAIN stay \subseteq DOMAIN b.book[side]
    BY <1>5
  <2>2. \A p \in DOMAIN stay : /\ GoodLevel(stay[p])
                               /\ \A id, who : HasOrder(stay[p], id, who)
                                     => HasOrder(b.book[side][p], id, who)
    BY <1>3, <1>5
  <2> QED BY <1>0, <2>1, <2>2, WithLevelsSound
<1> HIDE DEF rest
<1>7. Sound(RebuildBest(rest)) /\ Fewer(RebuildBest(rest), b) /\ Tracked(RebuildBest(rest))
  <2>1. Sound(RebuildBest(rest)) /\ Fewer(RebuildBest(rest), rest) /\ Tracked(RebuildBest(rest))
    BY <1>6, RebuildSound
  <2> QED BY <1>6, <2>1, FewerTrans
<1> QED BY <1>1, <1>6, <1>7 DEF c

\* addOrder adds exactly the new order.
LEMMA AddSound ==
    ASSUME NEW b, Sound(b), Tracked(b), NEW side \in Sides, NEW price \in Grid,
           NEW volume \in Nat, NEW who \in Owners
    PROVE  LET c == AddOrder(b, side, price, volume, who) IN
           /\ Sound(c) /\ Tracked(c) /\ c.nextOrderId = b.nextOrderId + 1
           /\ \A s \in Sides : \A p, i, w : Rests(c, s, p, i, w) =>
                 \/ Rests(b, s, p, i, w)
                 \/ s = side /\ p = price /\ i = b.nextOrderId /\ w = who
<1> DEFINE c == AddOrder(b, side, price, volume, who)
           levels == b.book[side]
           old == IF price \in DOMAIN levels THEN levels[price]
                  ELSE [volume |-> 0, orders |-> <<>>]
           o == [id |-> b.nextOrderId, who |-> who, volume |-> volume]
           new == [volume |-> old.volume + volume, orders |-> Append(old.orders, o)]
           top == IF Ahead(side, price, b.best[side]) THEN price ELSE b.best[side]
           more == [p \in DOMAIN levels \cup {price} |-> IF p = price THEN new ELSE levels[p]]
           books == [b.book EXCEPT ![side] = more]
           bests == [b.best EXCEPT ![side] = top]
           next == b.nextOrderId
<1>0. Shaped(b) /\ DOMAIN b.book = Sides /\ next \in Nat \ {0}
  BY DEF Sound, Shaped
<1>1. c = [book |-> books, best |-> bests, nextOrderId |-> next + 1]
  BY DEF AddOrder
<1>2. o \in Order /\ o.id = next /\ o.who = who /\ o.volume = volume
  BY <1>0, OrderIs
<1>3. Summed(old) /\ \A i, w : HasOrder(old, i, w) => Rests(b, side, price, i, w)
  <2>1. CASE price \in DOMAIN levels
    BY <1>0, <2>1 DEF Shaped, GoodLevel, Rests
  <2>2. CASE price \notin DOMAIN levels
    <3>1. old = [volume |-> 0, orders |-> <<>>]
      BY <2>2
    <3> HIDE DEF old
    <3>2. Rising(<<>>) /\ <<>> \in Seq(Order) /\ Volume(<<>>) = 0
      <4>1. <<>> \in Seq(Order) /\ Len(<<>>) = 0
        OBVIOUS
      <4>2. Volume(<<>>) = 0
        BY <4>1, VolumeIsNat
      <4>3. Rising(<<>>)
        BY <4>1 DEF Rising
      <4> QED BY <4>1, <4>2, <4>3
    <3>3. Summed(old)
      BY <3>1, <3>2, LevelIs
    <3>4. \A i, w : ~HasOrder(old, i, w)
      <4>1. Len(old.orders) = 0
        BY <3>1
      <4> QED BY <4>1 DEF HasOrder
    <3> QED BY <3>3, <3>4
  <2> QED BY <2>1, <2>2
<1> HIDE DEF old, c
<1>4. \A i \in 1..Len(old.orders) : old.orders[i].id < o.id
  <2>1. \A i \in 1..Len(old.orders) : HasOrder(old, old.orders[i].id, old.orders[i].who)
    BY DEF HasOrder
  <2>2. \A i, w : Rests(b, side, price, i, w) => i < next
    BY <1>0, SoundRests
  <2> HIDE DEF o
  <2> QED BY <1>2, <1>3, <2>1, <2>2
<1> HIDE DEF o, next
<1>5. /\ GoodLevel(new)
      /\ \A i, w : HasOrder(new, i, w) => HasOrder(old, i, w) \/ (i = next /\ w = who)
  <2>1. new = [volume |-> old.volume + o.volume, orders |-> Append(old.orders, o)]
    BY <1>2
  <2> HIDE DEF new
  <2>2. /\ GoodLevel(new)
        /\ \A i, w : HasOrder(new, i, w) => HasOrder(old, i, w) \/ (i = o.id /\ w = o.who)
    BY <1>2, <1>3, <1>4, <2>1, LevelAdd
  <2> QED BY <1>2, <2>2
<1> HIDE DEF new, top
<1>6. DOMAIN more = DOMAIN levels \cup {price} /\ more[price] = new
      /\ \A p \in DOMAIN levels : p # price => more[p] = levels[p]
  OBVIOUS
<1> HIDE DEF more
<1>7. DOMAIN books = Sides /\ \A s \in Sides : books[s] = IF s = side THEN more ELSE b.book[s]
  BY <1>0
<1> HIDE DEF books, bests
<1>8. c.book = books /\ c.best = bests /\ c.nextOrderId = next + 1
  BY <1>1
<1>9. \A s \in Sides : \A p, i, w : Rests(c, s, p, i, w) =>
         \/ Rests(b, s, p, i, w)
         \/ s = side /\ p = price /\ i = next /\ w = who
  <2> SUFFICES ASSUME NEW s \in Sides, NEW p, NEW i, NEW w, Rests(c, s, p, i, w)
               PROVE  Rests(b, s, p, i, w) \/ (s = side /\ p = price /\ i = next /\ w = who)
    BY Zenon
  <2>1. CASE s # side
    BY <1>7, <1>8, <2>1 DEF Rests
  <2>2. CASE s = side /\ p # price
    <3>1. p \in DOMAIN more /\ HasOrder(more[p], i, w)
      BY <1>7, <1>8, <2>2 DEF Rests
    <3>2. p \in DOMAIN levels /\ more[p] = levels[p]
      BY <1>6, <2>2, <3>1
    <3> QED BY <2>2, <3>1, <3>2 DEF Rests
  <2>3. CASE s = side /\ p = price
    <3>1. HasOrder(new, i, w)
      BY <1>6, <1>7, <1>8, <2>3 DEF Rests
    <3> QED BY <1>3, <1>5, <2>3, <3>1
  <2> QED BY <2>1, <2>2, <2>3
<1>10. Shaped(c)
  <2>1. c.nextOrderId \in Nat \ {0} /\ DOMAIN c.book = Sides
    BY <1>0, <1>7, <1>8
  <2>2. \A s \in Sides : DOMAIN c.book[s] \subseteq Grid
    BY <1>0, <1>6, <1>7, <1>8 DEF Shaped
  <2>3. ASSUME NEW s \in Sides, NEW p \in DOMAIN c.book[s] PROVE GoodLevel(c.book[s][p])
    <3>1. CASE s # side
      BY <1>0, <1>7, <1>8, <3>1 DEF Shaped
    <3>2. CASE s = side
      <4>1. c.book[s] = more
        BY <1>7, <1>8, <3>2
      <4>2. CASE p = price
        BY <1>5, <1>6, <4>1, <4>2
      <4>3. CASE p # price
        <5>1. p \in DOMAIN levels /\ more[p] = levels[p]
          BY <1>6, <4>1, <4>3
        <5> QED BY <1>0, <4>1, <5>1 DEF Shaped
      <4> QED BY <4>2, <4>3
    <3> QED BY <3>1, <3>2
  <2> QED BY <2>1, <2>2, <2>3 DEF Shaped
<1>11. Sound(c)
  <2>1. \A s \in Sides : \A p, i, w : Rests(b, s, p, i, w) => i < next /\ i \in Nat
    <3>1. \A s \in Sides : \A p, i, w : Rests(b, s, p, i, w) => i < next
      BY <1>0, SoundRests DEF next
    <3>2. \A s \in Sides : \A p, i, w : Rests(b, s, p, i, w) => i \in Nat
      BY <1>0, IdsRest
    <3> QED BY <3>1, <3>2
  <2>2. \A s, t \in Sides : \A p, q, i, w, x :
           Rests(b, s, p, i, w) /\ Rests(b, t, q, i, x) => s = t /\ p = q
    BY <1>0, SoundRests
  <2>3. \A s \in Sides : \A p, i, w : Rests(c, s, p, i, w) => i < c.nextOrderId
    BY <1>0, <1>8, <1>9, <2>1
  <2>4. ASSUME NEW s \in Sides, NEW t \in Sides, NEW p, NEW q, NEW i, NEW w, NEW x,
               Rests(c, s, p, i, w), Rests(c, t, q, i, x)
        PROVE  s = t /\ p = q
    <3>a. Rests(c, s, p, i, w)
      BY <2>4
    <3>b. Rests(c, t, q, i, x)
      BY <2>4
    <3>c. Rests(c, s, p, i, w) => \/ Rests(b, s, p, i, w)
                                  \/ s = side /\ p = price /\ i = next /\ w = who
      BY <1>9
    <3>d. Rests(c, t, q, i, x) => \/ Rests(b, t, q, i, x)
                                  \/ t = side /\ q = price /\ i = next /\ x = who
      BY <1>9
    <3>1. Rests(b, s, p, i, w) \/ (s = side /\ p = price /\ i = next)
      BY <3>a, <3>c
    <3>2. Rests(b, t, q, i, x) \/ (t = side /\ q = price /\ i = next)
      BY <3>b, <3>d
    <3>3. next \in Nat /\ ~(next < next)
      BY <1>0
    <3> QED BY <2>1, <2>2, <3>1, <3>2, <3>3
  <2> QED BY <1>10, <2>3, <2>4, SoundRests
<1>12. Tracked(c)
  <2>0. DOMAIN bests = Sides
    BY DEF bests, Tracked
  <2>1. \A s \in Sides : s # side => bests[s] = b.best[s] /\ c.book[s] = b.book[s]
    BY <1>7, <1>8 DEF bests
  <2>2. \A s \in Sides : s # side => /\ c.best[s] \in Grid \cup {NewBook.best[s]}
                                     /\ DOMAIN c.book[s] # {} => c.best[s] \in Grid
    BY <1>8, <2>1 DEF Tracked
  <2>4. top \in Grid
    <3>1. CASE b.best[side] \in Grid
      BY <3>1 DEF top
    <3>2. CASE b.best[side] = NewBook.best[side]
      <4> DEFINE lo == Min(Grid)
                 hi == Max(Grid)
      <4>1. lo \in Int /\ hi \in Int /\ Grid = lo..hi
        BY GridIs
      <4>2. NewBook.best.buy = lo - 1 /\ NewBook.best.sell = hi + 1
        BY DEF NewBook
      <4> HIDE DEF lo, hi
      <4>3. Ahead(side, price, b.best[side])
        <5>1. CASE side = "buy"
          <6>1. price > lo - 1
            BY <4>1
          <6> QED BY <3>2, <4>2, <5>1, <6>1 DEF Ahead
        <5>2. CASE side = "sell"
          <6>1. price < hi + 1
            BY <4>1
          <6> QED BY <3>2, <4>2, <5>2, <6>1 DEF Ahead
        <5> QED BY <5>1, <5>2 DEF Sides
      <4> QED BY <4>3 DEF top
    <3> QED BY <3>1, <3>2 DEF Tracked
  <2>5. bests[side] \in Grid
    <3>1. bests[side] = top
      BY DEF bests, Tracked
    <3> QED BY <2>4, <3>1
  <2> QED BY <1>8, <2>0, <2>2, <2>5 DEF Tracked
<1> QED BY <1>8, <1>9, <1>11, <1>12 DEF c, next

(***************************************************************************)
(* What the bots and the contestant do with the book.                      *)
(***************************************************************************)
LEMMA NewBookSound ==
    /\ Sound(NewBook) /\ Tracked(NewBook) /\ NewBook.nextOrderId = 1
    /\ \A s \in Sides : \A p, id, who : ~Rests(NewBook, s, p, id, who)
<1> DEFINE none == [s \in Sides |-> <<>>]
           far == [buy |-> Min(Grid) - 1, sell |-> Max(Grid) + 1]
<1>1. NewBook.book = none /\ NewBook.nextOrderId = 1 /\ NewBook.best = far
  BY DEF NewBook
<1>2. DOMAIN none = Sides /\ \A s \in Sides : DOMAIN none[s] = {}
  OBVIOUS
<1>3. DOMAIN far = Sides
  BY DEF Sides
<1> HIDE DEF none, far
<1>4. \A s \in Sides : \A p, id, who : ~Rests(NewBook, s, p, id, who)
  BY <1>1, <1>2 DEF Rests
<1>5. Shaped(NewBook)
  BY <1>1, <1>2 DEF Shaped
<1>6. Sound(NewBook)
  BY <1>4, <1>5, SoundRests
<1>7. Tracked(NewBook)
  BY <1>1, <1>2, <1>3 DEF Tracked
<1> QED BY <1>1, <1>4, <1>6, <1>7

\* bestBid, bestAsk and the depth of the snapshot are a price and a volume.
LEMMA SnapshotIs ==
    ASSUME NEW b, Sound(b), Tracked(b), NEW s \in Sides
    PROVE  Snapshot(b).best[s] \in Grid /\ Snapshot(b).depth[s] \in Nat
<1>1. Snapshot(b).best[s] = BestOf(b, s) /\ Snapshot(b).depth[s] = TopDepth(b, s)
  BY DEF Snapshot
<1>2. EmptySide[s] \in Grid
  BY GridIs DEF Sides, EmptySide
<1>3. BestOf(b, s) \in Grid
  BY <1>2 DEF BestOf, Tracked
<1>4. TopDepth(b, s) \in Nat
  <2>1. CASE DOMAIN b.book[s] = {}
    BY <2>1 DEF TopDepth
  <2>2. CASE DOMAIN b.book[s] # {}
    <3>1. Top(b, s) \in DOMAIN b.book[s]
      BY <2>2, TopIs DEF Sound, Shaped
    <3>2. Summed(b.book[s][Top(b, s)])
      BY <3>1 DEF Sound, Shaped, GoodLevel
    <3> QED BY <2>2, <3>2, SummedFields DEF TopDepth
  <2> QED BY <2>1, <2>2
<1> QED BY <1>1, <1>3, <1>4

\* A bot's order of volume one.
LEMMA AddOne ==
    ASSUME NEW b, Sound(b), Tracked(b), NEW side \in Sides, NEW price \in Grid, NEW who \in Owners
    PROVE  LET c == AddOrder(b, side, price, 1, who) IN
           /\ Sound(c) /\ Tracked(c) /\ c.nextOrderId = b.nextOrderId + 1
           /\ \A s \in Sides : \A p, i, w : Rests(c, s, p, i, w) =>
                 \/ Rests(b, s, p, i, w)
                 \/ s = side /\ p = price /\ i = b.nextOrderId /\ w = who
<1> DEFINE one == 1
<1>1. one \in Nat
  OBVIOUS
<1> HIDE DEF one
<1>2. LET c == AddOrder(b, side, price, one, who) IN
      /\ Sound(c) /\ Tracked(c) /\ c.nextOrderId = b.nextOrderId + 1
      /\ \A s \in Sides : \A p, i, w : Rests(c, s, p, i, w) =>
            \/ Rests(b, s, p, i, w)
            \/ s = side /\ p = price /\ i = b.nextOrderId /\ w = who
  BY <1>1, AddSound
<1> QED BY <1>2 DEF one

\* MarketMaker.compute: afterwards its only orders are the two new quotes.
LEMMA QuoteSound ==
    ASSUME NEW b, Sound(b), Tracked(b), NEW q, q.bid \in Grid, q.ask \in Grid
    PROVE  LET c == MMQuote(b, q)
               ids == QuoteIds(b, q)
           IN  /\ Sound(c) /\ Tracked(c) /\ c.nextOrderId # 0
               /\ \A s \in Sides : \A p, id, who : Rests(c, s, p, id, who) =>
                     \/ Rests(b, s, p, id, who) /\ ~(id = mm[s].id /\ p = mm[s].price)
                     \/ who = "MM" /\ ids[s] = [id |-> id, price |-> p]
<1> DEFINE c1 == CancelOrder(b, "buy", mm.buy.price, mm.buy.id)
           c2 == CancelOrder(c1, "sell", mm.sell.price, mm.sell.id)
           c3 == AddOrder(c2, "buy", q.bid, 1, "MM")
           c4 == AddOrder(c3, "sell", q.ask, 1, "MM")
           ids == QuoteIds(b, q)
<1>0. "buy" \in Sides /\ "sell" \in Sides /\ (\A s \in Sides : s = "buy" \/ s = "sell")
  BY DEF Sides
<1>1. c4 = MMQuote(b, q)
  BY DEF MMQuote
<1>2. /\ Sound(c1) /\ Tracked(c1) /\ Fewer(c1, b)
      /\ \A who : ~Rests(c1, "buy", mm.buy.price, mm.buy.id, who)
  BY <1>0, CancelSound
<1> HIDE DEF c1
<1>3. /\ Sound(c2) /\ Tracked(c2) /\ Fewer(c2, c1)
      /\ \A who : ~Rests(c2, "sell", mm.sell.price, mm.sell.id, who)
  BY <1>0, <1>2, CancelSound
<1> HIDE DEF c2
<1>4. /\ Sound(c3) /\ Tracked(c3) /\ c3.nextOrderId = c2.nextOrderId + 1
      /\ \A s \in Sides : \A p, i, w : Rests(c3, s, p, i, w) =>
            \/ Rests(c2, s, p, i, w)
            \/ s = "buy" /\ p = q.bid /\ i = c2.nextOrderId /\ w = "MM"
  <2> DEFINE side == "buy"
             me == "MM"
  <2>1. side \in Sides /\ me \in Owners
    BY <1>0 DEF Owners
  <2> HIDE DEF side, me
  <2>2. LET c == AddOrder(c2, side, q.bid, 1, me) IN
        /\ Sound(c) /\ Tracked(c) /\ c.nextOrderId = c2.nextOrderId + 1
        /\ \A s \in Sides : \A p, i, w : Rests(c, s, p, i, w) =>
              \/ Rests(c2, s, p, i, w)
              \/ s = side /\ p = q.bid /\ i = c2.nextOrderId /\ w = me
    BY <1>3, <2>1, AddOne
  <2> QED BY <2>2 DEF side, me
<1> HIDE DEF c3
<1>5. /\ Sound(c4) /\ Tracked(c4) /\ c4.nextOrderId = c3.nextOrderId + 1
      /\ \A s \in Sides : \A p, i, w : Rests(c4, s, p, i, w) =>
            \/ Rests(c3, s, p, i, w)
            \/ s = "sell" /\ p = q.ask /\ i = c3.nextOrderId /\ w = "MM"
  <2> DEFINE side == "sell"
             me == "MM"
  <2>1. side \in Sides /\ me \in Owners
    BY <1>0 DEF Owners
  <2> HIDE DEF side, me
  <2>2. LET c == AddOrder(c3, side, q.ask, 1, me) IN
        /\ Sound(c) /\ Tracked(c) /\ c.nextOrderId = c3.nextOrderId + 1
        /\ \A s \in Sides : \A p, i, w : Rests(c, s, p, i, w) =>
              \/ Rests(c3, s, p, i, w)
              \/ s = side /\ p = q.ask /\ i = c3.nextOrderId /\ w = me
    BY <1>4, <2>1, AddOne
  <2> QED BY <2>2 DEF side, me
<1> HIDE DEF c4
<1>6. /\ c2.nextOrderId = b.nextOrderId /\ c3.nextOrderId = b.nextOrderId + 1
      /\ b.nextOrderId \in Nat \ {0} /\ c4.nextOrderId # 0
  <2>1. b.nextOrderId \in Nat \ {0} /\ c4.nextOrderId \in Nat \ {0}
    BY <1>5 DEF Sound, Shaped
  <2> QED BY <1>2, <1>3, <1>4, <2>1 DEF Fewer
<1>7. /\ ids["buy"] = [id |-> b.nextOrderId, price |-> q.bid]
      /\ ids["sell"] = [id |-> b.nextOrderId + 1, price |-> q.ask]
  BY DEF QuoteIds
<1> HIDE DEF ids
<1>8. ASSUME NEW s \in Sides, NEW p, NEW id, NEW who, Rests(c4, s, p, id, who)
      PROVE  \/ Rests(b, s, p, id, who) /\ ~(id = mm[s].id /\ p = mm[s].price)
             \/ who = "MM" /\ ids[s] = [id |-> id, price |-> p]
  <2>1. \/ Rests(c3, s, p, id, who)
        \/ s = "sell" /\ p = q.ask /\ id = c3.nextOrderId /\ who = "MM"
    BY <1>5, <1>8
  <2>2. Rests(c3, s, p, id, who) =>
          \/ Rests(c2, s, p, id, who)
          \/ s = "buy" /\ p = q.bid /\ id = c2.nextOrderId /\ who = "MM"
    BY <1>4
  <2>3. Rests(c2, s, p, id, who) => Rests(c1, s, p, id, who) /\ Rests(b, s, p, id, who)
    BY <1>2, <1>3 DEF Fewer
  <2>4. Rests(c2, s, p, id, who) => ~(id = mm[s].id /\ p = mm[s].price)
    <3>1. CASE s = "buy"
      BY <1>2, <2>3, <3>1
    <3>2. CASE s = "sell"
      BY <1>3, <3>2
    <3> QED BY <1>0, <3>1, <3>2
  <2> QED BY <1>6, <1>7, <2>1, <2>2, <2>3, <2>4
<1> QED BY <1>1, <1>5, <1>6, <1>8 DEF ids

\* A bot's order on a full ring: the oldest order of the ring is cancelled.
LEMMA EvictedSound ==
    ASSUME NEW b, Sound(b), Tracked(b), NEW ring, NEW cap, NEW side \in Sides
    PROVE  LET c == Evicted(b, ring, cap, side) IN
           /\ Sound(c) /\ Tracked(c) /\ Fewer(c, b)
           /\ Len(ring) = cap => \A who : ~Rests(c, side, Head(ring).price, Head(ring).id, who)
<1>1. CASE Len(ring) = cap
  BY <1>1, CancelSound DEF Evicted
<1>2. CASE Len(ring) # cap
  <2>1. Fewer(b, b)
    BY DEF Fewer
  <2> QED BY <1>2, <2>1 DEF Evicted
<1> QED BY <1>1, <1>2

\* The recursion of the flood guard.
Thins(b, over, m, f) ==
    f = [k \in 0..m |-> IF k = 0 THEN b
                        ELSE CancelOrder(f[k - 1], over[k].side, over[k].price, over[k].id)]

LEMMA ThinsExist ==
    ASSUME NEW b, NEW over
    PROVE  \A m \in Nat : \E f : Thins(b, over, m, f)
<1> DEFINE Bad == {m \in Nat : ~\E f : Thins(b, over, m, f)}
<1> SUFFICES ASSUME Bad # {} PROVE FALSE
  OBVIOUS
<1>1. PICK m \in Bad : \A y \in Bad : m <= y
  <2>1. Bad \in SUBSET Nat
    OBVIOUS
  <2> HIDE DEF Bad
  <2> QED BY <2>1, LeastNumber
<1>2. m # 0
  <2>1. Thins(b, over, 0, [k \in 0..0 |-> b])
    BY DEF Thins
  <2> QED BY <2>1
<1>3. m - 1 \in Nat /\ m - 1 \notin Bad
  BY <1>1, <1>2
<1>4. PICK f : Thins(b, over, m - 1, f)
  BY <1>3
<1> DEFINE Step(x, k) == CancelOrder(x, over[k].side, over[k].price, over[k].id)
           g == [k \in 0..m |-> IF k = m THEN Step(f[m - 1], m) ELSE f[k]]
<1>5. \A k \in 0..(m - 1) : f[k] = IF k = 0 THEN b ELSE Step(f[k - 1], k)
  BY <1>4 DEF Thins
<1> HIDE DEF Step
<1>6. ASSUME NEW k \in 0..m PROVE g[k] = IF k = 0 THEN b ELSE Step(g[k - 1], k)
  <2>1. CASE k = m
    <3>1. g[m] = Step(f[m - 1], m) /\ g[m - 1] = f[m - 1]
      BY <1>2, <1>3
    <3> QED BY <1>2, <2>1, <3>1
  <2>2. CASE k # m
    <3>1. k \in 0..(m - 1) /\ g[k] = f[k]
      BY <1>3, <2>2
    <3>2. k # 0 => k - 1 \in 0..m /\ k - 1 # m
      BY <1>3, <2>2
    <3>3. k # 0 => g[k - 1] = f[k - 1]
      BY <3>2
    <3> QED BY <1>5, <3>1, <3>3
  <2> QED BY <2>1, <2>2
<1>7. Thins(b, over, m, g)
  <2>1. g = [k \in 0..m |-> g[k]]
    OBVIOUS
  <2> HIDE DEF g
  <2>2. g = [k \in 0..m |-> IF k = 0 THEN b ELSE Step(g[k - 1], k)]
    BY <1>6, <2>1
  <2> QED BY <2>2 DEF Thins, Step
<1> QED BY <1>7

\* The flood guard takes every order away that it is given.
LEMMA ThinnedSound ==
    ASSUME NEW b, Sound(b), Tracked(b), NEW T, NEW over \in Seq(T),
           \A k \in 1..Len(over) : over[k].side \in Sides
    PROVE  LET c == Thinned(b, over) IN
           /\ Sound(c) /\ Tracked(c) /\ Fewer(c, b)
           /\ \A k \in 1..Len(over) : \A who :
                 ~Rests(c, over[k].side, over[k].price, over[k].id, who)
<1> DEFINE m == Len(over)
           f == CHOOSE g : Thins(b, over, m, g)
           Step(x, k) == CancelOrder(x, over[k].side, over[k].price, over[k].id)
           Done(c, k) == /\ Sound(c) /\ Tracked(c) /\ Fewer(c, b)
                         /\ \A h \in 1..k : \A who :
                               ~Rests(c, over[h].side, over[h].price, over[h].id, who)
           S == {k \in 0..m : Done(f[k], k)}
<1>1. m \in Nat
  OBVIOUS
<1>2. Thins(b, over, m, f)
  BY <1>1, ThinsExist
<1>3. Thinned(b, over) = f[m]
  BY DEF Thinned, Thins
<1> HIDE DEF f
<1>4. \A k \in 0..m : f[k] = IF k = 0 THEN b ELSE Step(f[k - 1], k)
  BY <1>2 DEF Thins
<1>5. 0 \in S
  <2>1. f[0] = b /\ 1..0 = {} /\ 0 \in 0..m
    BY <1>1, <1>4
  <2>2. Fewer(b, b)
    BY DEF Fewer
  <2> QED BY <2>1, <2>2
<1>6. ASSUME NEW k \in 1..m, k - 1 \in S PROVE k \in S
  <2> DEFINE x == f[k - 1]
             c == f[k]
  <2>1. k \in 0..m /\ k # 0
    BY <1>1
  <2>2. c = Step(x, k)
    BY <1>4, <2>1
  <2>3. Done(x, k - 1)
    BY <1>6
  <2> HIDE DEF x, c
  <2>4. /\ Sound(c) /\ Tracked(c) /\ Fewer(c, x)
        /\ \A who : ~Rests(c, over[k].side, over[k].price, over[k].id, who)
    BY <2>2, <2>3, CancelSound
  <2>5. Fewer(c, b)
    BY <2>3, <2>4, FewerTrans
  <2>6. ASSUME NEW h \in 1..k, NEW who
        PROVE  ~Rests(c, over[h].side, over[h].price, over[h].id, who)
    <3>1. CASE h = k
      BY <2>4, <3>1
    <3>2. CASE h # k
      <4>1. h \in 1..(k - 1) /\ h \in 1..m
        BY <1>1, <3>2
      <4>2. ~Rests(x, over[h].side, over[h].price, over[h].id, who)
        BY <2>3, <4>1
      <4> QED BY <2>4, <4>1, <4>2 DEF Fewer
    <3> QED BY <3>1, <3>2
  <2>7. Done(c, k)
    BY <2>4, <2>5, <2>6
  <2> HIDE DEF Done
  <2> QED BY <2>1, <2>7 DEF c
<1>7. m \in S
  <2> HIDE DEF S
  <2>1. \A k \in 0..m : k \in S
    BY <1>1, <1>5, <1>6, Climb
  <2> QED BY <1>1, <2>1
<1> QED BY <1>3, <1>7

(***************************************************************************)
(* The inductive invariant.  Every resting order of the market maker, of   *)
(* the mean reversion bot and of the contestant is in the list its owner   *)
(* keeps of it, which is what the caps on resting orders rest on.          *)
(***************************************************************************)
Loading == {"idb", "fetch", "init"}
Acting == {"mm", "mom", "mr", "noise", "sniper", "contestant"}

RingEntry == [id : Nat, price : Int]
QueueEntry == [side : Sides, price : Grid, id : Nat]

Listed(s, p, id, who, quotes, rings, q) ==
    /\ who = "MM" => quotes[s] = [id |-> id, price |-> p]
    /\ who = "MR" => \E k \in 1..Len(rings[s]) : rings[s][k] = [id |-> id, price |-> p]
    /\ who = "CONTESTANT" => \E k \in 1..Len(q) : q[k] = [side |-> s, price |-> p, id |-> id]

Accounted(b, quotes, rings, q) ==
    \A s \in Sides : \A p \in DOMAIN b.book[s] : \A i \in 1..Len(b.book[s][p].orders) :
        Listed(s, p, b.book[s][p].orders[i].id, b.book[s][p].orders[i].who, quotes, rings, q)

PlaceOK ==
    /\ pc \in PCs /\ enabled \in BotConfigs \cup {{}} /\ isRunning \in BOOLEAN /\ stops \in 0..MaxStops
    /\ tick \in 0..MaxTicks
    /\ pc \in Loading => ~isRunning /\ position = 0
    /\ pc \in Acting \cup {"tick"} => isRunning /\ tick < MaxTicks

BookOK == IF pc \in Loading THEN lob = Null ELSE Sound(lob) /\ Tracked(lob)

ListsOK ==
    /\ mrRing \in [Sides -> Seq(RingEntry)] /\ \A s \in Sides : Len(mrRing[s]) <= MRCap
    /\ queue \in Seq(QueueEntry) /\ (pc # "contestant" => Len(queue) <= QueueCap)
    /\ Accounted(lob, mm, mrRing, queue)

SnapOK ==
    pc \in Acting =>
      /\ signal \in FairValues
      /\ \A s \in Sides : snap.best[s] \in Grid /\ snap.depth[s] \in Nat

FillsOK ==
    /\ position \in Int /\ fills \in Int
    /\ pc # "contestant" => fills = 0
    /\ position >= PositionLimit => fills <= 0
    /\ position <= -PositionLimit => fills >= 0

WorkerInv == PlaceOK /\ BookOK /\ ListsOK /\ SnapOK /\ FillsOK

LEMMA AccountedRests ==
    ASSUME NEW b, NEW quotes, NEW rings, NEW q
    PROVE  Accounted(b, quotes, rings, q) <=>
             \A s \in Sides : \A p, id, who :
                Rests(b, s, p, id, who) => Listed(s, p, id, who, quotes, rings, q)
<1>1. ASSUME Accounted(b, quotes, rings, q), NEW s \in Sides, NEW p, NEW id, NEW who,
             Rests(b, s, p, id, who)
      PROVE  Listed(s, p, id, who, quotes, rings, q)
  <2>1. PICK i \in 1..Len(b.book[s][p].orders) :
           b.book[s][p].orders[i].id = id /\ b.book[s][p].orders[i].who = who
    BY <1>1 DEF Rests, HasOrder
  <2>2. p \in DOMAIN b.book[s]
    BY <1>1 DEF Rests
  <2> QED BY <1>1, <2>1, <2>2 DEF Accounted
<1>2. ASSUME \A s \in Sides : \A p, id, who :
                Rests(b, s, p, id, who) => Listed(s, p, id, who, quotes, rings, q)
      PROVE  Accounted(b, quotes, rings, q)
  <2> SUFFICES ASSUME NEW s \in Sides, NEW p \in DOMAIN b.book[s],
                      NEW i \in 1..Len(b.book[s][p].orders)
               PROVE  Listed(s, p, b.book[s][p].orders[i].id, b.book[s][p].orders[i].who,
                             quotes, rings, q)
    BY DEF Accounted
  <2>1. Rests(b, s, p, b.book[s][p].orders[i].id, b.book[s][p].orders[i].who)
    BY DEF Rests, HasOrder
  <2> QED BY <1>2, <2>1
<1> QED BY <1>1, <1>2

LEMMA AccountedFewer ==
    ASSUME NEW b, NEW c, NEW quotes, NEW rings, NEW q,
           Accounted(b, quotes, rings, q), Fewer(c, b)
    PROVE  Accounted(c, quotes, rings, q)
BY AccountedRests DEF Fewer

\* The numbers of an interval stand for at most as many values.
LEMMA ImageCount ==
    ASSUME NEW m \in Nat, NEW f, NEW T, \A x \in T : \E k \in 1..m : f[k] = x
    PROVE  IsFiniteSet(T) /\ Cardinality(T) <= m
<1> DEFINE K(x) == CHOOSE k \in 1..m : f[k] = x
           g == [x \in T |-> K(x)]
<1>1. \A x \in T : K(x) \in 1..m /\ f[K(x)] = x
  OBVIOUS
<1> HIDE DEF K
<1>2. g \in [T -> 1..m]
  BY <1>1
<1>3. \A x, y \in T : g[x] = g[y] => x = y
  BY <1>1
<1>4. g \in Injection(T, 1..m)
  <2> HIDE DEF g
  <2> QED BY <1>2, <1>3 DEF Injection, IsInjective
<1>5. IsFiniteSet(1..m) /\ Cardinality(1..m) = m
  <2>1. IsFiniteSet(1..m) /\ Cardinality(1..m) = IF 1 > m THEN 0 ELSE m - 1 + 1
    BY FS_Interval
  <2> QED BY <2>1
<1> HIDE DEF g
<1> QED BY <1>4, <1>5, FS_Injection

LEMMA QuoteInGrid ==
    ASSUME NEW fv \in FairValues, NEW q \in Quotes(fv)
    PROVE  q.bid \in Grid /\ q.ask \in Grid
<1>1. PICK h \in HalfSpreads, k \in Skews : q = [bid |-> fv - h - k, ask |-> fv + h - k]
  BY DEF Quotes
<1>2. {fv - h - k, fv + h - k} \subseteq Grid
  BY WorkerAssumption
<1> QED BY <1>1, <1>2

\* The mean reversion bot's price is between the mid price and the fair value.
LEMMA MRPriceInGrid ==
    ASSUME signal \in FairValues, NEW side \in MRSide,
           snap.best.buy \in Grid, snap.best.sell \in Grid
    PROVE  side \in Sides /\ MRPrice(side) \in Grid
<1> DEFINE a == snap.best.buy
           z == snap.best.sell
           lo == Min(Grid)
           hi == Max(Grid)
<1>1. lo \in Int /\ hi \in Int /\ Grid = lo..hi /\ MRBand \in Nat
  BY GridIs, WorkerAssumption
<1>2. signal - 1 \in Grid /\ signal + 1 \in Grid /\ signal \in Int
  BY WorkerAssumption
<1>3. Deviation = a + z - 2 * signal
  BY DEF Deviation
<1>4. MRPrice(side) = (a + z + (IF side = "sell" THEN -1 ELSE 3)) \div 2
  BY DEF MRPrice
<1>5. \/ side = "sell" /\ Deviation > 2 * MRBand
      \/ side = "buy" /\ Deviation < -2 * MRBand
  BY DEF MRSide
<1> HIDE DEF a, z, lo, hi
<1>6. a \in lo..hi /\ z \in lo..hi
  BY <1>1 DEF a, z
<1>7. CASE side = "sell" /\ Deviation > 2 * MRBand
  <2>1. MRPrice(side) = (a + z + (-1)) \div 2
    BY <1>4, <1>7
  <2>2. a + z - 2 * signal > 2 * MRBand
    BY <1>3, <1>7
  <2>3. a + z + (-1) >= 2 * signal /\ a + z + (-1) <= 2 * hi
    BY <1>1, <1>2, <1>6, <2>2
  <2>4. (a + z + (-1)) \div 2 \in signal..hi
    BY <1>1, <1>2, <1>6, <2>3
  <2> QED BY <1>1, <1>2, <1>7, <2>1, <2>4 DEF Sides
<1>8. CASE side = "buy" /\ Deviation < -2 * MRBand
  <2>1. MRPrice(side) = (a + z + 3) \div 2
    BY <1>4, <1>8
  <2>2. a + z - 2 * signal < -2 * MRBand
    BY <1>3, <1>8
  <2>3. a + z + 3 <= 2 * (signal + 1) /\ a + z + 3 >= 2 * lo
    BY <1>1, <1>2, <1>6, <2>2
  <2>4. (a + z + 3) \div 2 \in lo..(signal + 1)
    BY <1>1, <1>2, <1>6, <2>3
  <2> QED BY <1>1, <1>2, <1>8, <2>1, <2>4 DEF Sides
<1> QED BY <1>5, <1>7, <1>8

\* A ring r holds e and what ring held, up to the oldest entry of a full ring.
Renewed(r, ring, e, cap) ==
    /\ r \in Seq(RingEntry) /\ Len(r) <= cap
    /\ \E k \in 1..Len(r) : r[k] = e
    /\ \A k \in 1..Len(ring) : \/ Len(ring) = cap /\ ring[k] = Head(ring)
                               \/ \E h \in 1..Len(r) : r[h] = ring[k]

\* OrderRing.push: the ring stays in its capacity, and all but the entry it
\* gives up are still there.
LEMMA RingPushIs ==
    ASSUME NEW cap \in Nat \ {0}, NEW ring \in Seq(RingEntry), Len(ring) <= cap,
           NEW e \in RingEntry
    PROVE  Renewed(RingPush(ring, e, cap), ring, e, cap)
<1>0. Len(ring) \in Nat
  OBVIOUS
<1>1. CASE Len(ring) = cap
  <2> DEFINE t == Tail(ring)
             r == Append(t, e)
  <2>1. ring # <<>> /\ RingPush(ring, e, cap) = r
    BY <1>0, <1>1 DEF RingPush
  <2>2. /\ t \in Seq(RingEntry) /\ Len(t) = Len(ring) - 1
        /\ \A k \in 1..Len(t) : t[k] = ring[k + 1]
    BY <2>1, HeadTailProperties
  <2>3. Head(ring) = ring[1]
    BY <2>1
  <2> HIDE DEF t
  <2>4. /\ r \in Seq(RingEntry) /\ Len(r) = Len(t) + 1 /\ r[Len(t) + 1] = e
        /\ \A k \in 1..Len(t) : r[k] = t[k]
    BY <2>2, AppendProperties
  <2> HIDE DEF r
  <2>5. ASSUME NEW k \in 1..Len(ring)
        PROVE  ring[k] = Head(ring) \/ \E h \in 1..Len(r) : r[h] = ring[k]
    <3>1. CASE k = 1
      BY <2>3, <3>1
    <3>2. CASE k # 1
      <4>1. k - 1 \in 1..Len(t) /\ k - 1 \in 1..Len(r) /\ (k - 1) + 1 = k
        BY <1>0, <2>2, <2>4, <3>2
      <4>2. r[k - 1] = ring[k]
        BY <2>2, <2>4, <4>1
      <4> QED BY <4>1, <4>2
    <3> QED BY <3>1, <3>2
  <2>6. Len(r) <= cap /\ Len(t) + 1 \in 1..Len(r)
    BY <1>0, <1>1, <2>2, <2>4
  <2>7. Renewed(r, ring, e, cap)
    BY <1>1, <2>4, <2>5, <2>6 DEF Renewed
  <2> QED BY <2>1, <2>7
<1>2. CASE Len(ring) # cap
  <2> DEFINE r == Append(ring, e)
  <2>1. RingPush(ring, e, cap) = r
    BY <1>2 DEF RingPush
  <2>2. /\ r \in Seq(RingEntry) /\ Len(r) = Len(ring) + 1 /\ r[Len(ring) + 1] = e
        /\ \A k \in 1..Len(ring) : r[k] = ring[k]
    BY AppendProperties
  <2> HIDE DEF r
  <2>3. Len(r) <= cap /\ Len(ring) + 1 \in 1..Len(r) /\ \A k \in 1..Len(ring) : k \in 1..Len(r)
    BY <1>0, <1>2, <2>2
  <2>4. Renewed(r, ring, e, cap)
    BY <2>2, <2>3 DEF Renewed
  <2> QED BY <2>1, <2>4
<1> QED BY <1>1, <1>2

\* What the other side takes of a market order is a volume.
LEMMA FilledIsNat ==
    ASSUME NEW b, Shaped(b), NEW taker \in Sides, NEW volume \in Nat, NEW who
    PROVE  FilledBy(b, taker, volume, who) \in Nat
<1> DEFINE side == Opposite[taker]
           levels == b.book[side]
           remaining == [p \in DOMAIN levels |-> Max({0, volume - DepthBefore(levels, side, p)})]
           part(p) == [i \in DOMAIN levels[p].orders |->
                         IF levels[p].orders[i].who \in who
                         THEN FillOf(levels[p].orders, i, remaining[p]) ELSE 0]
           at(p) == SumFunction(part(p))
           f == [p \in DOMAIN levels |-> at(p)]
<1>0. side \in Sides
  BY DEF Sides, Opposite
<1>1. FilledBy(b, taker, volume, who) = SumFunctionOnSet(f, DOMAIN f)
  BY DEF FilledBy, SumFunction, FoldFunction, SumFunctionOnSet
<1> HIDE DEF side
<1>2. ASSUME NEW p \in DOMAIN levels PROVE at(p) \in Nat
  <2> DEFINE os == levels[p].orders
             r == remaining[p]
             g == part(p)
  <2>1. os \in Seq(Order)
    BY <1>0, SummedFields DEF Shaped, GoodLevel
  <2>2. r \in Nat
    <3> DEFINE d == volume - DepthBefore(levels, side, p)
    <3>1. DepthBefore(levels, side, p) \in Nat
      BY <1>0, DepthIsNat
    <3>2. d \in Int /\ 0 \in Int
      BY <3>1
    <3>3. r = Max({0, d})
      OBVIOUS
    <3> HIDE DEF d, r
    <3>4. Max({0, d}) = IF 0 <= d THEN d ELSE 0
      BY <3>2, MinOf, Zenon
    <3> QED BY <3>2, <3>3, <3>4
  <2>3. g = [i \in DOMAIN os |-> IF os[i].who \in who THEN FillOf(os, i, r) ELSE 0]
    OBVIOUS
  <2>4. at(p) = SumFunctionOnSet(g, DOMAIN g)
    BY DEF SumFunction, FoldFunction, SumFunctionOnSet
  <2> HIDE DEF os, r, g, at
  <2>5. DOMAIN g = 1..Len(os) /\ Len(os) \in Nat
    BY <2>1, <2>3
  <2>6. \A i \in 1..Len(os) : FillOf(os, i, r) \in Nat
    BY <2>1, <2>2, FillStep
  <2>7. \A i \in DOMAIN g : g[i] \in Nat
    BY <2>1, <2>3, <2>5, <2>6
  <2>8. IsFiniteSet(DOMAIN g)
    BY <2>5, FS_Interval
  <2> QED BY <2>4, <2>7, <2>8, SumIsNat
<1> HIDE DEF at
<1>3. \A p \in DOMAIN f : f[p] \in Nat
  BY <1>2
<1>4. IsFiniteSet(DOMAIN f)
  <2>1. DOMAIN f \subseteq Grid
    BY <1>0 DEF Shaped
  <2> QED BY <2>1, GridIs, FS_Subset
<1> HIDE DEF f
<1> QED BY <1>1, <1>3, <1>4, SumIsNat

(***************************************************************************)
(* What the invariant implies.                                             *)
(***************************************************************************)
LEMMA NullIs ==
    /\ Null.nextOrderId = 0 /\ \A s \in Sides : DOMAIN Null.book[s] = {}
    /\ \A s \in Sides : \A p, id, who : ~Rests(Null, s, p, id, who)
<1>1. Null.book = NewBook.book /\ Null.nextOrderId = 0
  BY DEF Null
<1>2. \A s \in Sides : DOMAIN NewBook.book[s] = {}
  BY DEF NewBook
<1> QED BY <1>1, <1>2 DEF Rests

LEMMA InvType == WorkerInv => TypeOK
<1> SUFFICES ASSUME WorkerInv PROVE TypeOK
  OBVIOUS
<1>1. ASSUME NEW s \in Sides PROVE DOMAIN lob.book[s] \subseteq Grid
  BY NullIs DEF WorkerInv, BookOK, Sound, Shaped
<1>2. pc \notin {"idb", "fetch", "init", "loop"} => pc \in Acting \cup {"tick"}
  BY DEF WorkerInv, PlaceOK, PCs, Acting
<1> QED BY <1>1, <1>2 DEF WorkerInv, PlaceOK, FillsOK, TypeOK

LEMMA InvLevels == WorkerInv => LevelsConsistent
<1> SUFFICES ASSUME WorkerInv PROVE LevelsConsistent
  OBVIOUS
<1>1. CASE pc \in Loading
  <2>1. \A s \in Sides : DOMAIN lob.book[s] = {}
    BY <1>1, NullIs DEF WorkerInv, BookOK
  <2> QED BY <2>1 DEF LevelsConsistent
<1>2. CASE pc \notin Loading
  <2>1. Sound(lob)
    BY <1>2 DEF WorkerInv, BookOK
  <2>2. ASSUME NEW s \in Sides, NEW p \in DOMAIN lob.book[s]
        PROVE  LET l == lob.book[s][p] IN
               /\ l.orders # <<>> /\ l.volume = Volume(l.orders)
               /\ \A i, j \in DOMAIN l.orders : i < j => l.orders[i].id < l.orders[j].id
    <3> DEFINE l == lob.book[s][p]
    <3>1. GoodLevel(l)
      BY <2>1 DEF Sound, Shaped
    <3> HIDE DEF l
    <3>2. l.orders \in Seq(Order) /\ l.volume = Volume(l.orders) /\ Rising(l.orders) /\ l.orders # <<>>
      BY <3>1, SummedFields DEF GoodLevel
    <3>3. DOMAIN l.orders = 1..Len(l.orders)
      BY <3>2
    <3> QED BY <3>2, <3>3 DEF Rising, l
  <2>3. ASSUME NEW s \in Sides, NEW t \in Sides, NEW p \in DOMAIN lob.book[s],
               NEW q \in DOMAIN lob.book[t], <<s, p>> # <<t, q>>
        PROVE  IdsAt(lob, s, p) \cap IdsAt(lob, t, q) = {}
    <3>1. \A id \in IdsAt(lob, s, p) : id \in IdsAt(lob, t, q) => s = t /\ p = q
      BY <2>1 DEF Sound
    <3> QED BY <2>3, <3>1
  <2> QED BY <2>2, <2>3 DEF LevelsConsistent
<1> QED BY <1>1, <1>2

\* The ids that RestingIds collects are those of orders that rest.
LEMMA RestingRests ==
    ASSUME WorkerInv, NEW s \in Sides, NEW who, NEW id \in RestingIds(who, s)
    PROVE  \E p : Rests(lob, s, p, id, who)
<1>1. PICK p \in DOMAIN lob.book[s] :
         id \in {o.id : o \in {x \in ToSet(lob.book[s][p].orders) : x.who = who}}
  BY DEF RestingIds
<1> DEFINE os == lob.book[s][p].orders
<1>2. PICK o \in ToSet(os) : o.who = who /\ o.id = id
  BY <1>1
<1>3. os \in Seq(Order)
  <2>1. pc \notin Loading
    BY NullIs DEF WorkerInv, BookOK
  <2> QED BY <2>1, SummedFields DEF WorkerInv, BookOK, Sound, Shaped, GoodLevel
<1>4. PICK i \in 1..Len(os) : os[i] = o
  BY <1>2, <1>3 DEF ToSet
<1>5. HasOrder(lob.book[s][p], id, who)
  BY <1>2, <1>4 DEF HasOrder
<1> QED BY <1>5 DEF Rests

LEMMA RestingListed ==
    ASSUME WorkerInv, NEW s \in Sides, NEW who, NEW id \in RestingIds(who, s)
    PROVE  \E p : Listed(s, p, id, who, mm, mrRing, queue)
<1>1. PICK p : Rests(lob, s, p, id, who)
  BY RestingRests
<1>2. Accounted(lob, mm, mrRing, queue)
  BY DEF WorkerInv, ListsOK
<1>3. Listed(s, p, id, who, mm, mrRing, queue)
  BY <1>1, <1>2, AccountedRests
<1> QED BY <1>3

LEMMA InvCapped == WorkerInv => RestingCapped
<1> SUFFICES ASSUME WorkerInv PROVE RestingCapped
  OBVIOUS
<1>1. ASSUME NEW s \in Sides PROVE RestingOf("MM", s) <= 1
  <2> DEFINE T == RestingIds("MM", s)
  <2>1. ASSUME NEW id \in T PROVE id = mm[s].id
    <3>1. PICK p : Listed(s, p, id, "MM", mm, mrRing, queue)
      BY RestingListed
    <3>2. mm[s] = [id |-> id, price |-> p]
      BY <3>1 DEF Listed
    <3> QED BY <3>2
  <2>2. T \in SUBSET {mm[s].id}
    <3> HIDE DEF T
    <3> QED BY <2>1
  <2>3. IsFiniteSet({mm[s].id}) /\ Cardinality({mm[s].id}) = 1
    BY FS_Singleton
  <2> HIDE DEF T
  <2>4. Cardinality(T) <= 1
    BY <2>2, <2>3, FS_Subset
  <2> QED BY <2>4 DEF T, RestingOf
<1>2. ASSUME NEW s \in Sides PROVE RestingOf("MR", s) <= MRCap
  <2> DEFINE T == RestingIds("MR", s)
             ring == mrRing[s]
             m == Len(ring)
             f == [k \in 1..m |-> ring[k].id]
  <2>1. m \in Nat /\ m <= MRCap /\ MRCap \in Nat
    <3>1. ring \in Seq(RingEntry) /\ Len(ring) <= MRCap
      BY DEF WorkerInv, ListsOK
    <3> HIDE DEF ring
    <3> QED BY <3>1, WorkerAssumption
  <2>2. ASSUME NEW id \in T PROVE \E k \in 1..m : f[k] = id
    <3>1. PICK p : Listed(s, p, id, "MR", mm, mrRing, queue)
      BY RestingListed
    <3>2. PICK k \in 1..m : ring[k] = [id |-> id, price |-> p]
      BY <3>1 DEF Listed
    <3>3. f[k] = id
      BY <3>2
    <3> QED BY <3>3
  <2> HIDE DEF T, f, m
  <2>3. IsFiniteSet(T) /\ Cardinality(T) <= m
    BY <2>1, <2>2, ImageCount
  <2>4. Cardinality(T) \in Nat
    BY <2>3, FS_CardinalityType
  <2> QED BY <2>1, <2>3, <2>4 DEF T, RestingOf
<1>3. ASSUME pc \in {"tick", "loop"}
      PROVE  RestingOf("CONTESTANT", "buy") + RestingOf("CONTESTANT", "sell") <= QueueCap
  <2> DEFINE B == RestingIds("CONTESTANT", "buy")
             A == RestingIds("CONTESTANT", "sell")
             m == Len(queue)
             f == [k \in 1..m |-> queue[k].id]
  <2>0. "buy" \in Sides /\ "sell" \in Sides /\ "buy" # "sell"
    BY DEF Sides
  <2>1. m \in Nat /\ m <= QueueCap /\ QueueCap \in Nat
    <3>1. queue \in Seq(QueueEntry) /\ Len(queue) <= QueueCap
      BY <1>3 DEF WorkerInv, ListsOK
    <3> QED BY <3>1, WorkerAssumption
  <2>2. ASSUME NEW s \in Sides, NEW id \in RestingIds("CONTESTANT", s)
        PROVE  \E k \in 1..m : f[k] = id
    <3>1. PICK p : Listed(s, p, id, "CONTESTANT", mm, mrRing, queue)
      BY RestingListed
    <3>2. PICK k \in 1..m : queue[k] = [side |-> s, price |-> p, id |-> id]
      BY <3>1 DEF Listed
    <3>3. f[k] = id
      BY <3>2
    <3> QED BY <3>3
  <2>3. ASSUME NEW id \in B, id \in A PROVE FALSE
    <3>1. PICK p : Rests(lob, "buy", p, id, "CONTESTANT")
      BY <2>0, RestingRests
    <3>2. PICK q : Rests(lob, "sell", q, id, "CONTESTANT")
      BY <2>0, <2>3, RestingRests
    <3>3. Sound(lob) /\ Shaped(lob)
      BY <1>3 DEF WorkerInv, BookOK, Loading, Sound
    <3>4. \A s, t \in Sides : \A x, y, i, who, whom :
             Rests(lob, s, x, i, who) /\ Rests(lob, t, y, i, whom) => s = t /\ x = y
      BY <3>3, SoundRests
    <3> QED BY <2>0, <3>1, <3>2, <3>4
  <2>4. \A id \in B \cup A : \E k \in 1..m : f[k] = id
    <3> HIDE DEF f, m
    <3> QED BY <2>0, <2>2
  <2>5. RestingOf("CONTESTANT", "buy") = Cardinality(B) /\ RestingOf("CONTESTANT", "sell") = Cardinality(A)
    BY DEF RestingOf
  <2> HIDE DEF A, B, f, m
  <2>6. IsFiniteSet(B \cup A) /\ Cardinality(B \cup A) <= m
    BY <2>1, <2>4, ImageCount
  <2>7. IsFiniteSet(B) /\ IsFiniteSet(A)
    BY <2>6, FS_Subset
  <2>8. B \cap A = {}
    BY <2>3
  <2>9. Cardinality(B \cup A) = Cardinality(B) + Cardinality(A) - Cardinality(B \cap A)
    BY <2>7, FS_Union
  <2>10. Cardinality(B) \in Nat /\ Cardinality(A) \in Nat /\ Cardinality(B \cup A) \in Nat
    BY <2>6, <2>7, FS_CardinalityType
  <2>11. Cardinality(B \cap A) = 0
    BY <2>8, FS_EmptySet
  <2>12. Cardinality(B) + Cardinality(A) <= QueueCap
    BY <2>1, <2>6, <2>9, <2>10, <2>11
  <2> QED BY <2>5, <2>12
<1> QED BY <1>1, <1>2, <1>3 DEF RestingCapped

(***************************************************************************)
(* Every step keeps the invariant.                                         *)
(***************************************************************************)
LEMMA InvInit == Init => WorkerInv
<1> SUFFICES ASSUME Init PROVE WorkerInv
  OBVIOUS
<1>1. PlaceOK
  <2>1. pc = "idb" /\ enabled = {} /\ stops = 0 /\ tick = 0 /\ position = 0
    BY DEF Init
  <2>2. ~isRunning /\ isRunning \in BOOLEAN
    BY Zenon DEF Init
  <2>3. pc \in PCs /\ pc \notin Acting \cup {"tick"}
    BY <2>1 DEF PCs, Acting
  <2>4. stops \in 0..MaxStops /\ tick \in 0..MaxTicks
    BY <2>1, WorkerAssumption
  <2>5. enabled \in BotConfigs \cup {{}}
    BY <2>1
  <2> QED BY <2>1, <2>2, <2>3, <2>4, <2>5, Zenon DEF PlaceOK
<1>2. BookOK
  BY DEF Init, BookOK, Loading
<1>3. ListsOK
  <2>1. mrRing = [s \in Sides |-> <<>>] /\ queue = <<>> /\ lob = Null
    BY DEF Init
  <2>2. mrRing \in [Sides -> Seq(RingEntry)] /\ \A s \in Sides : Len(mrRing[s]) <= MRCap
    BY <2>1, WorkerAssumption
  <2>3. queue \in Seq(QueueEntry) /\ Len(queue) <= QueueCap
    BY <2>1, WorkerAssumption
  <2>4. Accounted(lob, mm, mrRing, queue)
    BY <2>1, NullIs, AccountedRests
  <2> QED BY <2>2, <2>3, <2>4 DEF ListsOK
<1>4. SnapOK
  BY DEF Init, SnapOK, Acting
<1>5. FillsOK
  BY WorkerAssumption DEF Init, FillsOK
<1> QED BY <1>1, <1>2, <1>3, <1>4, <1>5 DEF WorkerInv

\* The steps between BeginTick and the end of the tick.
LEMMA ActStep ==
    ASSUME WorkerInv, pc \in Acting, pc' \in Acting, Sound(lob'), Tracked(lob'),
           UNCHANGED <<stops, isRunning, enabled, snap, signal, position, tick>>,
           ListsOK', FillsOK'
    PROVE  WorkerInv'
<1>1. pc' \notin Loading /\ pc' \in PCs
  BY DEF Acting, Loading, PCs
<1>2. PlaceOK'
  BY <1>1 DEF WorkerInv, PlaceOK
<1>3. BookOK'
  BY <1>1 DEF BookOK
<1>4. SnapOK'
  BY DEF WorkerInv, SnapOK
<1> QED BY <1>2, <1>3, <1>4 DEF WorkerInv

\* Lists stay, and orders only go.
LEMMA ListsFewer ==
    ASSUME WorkerInv, Fewer(lob', lob), UNCHANGED <<mm, mrRing, queue>>,
           pc = "contestant" => pc' = "contestant"
    PROVE  ListsOK'
<1>1. Accounted(lob', mm, mrRing, queue)
  BY AccountedFewer DEF WorkerInv, ListsOK
<1> QED BY <1>1 DEF WorkerInv, ListsOK

LEMMA FillsSame ==
    ASSUME WorkerInv, UNCHANGED <<fills, position>>, pc = "contestant" => pc' = "contestant"
    PROVE  FillsOK'
BY DEF WorkerInv, FillsOK

\* Steps that change neither book nor lists.
LEMMA LoadStep ==
    ASSUME WorkerInv, LoadFromIDB \/ LoadFromBackend
    PROVE  WorkerInv'
<1>1. /\ pc \in {"idb", "fetch"} /\ pc' \in {"init", "fetch"}
      /\ UNCHANGED <<stops, posted, isRunning, enabled, lob, mm, mrRing, noiseRing, snap,
                     signal, queue, fills, position, tick, inBatch, sent>>
  BY DEF LoadFromIDB, LoadFromBackend
<1>2. pc \in Loading /\ pc' \in Loading /\ pc' \notin Acting \cup {"tick"} /\ pc' \in PCs
  BY <1>1 DEF Loading, Acting, PCs
<1>3. PlaceOK'
  BY <1>1, <1>2 DEF WorkerInv, PlaceOK
<1>4. BookOK'
  BY <1>1, <1>2 DEF WorkerInv, BookOK
<1>5. Fewer(lob', lob) /\ pc # "contestant"
  BY <1>1 DEF Fewer
<1>6. ListsOK' /\ FillsOK'
  BY <1>1, <1>5, ListsFewer, FillsSame
<1>7. SnapOK'
  BY <1>2 DEF SnapOK
<1> QED BY <1>3, <1>4, <1>6, <1>7 DEF WorkerInv

LEMMA LoopStep ==
    ASSUME WorkerInv, RunBatch \/ StopSimulation \/ Rest
    PROVE  WorkerInv'
<1>1. /\ UNCHANGED <<enabled, lob, mm, mrRing, noiseRing, snap, signal, queue,
                     fills, position, tick, sent>>
      /\ \/ pc' = pc /\ pc \in {"idb", "fetch", "loop"} /\ isRunning' \in {isRunning, FALSE}
         \/ pc = "loop" /\ pc' = "tick" /\ isRunning /\ isRunning' = isRunning /\ ~(tick >= MaxTicks)
      /\ stops' = stops \/ (stops < MaxStops /\ stops' = stops + 1)
  <2>1. CASE RunBatch
    <3>1. CASE tick >= MaxTicks
      BY <2>1, <3>1 DEF RunBatch
    <3>2. CASE ~(tick >= MaxTicks)
      BY <2>1, <3>2 DEF RunBatch
    <3> QED BY <3>1, <3>2
  <2>2. CASE StopSimulation
    BY <2>2 DEF StopSimulation
  <2>3. CASE Rest
    BY <2>3 DEF Rest, vars
  <2> QED BY <2>1, <2>2, <2>3
<1>2. PlaceOK
  BY DEF WorkerInv
<1>3. /\ pc' \in PCs /\ pc' \notin Acting /\ (pc' \in Loading <=> pc \in Loading)
      /\ pc # "contestant"
  BY <1>1 DEF PCs, Acting, Loading
<1>4. PlaceOK'
  <2>1. stops' \in 0..MaxStops /\ isRunning' \in BOOLEAN
    <3>1. stops \in 0..MaxStops /\ MaxStops \in Nat
      BY <1>2, WorkerAssumption DEF PlaceOK
    <3>2. stops' \in 0..MaxStops
      BY <1>1, <3>1
    <3>3. isRunning \in BOOLEAN
      BY <1>2 DEF PlaceOK
    <3>4. isRunning' = isRunning \/ isRunning' = FALSE
      BY <1>1, Zenon
    <3>5. isRunning' \in BOOLEAN
      BY <3>3, <3>4, Zenon
    <3> QED BY <3>2, <3>5
  <2>2. tick' \in 0..MaxTicks /\ enabled' \in BotConfigs \cup {{}}
    BY <1>1, <1>2 DEF PlaceOK
  <2>3. pc' \in Loading => ~isRunning' /\ position' = 0
    BY <1>1, <1>2, <1>3 DEF PlaceOK
  <2>4. pc' \in Acting \cup {"tick"} => isRunning' /\ tick' < MaxTicks
    <3>0. \/ pc' \in {"idb", "fetch", "loop"}
          \/ pc' = "tick" /\ isRunning' /\ ~(tick >= MaxTicks)
      <4>1. CASE pc' = pc /\ pc \in {"idb", "fetch", "loop"}
        BY <4>1
      <4>2. CASE pc' = "tick" /\ isRunning /\ isRunning' = isRunning /\ ~(tick >= MaxTicks)
        <5>1. isRunning'
          BY <4>2, Zenon
        <5> QED BY <4>2, <5>1
      <4> QED BY <1>1, <4>1, <4>2
    <3>1. pc' = "tick" => isRunning' /\ ~(tick >= MaxTicks) /\ tick' = tick
      BY <1>1, <3>0
    <3>2. tick \in 0..MaxTicks /\ MaxTicks \in Nat
      BY <1>2, WorkerAssumption DEF PlaceOK
    <3> QED BY <1>3, <3>1, <3>2
  <2> QED BY <1>3, <2>1, <2>2, <2>3, <2>4 DEF PlaceOK
<1>5. BookOK'
  BY <1>1, <1>3 DEF WorkerInv, BookOK
<1>6. ListsOK' /\ FillsOK'
  <2>1. Fewer(lob', lob)
    BY <1>1 DEF Fewer
  <2> QED BY <1>1, <1>3, <2>1, ListsFewer, FillsSame
<1>7. SnapOK'
  BY <1>3 DEF SnapOK
<1> QED BY <1>4, <1>5, <1>6, <1>7 DEF WorkerInv

LEMMA BeginStep ==
    ASSUME WorkerInv, BeginTick
    PROVE  WorkerInv'
<1>1. /\ pc = "tick" /\ pc' = "mm" /\ signal' \in FairValues /\ snap' = Snapshot(lob)
      /\ UNCHANGED <<stops, isRunning, enabled, lob, mm, mrRing, queue, fills, position, tick>>
  BY DEF BeginTick, PriceSignal
<1>2. pc \notin Loading /\ pc' \notin Loading /\ pc' \in Acting /\ pc' \in PCs
  BY <1>1 DEF Loading, Acting, PCs
<1>3. PlaceOK'
  BY <1>1, <1>2 DEF WorkerInv, PlaceOK
<1>4. Sound(lob) /\ Tracked(lob)
  BY <1>2 DEF WorkerInv, BookOK
<1>5. BookOK'
  BY <1>1, <1>2, <1>4 DEF BookOK
<1>6. ListsOK' /\ FillsOK'
  <2>1. Fewer(lob', lob)
    BY <1>1 DEF Fewer
  <2> QED BY <1>1, <2>1, ListsFewer, FillsSame
<1>7. SnapOK'
  <2>1. \A s \in Sides : snap'.best[s] \in Grid /\ snap'.depth[s] \in Nat
    BY <1>1, <1>4, SnapshotIs
  <2> QED BY <1>1, <2>1 DEF SnapOK
<1> QED BY <1>3, <1>5, <1>6, <1>7 DEF WorkerInv

\* While a tick runs there is a sound book.
LEMMA ActingBook ==
    ASSUME WorkerInv, pc \in Acting
    PROVE  /\ Sound(lob) /\ Tracked(lob) /\ Shaped(lob) /\ lob.nextOrderId \in Nat \ {0}
           /\ signal \in FairValues /\ Accounted(lob, mm, mrRing, queue)
           /\ \A s \in Sides : snap.best[s] \in Grid /\ snap.depth[s] \in Nat
<1>1. pc \notin Loading
  BY DEF Acting, Loading
<1>2. Sound(lob) /\ Tracked(lob)
  BY <1>1 DEF WorkerInv, BookOK
<1> QED BY <1>2 DEF WorkerInv, SnapOK, ListsOK, Sound, Shaped

LEMMA MomentumStep ==
    ASSUME WorkerInv, MomentumBot
    PROVE  WorkerInv'
<1>1. /\ pc = "mom" /\ pc' = "mr" /\ (lob' = lob \/ \E side \in Sides : lob' = MarketOrder(lob, side, 1))
      /\ UNCHANGED <<stops, isRunning, enabled, mm, mrRing, snap, signal, queue, fills, position, tick>>
  BY DEF MomentumBot
<1>2. pc \in Acting /\ pc' \in Acting
  BY <1>1 DEF Acting
<1>3. Sound(lob) /\ Tracked(lob)
  BY <1>2, ActingBook
<1>4. Sound(lob') /\ Tracked(lob') /\ Fewer(lob', lob)
  <2>1. CASE lob' = lob
    BY <1>3, <2>1 DEF Fewer
  <2>2. CASE \E side \in Sides : lob' = MarketOrder(lob, side, 1)
    <3> DEFINE one == 1
    <3>1. one \in Nat
      OBVIOUS
    <3>2. PICK side \in Sides : lob' = MarketOrder(lob, side, one)
      BY <2>2
    <3> HIDE DEF one
    <3> QED BY <1>3, <3>1, <3>2, MarketSound
  <2> QED BY <1>1, <2>1, <2>2
<1>5. ListsOK' /\ FillsOK'
  BY <1>1, <1>4, ListsFewer, FillsSame
<1> QED BY <1>1, <1>2, <1>4, <1>5, ActStep

LEMMA SnipeSound ==
    ASSUME NEW b, Sound(b), Tracked(b), NEW side \in Sides, snap.depth[side] \in Nat
    PROVE  LET c == SnipeOn(b, side) IN Sound(c) /\ Tracked(c) /\ Fewer(c, b)
<1> DEFINE d == snap.depth[side]
           v == Min({d, SniperCap})
           taker == Opposite[side]
<1>1. Fewer(b, b)
  BY DEF Fewer
<1>2. taker \in Sides
  BY DEF Sides, Opposite
<1>3. v \in Nat
  <2>1. d \in Nat /\ SniperCap \in Nat
    BY WorkerAssumption
  <2> HIDE DEF d
  <2>2. v = IF d <= SniperCap THEN d ELSE SniperCap
    BY <2>1, MinOf
  <2> HIDE DEF v
  <2> QED BY <2>1, <2>2
<1>4. SnipeOn(b, side) = b \/ SnipeOn(b, side) = MarketOrder(b, taker, v)
  BY DEF SnipeOn
<1> HIDE DEF v, taker
<1>5. LET c == MarketOrder(b, taker, v) IN Sound(c) /\ Tracked(c) /\ Fewer(c, b)
  BY <1>2, <1>3, MarketSound
<1> QED BY <1>1, <1>4, <1>5

LEMMA SniperStep ==
    ASSUME WorkerInv, SniperBot
    PROVE  WorkerInv'
<1> DEFINE c1 == SnipeOn(lob, "sell")
           c2 == SnipeOn(c1, "buy")
<1>1. /\ pc = "sniper" /\ pc' = "contestant" /\ (lob' = lob \/ lob' = c2)
      /\ UNCHANGED <<stops, isRunning, enabled, mm, mrRing, snap, signal, queue, fills, position, tick>>
  BY DEF SniperBot
<1>2. pc \in Acting /\ pc' \in Acting /\ "sell" \in Sides /\ "buy" \in Sides
  BY <1>1 DEF Acting, Sides
<1>3. Sound(lob) /\ Tracked(lob) /\ \A s \in Sides : snap.depth[s] \in Nat
  BY <1>2, ActingBook
<1>4. Sound(c1) /\ Tracked(c1) /\ Fewer(c1, lob)
  BY <1>2, <1>3, SnipeSound
<1> HIDE DEF c1
<1>5. Sound(c2) /\ Tracked(c2) /\ Fewer(c2, c1)
  BY <1>2, <1>3, <1>4, SnipeSound
<1> HIDE DEF c2
<1>6. Fewer(c2, lob) /\ Fewer(lob, lob)
  BY <1>4, <1>5, FewerTrans DEF Fewer
<1>7. Sound(lob') /\ Tracked(lob') /\ Fewer(lob', lob)
  BY <1>1, <1>3, <1>5, <1>6
<1>8. ListsOK' /\ FillsOK'
  BY <1>1, <1>7, ListsFewer, FillsSame
<1> QED BY <1>1, <1>2, <1>7, <1>8, ActStep

LEMMA StartStep ==
    ASSUME WorkerInv, InitSimulation
    PROVE  WorkerInv'
<1>1. PICK q \in UNION {Quotes(fv) : fv \in PriceSignal}, yes \in Compile :
        /\ lob' = (IF "MM" \in enabled' THEN MMQuote(NewBook, q) ELSE NewBook)
        /\ mm' = (IF "MM" \in enabled' THEN QuoteIds(NewBook, q) ELSE NoQuotes)
        /\ isRunning' = (IF yes THEN TRUE ELSE isRunning)
        /\ pc' = IF yes THEN "tick" ELSE "loop"
  BY DEF InitSimulation
<1>2. /\ pc = "init" /\ enabled' \in BotConfigs /\ mrRing' = [s \in Sides |-> <<>>]
      /\ queue' = <<>> /\ position' = 0 /\ tick' = 0 /\ stops' = stops /\ fills' = fills
  BY DEF InitSimulation
<1>3. pc \in Loading /\ pc # "contestant"
  BY <1>2 DEF Loading
<1>4. PICK fv \in FairValues : q \in Quotes(fv)
  BY DEF PriceSignal
<1>5. q.bid \in Grid /\ q.ask \in Grid
  BY <1>4, QuoteInGrid
<1>6. Sound(lob') /\ Tracked(lob') /\ Accounted(lob', mm', mrRing', queue')
  <2>1. CASE "MM" \in enabled'
    <3> DEFINE c == MMQuote(NewBook, q)
               ids == QuoteIds(NewBook, q)
    <3>1. /\ Sound(c) /\ Tracked(c)
          /\ \A s \in Sides : \A p, id, who : Rests(c, s, p, id, who) =>
                \/ Rests(NewBook, s, p, id, who) /\ ~(id = mm[s].id /\ p = mm[s].price)
                \/ who = "MM" /\ ids[s] = [id |-> id, price |-> p]
      BY <1>5, NewBookSound, QuoteSound
    <3>2. lob' = c /\ mm' = ids
      BY <1>1, <2>1
    <3> HIDE DEF c, ids
    <3>3. ASSUME NEW s \in Sides, NEW p, NEW id, NEW who, Rests(c, s, p, id, who)
          PROVE  Listed(s, p, id, who, ids, mrRing', queue')
      <4>1. who = "MM" /\ ids[s] = [id |-> id, price |-> p]
        BY <3>1, <3>3, NewBookSound
      <4> QED BY <4>1 DEF Listed
    <3>4. Accounted(c, ids, mrRing', queue')
      BY <3>3, AccountedRests
    <3> QED BY <3>1, <3>2, <3>4
  <2>2. CASE "MM" \notin enabled'
    <3>1. lob' = NewBook
      BY <1>1, <2>2
    <3>2. Accounted(NewBook, mm', mrRing', queue')
      BY NewBookSound, AccountedRests
    <3> QED BY <3>1, <3>2, NewBookSound
  <2> QED BY <2>1, <2>2
<1>7. pc' \in {"tick", "loop"} /\ pc' \notin Loading /\ pc' \notin Acting /\ pc' \in PCs /\ pc' # "contestant"
  <2>1. pc' = "tick" \/ pc' = "loop"
    BY <1>1
  <2> QED BY <2>1 DEF Loading, Acting, PCs
<1>8. PlaceOK'
  <2>1. isRunning \in BOOLEAN /\ stops \in 0..MaxStops
    BY DEF WorkerInv, PlaceOK
  <2>2. isRunning' \in BOOLEAN
    BY <1>1, <2>1, Zenon
  <2>3. pc' = "tick" => isRunning'
    <3>1. CASE yes
      <4>1. isRunning' = TRUE
        BY <1>1, <3>1, Zenon
      <4> QED BY <4>1
    <3>2. CASE ~yes
      BY <1>1, <3>2
    <3> QED BY <3>1, <3>2
  <2>4. tick' \in 0..MaxTicks /\ tick' < MaxTicks /\ stops' \in 0..MaxStops
    BY <1>2, <2>1, WorkerAssumption
  <2> QED BY <1>2, <1>7, <2>2, <2>3, <2>4 DEF PlaceOK
<1>9. BookOK'
  BY <1>6, <1>7 DEF BookOK
<1>10. ListsOK'
  <2>1. mrRing' \in [Sides -> Seq(RingEntry)] /\ \A s \in Sides : Len(mrRing'[s]) <= MRCap
    BY <1>2, WorkerAssumption
  <2>2. queue' \in Seq(QueueEntry) /\ Len(queue') <= QueueCap
    BY <1>2, WorkerAssumption
  <2> QED BY <1>6, <2>1, <2>2 DEF ListsOK
<1>11. SnapOK'
  BY <1>7 DEF SnapOK
<1>12. FillsOK'
  <2>1. fills = 0
    BY <1>3 DEF WorkerInv, FillsOK
  <2> QED BY <1>2, <2>1, WorkerAssumption DEF FillsOK
<1> QED BY <1>8, <1>9, <1>10, <1>11, <1>12 DEF WorkerInv

LEMMA QuoteStep ==
    ASSUME WorkerInv, MarketMaker
    PROVE  WorkerInv'
<1>1. /\ pc = "mm" /\ pc' = "mom"
      /\ UNCHANGED <<stops, isRunning, enabled, mrRing, snap, signal, queue, fills, position, tick>>
  BY DEF MarketMaker
<1>2. pc \in Acting /\ pc' \in Acting /\ pc # "contestant" /\ pc' # "contestant"
  BY <1>1 DEF Acting
<1>3. Sound(lob) /\ Tracked(lob) /\ signal \in FairValues /\ Accounted(lob, mm, mrRing, queue)
  BY <1>2, ActingBook
<1>4. Sound(lob') /\ Tracked(lob') /\ Accounted(lob', mm', mrRing, queue)
  <2>1. CASE "MM" \in enabled
    <3>1. PICK q \in Quotes(signal) : lob' = MMQuote(lob, q) /\ mm' = QuoteIds(lob, q)
      BY <2>1 DEF MarketMaker
    <3>2. q.bid \in Grid /\ q.ask \in Grid
      BY <1>3, QuoteInGrid
    <3>3. /\ Sound(lob') /\ Tracked(lob')
          /\ \A s \in Sides : \A p, id, who : Rests(lob', s, p, id, who) =>
                \/ Rests(lob, s, p, id, who) /\ ~(id = mm[s].id /\ p = mm[s].price)
                \/ who = "MM" /\ mm'[s] = [id |-> id, price |-> p]
      BY <1>3, <3>1, <3>2, QuoteSound
    <3>4. ASSUME NEW s \in Sides, NEW p, NEW id, NEW who, Rests(lob', s, p, id, who)
          PROVE  Listed(s, p, id, who, mm', mrRing, queue)
      <4>1. CASE Rests(lob, s, p, id, who) /\ ~(id = mm[s].id /\ p = mm[s].price)
        <5>1. Listed(s, p, id, who, mm, mrRing, queue)
          BY <1>3, <4>1, AccountedRests
        <5>2. who # "MM"
          <6>1. ASSUME who = "MM" PROVE FALSE
            <7>1. mm[s] = [id |-> id, price |-> p]
              BY <5>1, <6>1 DEF Listed
            <7>2. mm[s].id = id /\ mm[s].price = p
              BY <7>1
            <7> QED BY <4>1, <7>2
          <6> QED BY <6>1
        <5> QED BY <5>1, <5>2 DEF Listed
      <4>2. CASE who = "MM" /\ mm'[s] = [id |-> id, price |-> p]
        BY <4>2 DEF Listed
      <4> QED BY <3>3, <3>4, <4>1, <4>2
    <3>5. Accounted(lob', mm', mrRing, queue)
      BY <3>4, AccountedRests
    <3> QED BY <3>3, <3>5
  <2>2. CASE "MM" \notin enabled
    BY <1>3, <2>2 DEF MarketMaker
  <2> QED BY <2>1, <2>2
<1>5. ListsOK'
  BY <1>1, <1>2, <1>4 DEF WorkerInv, ListsOK
<1>6. FillsOK'
  BY <1>1, <1>2, FillsSame
<1> QED BY <1>1, <1>2, <1>4, <1>5, <1>6, ActStep

\* An order added for `who` and one cancelled on the same side.
LEMMA AddEvict ==
    ASSUME NEW b, Sound(b), Tracked(b), NEW side \in Sides, NEW price \in Grid,
           NEW volume \in Nat, NEW who \in Owners, NEW ring, NEW cap
    PROVE  LET c == Evicted(AddOrder(b, side, price, volume, who), ring, cap, side) IN
           /\ Sound(c) /\ Tracked(c)
           /\ Len(ring) = cap => \A w : ~Rests(c, side, Head(ring).price, Head(ring).id, w)
           /\ \A s \in Sides : \A p, i, w : Rests(c, s, p, i, w) =>
                 \/ Rests(b, s, p, i, w)
                 \/ s = side /\ p = price /\ i = b.nextOrderId /\ w = who
<1> DEFINE a == AddOrder(b, side, price, volume, who)
           c == Evicted(a, ring, cap, side)
<1>1. /\ Sound(a) /\ Tracked(a)
      /\ \A s \in Sides : \A p, i, w : Rests(a, s, p, i, w) =>
            \/ Rests(b, s, p, i, w)
            \/ s = side /\ p = price /\ i = b.nextOrderId /\ w = who
  BY AddSound
<1> HIDE DEF a
<1>2. /\ Sound(c) /\ Tracked(c) /\ Fewer(c, a)
      /\ Len(ring) = cap => \A w : ~Rests(c, side, Head(ring).price, Head(ring).id, w)
  BY <1>1, EvictedSound
<1> HIDE DEF c
<1>3. ASSUME NEW s \in Sides, NEW p, NEW i, NEW w, Rests(c, s, p, i, w)
      PROVE  \/ Rests(b, s, p, i, w)
             \/ s = side /\ p = price /\ i = b.nextOrderId /\ w = who
  <2>1. Rests(a, s, p, i, w)
    BY <1>2, <1>3 DEF Fewer
  <2> QED BY <1>1, <2>1
<1> QED BY <1>2, <1>3 DEF a, c

LEMMA NoiseStep ==
    ASSUME WorkerInv, NoiseTrader
    PROVE  WorkerInv'
<1>1. /\ pc = "noise" /\ pc' = "sniper"
      /\ UNCHANGED <<stops, isRunning, enabled, mm, mrRing, snap, signal, queue, fills, position, tick>>
  BY DEF NoiseTrader
<1>2. pc \in Acting /\ pc' \in Acting /\ pc # "contestant" /\ pc' # "contestant"
  BY <1>1 DEF Acting
<1>3. Sound(lob) /\ Tracked(lob) /\ Accounted(lob, mm, mrRing, queue)
  BY <1>2, ActingBook
<1>4. Sound(lob') /\ Tracked(lob') /\ Accounted(lob', mm, mrRing, queue)
  <2>1. CASE lob' = lob
    BY <1>3, <2>1
  <2>2. CASE lob' # lob
    <3>1. PICK side \in Sides, off \in NoiseOffsets, vol \in NoiseVolumes :
             /\ snap.best[side] + off \in Grid
             /\ lob' = Evicted(AddOrder(lob, side, snap.best[side] + off, vol, "NOISE"),
                               noiseRing, NoiseCap, side)
      BY <2>2 DEF NoiseTrader
    <3> DEFINE price == snap.best[side] + off
               me == "NOISE"
    <3>2. price \in Grid /\ vol \in Nat /\ me \in Owners /\ me \notin {"MM", "MR", "CONTESTANT"}
      BY <3>1, WorkerAssumption DEF Owners
    <3>3. lob' = Evicted(AddOrder(lob, side, price, vol, me), noiseRing, NoiseCap, side)
      BY <3>1
    <3> HIDE DEF price, me
    <3>4. /\ Sound(lob') /\ Tracked(lob')
          /\ \A s \in Sides : \A p, i, w : Rests(lob', s, p, i, w) =>
                \/ Rests(lob, s, p, i, w)
                \/ s = side /\ p = price /\ i = lob.nextOrderId /\ w = me
      BY <1>3, <3>2, <3>3, AddEvict
    <3>5. ASSUME NEW s \in Sides, NEW p, NEW id, NEW who, Rests(lob', s, p, id, who)
          PROVE  Listed(s, p, id, who, mm, mrRing, queue)
      <4>1. CASE Rests(lob, s, p, id, who)
        BY <1>3, <4>1, AccountedRests
      <4>2. CASE who = me
        BY <3>2, <4>2 DEF Listed
      <4> QED BY <3>4, <3>5, <4>1, <4>2
    <3>6. Accounted(lob', mm, mrRing, queue)
      BY <3>5, AccountedRests
    <3> QED BY <3>4, <3>6
  <2> QED BY <2>1, <2>2
<1>5. ListsOK'
  BY <1>1, <1>2, <1>4 DEF WorkerInv, ListsOK
<1>6. FillsOK'
  BY <1>1, <1>2, FillsSame
<1> QED BY <1>1, <1>2, <1>4, <1>5, <1>6, ActStep

LEMMA ReversionStep ==
    ASSUME WorkerInv, MeanReversionBot
    PROVE  WorkerInv'
<1>1. /\ pc = "mr" /\ pc' = "noise"
      /\ UNCHANGED <<stops, isRunning, enabled, mm, snap, signal, queue, fills, position, tick>>
  BY DEF MeanReversionBot
<1>2. pc \in Acting /\ pc' \in Acting /\ pc # "contestant" /\ pc' # "contestant"
  BY <1>1 DEF Acting
<1>3. /\ Sound(lob) /\ Tracked(lob) /\ Accounted(lob, mm, mrRing, queue) /\ signal \in FairValues
      /\ lob.nextOrderId \in Nat \ {0} /\ \A s \in Sides : snap.best[s] \in Grid
  BY <1>2, ActingBook
<1>4. mrRing \in [Sides -> Seq(RingEntry)] /\ \A s \in Sides : Len(mrRing[s]) <= MRCap
  BY DEF WorkerInv, ListsOK
<1>5. /\ Sound(lob') /\ Tracked(lob') /\ Accounted(lob', mm, mrRing', queue)
      /\ mrRing' \in [Sides -> Seq(RingEntry)] /\ \A s \in Sides : Len(mrRing'[s]) <= MRCap
  <2>1. CASE "MR" \notin enabled \/ MRSide = {}
    BY <1>3, <1>4, <2>1 DEF MeanReversionBot
  <2>2. CASE ~("MR" \notin enabled \/ MRSide = {})
    <3>1. PICK side \in MRSide :
             /\ lob' = Evicted(AddOrder(lob, side, MRPrice(side), 1, "MR"),
                               mrRing[side], MRCap, side)
             /\ mrRing' = [mrRing EXCEPT ![side] =
                   RingPush(mrRing[side], [id |-> lob.nextOrderId, price |-> MRPrice(side)], MRCap)]
      BY <2>2 DEF MeanReversionBot
    <3> DEFINE price == MRPrice(side)
               me == "MR"
               one == 1
               ring == mrRing[side]
               e == [id |-> lob.nextOrderId, price |-> price]
               r == RingPush(ring, e, MRCap)
    <3>2. side \in Sides /\ price \in Grid
      <4>1. snap.best.buy \in Grid /\ snap.best.sell \in Grid
        BY <1>3 DEF Sides
      <4> QED BY <1>3, <4>1, MRPriceInGrid
    <3>3. me \in Owners /\ one \in Nat
      BY DEF Owners
    <3>4. lob' = Evicted(AddOrder(lob, side, price, one, me), ring, MRCap, side)
      BY <3>1
    <3>5. mrRing' = [mrRing EXCEPT ![side] = r]
      BY <3>1
    <3> HIDE DEF price
    <3>6. e \in RingEntry /\ MRCap \in Nat \ {0} /\ ring \in Seq(RingEntry) /\ Len(ring) <= MRCap
      <4>1. price \in Int
        BY <3>2, GridIs
      <4>2. lob.nextOrderId \in Nat
        BY <1>3
      <4>3. e \in RingEntry
        BY <4>1, <4>2 DEF RingEntry
      <4> QED BY <1>4, <3>2, <4>3, WorkerAssumption
    <3> HIDE DEF one, me
    <3>7. /\ Sound(lob') /\ Tracked(lob')
          /\ Len(ring) = MRCap => \A w : ~Rests(lob', side, Head(ring).price, Head(ring).id, w)
          /\ \A s \in Sides : \A p, i, w : Rests(lob', s, p, i, w) =>
                \/ Rests(lob, s, p, i, w)
                \/ s = side /\ p = price /\ i = lob.nextOrderId /\ w = me
      BY <1>3, <3>2, <3>3, <3>4, AddEvict
    <3> HIDE DEF ring
    <3>8. /\ r \in Seq(RingEntry) /\ Len(r) <= MRCap
          /\ \E k \in 1..Len(r) : r[k] = e
          /\ \A k \in 1..Len(ring) : \/ Len(ring) = MRCap /\ ring[k] = Head(ring)
                                     \/ \E h \in 1..Len(r) : r[h] = ring[k]
      <4> DEFINE cap == MRCap
      <4>1. cap \in Nat \ {0} /\ ring \in Seq(RingEntry) /\ Len(ring) <= cap /\ e \in RingEntry
        BY <3>6
      <4> HIDE DEF e, cap
      <4>2. Renewed(RingPush(ring, e, cap), ring, e, cap)
        BY <4>1, RingPushIs
      <4> QED BY <4>2 DEF cap, Renewed
    <3> HIDE DEF r
    <3>9. mrRing'[side] = r /\ \A s \in Sides : s # side => mrRing'[s] = mrRing[s]
      BY <1>4, <3>2, <3>5
    <3>10. mrRing' \in [Sides -> Seq(RingEntry)] /\ \A s \in Sides : Len(mrRing'[s]) <= MRCap
      <4>1. mrRing' \in [Sides -> Seq(RingEntry)]
        BY <1>4, <3>2, <3>5, <3>8
      <4> QED BY <1>4, <3>8, <3>9, <4>1
    <3>11. ASSUME NEW s \in Sides, NEW p, NEW id, NEW who, Rests(lob', s, p, id, who)
           PROVE  Listed(s, p, id, who, mm, mrRing', queue)
      <4>1. CASE Rests(lob, s, p, id, who)
        <5>1. Listed(s, p, id, who, mm, mrRing, queue)
          BY <1>3, <4>1, AccountedRests
        <5>2. CASE s # side
          BY <3>9, <5>1, <5>2 DEF Listed
        <5>3. CASE s = side
          <6>1. ASSUME who = "MR" PROVE \E h \in 1..Len(r) : r[h] = [id |-> id, price |-> p]
            <7>1. PICK k \in 1..Len(ring) : ring[k] = [id |-> id, price |-> p]
              BY <5>1, <5>3, <6>1 DEF Listed, ring
            <7>2. CASE Len(ring) = MRCap /\ ring[k] = Head(ring)
              <8>1. Head(ring).price = p /\ Head(ring).id = id
                BY <7>1, <7>2
              <8>2. ~Rests(lob', side, p, id, who)
                BY <3>7, <7>2, <8>1
              <8> QED BY <3>11, <5>3, <8>2
            <7>3. CASE \E h \in 1..Len(r) : r[h] = ring[k]
              BY <7>1, <7>3
            <7> QED BY <3>8, <7>2, <7>3
          <6> QED BY <3>9, <5>1, <5>3, <6>1 DEF Listed
        <5> QED BY <5>2, <5>3
      <4>2. CASE s = side /\ p = price /\ id = lob.nextOrderId /\ who = me
        <5>1. \E k \in 1..Len(mrRing'[s]) : mrRing'[s][k] = [id |-> id, price |-> p]
          <6>1. e = [id |-> id, price |-> p]
            BY <4>2
          <6> HIDE DEF e
          <6> QED BY <3>8, <3>9, <4>2, <6>1
        <5> QED BY <4>2, <5>1 DEF Listed, me
      <4> QED BY <3>7, <3>11, <4>1, <4>2
    <3>12. Accounted(lob', mm, mrRing', queue)
      BY <3>11, AccountedRests
    <3> QED BY <3>7, <3>10, <3>12
  <2> QED BY <2>1, <2>2
<1>6. ListsOK'
  BY <1>1, <1>2, <1>5 DEF WorkerInv, ListsOK
<1>7. FillsOK'
  BY <1>1, <1>2, FillsSame
<1> QED BY <1>1, <1>2, <1>5, <1>6, <1>7, ActStep

LEMMA CappedIsNat ==
    ASSUME NEW v \in OrderVolumes
    PROVE  Capped(v) \in Nat
<1>1. v \in Nat /\ PositionLimit \in Nat
  BY WorkerAssumption
<1>2. Capped(v) = IF v <= PositionLimit THEN v ELSE PositionLimit
  BY <1>1, MinOf DEF Capped
<1> QED BY <1>1, <1>2

LEMMA TakeStep ==
    ASSUME WorkerInv, ContestantMarket
    PROVE  WorkerInv'
<1>1. /\ pc = "contestant" /\ pc' = pc
      /\ UNCHANGED <<stops, isRunning, enabled, mm, mrRing, snap, signal, queue, position, tick>>
  BY DEF ContestantMarket
<1>2. PICK side \in Sides, v \in OrderVolumes :
        /\ ~AtLimit(side)
        /\ lob' = MarketOrder(lob, side, Capped(v))
        /\ fills' = fills + (IF side = "buy" THEN 1 ELSE -1) *
                       FilledBy(lob, side, Capped(v), {"MM", "MR", "NOISE"})
  BY DEF ContestantMarket
<1>3. pc \in Acting /\ pc' \in Acting
  BY <1>1 DEF Acting
<1>4. Sound(lob) /\ Tracked(lob) /\ Shaped(lob)
  BY <1>3, ActingBook
<1> DEFINE cv == Capped(v)
           got == FilledBy(lob, side, cv, {"MM", "MR", "NOISE"})
<1>5. cv \in Nat /\ lob' = MarketOrder(lob, side, cv)
  BY <1>2, CappedIsNat
<1>6. fills' = fills + (IF side = "buy" THEN 1 ELSE -1) * got
  BY <1>2
<1> HIDE DEF cv
<1>7. got \in Nat
  BY <1>4, <1>5, FilledIsNat
<1> HIDE DEF got
<1>8. Sound(lob') /\ Tracked(lob') /\ Fewer(lob', lob)
  BY <1>4, <1>5, MarketSound
<1>9. ListsOK'
  BY <1>1, <1>8, ListsFewer
<1>10. FillsOK'
  <2>1. FillsOK /\ PositionLimit \in Nat /\ position' = position
    BY <1>1, WorkerAssumption DEF WorkerInv
  <2>2. CASE side = "buy"
    <3>1. fills' = fills + got /\ ~(position >= PositionLimit)
      BY <1>2, <1>6, <1>7, <2>1, <2>2 DEF AtLimit, FillsOK
    <3> QED BY <1>1, <1>7, <2>1, <3>1 DEF FillsOK
  <2>3. CASE side = "sell"
    <3>1. fills' = fills - got /\ ~(position <= -PositionLimit)
      BY <1>2, <1>6, <1>7, <2>1, <2>3 DEF AtLimit, FillsOK
    <3> QED BY <1>1, <1>7, <2>1, <3>1 DEF FillsOK
  <2> QED BY <2>2, <2>3 DEF Sides
<1> QED BY <1>1, <1>3, <1>8, <1>9, <1>10, ActStep

LEMMA LimitStep ==
    ASSUME WorkerInv, ContestantLimit
    PROVE  WorkerInv'
<1>1. /\ pc = "contestant" /\ pc' = pc
      /\ UNCHANGED <<stops, isRunning, enabled, mm, mrRing, snap, signal, fills, position, tick>>
  BY DEF ContestantLimit
<1>2. PICK side \in Sides, price \in LimitPrices, v \in OrderVolumes :
        /\ lob' = AddOrder(lob, side, price, Capped(v), "CONTESTANT")
        /\ queue' = Append(queue, [side |-> side, price |-> price, id |-> lob.nextOrderId])
  BY DEF ContestantLimit
<1>3. pc \in Acting /\ pc' \in Acting
  BY <1>1 DEF Acting
<1>4. /\ Sound(lob) /\ Tracked(lob) /\ lob.nextOrderId \in Nat
      /\ Accounted(lob, mm, mrRing, queue)
  BY <1>3, ActingBook
<1> DEFINE cv == Capped(v)
           me == "CONTESTANT"
           e == [side |-> side, price |-> price, id |-> lob.nextOrderId]
           m == Len(queue)
<1>5. cv \in Nat /\ price \in Grid /\ me \in Owners
  BY CappedIsNat, WorkerAssumption DEF Owners
<1>6. lob' = AddOrder(lob, side, price, cv, me) /\ queue' = Append(queue, e)
  BY <1>2
<1>7. e \in QueueEntry
  BY <1>4, <1>5 DEF QueueEntry
<1> HIDE DEF cv, me
<1>8. /\ Sound(lob') /\ Tracked(lob')
      /\ \A s \in Sides : \A p, i, w : Rests(lob', s, p, i, w) =>
            \/ Rests(lob, s, p, i, w)
            \/ s = side /\ p = price /\ i = lob.nextOrderId /\ w = me
  BY <1>4, <1>5, <1>6, AddSound
<1>9. /\ queue' \in Seq(QueueEntry) /\ Len(queue') = m + 1 /\ queue'[m + 1] = e /\ m \in Nat
      /\ \A k \in 1..m : queue'[k] = queue[k]
  <2>1. queue \in Seq(QueueEntry) /\ Len(queue) \in Nat
    BY DEF WorkerInv, ListsOK
  <2> HIDE DEF e
  <2> QED BY <1>6, <1>7, <2>1, AppendProperties
<1> HIDE DEF m
<1>10. ASSUME NEW s \in Sides, NEW p, NEW id, NEW who, Rests(lob', s, p, id, who)
       PROVE  Listed(s, p, id, who, mm, mrRing, queue')
  <2>1. CASE Rests(lob, s, p, id, who)
    <3>1. Listed(s, p, id, who, mm, mrRing, queue)
      BY <1>4, <2>1, AccountedRests
    <3>2. ASSUME who = "CONTESTANT"
          PROVE  \E k \in 1..Len(queue') : queue'[k] = [side |-> s, price |-> p, id |-> id]
      <4>1. PICK k \in 1..m : queue[k] = [side |-> s, price |-> p, id |-> id]
        BY <3>1, <3>2 DEF Listed, m
      <4>2. k \in 1..Len(queue') /\ queue'[k] = queue[k]
        BY <1>9
      <4> QED BY <4>1, <4>2
    <3> QED BY <3>1, <3>2 DEF Listed
  <2>2. CASE s = side /\ p = price /\ id = lob.nextOrderId /\ who = me
    <3>1. e = [side |-> s, price |-> p, id |-> id]
      BY <2>2
    <3> HIDE DEF e
    <3>2. m + 1 \in 1..Len(queue')
      BY <1>9
    <3>3. \E k \in 1..Len(queue') : queue'[k] = [side |-> s, price |-> p, id |-> id]
      BY <1>9, <3>1, <3>2
    <3> QED BY <2>2, <3>3 DEF Listed, me
  <2> QED BY <1>8, <1>10, <2>1, <2>2
<1>11. Accounted(lob', mm, mrRing, queue')
  BY <1>10, AccountedRests
<1>12. ListsOK'
  BY <1>1, <1>9, <1>11 DEF WorkerInv, ListsOK
<1>13. FillsOK'
  BY <1>1, FillsSame
<1> QED BY <1>1, <1>3, <1>8, <1>12, <1>13, ActStep

LEMMA CancelStep ==
    ASSUME WorkerInv, ContestantCancel
    PROVE  WorkerInv'
<1>1. /\ pc = "contestant" /\ pc' = pc
      /\ UNCHANGED <<stops, isRunning, enabled, mm, mrRing, snap, signal, queue, fills, position, tick>>
  BY DEF ContestantCancel
<1>2. \E side \in Sides : \E price, id : lob' = CancelOrder(lob, side, price, id)
  BY DEF ContestantCancel
<1>3. pc \in Acting /\ pc' \in Acting
  BY <1>1 DEF Acting
<1>4. Sound(lob) /\ Tracked(lob)
  BY <1>3, ActingBook
<1>5. PICK side \in Sides : \E price, id : lob' = CancelOrder(lob, side, price, id)
  BY <1>2
<1>6. PICK price, id : lob' = CancelOrder(lob, side, price, id)
  BY <1>5
<1>7. Sound(lob') /\ Tracked(lob') /\ Fewer(lob', lob)
  BY <1>4, <1>6, CancelSound
<1>8. ListsOK' /\ FillsOK'
  BY <1>1, <1>7, ListsFewer, FillsSame
<1> QED BY <1>1, <1>3, <1>7, <1>8, ActStep

\* What the flood guard leaves in contestantOrdersQueue.
LEMMA QueueCut ==
    ASSUME NEW q \in Seq(QueueEntry)
    PROVE  LET over == SubSeq(q, 1, Len(q) - QueueCap)
               rest == SubSeq(q, Len(over) + 1, Len(q))
           IN  /\ over \in Seq(QueueEntry) /\ rest \in Seq(QueueEntry) /\ Len(rest) <= QueueCap
               /\ \A k \in 1..Len(q) : \/ \E h \in 1..Len(over) : over[h] = q[k]
                                       \/ \E h \in 1..Len(rest) : rest[h] = q[k]
<1> DEFINE m == Len(q)
           o == m - QueueCap
           over == SubSeq(q, 1, o)
           l == Len(over)
           rest == SubSeq(q, l + 1, m)
<1>1. m \in Nat /\ QueueCap \in Nat \ {0} /\ o \in Int
  BY WorkerAssumption
<1>2. \A k \in 1..m : q[k] \in QueueEntry
  OBVIOUS
<1>3. /\ over \in Seq(QueueEntry) /\ l = (IF 1 <= o THEN o ELSE 0)
      /\ \A k \in 1..o : over[k] = q[k]
  <2>1. \A k \in 1..o : q[k] \in QueueEntry
    BY <1>1, <1>2
  <2>2. /\ over \in Seq(QueueEntry) /\ Len(over) = (IF 1 <= o THEN o - 1 + 1 ELSE 0)
        /\ \A k \in 1..(o - 1 + 1) : over[k] = q[1 + k - 1]
    <3> HIDE DEF o, m
    <3>1. 1 \in Int
      OBVIOUS
    <3> QED BY <1>1, <2>1, <3>1, SubSeqProperties
  <2>3. o - 1 + 1 = o
    BY <1>1
  <2>4. \A k \in 1..o : 1 + k - 1 = k
    BY <1>1
  <2> QED BY <2>2, <2>3, <2>4
<1> HIDE DEF over
<1>4. l \in Nat /\ l <= m /\ m - l <= QueueCap
  BY <1>1, <1>3
<1> HIDE DEF l, o
<1>5. /\ rest \in Seq(QueueEntry) /\ Len(rest) = m - l
      /\ \A k \in 1..(m - l) : rest[k] = q[l + k]
  <2>1. \A k \in (l + 1)..m : q[k] \in QueueEntry
    BY <1>1, <1>2, <1>4
  <2> DEFINE a == l + 1
  <2>2. a \in Int /\ m \in Int /\ \A k \in a..m : q[k] \in QueueEntry
    BY <1>1, <1>4, <2>1
  <2>3. rest = SubSeq(q, a, m)
    OBVIOUS
  <2> HIDE DEF a, m, rest
  <2>4. /\ rest \in Seq(QueueEntry) /\ Len(rest) = (IF a <= m THEN m - a + 1 ELSE 0)
        /\ \A k \in 1..(m - a + 1) : rest[k] = q[a + k - 1]
    BY <2>2, <2>3, SubSeqProperties
  <2>5. Len(rest) = m - l
    BY <1>1, <1>4, <2>4 DEF a
  <2>6. \A k \in 1..(m - l) : k \in 1..(m - a + 1) /\ a + k - 1 = l + k
    BY <1>1, <1>4 DEF a
  <2> QED BY <2>4, <2>5, <2>6
<1> HIDE DEF rest
<1>6. ASSUME NEW k \in 1..m
      PROVE  \/ \E h \in 1..l : over[h] = q[k]
             \/ \E h \in 1..Len(rest) : rest[h] = q[k]
  <2>1. CASE k <= l
    <3>1. k \in 1..l /\ l \in Nat /\ l >= 1
      BY <1>1, <1>4, <2>1
    <3>2. k \in 1..o
      BY <1>1, <1>3, <3>1
    <3> QED BY <1>3, <3>1, <3>2
  <2>2. CASE ~(k <= l)
    <3>1. k - l \in 1..(m - l) /\ l + (k - l) = k
      BY <1>1, <1>4, <2>2
    <3>2. rest[k - l] = q[k]
      BY <1>5, <3>1
    <3> QED BY <1>5, <3>1, <3>2
  <2> QED BY <2>1, <2>2
<1> QED BY <1>3, <1>4, <1>5, <1>6 DEF rest, over, l, o

LEMMA FinishStep ==
    ASSUME WorkerInv, FinishTick
    PROVE  WorkerInv'
<1> DEFINE over == Overflow
           rest == SubSeq(queue, Len(over) + 1, Len(queue))
<1>1. /\ pc = "contestant" /\ lob' = Thinned(lob, over) /\ queue' = rest
      /\ position' = position + fills /\ fills' = 0 /\ tick' = tick + 1
      /\ \/ pc' = "tick" /\ tick' < MaxTicks
         \/ pc' = "loop"
      /\ UNCHANGED <<stops, isRunning, enabled, mm, mrRing, snap, signal>>
  BY DEF FinishTick
<1>2. pc \in Acting /\ pc' \notin Acting /\ pc' \notin Loading /\ pc' \in PCs /\ pc' # "contestant"
  BY <1>1 DEF Acting, Loading, PCs
<1>3. Sound(lob) /\ Tracked(lob) /\ Accounted(lob, mm, mrRing, queue)
  BY <1>2, ActingBook
<1>4. /\ over \in Seq(QueueEntry) /\ rest \in Seq(QueueEntry) /\ Len(rest) <= QueueCap
      /\ \A k \in 1..Len(queue) : \/ \E h \in 1..Len(over) : over[h] = queue[k]
                                  \/ \E h \in 1..Len(rest) : rest[h] = queue[k]
  <2>1. queue \in Seq(QueueEntry)
    BY DEF WorkerInv, ListsOK
  <2> QED BY <2>1, QueueCut DEF Overflow
<1> HIDE DEF over, rest
<1>5. \A k \in 1..Len(over) : over[k].side \in Sides
  <2>1. \A k \in 1..Len(over) : over[k] \in QueueEntry
    BY <1>4
  <2> QED BY <2>1 DEF QueueEntry
<1>6. /\ Sound(lob') /\ Tracked(lob') /\ Fewer(lob', lob)
      /\ \A k \in 1..Len(over) : \A who :
            ~Rests(lob', over[k].side, over[k].price, over[k].id, who)
  BY <1>1, <1>3, <1>4, <1>5, ThinnedSound
<1>7. ASSUME NEW s \in Sides, NEW p, NEW id, NEW who, Rests(lob', s, p, id, who)
      PROVE  Listed(s, p, id, who, mm, mrRing, rest)
  <2>1. Listed(s, p, id, who, mm, mrRing, queue)
    BY <1>3, <1>6, <1>7, AccountedRests DEF Fewer
  <2>2. ASSUME who = "CONTESTANT"
        PROVE  \E h \in 1..Len(rest) : rest[h] = [side |-> s, price |-> p, id |-> id]
    <3>1. PICK k \in 1..Len(queue) : queue[k] = [side |-> s, price |-> p, id |-> id]
      BY <2>1, <2>2 DEF Listed
    <3>2. ASSUME NEW h \in 1..Len(over), over[h] = queue[k] PROVE FALSE
      <4>1. over[h].side = s /\ over[h].price = p /\ over[h].id = id
        BY <3>1, <3>2
      <4>2. ~Rests(lob', over[h].side, over[h].price, over[h].id, who)
        BY <1>6
      <4> QED BY <1>7, <4>1, <4>2
    <3>3. PICK h \in 1..Len(rest) : rest[h] = queue[k]
      BY <1>4, <3>2
    <3> QED BY <3>1, <3>3
  <2> QED BY <2>1, <2>2 DEF Listed
<1>8. Accounted(lob', mm, mrRing, rest)
  BY <1>7, AccountedRests
<1>9. ListsOK'
  BY <1>1, <1>4, <1>8 DEF WorkerInv, ListsOK
<1>10. BookOK'
  BY <1>2, <1>6 DEF BookOK
<1>11. PlaceOK'
  <2>1. PlaceOK /\ MaxTicks \in Nat /\ tick < MaxTicks
    BY <1>2, WorkerAssumption DEF WorkerInv, PlaceOK
  <2>2. tick' \in 0..MaxTicks
    BY <1>1, <2>1 DEF PlaceOK
  <2>3. isRunning'
    <3>1. isRunning /\ isRunning' = isRunning
      BY <1>1, <1>2 DEF WorkerInv, PlaceOK
    <3> QED BY <3>1, Zenon
  <2>4. isRunning' \in BOOLEAN /\ stops' \in 0..MaxStops /\ enabled' \in BotConfigs \cup {{}}
    BY <1>1, <2>1 DEF PlaceOK
  <2>5. pc' \in Acting \cup {"tick"} => tick' < MaxTicks
    BY <1>1, <1>2
  <2> QED BY <1>2, <2>2, <2>3, <2>4, <2>5 DEF PlaceOK
<1>12. SnapOK'
  BY <1>2 DEF SnapOK
<1>13. FillsOK'
  BY <1>1, WorkerAssumption DEF WorkerInv, FillsOK
<1> QED BY <1>9, <1>10, <1>11, <1>12, <1>13 DEF WorkerInv

LEMMA InvStep ==
    ASSUME WorkerInv, [Next]_vars
    PROVE  WorkerInv'
<1>1. CASE LoadFromIDB \/ LoadFromBackend
  BY <1>1, LoadStep
<1>2. CASE InitSimulation
  BY <1>2, StartStep
<1>3. CASE RunBatch \/ StopSimulation \/ Rest
  BY <1>3, LoopStep
<1>4. CASE BeginTick
  BY <1>4, BeginStep
<1>5. CASE MarketMaker
  BY <1>5, QuoteStep
<1>6. CASE MomentumBot
  BY <1>6, MomentumStep
<1>7. CASE MeanReversionBot
  BY <1>7, ReversionStep
<1>8. CASE NoiseTrader
  BY <1>8, NoiseStep
<1>9. CASE SniperBot
  BY <1>9, SniperStep
<1>10. CASE ContestantMarket
  BY <1>10, TakeStep
<1>11. CASE ContestantLimit
  BY <1>11, LimitStep
<1>12. CASE ContestantCancel
  BY <1>12, CancelStep
<1>13. CASE FinishTick
  BY <1>13, FinishStep
<1>14. CASE UNCHANGED vars
  BY <1>14 DEF vars, WorkerInv, PlaceOK, BookOK, ListsOK, SnapOK, FillsOK
<1> QED
  BY <1>1, <1>2, <1>3, <1>4, <1>5, <1>6, <1>7, <1>8, <1>9, <1>10, <1>11, <1>12, <1>13, <1>14
  DEF Next, WorkerStep

\* The invariant holds of every behaviour of the local simulator.
THEOREM WorkerIsSound == Spec => []WorkerInv
<1>1. Init => WorkerInv
  BY InvInit
<1>2. WorkerInv /\ [Next]_vars => WorkerInv'
  BY InvStep
<1> QED BY <1>1, <1>2, PTL DEF Spec

\* Values keep their kinds, every price in the book is one of the grid, and a
\* batch runs only while isRunning (runBatch, STOP_SIMULATION).
THEOREM WorkerKeepsShape == Spec => []TypeOK
<1>1. WorkerInv => TypeOK
  BY InvType
<1> QED BY <1>1, WorkerIsSound, PTL

\* Level volumes, time priority and the uniqueness of resting ids survive every
\* sequence of addOrder, cancelOrder and marketOrder, at any depth of the book.
THEOREM BookStaysConsistent == Spec => []LevelsConsistent
<1>1. WorkerInv => LevelsConsistent
  BY InvLevels
<1> QED BY <1>1, WorkerIsSound, PTL

\* However many ticks run, the bots' and the contestant's resting orders stay
\* within their caps (MarketMaker.compute, OrderRing.push, the flood guard).
THEOREM RestingStaysCapped == Spec => []RestingCapped
<1>1. WorkerInv => RestingCapped
  BY InvCapped
<1> QED BY <1>1, WorkerIsSound, PTL

\* Only the end of a tick moves the position.
LEMMA LimitKept ==
    ASSUME WorkerInv, [Next]_vars
    PROVE  [/\ position >= PositionLimit => position' <= position
            /\ position <= -PositionLimit => position' >= position]_vars
<1> SUFFICES /\ position >= PositionLimit => position' <= position
             /\ position <= -PositionLimit => position' >= position
  OBVIOUS
<1>1. FillsOK /\ PlaceOK
  BY DEF WorkerInv
<1>2. CASE FinishTick
  <2>1. position' = position + fills
    BY <1>2 DEF FinishTick
  <2> QED BY <1>1, <2>1 DEF FillsOK
<1>3. CASE InitSimulation
  <2>1. position' = 0 /\ pc = "init"
    BY <1>3 DEF InitSimulation
  <2>2. position = 0
    BY <1>1, <2>1 DEF PlaceOK, Loading
  <2> QED BY <2>1, <2>2
<1>4. CASE ~FinishTick /\ ~InitSimulation
  <2>1. position' = position
    BY <1>4 DEF Next, WorkerStep, vars, LoadFromIDB, LoadFromBackend, RunBatch, StopSimulation,
       Rest, BeginTick, MarketMaker, MomentumBot, MeanReversionBot, NoiseTrader, SniperBot,
       ContestantMarket, ContestantLimit, ContestantCancel
  <2> QED BY <1>1, <2>1 DEF FillsOK
<1> QED BY <1>2, <1>3, <1>4

\* Once POSITION_LIMIT is reached no tick takes the position further, whatever
\* orders, volumes and fills the tick has.
THEOREM LimitIsKept == Spec => LimitHolds
<1>1. WorkerInv /\ [Next]_vars =>
        [/\ position >= PositionLimit => position' <= position
         /\ position <= -PositionLimit => position' >= position]_vars
  BY LimitKept
<1> QED BY <1>1, WorkerIsSound, PTL DEF Spec, LimitHolds

(***************************************************************************)
(* The steps of the worker are steps of the protocol.                      *)
(***************************************************************************)
PhaseNow == IF pc \in {"idb", "fetch", "init"} THEN "loading"
            ELSE IF isRunning THEN "running" ELSE "rest"

LEMMA ProtocolMoves ==
    ASSUME NEW m \in {Protocol!Move("loading", "COMPILE_ERROR", "rest"),
                      Protocol!Move("loading", "COMPILE_OK", "running"),
                      Protocol!Move("running", "TICK_UPDATE", "running"),
                      Protocol!Move("running", "SIMULATION_COMPLETE", "rest"),
                      Protocol!Move("running", "SIMULATION_STOPPED", "rest"),
                      Protocol!Move("rest", "SIMULATION_STOPPED", "rest")},
           PhaseNow = m.from, PhaseNow' = m.to, posted' = m.msg
    PROVE  Protocol!Next
<1>1. m \in Protocol!Moves
  BY DEF Protocol!Moves, Protocol!OwnMoves, Protocol!StopMoves
<1>2. Protocol!Post(m)
  BY DEF Protocol!Post, PhaseNow
<1> QED BY <1>1, <1>2 DEF Protocol!Next

LEMMA ProtocolStep ==
    ASSUME WorkerInv, [Next]_vars
    PROVE  Protocol!Next \/ (PhaseNow' = PhaseNow /\ posted' = posted)
<1>1. /\ PlaceOK /\ pc \in PCs /\ isRunning \in BOOLEAN
      /\ pc \in Loading => ~isRunning /\ lob = Null
      /\ pc \notin Loading => lob # Null
  <2>1. PlaceOK /\ BookOK
    BY DEF WorkerInv
  <2>2. pc \notin Loading => lob # Null
    BY <2>1, NullIs DEF BookOK, Sound, Shaped
  <2> QED BY <2>1, <2>2 DEF PlaceOK, BookOK
<1>2. CASE LoadFromIDB \/ LoadFromBackend
  <2>1. pc \in Loading /\ pc' \in Loading /\ posted' = posted
    BY <1>2 DEF LoadFromIDB, LoadFromBackend, Loading
  <2> QED BY <2>1 DEF PhaseNow, Loading
<1>3. CASE InitSimulation
  <2>1. PICK yes \in Compile : /\ posted' = IF yes THEN "COMPILE_OK" ELSE "COMPILE_ERROR"
                               /\ isRunning' = (IF yes THEN TRUE ELSE isRunning)
                               /\ pc' = IF yes THEN "tick" ELSE "loop"
    BY <1>3, Zenon DEF InitSimulation
  <2>2. PhaseNow = "loading" /\ ~isRunning
    BY <1>1, <1>3 DEF InitSimulation, PhaseNow, Loading
  <2>3. CASE yes
    <3>1. PhaseNow' = "running" /\ posted' = "COMPILE_OK"
      BY <2>1, <2>3 DEF PhaseNow
    <3> QED BY <2>2, <3>1, ProtocolMoves DEF Protocol!Move
  <2>4. CASE ~yes
    <3>1. posted' = "COMPILE_ERROR" /\ pc' = "loop" /\ (isRunning' = isRunning)
      BY <2>1, <2>4
    <3>2. PhaseNow' = "rest"
      BY <2>2, <3>1 DEF PhaseNow
    <3> QED BY <2>2, <3>1, <3>2, ProtocolMoves DEF Protocol!Move
  <2> QED BY <2>3, <2>4
<1>4. CASE RunBatch
  <2>1. pc = "loop" /\ isRunning /\ PhaseNow = "running"
    BY <1>4 DEF RunBatch, PhaseNow
  <2>2. CASE tick >= MaxTicks
    <3>1. posted' = "SIMULATION_COMPLETE" /\ PhaseNow' = "rest"
      BY <1>4, <2>1, <2>2 DEF RunBatch, PhaseNow
    <3> QED BY <2>1, <3>1, ProtocolMoves DEF Protocol!Move
  <2>3. CASE ~(tick >= MaxTicks)
    <3>1. posted' = posted /\ pc' = "tick" /\ (isRunning' = isRunning)
      BY <1>4, <2>3 DEF RunBatch
    <3>2. PhaseNow' = "running"
      BY <2>1, <3>1 DEF PhaseNow
    <3> QED BY <2>1, <3>1, <3>2
  <2> QED BY <2>2, <2>3
<1>5. CASE StopSimulation
  <2>1. /\ pc' = pc /\ isRunning' = FALSE
        /\ posted' = IF CanReport THEN "SIMULATION_STOPPED" ELSE posted
    BY <1>5 DEF StopSimulation
  <2>2. CASE pc \in Loading
    <3>1. posted' = posted
      BY <1>1, <2>1, <2>2 DEF CanReport
    <3> QED BY <2>1, <2>2, <3>1 DEF PhaseNow, Loading
  <2>3. CASE pc \notin Loading
    <3>1. posted' = "SIMULATION_STOPPED"
      BY <1>1, <2>1, <2>3 DEF CanReport
    <3>2. PhaseNow \in {"running", "rest"} /\ PhaseNow' = "rest"
      BY <2>1, <2>3 DEF PhaseNow, Loading
    <3> QED BY <3>1, <3>2, ProtocolMoves DEF Protocol!Move
  <2> QED BY <2>2, <2>3
<1>6. CASE \/ BeginTick \/ MarketMaker \/ MomentumBot \/ MeanReversionBot \/ NoiseTrader
           \/ SniperBot \/ ContestantMarket \/ ContestantLimit \/ ContestantCancel
  <2>1. /\ pc \in PCs \ (Loading \cup {"loop"}) /\ pc' \in PCs \ (Loading \cup {"loop"})
        /\ posted' = posted /\ (isRunning' = isRunning)
    BY <1>6 DEF BeginTick, MarketMaker, MomentumBot, MeanReversionBot, NoiseTrader, SniperBot,
       ContestantMarket, ContestantLimit, ContestantCancel, PCs, Loading
  <2> QED BY <2>1 DEF PhaseNow, Loading
<1>7. CASE FinishTick
  <2>1. /\ pc = "contestant" /\ pc' \in {"tick", "loop"} /\ (isRunning' = isRunning)
        /\ posted' \in {posted, "TICK_UPDATE"}
    BY <1>7 DEF FinishTick
  <2>2. isRunning
    BY <1>1, <2>1 DEF PlaceOK, Acting
  <2>3. PhaseNow = "running" /\ PhaseNow' = "running"
    BY <2>1, <2>2 DEF PhaseNow
  <2> QED BY <2>1, <2>3, ProtocolMoves DEF Protocol!Move
<1>8. CASE Rest \/ UNCHANGED vars
  <2>1. pc' = pc /\ posted' = posted /\ (isRunning' = isRunning)
    BY <1>8 DEF Rest, vars
  <2> QED BY <2>1 DEF PhaseNow
<1> QED
  BY <1>2, <1>3, <1>4, <1>5, <1>6, <1>7, <1>8 DEF Next, WorkerStep

\* What the worker posts is allowed by the protocol the page relies on: the
\* compilation is answered before any tick, ticks and the final report come only
\* from a running simulation, and a STOP that meets a loading worker is not
\* answered (onmessage, runBatch).
THEOREM WorkerFollowsProtocol == Spec => KeepsProtocol
<1>1. Init => Protocol!Init
  BY DEF Init, Protocol!Init
<1>2. WorkerInv /\ [Next]_vars =>
        [Protocol!Next]_<<IF pc \in {"idb", "fetch", "init"} THEN "loading"
                          ELSE IF isRunning THEN "running" ELSE "rest", posted>>
  BY ProtocolStep DEF PhaseNow
<1> QED BY <1>1, <1>2, WorkerIsSound, PTL DEF Spec, KeepsProtocol, Protocol!Spec
=============================================================================
