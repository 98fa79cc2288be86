------------------------ MODULE ContestCreatorProofs ------------------------
(***************************************************************************)
(* Proofs about the contest store and the creator's page.                  *)
(*                                                                         *)
(* The theorems hold for any number of saves, registrations, clicks,       *)
(* sockets, rounds and uploads.                                            *)
(***************************************************************************)
EXTENDS ContestCreator, SequenceTheorems, WellFoundedInduction, TLAPS

---------------------------------------------------------------------------
(* The inductive invariant. *)

Statuses == {"draft", "active", "ended"}

\* A name of its own: the provers need not know that a flag is a formula.
Flags == BOOLEAN

RoundT == [id : 0..MaxSaves, live : Flags, data : Marks, by : 0..MaxSaves]

ContestT ==
    [id : ContestIds, status : Statuses, joined : SUBSET (0..MaxRegs),
     rounds : Seq(RoundT), by : 0..MaxSaves]

StateT ==
    [role : {"none", "student", "creator"}, sid : 0..MaxRegs, key : 0..MaxRegs,
     active : ContestIds \cup {None}, contests : Seq(ContestT),
     telemetry : {"offline", "connecting", "online"}]

CallT ==
    [pc : {"idle", "post", "posted", "rounds", "over"}, id : ContestIds \cup {None},
     n : 0..MaxRounds, i : 0..MaxRounds, page : Flags]

ServerT == [id : ContestIds, rounds : Seq(1..MaxSaves)]

FormRoundT == [id : 0..MaxSaves, live : Flags, data : Marks, src : 0..MaxRounds]

\* Rounds the form can show: no more than the page lets the user add.
FormRounds == {s \in Seq(FormRoundT) : Len(s) <= MaxRounds}

Demos == {<<"demo", 1>>, <<"demo", 2>>}
ServerId(o) == <<"server", o>>

Busy == {"post", "posted", "rounds"}

Unique(s) == \A j, k \in DOMAIN s : s[j].id = s[k].id => j = k
Lacks(s, id) == \A k \in DOMAIN s : s[k].id # id
Known(rounds) == \A i \in DOMAIN rounds : rounds[i].data # "none" => rounds[i].id # 0

\* A list of contests, in memory or in localStorage, while the calls are at c:
\* no id twice, none the server has yet to give, and of the contests the form
\* may take over, rounds it can hold and uploads the server knows.
ListOK(s, c) ==
    /\ s \in Seq(ContestT)
    /\ Unique(s)
    /\ \A o \in Saves : c[o].pc \in {"idle", "post"} => Lacks(s, ServerId(o))
    /\ \A k \in DOMAIN s : s[k].id \notin Demos =>
        Len(s[k].rounds) <= MaxRounds /\ Known(s[k].rounds)

\* A call that holds a contest of the list is under way and knows its id; while
\* it waits for the id of the server, that one is not beside the contest.
HeldOK(s, c) ==
    \A k \in DOMAIN s : s[k].by # 0 =>
        /\ c[s[k].by].pc \in Busy
        /\ s[k].id = c[s[k].by].id
        /\ c[s[k].by].pc = "posted" => Lacks(s, ServerId(s[k].by))

\* localStorage holds no reference.
BareOK(s) == \A k \in DOMAIN s : s[k].by = 0

StoreInv ==
    /\ mem \in StateT /\ ListOK(mem.contests, call) /\ HeldOK(mem.contests, call)
    /\ disk \in StateT /\ ListOK(disk.contests, call) /\ BareOK(disk.contests)

\* The server's contests: ids of POSTs that were made, each once, and one round
\* for each round a call has sent.
ServerOK(s, c, n) ==
    /\ s \in Seq(ServerT)
    /\ Unique(s)
    /\ \A k \in DOMAIN s :
        /\ Len(s[k].rounds) <= MaxRounds
        /\ \A i \in 1..MaxClicks : s[k].id = <<"extra", i>> => i <= n
        /\ \A o \in Saves : s[k].id = ServerId(o) =>
            /\ c[o].pc \notin {"idle", "post"}
            /\ c[o].pc = "posted" => Len(s[k].rounds) = 0
            /\ c[o].pc = "rounds" => Len(s[k].rounds) < c[o].i

\* A call: the id of its contest is the server's once it was answered, and no
\* one else's before.
CallOK(c) ==
    /\ c \in [Saves -> CallT]
    /\ \A o \in Saves :
        /\ c[o].id \notin Demos
        /\ c[o].pc \in Busy => c[o].id # None
        /\ c[o].pc \in {"post", "posted"} => c[o].i = 1
        /\ c[o].pc = "rounds" => /\ c[o].id = ServerId(o)
                                 /\ 1 <= c[o].i /\ c[o].i <= c[o].n
        /\ c[o].pc \in {"idle", "post", "posted"} =>
            \A p \in Saves : c[p].id # ServerId(o)

\* The form: never a demo contest, nor one the server has yet to name.
FormOK(f, c) ==
    /\ f \in [id : ContestIds \cup {None}, named : Flags, rounds : FormRounds]
    /\ f.id \notin Demos
    /\ \A o \in Saves : c[o].pc \in {"idle", "post", "posted"} => f.id # ServerId(o)
    /\ Known(f.rounds)

\* The rounds an upload will write back.
UploadOK(u) ==
    /\ u \in [i : Nat, rounds : FormRounds]
    /\ u.i \in DOMAIN u.rounds
    /\ Known(u.rounds) /\ u.rounds[u.i].id # 0

CreatorInv ==
    /\ clicks \in 0..MaxClicks
    /\ ServerOK(server, call, clicks)
    /\ CallOK(call)
    /\ FormOK(form, call)
    /\ \A u \in uploads : UploadOK(u)

\* A call writes to the form only while the page that made it shows.
PageInv ==
    /\ page \in {"creator", "student"} => mem.role = page
    /\ page # "creator" => form = BlankForm /\ uploads = {} /\ monitor = NoMonitor
    /\ \A o \in Saves : call[o].page => page = "creator"
    /\ monitor \in [target : ContestIds \cup {None}, evaluating : Flags]

---------------------------------------------------------------------------
(* Numbers and sequences. *)

\* Every set of numbers that is not empty has a least one: what find and
\* findIndex return, and the base of the inductions below.
LEMMA LeastNumber ==
    ASSUME NEW T \in SUBSET Nat, T # {}
    PROVE  \E x \in T : \A y \in T : x <= y
<1> DEFINE R == OpToRel(<, Nat)
<1>1. \A x, y \in Nat : y < x => <<y, x>> \in R
  BY DEF OpToRel
<1>2. IsWellFoundedOn(R, Nat)
  BY NatLessThanWellFounded
<1> HIDE DEF R
<1>3. PICK x \in T : \A y \in T : ~(<<y, x>> \in R)
  BY <1>2, WFMin
<1>4. ASSUME NEW y \in T PROVE x <= y
  <2>1. x \in Nat /\ y \in Nat /\ ~(<<y, x>> \in R)
    BY <1>3
  <2>2. ~(y < x)
    BY <1>1, <2>1
  <2> QED BY <2>1, <2>2
<1> QED BY <1>4

LEMMA MinIsLeast ==
    ASSUME NEW n \in Nat, NEW I \in SUBSET (1..n), I # {}
    PROVE  Min(I) \in I /\ \A y \in I : Min(I) <= y
<1>1. \E x \in I : \A y \in I : x <= y
  BY LeastNumber
<1> QED BY <1>1 DEF Min

\* A function over the indices of a sequence is a sequence.
LEMMA MapIsSeq ==
    ASSUME NEW S, NEW T, NEW s \in Seq(S), NEW f, DOMAIN f = DOMAIN s,
           f = [k \in DOMAIN f |-> f[k]], \A k \in DOMAIN s : f[k] \in T
    PROVE  f \in Seq(T) /\ Len(f) = Len(s)
<1>1. Len(s) \in Nat /\ DOMAIN f = 1..Len(s)
  BY LenProperties
<1>2. f \in [1..Len(s) -> T]
  BY <1>1, LenProperties
<1> QED BY <1>1, <1>2, IsASeq, LenProperties

---------------------------------------------------------------------------
(* The operators of the store on lists. *)

\* find and findIndex of the store.
LEMMA IndexIsFirst ==
    ASSUME NEW m, m.contests \in Seq(ContestT), NEW id
    PROVE  /\ Listed(m, id) => /\ IndexOf(m, id) \in DOMAIN m.contests
                               /\ m.contests[IndexOf(m, id)].id = id
           /\ ~Listed(m, id) => Lacks(m.contests, id)
<1> DEFINE s == m.contests
           I == {k \in 1..Len(s) : s[k].id = id}
<1>1. Len(s) \in Nat /\ DOMAIN s = 1..Len(s)
  BY LenProperties
<1>2. IndexOf(m, id) = IF I # {} THEN Min(I) ELSE 0
  BY DEF IndexOf, SelectInSeq
<1>3. CASE I # {}
  <2>1. IndexOf(m, id) \in I
    BY <1>1, <1>2, <1>3, MinIsLeast
  <2> QED BY <1>1, <2>1 DEF Listed
<1>4. CASE I = {}
  BY <1>1, <1>2, <1>4 DEF Listed, Lacks
<1> QED BY <1>3, <1>4

\* createContest replaces the contest with the id, or adds one.
LEMMA PutCases ==
    ASSUME NEW s \in Seq(ContestT), NEW c
    PROVE  \/ Put(s, c) = Append(s, c) /\ Lacks(s, c.id)
           \/ \E k \in DOMAIN s : s[k].id = c.id /\ Put(s, c) = [s EXCEPT ![k] = c]
<1> DEFINE I == {k \in 1..Len(s) : s[k].id = c.id}
           n == IF I # {} THEN Min(I) ELSE 0
<1>1. Len(s) \in Nat /\ DOMAIN s = 1..Len(s)
  BY LenProperties
<1>2. Put(s, c) = IF n = 0 THEN Append(s, c) ELSE [s EXCEPT ![n] = c]
  BY DEF Put, SelectInSeq
<1>3. CASE I # {}
  <2>1. n \in I
    BY <1>1, <1>3, MinIsLeast
  <2>2. n # 0 /\ n \in DOMAIN s /\ s[n].id = c.id
    BY <1>1, <2>1
  <2> HIDE DEF n
  <2>3. Put(s, c) = [s EXCEPT ![n] = c]
    BY <1>2, <2>2
  <2> QED BY <2>2, <2>3
<1>4. CASE I = {}
  BY <1>1, <1>2, <1>4 DEF Lacks
<1> QED BY <1>3, <1>4

\* The recursion of the filter.
Filters(s, id, n, f) ==
    f = [k \in 0..n |-> IF k = 0 THEN <<>>
                        ELSE IF s[k].id = id THEN f[k - 1]
                        ELSE Append(f[k - 1], s[k])]

\* It defines a function: the least number without one would have one.
LEMMA FilterExists ==
    ASSUME NEW s \in Seq(ContestT), NEW id
    PROVE  \A n \in Nat : \E f : Filters(s, id, n, f)
<1> DEFINE Bad == {n \in Nat : ~\E f : Filters(s, id, n, f)}
<1> SUFFICES ASSUME Bad # {} PROVE FALSE
  OBVIOUS
<1>1. PICK n \in Bad : \A y \in Bad : n <= y
  <2>1. Bad \in SUBSET Nat
    OBVIOUS
  <2> HIDE DEF Bad
  <2> QED BY <2>1, LeastNumber
<1>2. n # 0
  <2>1. Filters(s, id, 0, [k \in 0..0 |-> <<>>])
    BY DEF Filters
  <2> QED BY <2>1
<1>3. n - 1 \in Nat /\ n - 1 \notin Bad
  BY <1>1, <1>2
<1>4. PICK f : Filters(s, id, n - 1, f)
  BY <1>3
<1> DEFINE last == IF s[n].id = id THEN f[n - 1] ELSE Append(f[n - 1], s[n])
           g == [k \in 0..n |-> IF k = n THEN last ELSE f[k]]
<1>5. ASSUME NEW k \in 0..n
      PROVE  g[k] = IF k = 0 THEN <<>>
                    ELSE IF s[k].id = id THEN g[k - 1] ELSE Append(g[k - 1], s[k])
  <2>1. CASE k = n
    <3>1. g[n] = last /\ g[n - 1] = f[n - 1]
      BY <1>2, <1>3
    <3> QED BY <1>2, <2>1, <3>1
  <2>2. CASE k # n
    <3>1. k \in 0..(n - 1) /\ g[k] = f[k]
      BY <1>3, <2>2
    <3>2. k # 0 => k - 1 \in 0..n /\ k - 1 # n
      BY <1>3, <2>2
    <3>3. k # 0 => g[k - 1] = f[k - 1]
      BY <3>2
    <3>4. f[k] = IF k = 0 THEN <<>>
                 ELSE IF s[k].id = id THEN f[k - 1] ELSE Append(f[k - 1], s[k])
      BY <1>4, <3>1 DEF Filters
    <3> QED BY <3>1, <3>3, <3>4
  <2> QED BY <2>1, <2>2
<1>6. Filters(s, id, n, g)
  <2>1. g = [k \in 0..n |-> g[k]]
    OBVIOUS
  <2> HIDE DEF g
  <2> QED BY <1>5, <2>1 DEF Filters
<1> QED BY <1>6

\* What is left of the first k contests: some of them, each once.
Part(s, k, t) ==
    /\ t \in Seq(ContestT)
    /\ \A j \in DOMAIN t : \E i \in 1..k : t[j] = s[i]
    /\ Unique(t)

\* deleteContest keeps contests of the list, each once.
LEMMA WithoutIsPart ==
    ASSUME NEW s \in Seq(ContestT), Unique(s), NEW id
    PROVE  Part(s, Len(s), Without(s, id))
<1>1. Len(s) \in Nat /\ DOMAIN s = 1..Len(s)
  BY LenProperties
<1> DEFINE f == CHOOSE g : Filters(s, id, Len(s), g)
<1>2. Filters(s, id, Len(s), f)
  BY <1>1, FilterExists
<1>3. Without(s, id) = f[Len(s)]
  BY DEF Without, Filters
<1> HIDE DEF f
<1> DEFINE Bad == {k \in 0..Len(s) : ~Part(s, k, f[k])}
<1>4. ASSUME Bad # {} PROVE FALSE
  <2>1. PICK k \in Bad : \A y \in Bad : k <= y
    <3>1. Bad \in SUBSET Nat
      BY <1>1
    <3> HIDE DEF Bad
    <3> QED BY <1>4, <3>1, LeastNumber
  <2>2. k \in 0..Len(s) /\ ~Part(s, k, f[k])
    OBVIOUS
  <2>3. f[k] = IF k = 0 THEN <<>>
               ELSE IF s[k].id = id THEN f[k - 1] ELSE Append(f[k - 1], s[k])
    BY <1>2, <2>2 DEF Filters
  <2>4. k # 0
    <3>1. Part(s, 0, <<>>)
      BY EmptySeq DEF Part, Unique
    <3> QED BY <2>2, <2>3, <3>1
  <2>5. k - 1 \in 0..Len(s) /\ k \in 1..Len(s) /\ ~(k <= k - 1)
    BY <1>1, <2>2, <2>4
  <2>6. Part(s, k - 1, f[k - 1])
    BY <2>1, <2>5
  <2>7. \A i \in 1..(k - 1) : i \in 1..k /\ i # k /\ i \in DOMAIN s
    BY <1>1, <2>5
  <2>8. CASE s[k].id = id
    <3>1. f[k] = f[k - 1]
      BY <2>3, <2>4, <2>8
    <3>2. Part(s, k, f[k - 1])
      BY <2>6, <2>7 DEF Part
    <3> QED BY <2>2, <3>1, <3>2
  <2>9. CASE s[k].id # id
    <3> DEFINE t == f[k - 1]
    <3> HIDE DEF t
    <3>1. t \in Seq(ContestT) /\ Part(s, k - 1, t)
      BY <2>6 DEF Part, t
    <3>2. s[k] \in ContestT
      BY <1>1, <2>5, ElementOfSeq
    <3>3. /\ Append(t, s[k]) \in Seq(ContestT)
          /\ Len(t) \in Nat /\ DOMAIN t = 1..Len(t)
          /\ DOMAIN Append(t, s[k]) = 1..(Len(t) + 1)
          /\ \A j \in 1..Len(t) : Append(t, s[k])[j] = t[j]
          /\ Append(t, s[k])[Len(t) + 1] = s[k]
      BY <3>1, <3>2, AppendProperties, LenProperties
    <3>4. \A j \in DOMAIN t : t[j].id # s[k].id
      BY <1>1, <2>5, <2>7, <3>1 DEF Part, Unique
    <3> DEFINE a == Append(t, s[k])
    <3> HIDE DEF a
    <3>5. \A j \in DOMAIN a : (j \in DOMAIN t /\ a[j] = t[j]) \/ (j = Len(t) + 1 /\ a[j] = s[k])
      BY <3>3 DEF a
    <3>6. \A j \in DOMAIN a : \E i \in 1..k : a[j] = s[i]
      BY <2>5, <2>7, <3>1, <3>5 DEF Part
    <3>7. Unique(a)
      BY <3>1, <3>4, <3>5 DEF Part, Unique
    <3>8. Part(s, k, a)
      BY <3>3, <3>6, <3>7 DEF Part, a
    <3>9. f[k] = a
      BY <2>3, <2>4, <2>9 DEF a, t
    <3> QED BY <2>2, <3>8, <3>9
  <2> QED BY <2>8, <2>9
<1> QED BY <1>1, <1>3, <1>4

---------------------------------------------------------------------------
(* Changes that leave the list as it is but for references and round ids. *)

\* Rounds with the same marks, and no id lost.
LikeRounds(r, q) ==
    /\ DOMAIN q = DOMAIN r /\ Len(q) = Len(r)
    /\ \A i \in DOMAIN r : q[i].data = r[i].data /\ (r[i].id # 0 => q[i].id # 0)

Like(s, t) ==
    /\ DOMAIN t = DOMAIN s
    /\ \A k \in DOMAIN s : t[k].id = s[k].id /\ LikeRounds(s[k].rounds, t[k].rounds)

LEMMA LikeIsOK ==
    ASSUME NEW s, NEW c, ListOK(s, c), NEW t \in Seq(ContestT), Like(s, t)
    PROVE  ListOK(t, c)
<1>1. Unique(t)
  BY DEF ListOK, Unique, Like
<1>2. \A o \in Saves : c[o].pc \in {"idle", "post"} => Lacks(t, ServerId(o))
  BY DEF ListOK, Lacks, Like
<1>3. ASSUME NEW k \in DOMAIN t, t[k].id \notin Demos
      PROVE  Len(t[k].rounds) <= MaxRounds /\ Known(t[k].rounds)
  <2>1. /\ k \in DOMAIN s /\ s[k].id \notin Demos
        /\ LikeRounds(s[k].rounds, t[k].rounds)
    BY <1>3 DEF Like
  <2>2. Len(s[k].rounds) <= MaxRounds /\ Known(s[k].rounds)
    BY <2>1 DEF ListOK
  <2> QED BY <2>1, <2>2 DEF LikeRounds, Known
<1> QED BY <1>1, <1>2, <1>3 DEF ListOK

\* A contest changed into d, which differs only in what LikeRounds allows, in
\* status, in members and in the reference.
LikeContest(c, d) ==
    d \in ContestT /\ d.id = c.id /\ LikeRounds(c.rounds, d.rounds)

LEMMA MapIsLike ==
    ASSUME NEW m \in StateT, NEW f, DOMAIN f = DOMAIN m.contests,
           f = [k \in DOMAIN f |-> f[k]],
           \A k \in DOMAIN m.contests : LikeContest(m.contests[k], f[k])
    PROVE  /\ [m EXCEPT !.contests = f] \in StateT
           /\ f \in Seq(ContestT)
           /\ Like(m.contests, f)
<1>1. m.contests \in Seq(ContestT)
  BY DEF StateT
<1>2. f \in Seq(ContestT)
  BY <1>1, MapIsSeq DEF LikeContest
<1>3. Like(m.contests, f)
  BY DEF Like, LikeContest
<1> QED BY <1>2, <1>3 DEF StateT

\* Rounds with another reference, or another id that is not empty.
LEMMA RoundsChange ==
    ASSUME NEW r \in Seq(RoundT), NEW q, DOMAIN q = DOMAIN r,
           q = [i \in DOMAIN q |-> q[i]],
           \A i \in DOMAIN r : /\ q[i] \in RoundT /\ q[i].data = r[i].data
                               /\ r[i].id # 0 => q[i].id # 0
    PROVE  q \in Seq(RoundT) /\ LikeRounds(r, q)
<1>1. q \in Seq(RoundT) /\ Len(q) = Len(r)
  BY MapIsSeq
<1> QED BY <1>1 DEF LikeRounds

LEMMA ContestFields ==
    ASSUME NEW c \in ContestT
    PROVE  /\ c.id \in ContestIds /\ c.status \in Statuses
           /\ c.joined \in SUBSET (0..MaxRegs)
           /\ c.rounds \in Seq(RoundT) /\ c.by \in 0..MaxSaves
           /\ \A i \in DOMAIN c.rounds : c.rounds[i] \in RoundT
<1>1. c.rounds \in Seq(RoundT)
  BY DEF ContestT
<1>2. \A i \in DOMAIN c.rounds : c.rounds[i] \in RoundT
  BY <1>1, ElementOfSeq, LenProperties
<1> QED BY <1>1, <1>2 DEF ContestT

LEMMA RoundFields ==
    ASSUME NEW r \in RoundT, NEW b \in 0..MaxSaves
    PROVE  /\ r.id \in 0..MaxSaves /\ r.live \in Flags /\ r.data \in Marks
           /\ r.by \in 0..MaxSaves
           /\ [r EXCEPT !.by = b] \in RoundT
           /\ [r EXCEPT !.id = b] \in RoundT
           /\ [r EXCEPT !.live = TRUE] \in RoundT
           /\ [r EXCEPT !.by = b].data = r.data /\ [r EXCEPT !.by = b].id = r.id
           /\ [r EXCEPT !.by = b].live = r.live /\ [r EXCEPT !.by = b].by = b
           /\ [r EXCEPT !.id = b].data = r.data /\ [r EXCEPT !.id = b].id = b
           /\ [r EXCEPT !.id = b].live = r.live /\ [r EXCEPT !.id = b].by = r.by
           /\ [r EXCEPT !.live = TRUE].data = r.data /\ [r EXCEPT !.live = TRUE].id = r.id
<1>1. TRUE \in Flags
  BY DEF Flags
<1> QED BY <1>1 DEF RoundT

LEMMA WrittenIsBare ==
    ASSUME NEW m
    PROVE  Written(m) = [m EXCEPT !.contests = [k \in DOMAIN m.contests |-> Bare(m.contests[k])]]
BY DEF Written

LEMMA BareIsLike ==
    ASSUME NEW c \in ContestT
    PROVE  /\ LikeContest(c, Bare(c))
           /\ Bare(c).by = 0 /\ Bare(c).status = c.status /\ Bare(c).joined = c.joined
           /\ Bare(c).id = c.id
           /\ Bare(c).rounds = [i \in DOMAIN c.rounds |-> [c.rounds[i] EXCEPT !.by = 0]]
<1> DEFINE q == [i \in DOMAIN c.rounds |-> [c.rounds[i] EXCEPT !.by = 0]]
<1>1. c.rounds \in Seq(RoundT) /\ \A i \in DOMAIN c.rounds : c.rounds[i] \in RoundT
  BY ContestFields
<1>2. 0 \in 0..MaxSaves
  BY StoreAssumption
<1>3. q \in Seq(RoundT) /\ LikeRounds(c.rounds, q)
  <2>1. \A i \in DOMAIN c.rounds : /\ q[i] \in RoundT /\ q[i].data = c.rounds[i].data
                                   /\ q[i].id = c.rounds[i].id
    BY <1>1, <1>2, RoundFields
  <2>2. DOMAIN q = DOMAIN c.rounds /\ q = [i \in DOMAIN q |-> q[i]]
    OBVIOUS
  <2> HIDE DEF q
  <2> QED BY <1>1, <2>1, <2>2, RoundsChange
<1>4. Bare(c) = [c EXCEPT !.by = 0, !.rounds = q]
  BY DEF Bare
<1> HIDE DEF q
<1>5. Bare(c) \in ContestT /\ Bare(c).id = c.id /\ Bare(c).by = 0 /\ Bare(c).rounds = q
      /\ Bare(c).status = c.status /\ Bare(c).joined = c.joined
  BY <1>2, <1>3, <1>4 DEF ContestT
<1> QED BY <1>3, <1>5 DEF LikeContest, q

LEMMA ListFields ==
    ASSUME NEW m \in StateT
    PROVE  /\ m.contests \in Seq(ContestT)
           /\ Len(m.contests) \in Nat /\ DOMAIN m.contests = 1..Len(m.contests)
           /\ \A k \in DOMAIN m.contests : m.contests[k] \in ContestT
<1>1. m.contests \in Seq(ContestT)
  BY DEF StateT
<1> QED BY <1>1, ElementOfSeq, LenProperties

\* What _save writes is as sound as what is in memory, and holds no reference.
LEMMA WrittenIsOK ==
    ASSUME NEW m \in StateT, NEW c, ListOK(m.contests, c)
    PROVE  /\ Written(m) \in StateT
           /\ ListOK(Written(m).contests, c) /\ BareOK(Written(m).contests)
<1> DEFINE f == [k \in DOMAIN m.contests |-> Bare(m.contests[k])]
<1>1. Written(m) = [m EXCEPT !.contests = f]
  BY WrittenIsBare
<1>2. \A k \in DOMAIN m.contests : LikeContest(m.contests[k], f[k]) /\ f[k].by = 0
  BY ListFields, BareIsLike
<1>3. DOMAIN f = DOMAIN m.contests /\ f = [k \in DOMAIN f |-> f[k]]
  OBVIOUS
<1> HIDE DEF f
<1>4. Written(m) \in StateT /\ f \in Seq(ContestT) /\ Like(m.contests, f)
  BY <1>1, <1>2, <1>3, MapIsLike
<1>5. Written(m).contests = f
  BY <1>1 DEF StateT
<1>6. BareOK(f)
  BY <1>2, <1>3 DEF BareOK
<1> QED BY <1>4, <1>5, <1>6, LikeIsOK

\* References that a call drops.
LEMMA DroppedIsLike ==
    ASSUME NEW c \in ContestT, NEW o
    PROVE  /\ LikeContest(c, Dropped(c, o))
           /\ Dropped(c, o).by = (IF c.by = o THEN 0 ELSE c.by)
           /\ Dropped(c, o).status = c.status /\ Dropped(c, o).joined = c.joined
           /\ Dropped(c, o).id = c.id
           /\ Dropped(c, o).rounds =
                [i \in DOMAIN c.rounds |->
                    IF c.rounds[i].by = o THEN [c.rounds[i] EXCEPT !.by = 0] ELSE c.rounds[i]]
<1> DEFINE q == [i \in DOMAIN c.rounds |->
                    IF c.rounds[i].by = o THEN [c.rounds[i] EXCEPT !.by = 0] ELSE c.rounds[i]]
           b == IF c.by = o THEN 0 ELSE c.by
<1>1. c.rounds \in Seq(RoundT) /\ \A i \in DOMAIN c.rounds : c.rounds[i] \in RoundT
  BY ContestFields
<1>2. 0 \in 0..MaxSaves /\ b \in 0..MaxSaves
  BY StoreAssumption, ContestFields
<1>3. q \in Seq(RoundT) /\ LikeRounds(c.rounds, q)
  <2>1. \A i \in DOMAIN c.rounds : /\ q[i] \in RoundT /\ q[i].data = c.rounds[i].data
                                   /\ q[i].id = c.rounds[i].id
    BY <1>1, <1>2, RoundFields
  <2>2. DOMAIN q = DOMAIN c.rounds /\ q = [i \in DOMAIN q |-> q[i]]
    OBVIOUS
  <2> HIDE DEF q
  <2> QED BY <1>1, <2>1, <2>2, RoundsChange
<1>4. Dropped(c, o) = [c EXCEPT !.by = b, !.rounds = q]
  BY DEF Dropped
<1> HIDE DEF q, b
<1>5. /\ Dropped(c, o) \in ContestT /\ Dropped(c, o).id = c.id /\ Dropped(c, o).by = b
      /\ Dropped(c, o).rounds = q
      /\ Dropped(c, o).status = c.status /\ Dropped(c, o).joined = c.joined
  BY <1>2, <1>3, <1>4 DEF ContestT
<1> QED BY <1>3, <1>5 DEF LikeContest, q, b

LEMMA ReleasedIsOK ==
    ASSUME NEW m \in StateT, NEW o, NEW c, ListOK(m.contests, c)
    PROVE  /\ Released(m, o) \in StateT
           /\ Released(m, o).contests = [k \in DOMAIN m.contests |-> Dropped(m.contests[k], o)]
           /\ Like(m.contests, Released(m, o).contests)
           /\ ListOK(Released(m, o).contests, c)
<1> DEFINE f == [k \in DOMAIN m.contests |-> Dropped(m.contests[k], o)]
<1>1. Released(m, o) = [m EXCEPT !.contests = f]
  BY DEF Released
<1>2. \A k \in DOMAIN m.contests : LikeContest(m.contests[k], f[k])
  BY ListFields, DroppedIsLike
<1>3. DOMAIN f = DOMAIN m.contests /\ f = [k \in DOMAIN f |-> f[k]]
  OBVIOUS
<1> HIDE DEF f
<1>4. Released(m, o) \in StateT /\ f \in Seq(ContestT) /\ Like(m.contests, f)
  BY <1>1, <1>2, <1>3, MapIsLike
<1>5. Released(m, o).contests = f
  BY <1>1 DEF StateT
<1> QED BY <1>4, <1>5, LikeIsOK DEF f

\* A call that lets go of its contest may end.
LEMMA ReleasedIsHeld ==
    ASSUME NEW m \in StateT, NEW o \in Saves, NEW c, NEW d, HeldOK(m.contests, c),
           ListOK(m.contests, c), \A p \in Saves \ {o} : d[p] = c[p]
    PROVE  HeldOK(Released(m, o).contests, d)
<1> DEFINE s == m.contests
           t == Released(m, o).contests
<1>1. t = [k \in DOMAIN s |-> Dropped(s[k], o)] /\ Like(s, t)
  BY ReleasedIsOK
<1> HIDE DEF t
<1>2. \A k \in DOMAIN s : s[k] \in ContestT /\ s[k].by \in 0..MaxSaves
  BY ListFields, ContestFields
<1>3. ASSUME NEW k \in DOMAIN t, t[k].by # 0
      PROVE  /\ d[t[k].by].pc \in Busy /\ t[k].id = d[t[k].by].id
             /\ d[t[k].by].pc = "posted" => Lacks(t, ServerId(t[k].by))
  <2>1. k \in DOMAIN s /\ t[k] = Dropped(s[k], o)
    BY <1>1
  <2>2. s[k].by # o /\ t[k].by = s[k].by /\ t[k].id = s[k].id
    <3>1. s[k] \in ContestT
      BY <1>2, <2>1
    <3>2. /\ Dropped(s[k], o).by = (IF s[k].by = o THEN 0 ELSE s[k].by)
          /\ Dropped(s[k], o).id = s[k].id
      BY <3>1, DroppedIsLike
    <3> QED BY <1>3, <2>1, <3>2
  <2>3. s[k].by \in Saves \ {o}
    BY <1>2, <1>3, <2>1, <2>2, StoreAssumption DEF Saves
  <2>4. d[t[k].by] = c[s[k].by]
    BY <2>2, <2>3
  <2>5. /\ c[s[k].by].pc \in Busy /\ s[k].id = c[s[k].by].id
        /\ c[s[k].by].pc = "posted" => Lacks(s, ServerId(s[k].by))
    BY <1>3, <2>1, <2>2 DEF HeldOK
  <2>6. Lacks(s, ServerId(s[k].by)) => Lacks(t, ServerId(t[k].by))
    BY <1>1, <2>2 DEF Lacks, Like
  <2> QED BY <2>2, <2>4, <2>5, <2>6
<1> QED BY <1>3 DEF HeldOK, t

\* The name the server gave to round i of call o.
Numbered(c, o, i) ==
    IF i \in DOMAIN c.rounds /\ c.rounds[i].by = o
    THEN [c EXCEPT !.rounds[i].id = o] ELSE c

LEMMA NumberedIsLike ==
    ASSUME NEW c \in ContestT, NEW o \in Saves, NEW i
    PROVE  /\ LikeContest(c, Numbered(c, o, i))
           /\ Numbered(c, o, i).by = c.by
           /\ Numbered(c, o, i).status = c.status /\ Numbered(c, o, i).joined = c.joined
           /\ DOMAIN Numbered(c, o, i).rounds = DOMAIN c.rounds
           /\ \A j \in DOMAIN c.rounds :
                /\ Numbered(c, o, i).rounds[j].live = c.rounds[j].live
                /\ Numbered(c, o, i).rounds[j].data = c.rounds[j].data
<1>1. /\ c.rounds \in Seq(RoundT) /\ \A j \in DOMAIN c.rounds : c.rounds[j] \in RoundT
  BY ContestFields
<1>2. o \in 0..MaxSaves /\ o # 0
  BY StoreAssumption DEF Saves
<1>3. CASE ~(i \in DOMAIN c.rounds /\ c.rounds[i].by = o)
  <2>1. Numbered(c, o, i) = c
    BY <1>3 DEF Numbered
  <2>2. LikeContest(c, c)
    BY DEF LikeContest, LikeRounds
  <2> QED BY <2>1, <2>2
<1>4. CASE i \in DOMAIN c.rounds /\ c.rounds[i].by = o
  <2> DEFINE r == [c.rounds[i] EXCEPT !.id = o]
             q == [c.rounds EXCEPT ![i] = r]
  <2>1. Numbered(c, o, i) = [c EXCEPT !.rounds = q]
    BY <1>4 DEF Numbered, ContestT
  <2>2. r \in RoundT /\ r.id = o /\ r.data = c.rounds[i].data /\ r.live = c.rounds[i].live
    BY <1>1, <1>2, <1>4, RoundFields
  <2> HIDE DEF r
  <2>3. /\ DOMAIN q = DOMAIN c.rounds /\ q = [j \in DOMAIN q |-> q[j]]
        /\ \A j \in DOMAIN c.rounds : q[j] = IF j = i THEN r ELSE c.rounds[j]
    OBVIOUS
  <2> HIDE DEF q
  <2>4. \A j \in DOMAIN c.rounds : /\ q[j] \in RoundT /\ q[j].data = c.rounds[j].data
                                   /\ q[j].live = c.rounds[j].live
                                   /\ c.rounds[j].id # 0 => q[j].id # 0
    BY <1>1, <1>2, <1>4, <2>2, <2>3
  <2>5. q \in Seq(RoundT) /\ LikeRounds(c.rounds, q)
    BY <1>1, <2>3, <2>4, RoundsChange
  <2>6. /\ Numbered(c, o, i) \in ContestT /\ Numbered(c, o, i).id = c.id
        /\ Numbered(c, o, i).by = c.by /\ Numbered(c, o, i).rounds = q
        /\ Numbered(c, o, i).status = c.status /\ Numbered(c, o, i).joined = c.joined
    BY <2>1, <2>5 DEF ContestT
  <2> QED BY <2>3, <2>4, <2>5, <2>6 DEF LikeContest
<1> QED BY <1>3, <1>4

LEMMA RoundNamedIsOK ==
    ASSUME NEW m \in StateT, NEW o \in Saves, NEW i, NEW c, ListOK(m.contests, c)
    PROVE  /\ RoundNamed(m, o, i) \in StateT
           /\ RoundNamed(m, o, i).contests
                = [k \in DOMAIN m.contests |-> Numbered(m.contests[k], o, i)]
           /\ Like(m.contests, RoundNamed(m, o, i).contests)
           /\ ListOK(RoundNamed(m, o, i).contests, c)
           /\ HeldOK(m.contests, c) => HeldOK(RoundNamed(m, o, i).contests, c)
<1> DEFINE f == [k \in DOMAIN m.contests |-> Numbered(m.contests[k], o, i)]
<1>1. RoundNamed(m, o, i) = [m EXCEPT !.contests = f]
  BY DEF RoundNamed, Numbered
<1>2. \A k \in DOMAIN m.contests : LikeContest(m.contests[k], f[k]) /\ f[k].by = m.contests[k].by
  BY ListFields, NumberedIsLike
<1>3. DOMAIN f = DOMAIN m.contests /\ f = [k \in DOMAIN f |-> f[k]]
  OBVIOUS
<1> HIDE DEF f
<1>4. RoundNamed(m, o, i) \in StateT /\ f \in Seq(ContestT) /\ Like(m.contests, f)
  BY <1>1, <1>2, <1>3, MapIsLike
<1>5. RoundNamed(m, o, i).contests = f
  BY <1>1 DEF StateT
<1>6. HeldOK(m.contests, c) => HeldOK(f, c)
  BY <1>2, <1>3 DEF HeldOK, LikeContest, Lacks
<1> QED BY <1>4, <1>5, <1>6, LikeIsOK DEF f

\* contest.id = d.id: while no other contest has that id.
Named(c, o) == IF c.by = o THEN [c EXCEPT !.id = ServerId(o)] ELSE c

LEMMA ServerIds ==
    ASSUME NEW o \in Saves
    PROVE  /\ ServerId(o) \in ContestIds /\ ServerId(o) # None
           /\ ServerId(o) \notin Demos /\ ServerId(o) # <<"seed", 0>>
           /\ \A p \in Saves : ServerId(o) = ServerId(p) => o = p
           /\ \A p : ServerId(o) # <<"local", p>> /\ ServerId(o) # <<"extra", p>>
<1>1. ServerId(o) \in ContestIds
  BY DEF ServerId, ContestIds
<1> QED BY <1>1 DEF ServerId, None, Demos

LEMMA RenamedIsOK ==
    ASSUME NEW m \in StateT, NEW o \in Saves, NEW c, NEW d, CallOK(c),
           ListOK(m.contests, c), HeldOK(m.contests, c), c[o].pc = "posted",
           \A p \in Saves \ {o} : d[p] = c[p], d[o].pc = "rounds", d[o].id = ServerId(o)
    PROVE  /\ Renamed(m, o) \in StateT
           /\ ListOK(Renamed(m, o).contests, d) /\ HeldOK(Renamed(m, o).contests, d)
<1> DEFINE s == m.contests
           t == [k \in DOMAIN s |-> Named(s[k], o)]
<1>1. Renamed(m, o) = [m EXCEPT !.contests = t]
  BY DEF Renamed, Named, ServerId
<1>2. \A k \in DOMAIN s : s[k] \in ContestT
  BY ListFields
<1>3. /\ DOMAIN t = DOMAIN s /\ t = [k \in DOMAIN t |-> t[k]]
      /\ \A k \in DOMAIN s : t[k] = Named(s[k], o)
  OBVIOUS
<1> HIDE DEF t
<1>4. ASSUME NEW k \in DOMAIN s
      PROVE  /\ t[k] \in ContestT /\ t[k].by = s[k].by /\ t[k].rounds = s[k].rounds
             /\ t[k].id = IF s[k].by = o THEN ServerId(o) ELSE s[k].id
  <2>1. CASE s[k].by = o
    <3>1. t[k] = [s[k] EXCEPT !.id = ServerId(o)]
      BY <1>3, <2>1 DEF Named
    <3> QED BY <1>2, <2>1, <3>1, ServerIds DEF ContestT
  <2>2. CASE s[k].by # o
    <3>1. t[k] = s[k]
      BY <1>3, <2>2 DEF Named
    <3> QED BY <1>2, <2>2, <3>1
  <2> QED BY <2>1, <2>2
<1>5. s \in Seq(ContestT)
  BY ListFields
<1>6. t \in Seq(ContestT)
  BY <1>3, <1>4, <1>5, MapIsSeq
<1>7. Renamed(m, o) \in StateT /\ Renamed(m, o).contests = t
  BY <1>1, <1>6 DEF StateT
<1>8. o # 0
  BY DEF Saves
<1>9. \A k \in DOMAIN s : s[k].by = o =>
          s[k].id = c[o].id /\ c[o].id \notin Demos /\ Lacks(s, ServerId(o))
  BY <1>8 DEF HeldOK, CallOK
<1>10. Unique(t)
  <2> SUFFICES ASSUME NEW j \in DOMAIN s, NEW k \in DOMAIN s, t[j].id = t[k].id PROVE j = k
    BY <1>3 DEF Unique
  <2>1. s[j].id = s[k].id
    BY <1>4, <1>9 DEF Lacks
  <2> QED BY <2>1 DEF ListOK, Unique
<1>11. ASSUME NEW p \in Saves, d[p].pc \in {"idle", "post"} PROVE Lacks(t, ServerId(p))
  <2>1. p # o /\ c[p].pc \in {"idle", "post"}
    BY <1>11
  <2>2. Lacks(s, ServerId(p))
    BY <2>1 DEF ListOK
  <2> QED BY <1>3, <1>4, <2>1, <2>2, ServerIds DEF Lacks
<1>12. \A k \in DOMAIN t : t[k].id \notin Demos =>
           Len(t[k].rounds) <= MaxRounds /\ Known(t[k].rounds)
  BY <1>3, <1>4, <1>9 DEF ListOK
<1>13. ListOK(t, d)
  BY <1>6, <1>10, <1>11, <1>12 DEF ListOK
<1>14. ASSUME NEW k \in DOMAIN t, t[k].by # 0
       PROVE  /\ d[t[k].by].pc \in Busy /\ t[k].id = d[t[k].by].id
              /\ d[t[k].by].pc = "posted" => Lacks(t, ServerId(t[k].by))
  <2>1. k \in DOMAIN s /\ t[k].by = s[k].by
    BY <1>3, <1>4
  <2>2. CASE s[k].by = o
    BY <1>4, <2>1, <2>2 DEF Busy
  <2>3. CASE s[k].by # o
    <3>1. s[k].by \in Saves \ {o}
      BY <1>2, <1>14, <2>1, <2>3, ContestFields, StoreAssumption DEF Saves
    <3>2. /\ c[s[k].by].pc \in Busy /\ s[k].id = c[s[k].by].id
          /\ c[s[k].by].pc = "posted" => Lacks(s, ServerId(s[k].by))
      BY <1>14, <2>1 DEF HeldOK
    <3>3. Lacks(s, ServerId(s[k].by)) => Lacks(t, ServerId(s[k].by))
      BY <1>3, <1>4, <3>1, ServerIds DEF Lacks
    <3>4. d[s[k].by] = c[s[k].by] /\ t[k].id = s[k].id
      BY <1>4, <2>1, <2>3, <3>1
    <3> QED BY <2>1, <3>2, <3>3, <3>4
  <2> QED BY <2>2, <2>3
<1>15. HeldOK(t, d)
  BY <1>14 DEF HeldOK
<1> QED BY <1>7, <1>13, <1>15

\* Changes that only take references away.
LEMMA LikeIsHeld ==
    ASSUME NEW s, NEW t, NEW c, Like(s, t), HeldOK(s, c),
           \A k \in DOMAIN s : t[k].by \in {0, s[k].by}
    PROVE  HeldOK(t, c)
BY DEF HeldOK, Like, Lacks

\* One contest is changed where it stands.
LEMMA OneChanged ==
    ASSUME NEW m \in StateT, NEW k \in DOMAIN m.contests, NEW d, NEW c,
           LikeContest(m.contests[k], d), d.by \in {0, m.contests[k].by},
           ListOK(m.contests, c), HeldOK(m.contests, c)
    PROVE  LET t == [m.contests EXCEPT ![k] = d] IN
           t \in Seq(ContestT) /\ ListOK(t, c) /\ HeldOK(t, c)
<1> DEFINE s == m.contests
           t == [s EXCEPT ![k] = d]
<1>1. /\ DOMAIN t = DOMAIN s /\ t = [j \in DOMAIN t |-> t[j]]
      /\ \A j \in DOMAIN s : t[j] = IF j = k THEN d ELSE s[j]
  OBVIOUS
<1> HIDE DEF t
<1>2. \A j \in DOMAIN s : s[j] \in ContestT
  BY ListFields
<1>3. \A j \in DOMAIN s : LikeContest(s[j], t[j]) /\ t[j].by \in {0, s[j].by}
  <2>1. \A j \in DOMAIN s : LikeContest(s[j], s[j])
    BY <1>2 DEF LikeContest, LikeRounds
  <2> QED BY <1>1, <2>1
<1>4. t \in Seq(ContestT) /\ Like(s, t)
  BY <1>1, <1>3, MapIsLike
<1>5. ListOK(t, c) /\ HeldOK(t, c)
  BY <1>3, <1>4, LikeIsOK, LikeIsHeld
<1> QED BY <1>4, <1>5 DEF t

\* updateContest.
LEMMA UpdatedIsOK ==
    ASSUME NEW m \in StateT, NEW id, NEW d, NEW c, Listed(m, id),
           LikeContest(m.contests[IndexOf(m, id)], d),
           ListOK(m.contests, c), HeldOK(m.contests, c)
    PROVE  /\ Updated(m, d) \in StateT
           /\ ListOK(Updated(m, d).contests, c) /\ HeldOK(Updated(m, d).contests, c)
<1> DEFINE k == IndexOf(m, id)
           e == [d EXCEPT !.by = 0]
           t == [m.contests EXCEPT ![k] = e]
<1>1. k \in DOMAIN m.contests /\ m.contests[k].id = id
  BY ListFields, IndexIsFirst
<1>2. d \in ContestT /\ d.id = id
  BY <1>1 DEF LikeContest
<1>3. /\ e \in ContestT /\ e.by = 0 /\ e.id = id /\ e.rounds = d.rounds
  BY <1>2, StoreAssumption DEF ContestT
<1>4. LikeContest(m.contests[k], e) /\ e.by = 0
  BY <1>1, <1>3 DEF LikeContest
<1>5. Updated(m, d) = [m EXCEPT !.contests = t]
  BY <1>2 DEF Updated, StateT
<1> HIDE DEF e, k
<1>6. t \in Seq(ContestT) /\ ListOK(t, c) /\ HeldOK(t, c)
  BY <1>1, <1>4, OneChanged
<1> HIDE DEF t
<1> QED BY <1>5, <1>6 DEF StateT

\* deleteContest.
LEMMA WithoutIsOK ==
    ASSUME NEW m \in StateT, NEW id, NEW c, ListOK(m.contests, c), HeldOK(m.contests, c)
    PROVE  LET t == Without(m.contests, id) IN
           t \in Seq(ContestT) /\ ListOK(t, c) /\ HeldOK(t, c)
<1> DEFINE s == m.contests
           t == Without(s, id)
<1>1. s \in Seq(ContestT) /\ DOMAIN s = 1..Len(s) /\ Unique(s)
  BY ListFields DEF ListOK
<1>2. Part(s, Len(s), t)
  BY <1>1, WithoutIsPart
<1> HIDE DEF t
<1>3. t \in Seq(ContestT) /\ Unique(t) /\ \A j \in DOMAIN t : \E i \in DOMAIN s : t[j] = s[i]
  BY <1>1, <1>2 DEF Part
<1>4. \A x : Lacks(s, x) => Lacks(t, x)
  BY <1>3 DEF Lacks
<1>5. \A k \in DOMAIN t : t[k].id \notin Demos =>
          Len(t[k].rounds) <= MaxRounds /\ Known(t[k].rounds)
  BY <1>3 DEF ListOK
<1>6. ListOK(t, c)
  BY <1>3, <1>4, <1>5 DEF ListOK
<1>7. HeldOK(t, c)
  BY <1>3, <1>4 DEF HeldOK
<1> QED BY <1>3, <1>6, <1>7 DEF t

\* createContest puts a contest it holds into the list: call o was idle in c
\* and waits for its POST in d.
LEMMA PutIsOK ==
    ASSUME NEW s \in Seq(ContestT), NEW x \in ContestT, NEW o \in Saves, NEW c, NEW d,
           ListOK(s, c), HeldOK(s, c), c[o].pc = "idle",
           \A p \in Saves \ {o} : d[p] = c[p], d[o].pc = "post", d[o].id = x.id,
           x.by = o, Len(x.rounds) <= MaxRounds, Known(x.rounds),
           \A p \in Saves : d[p].pc \in {"idle", "post", "posted"} => x.id # ServerId(p)
    PROVE  Put(s, x) \in Seq(ContestT) /\ ListOK(Put(s, x), d) /\ HeldOK(Put(s, x), d)
<1> DEFINE t == Put(s, x)
<1>1. \/ t = Append(s, x) /\ Lacks(s, x.id)
      \/ \E k \in DOMAIN s : s[k].id = x.id /\ t = [s EXCEPT ![k] = x]
  BY PutCases
<1> HIDE DEF t
<1>2. Len(s) \in Nat /\ DOMAIN s = 1..Len(s) /\ \A k \in DOMAIN s : s[k] \in ContestT
  BY LenProperties, ElementOfSeq
<1>3. /\ t \in Seq(ContestT) /\ Unique(t)
      /\ \A k \in DOMAIN t : t[k] = x \/ (k \in DOMAIN s /\ t[k] = s[k])
  <2>1. CASE t = Append(s, x) /\ Lacks(s, x.id)
    <3>1. /\ t \in Seq(ContestT) /\ DOMAIN t = 1..(Len(s) + 1)
          /\ \A k \in 1..Len(s) : t[k] = s[k]
          /\ t[Len(s) + 1] = x
      BY <2>1, AppendProperties, LenProperties
    <3>2. \A k \in DOMAIN t : (k = Len(s) + 1 /\ t[k] = x) \/ (k \in DOMAIN s /\ t[k] = s[k])
      BY <1>2, <3>1
    <3>3. Unique(t)
      BY <2>1, <3>2 DEF Unique, Lacks, ListOK
    <3> QED BY <3>1, <3>2, <3>3
  <2>2. ASSUME NEW k \in DOMAIN s, s[k].id = x.id, t = [s EXCEPT ![k] = x]
        PROVE  /\ t \in Seq(ContestT) /\ Unique(t)
               /\ \A j \in DOMAIN t : t[j] = x \/ (j \in DOMAIN s /\ t[j] = s[j])
    <3>1. /\ DOMAIN t = DOMAIN s /\ t = [j \in DOMAIN t |-> t[j]]
          /\ \A j \in DOMAIN s : t[j] = IF j = k THEN x ELSE s[j]
      BY <2>2
    <3>2. \A j \in DOMAIN s : t[j] \in ContestT /\ t[j].id = s[j].id
      BY <1>2, <2>2, <3>1
    <3>3. t \in Seq(ContestT)
      BY <3>1, <3>2, MapIsSeq
    <3>4. Unique(t)
      BY <3>1, <3>2 DEF Unique, ListOK
    <3> QED BY <3>1, <3>3, <3>4
  <2> QED BY <1>1, <2>1, <2>2
<1>4. ASSUME NEW p \in Saves, d[p].pc \in {"idle", "post"} PROVE Lacks(t, ServerId(p))
  <2>1. c[p].pc \in {"idle", "post"}
    BY <1>4
  <2>2. Lacks(s, ServerId(p)) /\ x.id # ServerId(p)
    BY <1>4, <2>1 DEF ListOK
  <2> QED BY <1>3, <2>2 DEF Lacks
<1>5. \A k \in DOMAIN t : t[k].id \notin Demos =>
          Len(t[k].rounds) <= MaxRounds /\ Known(t[k].rounds)
  BY <1>3 DEF ListOK
<1>6. ListOK(t, d)
  BY <1>3, <1>4, <1>5 DEF ListOK
<1>7. ASSUME NEW k \in DOMAIN t, t[k].by # 0
      PROVE  /\ d[t[k].by].pc \in Busy /\ t[k].id = d[t[k].by].id
             /\ d[t[k].by].pc = "posted" => Lacks(t, ServerId(t[k].by))
  <2>1. CASE t[k] = x
    BY <2>1 DEF Busy
  <2>2. CASE k \in DOMAIN s /\ t[k] = s[k]
    <3>1. /\ c[s[k].by].pc \in Busy /\ s[k].id = c[s[k].by].id
          /\ c[s[k].by].pc = "posted" => Lacks(s, ServerId(s[k].by))
      BY <1>7, <2>2 DEF HeldOK
    <3>2. s[k].by \in Saves /\ s[k].by # o
      BY <1>2, <1>7, <2>2, <3>1, ContestFields, StoreAssumption DEF Saves, Busy
    <3>3. d[s[k].by] = c[s[k].by]
      BY <3>2
    <3>4. d[s[k].by].pc = "posted" /\ Lacks(s, ServerId(s[k].by)) => Lacks(t, ServerId(s[k].by))
      BY <1>3, <3>2 DEF Lacks
    <3> QED BY <2>2, <3>1, <3>3, <3>4
  <2> QED BY <1>3, <2>1, <2>2
<1>8. HeldOK(t, d)
  BY <1>7 DEF HeldOK
<1> QED BY <1>3, <1>6, <1>8 DEF t

\* The answer to GET /api/contests.
LEMMA ActiveIsOK ==
    ASSUME NEW c, NEW n, ServerOK(server, c, n)
    PROVE  /\ Active(server) \in Seq(ContestT)
           /\ ListOK(Active(server), c) /\ HeldOK(Active(server), c)
<1> DEFINE t == Active(server)
<1>1. 0 \in 0..MaxSaves /\ {} \in SUBSET (0..MaxRegs) /\ MaxRounds \in Nat
  BY StoreAssumption, CreatorAssumption
<1>2. CASE server = <<>>
  <2> DEFINE x == Contest(<<"seed", 0>>, "active", <<>>)
  <2>1. <<"seed", 0>> \in ContestIds
    BY DEF ContestIds
  <2>2. x \in ContestT /\ x.by = 0 /\ x.id = <<"seed", 0>> /\ x.rounds = <<>>
    BY <1>1, <2>1, EmptySeq DEF Contest, ContestT, Statuses
  <2>3. t = <<x>>
    BY <1>2 DEF Active
  <2> HIDE DEF x, t
  <2>4. t \in Seq(ContestT) /\ DOMAIN t = {1} /\ t[1] = x
    BY <2>2, <2>3
  <2>5. Unique(t) /\ HeldOK(t, c)
    BY <2>2, <2>4 DEF Unique, HeldOK
  <2>6. \A o \in Saves : Lacks(t, ServerId(o))
    BY <2>2, <2>4, ServerIds DEF Lacks
  <2>7. Len(x.rounds) <= MaxRounds /\ Known(x.rounds)
    BY <1>1, <2>2 DEF Known
  <2>8. ListOK(t, c)
    BY <2>4, <2>5, <2>6, <2>7 DEF ListOK
  <2> QED BY <2>4, <2>5, <2>8 DEF t
<1>3. CASE server # <<>>
  <2> DEFINE R(k) == [i \in DOMAIN server[k].rounds |-> Round(server[k].rounds[i], TRUE, 0)]
  <2>1. t = [k \in DOMAIN server |-> Contest(server[k].id, "active", R(k))]
    BY <1>3 DEF Active
  <2>2. server \in Seq(ServerT) /\ \A k \in DOMAIN server : server[k] \in ServerT
    BY ElementOfSeq, LenProperties DEF ServerOK
  <2>3. ASSUME NEW k \in DOMAIN server
        PROVE  R(k) \in Seq(RoundT) /\ Len(R(k)) = Len(server[k].rounds) /\ Known(R(k))
    <3> DEFINE r == server[k].rounds
               q == R(k)
    <3>1. r \in Seq(1..MaxSaves)
      BY <2>2 DEF ServerT
    <3>2. \A i \in DOMAIN r : r[i] \in 0..MaxSaves
      <4>1. \A i \in DOMAIN r : r[i] \in 1..MaxSaves
        BY <3>1, ElementOfSeq, LenProperties
      <4>2. 1..MaxSaves \subseteq 0..MaxSaves
        BY StoreAssumption
      <4> QED BY <4>1, <4>2
    <3>3. \A i \in DOMAIN r : q[i] \in RoundT /\ q[i].data = "none"
      <4>1. TRUE \in Flags
        BY DEF Flags
      <4> QED BY <1>1, <3>2, <4>1 DEF Round, RoundT, Marks
    <3>4. DOMAIN q = DOMAIN r /\ q = [i \in DOMAIN q |-> q[i]]
      OBVIOUS
    <3> HIDE DEF q
    <3>5. q \in Seq(RoundT) /\ Len(q) = Len(r) /\ Known(q)
      BY <3>1, <3>3, <3>4, MapIsSeq DEF Known
    <3> QED BY <3>5 DEF q
  <2> HIDE DEF R, t
  <2>4. ASSUME NEW k \in DOMAIN server
        PROVE  /\ t[k] \in ContestT /\ t[k].id = server[k].id /\ t[k].by = 0
               /\ t[k].rounds = R(k)
    <3>1. t[k] = Contest(server[k].id, "active", R(k))
      BY <2>1
    <3>2. server[k].id \in ContestIds /\ R(k) \in Seq(RoundT)
      BY <2>2, <2>3 DEF ServerT
    <3> QED BY <1>1, <3>1, <3>2 DEF Contest, ContestT, Statuses
  <2>5. DOMAIN t = DOMAIN server /\ t = [k \in DOMAIN t |-> t[k]]
    BY <2>1
  <2>6. t \in Seq(ContestT)
    BY <2>2, <2>4, <2>5, MapIsSeq
  <2>7. Unique(t) /\ HeldOK(t, c)
    BY <2>4, <2>5 DEF Unique, HeldOK, ServerOK
  <2>8. \A o \in Saves : c[o].pc \in {"idle", "post"} => Lacks(t, ServerId(o))
    BY <2>4, <2>5 DEF Lacks, ServerOK
  <2>9. \A k \in DOMAIN t : Len(t[k].rounds) <= MaxRounds /\ Known(t[k].rounds)
    BY <2>3, <2>4, <2>5 DEF ServerOK
  <2>10. ListOK(t, c)
    BY <2>6, <2>7, <2>8, <2>9 DEF ListOK
  <2> QED BY <2>6, <2>7, <2>10 DEF t
<1> QED BY <1>2, <1>3

---------------------------------------------------------------------------
(* What a reload keeps. *)

\* A contest without references and ids of rounds, field by field.
ShownRounds(r) ==
    [i \in DOMAIN r |-> [id |-> 0, live |-> r[i].live, data |-> r[i].data, by |-> 0]]
ShownContest(c) ==
    [id |-> c.id, status |-> c.status, joined |-> c.joined,
     rounds |-> ShownRounds(c.rounds), by |-> 0]

Anonymous(c) == [c EXCEPT !.rounds = [i \in DOMAIN @ |-> [@[i] EXCEPT !.id = 0]]]
Erased(m) == [Written(m) EXCEPT !.sid = 0,
                                !.contests = [k \in DOMAIN @ |-> Anonymous(@[k])]]

Follows == ~full => Erased(mem) = Erased(disk)

IInv == StoreInv /\ CreatorInv /\ PageInv /\ Follows

LEMMA FollowsMeans == Follows => DiskFollows
BY DEF Follows, DiskFollows, Erased, Anonymous

LEMMA ClearedRound ==
    ASSUME NEW r \in RoundT
    PROVE  [[r EXCEPT !.by = 0] EXCEPT !.id = 0]
            = [id |-> 0, live |-> r.live, data |-> r.data, by |-> 0]
<1> DEFINE x == [r EXCEPT !.by = 0]
           y == [x EXCEPT !.id = 0]
           z == [id |-> 0, live |-> r.live, data |-> r.data, by |-> 0]
<1>1. /\ x \in [id : 0..MaxSaves, live : Flags, data : Marks, by : {0}]
      /\ x.live = r.live /\ x.data = r.data
  BY DEF RoundT
<1> HIDE DEF x
<1>2. /\ y \in [id : {0}, live : Flags, data : Marks, by : {0}]
      /\ y.live = r.live /\ y.data = r.data
  BY <1>1
<1>3. /\ z \in [id : {0}, live : Flags, data : Marks, by : {0}]
      /\ z.live = r.live /\ z.data = r.data
  BY DEF RoundT
<1> HIDE DEF y, z
<1>4. y = z
  BY <1>2, <1>3
<1> QED BY <1>4 DEF x, y, z

LEMMA AnonymousIsShown ==
    ASSUME NEW c \in ContestT
    PROVE  Anonymous(Bare(c)) = ShownContest(c)
<1> DEFINE b == Bare(c)
           q == [i \in DOMAIN b.rounds |-> [b.rounds[i] EXCEPT !.id = 0]]
<1>1. b \in ContestT /\ b.by = 0 /\ b.status = c.status /\ b.joined = c.joined /\ b.id = c.id
      /\ b.rounds = [i \in DOMAIN c.rounds |-> [c.rounds[i] EXCEPT !.by = 0]]
  BY BareIsLike DEF LikeContest
<1>2. \A i \in DOMAIN c.rounds : c.rounds[i] \in RoundT
  BY ContestFields
<1>3. Anonymous(b) = [b EXCEPT !.rounds = q]
  BY DEF Anonymous
<1> HIDE DEF b
<1>4. q = ShownRounds(c.rounds)
  <2>1. ASSUME NEW i \in DOMAIN c.rounds
        PROVE  [[c.rounds[i] EXCEPT !.by = 0] EXCEPT !.id = 0]
                = [id |-> 0, live |-> c.rounds[i].live, data |-> c.rounds[i].data, by |-> 0]
    BY <1>2, ClearedRound
  <2> QED BY <1>1, <2>1 DEF ShownRounds
<1> HIDE DEF q
<1>5. [b EXCEPT !.rounds = q]
        = [id |-> b.id, status |-> b.status, joined |-> b.joined, rounds |-> q, by |-> b.by]
  BY <1>1 DEF ContestT
<1> QED BY <1>1, <1>3, <1>4, <1>5 DEF ShownContest, b

LEMMA ErasedIs ==
    ASSUME NEW m \in StateT
    PROVE  Erased(m) = [role |-> m.role, sid |-> 0, key |-> m.key, active |-> m.active,
                        contests |-> [k \in DOMAIN m.contests |-> ShownContest(m.contests[k])],
                        telemetry |-> m.telemetry]
<1> DEFINE w == Written(m)
           f == [k \in DOMAIN m.contests |-> Bare(m.contests[k])]
           g == [k \in DOMAIN m.contests |-> ShownContest(m.contests[k])]
<1>1. w = [m EXCEPT !.contests = f]
  BY WrittenIsBare
<1>2. \A k \in DOMAIN m.contests : m.contests[k] \in ContestT
  BY ListFields
<1>3. [k \in DOMAIN f |-> Anonymous(f[k])] = g
  BY <1>2, AnonymousIsShown
<1> HIDE DEF f, g
<1>4. w.contests = f
  BY <1>1 DEF StateT
<1>5. Erased(m) = [w EXCEPT !.sid = 0, !.contests = g]
  BY <1>3, <1>4 DEF Erased
<1> HIDE DEF w
<1>6. Erased(m) = [role |-> m.role, sid |-> 0, key |-> m.key, active |-> m.active,
                   contests |-> g, telemetry |-> m.telemetry]
  BY <1>1, <1>5 DEF StateT
<1> QED BY <1>6 DEF g

\* Two states that a reload cannot tell apart but for what calls received.
Same(m, n) ==
    /\ m.role = n.role /\ m.key = n.key /\ m.active = n.active /\ m.telemetry = n.telemetry
    /\ DOMAIN m.contests = DOMAIN n.contests
    /\ \A k \in DOMAIN m.contests : ShownContest(m.contests[k]) = ShownContest(n.contests[k])

LEMMA SameIsErased ==
    ASSUME NEW m \in StateT, NEW n \in StateT, Same(m, n)
    PROVE  Erased(m) = Erased(n)
<1>1. [k \in DOMAIN m.contests |-> ShownContest(m.contests[k])]
        = [k \in DOMAIN n.contests |-> ShownContest(n.contests[k])]
  BY DEF Same
<1> QED BY <1>1, ErasedIs DEF Same

LEMMA ErasedIsSame ==
    ASSUME NEW m \in StateT, NEW n \in StateT, Erased(m) = Erased(n)
    PROVE  m.active = n.active /\ m.role = n.role /\ m.telemetry = n.telemetry
BY ErasedIs

LEMMA WrittenIsErased ==
    ASSUME NEW m \in StateT, NEW c, ListOK(m.contests, c)
    PROVE  Erased(Written(m)) = Erased(m)
<1> DEFINE f == [k \in DOMAIN m.contests |-> Bare(m.contests[k])]
<1>1. Written(m) = [m EXCEPT !.contests = f] /\ Written(m) \in StateT
  BY WrittenIsBare, WrittenIsOK
<1>2. \A k \in DOMAIN m.contests : ShownContest(f[k]) = ShownContest(m.contests[k])
  <2> SUFFICES ASSUME NEW k \in DOMAIN m.contests
               PROVE  ShownContest(Bare(m.contests[k])) = ShownContest(m.contests[k])
    OBVIOUS
  <2> DEFINE x == m.contests[k]
  <2>1. x \in ContestT /\ \A i \in DOMAIN x.rounds : x.rounds[i] \in RoundT
    BY ListFields, ContestFields
  <2>2. /\ Bare(x).status = x.status /\ Bare(x).joined = x.joined /\ Bare(x).id = x.id
        /\ Bare(x).rounds = [i \in DOMAIN x.rounds |-> [x.rounds[i] EXCEPT !.by = 0]]
    BY <2>1, BareIsLike
  <2>3. \A i \in DOMAIN x.rounds : /\ [x.rounds[i] EXCEPT !.by = 0].live = x.rounds[i].live
                                   /\ [x.rounds[i] EXCEPT !.by = 0].data = x.rounds[i].data
    BY <2>1 DEF RoundT
  <2>4. ShownRounds(Bare(x).rounds) = ShownRounds(x.rounds)
    BY <2>2, <2>3 DEF ShownRounds
  <2> QED BY <2>2, <2>4 DEF ShownContest
<1>3. DOMAIN f = DOMAIN m.contests
  OBVIOUS
<1> HIDE DEF f
<1>4. Same(Written(m), m)
  BY <1>1, <1>2, <1>3 DEF Same, StateT
<1> QED BY <1>1, <1>4, SameIsErased

\* References and ids of rounds do not show.
LEMMA ReleasedIsErased ==
    ASSUME NEW m \in StateT, NEW o, NEW c, ListOK(m.contests, c)
    PROVE  Erased(Released(m, o)) = Erased(m)
<1> DEFINE f == [k \in DOMAIN m.contests |-> Dropped(m.contests[k], o)]
<1>1. Released(m, o) = [m EXCEPT !.contests = f] /\ Released(m, o) \in StateT
  BY ReleasedIsOK DEF Released
<1>2. \A k \in DOMAIN m.contests : ShownContest(f[k]) = ShownContest(m.contests[k])
  <2> SUFFICES ASSUME NEW k \in DOMAIN m.contests
               PROVE  ShownContest(Dropped(m.contests[k], o)) = ShownContest(m.contests[k])
    OBVIOUS
  <2> DEFINE x == m.contests[k]
             q == [i \in DOMAIN x.rounds |->
                    IF x.rounds[i].by = o THEN [x.rounds[i] EXCEPT !.by = 0] ELSE x.rounds[i]]
  <2>1. x \in ContestT /\ \A i \in DOMAIN x.rounds : x.rounds[i] \in RoundT
    BY ListFields, ContestFields
  <2>2. /\ Dropped(x, o).status = x.status /\ Dropped(x, o).joined = x.joined
        /\ Dropped(x, o).id = x.id /\ Dropped(x, o).rounds = q
    BY <2>1, DroppedIsLike
  <2>3. \A i \in DOMAIN x.rounds : /\ q[i].live = x.rounds[i].live
                                   /\ q[i].data = x.rounds[i].data
    BY <2>1 DEF RoundT
  <2>4. DOMAIN q = DOMAIN x.rounds
    OBVIOUS
  <2> HIDE DEF q
  <2>5. ShownRounds(q) = ShownRounds(x.rounds)
    BY <2>3, <2>4 DEF ShownRounds
  <2> QED BY <2>2, <2>5 DEF ShownContest
<1>3. DOMAIN f = DOMAIN m.contests
  OBVIOUS
<1> HIDE DEF f
<1>4. Same(Released(m, o), m)
  BY <1>1, <1>2, <1>3 DEF Same, StateT
<1> QED BY <1>1, <1>4, SameIsErased

LEMMA RoundNamedIsErased ==
    ASSUME NEW m \in StateT, NEW o \in Saves, NEW i, NEW c, ListOK(m.contests, c)
    PROVE  Erased(RoundNamed(m, o, i)) = Erased(m)
<1> DEFINE f == [k \in DOMAIN m.contests |-> Numbered(m.contests[k], o, i)]
<1>1. RoundNamed(m, o, i) = [m EXCEPT !.contests = f] /\ RoundNamed(m, o, i) \in StateT
  <2>1. RoundNamed(m, o, i) = [m EXCEPT !.contests = f]
    BY DEF RoundNamed, Numbered
  <2>2. RoundNamed(m, o, i) \in StateT
    BY RoundNamedIsOK
  <2> QED BY <2>1, <2>2
<1>2. \A k \in DOMAIN m.contests : ShownContest(f[k]) = ShownContest(m.contests[k])
  <2> SUFFICES ASSUME NEW k \in DOMAIN m.contests
               PROVE  ShownContest(Numbered(m.contests[k], o, i)) = ShownContest(m.contests[k])
    OBVIOUS
  <2> DEFINE x == m.contests[k]
  <2>1. x \in ContestT
    BY ListFields
  <2>2. /\ Numbered(x, o, i).status = x.status /\ Numbered(x, o, i).joined = x.joined
        /\ Numbered(x, o, i).id = x.id /\ DOMAIN Numbered(x, o, i).rounds = DOMAIN x.rounds
        /\ \A j \in DOMAIN x.rounds :
            /\ Numbered(x, o, i).rounds[j].live = x.rounds[j].live
            /\ Numbered(x, o, i).rounds[j].data = x.rounds[j].data
    BY <2>1, NumberedIsLike DEF LikeContest
  <2>3. ShownRounds(Numbered(x, o, i).rounds) = ShownRounds(x.rounds)
    BY <2>2 DEF ShownRounds
  <2> QED BY <2>2, <2>3 DEF ShownContest
<1>3. DOMAIN f = DOMAIN m.contests
  OBVIOUS
<1> HIDE DEF f
<1>4. Same(RoundNamed(m, o, i), m)
  BY <1>1, <1>2, <1>3 DEF Same, StateT
<1> QED BY <1>1, <1>4, SameIsErased

---------------------------------------------------------------------------
(* Steps of the store. *)

\* Calls that go on as they are, with or without their page.
CallsStand(c, d) == \A o \in Saves : d[o].pc = c[o].pc /\ d[o].id = c[o].id

LEMMA ListStands ==
    ASSUME NEW s, NEW c, NEW d, ListOK(s, c), CallsStand(c, d)
    PROVE  ListOK(s, d) /\ (HeldOK(s, c) => HeldOK(s, d))
<1>1. ListOK(s, d)
  BY DEF ListOK, CallsStand
<1>2. \A k \in DOMAIN s : s[k].by # 0 => s[k].by \in Saves
  <2>1. s \in Seq(ContestT)
    BY DEF ListOK
  <2>2. \A k \in DOMAIN s : s[k] \in ContestT
    BY <2>1, ElementOfSeq, LenProperties
  <2> QED BY <2>2, ContestFields, StoreAssumption DEF Saves
<1>3. HeldOK(s, c) => HeldOK(s, d)
  BY <1>2 DEF HeldOK, CallsStand
<1> QED BY <1>1, <1>3

\* Calls that move on: none becomes idle or goes back to its POST.
LEMMA ListMoves ==
    ASSUME NEW s, NEW c, NEW d, ListOK(s, c),
           \A o \in Saves : d[o].pc \in {"idle", "post"} => c[o].pc \in {"idle", "post"}
    PROVE  ListOK(s, d)
BY DEF ListOK

\* _save.
LEMMA SaveKeeps ==
    ASSUME StoreInv, NEW m \in StateT, Save(m), full' = full, ListOK(disk.contests, call'),
           ListOK(m.contests, call'), HeldOK(m.contests, call')
    PROVE  StoreInv' /\ Follows'
<1>1. mem' = m
  BY DEF Save
<1>2. CASE full
  <2>1. disk' = disk
    BY <1>2 DEF Save
  <2>2. Follows'
    BY <1>2 DEF Follows
  <2> QED BY <1>1, <2>1, <2>2 DEF StoreInv
<1>3. CASE ~full
  <2>1. disk' = Written(m)
    BY <1>3 DEF Save
  <2>2. /\ Written(m) \in StateT
        /\ ListOK(Written(m).contests, call') /\ BareOK(Written(m).contests)
    BY WrittenIsOK
  <2>3. Follows'
    BY <1>1, <2>1, WrittenIsErased DEF Follows
  <2> QED BY <1>1, <2>1, <2>2, <2>3 DEF StoreInv
<1> QED BY <1>2, <1>3

\* The list stays: only other fields are written.
LEMMA FieldsKeep ==
    ASSUME StoreInv, NEW m \in StateT, Save(m), full' = full, m.contests = mem.contests,
           CallsStand(call, call')
    PROVE  StoreInv' /\ Follows'
<1>1. ListOK(disk.contests, call') /\ ListOK(m.contests, call') /\ HeldOK(m.contests, call')
  BY ListStands DEF StoreInv
<1> QED BY <1>1, SaveKeeps

\* Nothing is written, or only what a reload forgets.
LEMMA UnsavedKeeps ==
    ASSUME StoreInv, Follows, disk' = disk, full' = full, mem' \in StateT,
           Erased(mem') = Erased(mem), ListOK(mem'.contests, call'),
           HeldOK(mem'.contests, call'), ListOK(disk.contests, call')
    PROVE  StoreInv' /\ Follows'
BY DEF StoreInv, Follows

LEMMA NothingSaved ==
    ASSUME StoreInv, Follows, UNCHANGED <<mem, disk>>, full' = full \/ full',
           CallsStand(call, call')
    PROVE  StoreInv' /\ Follows'
<1>1. /\ ListOK(disk.contests, call') /\ ListOK(mem.contests, call')
      /\ HeldOK(mem.contests, call')
  BY ListStands DEF StoreInv
<1> QED BY <1>1 DEF StoreInv, Follows

LEMMA CallsStandStill == ASSUME UNCHANGED call PROVE CallsStand(call, call')
BY DEF CallsStand

LEMMA OrphanedStands ==
    ASSUME CallOK(call), call' = Orphaned
    PROVE  CallsStand(call, call')
BY DEF CallsStand, Orphaned, CallOK, CallT

LEMMA StateFields ==
    ASSUME NEW m \in StateT
    PROVE  /\ \A r \in {"none", "student", "creator"} : [m EXCEPT !.role = r] \in StateT
           /\ \A n \in 0..MaxRegs : /\ [m EXCEPT !.sid = n] \in StateT
                                    /\ [m EXCEPT !.key = n] \in StateT
           /\ \A id \in ContestIds \cup {None} : [m EXCEPT !.active = id] \in StateT
           /\ \A t \in {"offline", "connecting", "online"} :
                [m EXCEPT !.telemetry = t] \in StateT
           /\ \A x : /\ [m EXCEPT !.role = x].contests = m.contests
                     /\ [m EXCEPT !.sid = x].contests = m.contests
                     /\ [m EXCEPT !.key = x].contests = m.contests
                     /\ [m EXCEPT !.active = x].contests = m.contests
                     /\ [m EXCEPT !.telemetry = x].contests = m.contests
BY DEF StateT

\* getActiveContest only moves the selection, to a contest of the list.
LEMMA GetActiveKeeps ==
    ASSUME NEW m \in StateT
    PROVE  /\ GetActiveContest(m) \in StateT /\ GetActiveContest(m).contests = m.contests
           /\ GetActiveContest(m).role = m.role
<1> DEFINE I == {k \in 1..Len(m.contests) : Live(m.contests[k])}
           live == SelectInSeq(m.contests, Live)
<1>1. /\ m.contests \in Seq(ContestT) /\ Len(m.contests) \in Nat
      /\ DOMAIN m.contests = 1..Len(m.contests)
      /\ \A k \in DOMAIN m.contests : m.contests[k].id \in ContestIds
  BY ListFields, ContestFields
<1>2. live = 0 \/ live \in DOMAIN m.contests
  <2>1. live = IF I # {} THEN Min(I) ELSE 0
    BY DEF SelectInSeq
  <2>2. I # {} => Min(I) \in I
    BY <1>1, MinIsLeast
  <2> QED BY <1>1, <2>1, <2>2
<1>3. m.contests # <<>> => 1 \in DOMAIN m.contests
  BY <1>1, EmptySeq
<1> HIDE DEF live
<1>4. \/ GetActiveContest(m) = m
      \/ \E k \in DOMAIN m.contests : GetActiveContest(m) = [m EXCEPT !.active = m.contests[k].id]
  <2>1. GetActiveContest(m) =
          IF Listed(m, m.active) \/ m.contests = <<>> THEN m
          ELSE IF live # 0 THEN [m EXCEPT !.active = m.contests[live].id]
          ELSE IF m.active = None THEN [m EXCEPT !.active = m.contests[1].id]
          ELSE m
    BY DEF GetActiveContest, live
  <2> QED BY <1>2, <1>3, <2>1
<1> QED BY <1>1, <1>4 DEF StateT

\* A student joins: the contest changes where it stands.
LEMMA JoinKeeps ==
    ASSUME StoreInv, NEW id, JoinContest(id)
    PROVE  StoreInv' /\ Follows'
<1> DEFINE k == IndexOf(mem, id)
           c == mem.contests[k]
           d == [c EXCEPT !.joined = c.joined \cup {mem.sid}]
           t == [mem.contests EXCEPT ![k] = d]
           m == [mem EXCEPT !.contests[k].joined = @ \cup {MyId(mem)}, !.active = id]
<1>1. mem \in StateT /\ k \in DOMAIN mem.contests /\ c.id = id /\ c \in ContestT
  BY ListFields, IndexIsFirst DEF JoinContest, StoreInv
<1>2. mem.sid \in 0..MaxRegs /\ id \in ContestIds
  BY <1>1, ContestFields DEF StateT
<1>3. d \in ContestT /\ d.id = c.id /\ d.rounds = c.rounds /\ d.by = c.by
  BY <1>1, <1>2 DEF ContestT
<1>4. LikeContest(c, d)
  BY <1>3 DEF LikeContest, LikeRounds
<1>5. t \in Seq(ContestT) /\ ListOK(t, call) /\ HeldOK(t, call)
  <2> HIDE DEF d, k
  <2> QED BY <1>1, <1>3, <1>4, OneChanged DEF StoreInv
<1>6. m = [[mem EXCEPT !.contests = t] EXCEPT !.active = id]
  BY <1>1 DEF MyId, StateT
<1> HIDE DEF t, m, k
<1>7. m \in StateT /\ m.contests = t
  BY <1>1, <1>2, <1>5, <1>6 DEF StateT
<1>8. Save(m) /\ call' = call /\ full' = full
  BY DEF JoinContest, m, k
<1> QED BY <1>5, <1>7, <1>8, SaveKeeps DEF StoreInv

LEMMA StudentKeepsStore ==
    ASSUME StoreInv, Follows, StudentNext
    PROVE  StoreInv' /\ Follows'
<1>1. mem \in StateT
  BY DEF StoreInv
<1>2. \A n \in Regs : n \in 0..MaxRegs
  BY StoreAssumption DEF Regs
<1>3. ASSUME NEW n \in Regs, EnterAsStudent(n) PROVE StoreInv' /\ Follows'
  BY <1>1, <1>3, StateFields, FieldsKeep, CallsStandStill DEF EnterAsStudent
<1>4. ASSUME NEW n \in Regs, Registered(n) PROVE StoreInv' /\ Follows'
  <2>1. mem' = [mem EXCEPT !.sid = n] /\ UNCHANGED <<disk, full, call>>
    BY <1>4 DEF Registered
  <2>2. mem' \in StateT /\ mem'.contests = mem.contests
    BY <1>1, <1>2, <2>1, StateFields
  <2>3. Same(mem', mem)
    BY <1>1, <2>1 DEF Same, StateT
  <2> QED BY <1>1, <2>1, <2>2, <2>3, SameIsErased, UnsavedKeeps DEF StoreInv
<1>5. ASSUME NEW id \in ListedIds, JoinContest(id) PROVE StoreInv' /\ Follows'
  BY <1>5, JoinKeeps
<1>6. CASE LeaveContest
  BY <1>1, <1>6, StateFields, FieldsKeep, CallsStandStill DEF LeaveContest
<1>7. CASE Render \/ RecordResult
  <2>1. Save(GetActiveContest(mem)) /\ full' = full /\ call' = call
    BY <1>7 DEF Render, RecordResult
  <2> QED BY <1>1, <2>1, GetActiveKeeps, FieldsKeep, CallsStandStill
<1>8. CASE SaveLastCode
  BY <1>1, <1>8, FieldsKeep, CallsStandStill DEF SaveLastCode
<1> QED BY <1>3, <1>4, <1>5, <1>6, <1>7, <1>8 DEF StudentNext

LEMMA EndedIsLike ==
    ASSUME NEW c \in ContestT
    PROVE  LikeContest(c, Ended(c))
BY DEF LikeContest, LikeRounds, Ended, ContestT, Statuses

LEMMA PublishedIsLike ==
    ASSUME NEW c \in ContestT
    PROVE  LikeContest(c, Published(c))
<1>1. c.rounds \in Seq(RoundT) /\ \A i \in DOMAIN c.rounds : c.rounds[i] \in RoundT
  BY ContestFields
<1>2. CASE c.rounds = <<>>
  <2>1. Published(c) = [c EXCEPT !.status = "active", !.rounds = c.rounds]
    BY <1>2 DEF Published
  <2> QED BY <2>1 DEF LikeContest, LikeRounds, ContestT, Statuses
<1>3. CASE c.rounds # <<>>
  <2> DEFINE r == [c.rounds[1] EXCEPT !.live = TRUE]
             q == [c.rounds EXCEPT ![1] = r]
  <2>1. Published(c) = [c EXCEPT !.status = "active", !.rounds = q]
    BY <1>3 DEF Published
  <2>2. 1 \in DOMAIN c.rounds
    BY <1>1, <1>3, EmptySeq, LenProperties
  <2>3. r \in RoundT /\ r.data = c.rounds[1].data /\ r.id = c.rounds[1].id
    <3>1. c.rounds[1] \in RoundT /\ 0 \in 0..MaxSaves
      BY <1>1, <2>2, StoreAssumption
    <3> QED BY <3>1, RoundFields
  <2> HIDE DEF r
  <2>4. /\ DOMAIN q = DOMAIN c.rounds /\ q = [j \in DOMAIN q |-> q[j]]
        /\ \A j \in DOMAIN c.rounds : q[j] = IF j = 1 THEN r ELSE c.rounds[j]
    OBVIOUS
  <2> HIDE DEF q
  <2>5. \A j \in DOMAIN c.rounds : /\ q[j] \in RoundT /\ q[j].data = c.rounds[j].data
                                   /\ c.rounds[j].id # 0 => q[j].id # 0
    BY <1>1, <2>3, <2>4
  <2>6. q \in Seq(RoundT) /\ LikeRounds(c.rounds, q)
    BY <1>1, <2>4, <2>5, RoundsChange
  <2>7. Published(c) \in ContestT /\ Published(c).id = c.id /\ Published(c).rounds = q
    BY <2>1, <2>6 DEF ContestT, Statuses
  <2> QED BY <2>6, <2>7 DEF LikeContest
<1> QED BY <1>2, <1>3

\* updateContest saves.
LEMMA UpdateKeeps ==
    ASSUME StoreInv, NEW id, Listed(mem, id), NEW d,
           LikeContest(mem.contests[IndexOf(mem, id)], d),
           Save(Updated(mem, d)), full' = full, call' = call
    PROVE  StoreInv' /\ Follows'
<1>1. /\ Updated(mem, d) \in StateT
      /\ ListOK(Updated(mem, d).contests, call) /\ HeldOK(Updated(mem, d).contests, call)
  BY UpdatedIsOK DEF StoreInv
<1> QED BY <1>1, SaveKeeps DEF StoreInv

LEMMA ClickedIsListed ==
    ASSUME StoreInv, NEW button, NEW id, Clicks(button, id)
    PROVE  Listed(mem, id) /\ mem.contests[IndexOf(mem, id)] \in ContestT
<1>1. mem \in StateT /\ Listed(mem, id)
  BY DEF StoreInv, Clicks
<1> QED BY <1>1, ListFields, IndexIsFirst

LEMMA ListKeepsStore ==
    ASSUME StoreInv, Follows, CallOK(call), ListNext
    PROVE  StoreInv' /\ Follows'
<1>1. mem \in StateT
  BY DEF StoreInv
<1>2. CASE QuotaExceeded \/ FetchFails
  BY <1>2, NothingSaved, CallsStandStill DEF QuotaExceeded, FetchFails
<1>3. CASE SocketOpens \/ SocketCloses
  BY <1>1, <1>3, StateFields, FieldsKeep, CallsStandStill DEF SocketOpens, SocketCloses
<1>4. CASE FlushTelemetry
  BY <1>1, <1>4, FieldsKeep, CallsStandStill DEF FlushTelemetry
<1>5. ASSUME NEW id \in ListedIds, EndContest(id) PROVE StoreInv' /\ Follows'
  BY <1>5, ClickedIsListed, EndedIsLike, UpdateKeeps DEF EndContest
<1>6. ASSUME NEW id \in ListedIds, DeleteContest(id) PROVE StoreInv' /\ Follows'
  <2> DEFINE t == Without(mem.contests, id)
             m == [mem EXCEPT !.contests = t]
  <2>1. Save(m) /\ full' = full /\ call' = call
    BY <1>6 DEF DeleteContest
  <2>2. t \in Seq(ContestT) /\ ListOK(t, call) /\ HeldOK(t, call)
    BY <1>1, WithoutIsOK DEF StoreInv
  <2> HIDE DEF t
  <2>3. m \in StateT /\ m.contests = t
    BY <1>1, <2>2 DEF StateT
  <2> HIDE DEF m
  <2> QED BY <2>1, <2>2, <2>3, SaveKeeps DEF StoreInv
<1>7. ASSUME NEW o \in Saves, Posted(o) PROVE StoreInv' /\ Follows'
  <2>1. /\ call[o].pc = "post" /\ call' = [call EXCEPT ![o].pc = "posted"]
        /\ UNCHANGED <<mem, disk, full>>
    BY <1>7 DEF Posted
  <2>2. /\ call'[o].pc = "posted" /\ call'[o].id = call[o].id
        /\ \A p \in Saves \ {o} : call'[p] = call[p]
    BY <2>1 DEF CallOK, CallT
  <2>3. ListOK(mem.contests, call') /\ ListOK(disk.contests, call')
    <3>1. \A p \in Saves : call'[p].pc \in {"idle", "post"} => call[p].pc \in {"idle", "post"}
      BY <2>1, <2>2
    <3> QED BY <3>1, ListMoves DEF StoreInv
  <2>4. Lacks(mem.contests, ServerId(o))
    BY <2>1 DEF StoreInv, ListOK
  <2>5. HeldOK(mem.contests, call')
    <3> SUFFICES ASSUME NEW k \in DOMAIN mem.contests, mem.contests[k].by # 0
                 PROVE  LET b == mem.contests[k].by IN
                        /\ call'[b].pc \in Busy /\ mem.contests[k].id = call'[b].id
                        /\ call'[b].pc = "posted" => Lacks(mem.contests, ServerId(b))
      BY DEF HeldOK
    <3> DEFINE b == mem.contests[k].by
    <3>1. b \in Saves
      BY <1>1, ListFields, ContestFields, StoreAssumption DEF Saves
    <3>2. /\ call[b].pc \in Busy /\ mem.contests[k].id = call[b].id
          /\ call[b].pc = "posted" => Lacks(mem.contests, ServerId(b))
      BY DEF StoreInv, HeldOK
    <3> QED BY <2>2, <2>4, <3>1, <3>2 DEF Busy
  <2> QED BY <1>1, <2>1, <2>3, <2>5, UnsavedKeeps
<1> QED BY <1>2, <1>3, <1>4, <1>5, <1>6, <1>7 DEF ListNext

LEMMA ConnectedKeeps ==
    ASSUME NEW m \in StateT
    PROVE  Connected(m) \in StateT /\ Connected(m).contests = m.contests
           /\ Connected(m).role = m.role /\ Connected(m).active = m.active
BY DEF Connected, StateT

\* resetAndCreateDemoContests.
LEMMA DemoIsOK ==
    ASSUME NEW c
    PROVE  /\ DemoState \in StateT /\ DemoState.role = "none"
           /\ ListOK(DemoState.contests, c) /\ HeldOK(DemoState.contests, c)
<1> DEFINE First == [Round(0, TRUE, 0) EXCEPT !.data = "done"]
           Other == [Round(0, FALSE, 0) EXCEPT !.data = "done"]
           A == Contest(<<"demo", 1>>, "active", <<First, Other, Other>>)
           B == Contest(<<"demo", 2>>, "active", <<First, Other>>)
           t == <<A, B>>
<1>1. DemoState = [[DefaultState EXCEPT !.contests = t] EXCEPT !.active = <<"demo", 1>>]
  BY DEF DemoState, DefaultState
<1>2. 0 \in 0..MaxSaves /\ 0 \in 0..MaxRegs /\ {} \in SUBSET (0..MaxRegs)
  BY StoreAssumption
<1>3. TRUE \in Flags /\ FALSE \in Flags
  BY DEF Flags
<1>4. First \in RoundT /\ Other \in RoundT
  BY <1>2, <1>3 DEF Round, RoundT, Marks
<1> HIDE DEF First, Other
<1>5. <<"demo", 1>> \in ContestIds /\ <<"demo", 2>> \in ContestIds
  BY DEF ContestIds
<1>6. <<First, Other, Other>> \in Seq(RoundT) /\ <<First, Other>> \in Seq(RoundT)
  BY <1>4
<1>7. A \in ContestT /\ A.id = <<"demo", 1>> /\ A.by = 0
  BY <1>2, <1>5, <1>6 DEF Contest, ContestT, Statuses
<1>8. B \in ContestT /\ B.id = <<"demo", 2>> /\ B.by = 0
  BY <1>2, <1>5, <1>6 DEF Contest, ContestT, Statuses
<1> HIDE DEF A, B
<1>9. /\ t \in Seq(ContestT) /\ DOMAIN t = {1, 2} /\ t[1] = A /\ t[2] = B
  BY <1>7, <1>8
<1> HIDE DEF t
<1>10. Unique(t) /\ HeldOK(t, c)
  BY <1>7, <1>8, <1>9 DEF Unique, HeldOK
<1>11. \A k \in DOMAIN t : t[k].id \in Demos
  BY <1>7, <1>8, <1>9 DEF Demos
<1>12. \A o \in Saves : Lacks(t, ServerId(o))
  BY <1>11, ServerIds DEF Lacks
<1>13. ListOK(t, c)
  BY <1>9, <1>10, <1>11, <1>12 DEF ListOK
<1>14. DemoState \in StateT /\ DemoState.contests = t /\ DemoState.role = "none"
  BY <1>1, <1>2, <1>5, <1>9 DEF DefaultState, StateT
<1> QED BY <1>10, <1>13, <1>14

LEMMA BareIsHeld == ASSUME NEW s, NEW c, BareOK(s) PROVE HeldOK(s, c)
BY DEF BareOK, HeldOK

LEMMA ReloadKeeps ==
    ASSUME StoreInv, CallOK(call), Reload
    PROVE  StoreInv' /\ Follows'
<1>1. disk \in StateT /\ ListOK(disk.contests, call) /\ BareOK(disk.contests)
  BY DEF StoreInv
<1>2. \A o \in Saves : call'[o].pc = (IF call[o].pc = "idle" THEN "idle" ELSE "over")
  BY DEF Reload, IdleCall
<1>3. ListOK(disk.contests, call') /\ HeldOK(disk.contests, call')
  <2>1. \A o \in Saves : call'[o].pc \in {"idle", "post"} => call[o].pc \in {"idle", "post"}
    BY <1>2
  <2> QED BY <1>1, <2>1, ListMoves, BareIsHeld
<1>4. CASE page' = "creator"
  <2>1. Save(Connected(disk)) /\ full' = full
    BY <1>4 DEF Reload
  <2> QED BY <1>1, <1>3, <2>1, ConnectedKeeps, SaveKeeps
<1>5. CASE page' # "creator"
  <2>1. mem' = disk /\ disk' = disk
    BY <1>5 DEF Reload
  <2> QED BY <1>1, <1>3, <2>1 DEF StoreInv, Follows
<1> QED BY <1>4, <1>5

LEMMA PageKeepsStore ==
    ASSUME StoreInv, Follows, CallOK(call), PageNext
    PROVE  StoreInv' /\ Follows'
<1>1. mem \in StateT /\ ListOK(disk.contests, call)
  BY DEF StoreInv
<1>2. CASE EnterAsCreator
  <2> DEFINE m == [Connected(mem) EXCEPT !.role = "creator"]
  <2>1. Save(m) /\ full' = full /\ call' = call
    BY <1>2 DEF EnterAsCreator
  <2>2. m \in StateT /\ m.contests = mem.contests
    <3>1. Connected(mem) \in StateT /\ Connected(mem).contests = mem.contests
      BY <1>1, ConnectedKeeps
    <3> QED BY <3>1 DEF StateT
  <2> HIDE DEF m
  <2> QED BY <2>1, <2>2, FieldsKeep, CallsStandStill
<1>3. CASE Exit
  BY <1>1, <1>3, StateFields, FieldsKeep, OrphanedStands DEF Exit
<1>4. CASE ResetAndCreateDemoContests
  <2>1. Save(DemoState) /\ full' = full /\ call' = Orphaned
    BY <1>4 DEF ResetAndCreateDemoContests
  <2>2. ListOK(disk.contests, call')
    BY <1>1, <2>1, OrphanedStands, ListStands
  <2> QED BY <2>1, <2>2, DemoIsOK, SaveKeeps
<1>5. CASE Reload
  BY <1>5, ReloadKeeps
<1>6. CASE PanelThrows
  BY <1>6, NothingSaved, OrphanedStands DEF PanelThrows
<1>7. ASSUME NEW n \in Regs, KeyAnswered(n) PROVE StoreInv' /\ Follows'
  <2>1. PICK key \in {n, mem.key} : Save([mem EXCEPT !.key = key])
    BY <1>7 DEF KeyAnswered
  <2>2. key \in 0..MaxRegs
    BY <1>1, StoreAssumption DEF StateT, Regs
  <2>3. full' = full /\ call' = Orphaned
    BY <1>7 DEF KeyAnswered, RegistrationEnds
  <2> QED BY <1>1, <2>1, <2>2, <2>3, StateFields, FieldsKeep, OrphanedStands
<1>8. ASSUME NEW n \in Regs, RegistrationFails(n) PROVE StoreInv' /\ Follows'
  BY <1>8, NothingSaved, OrphanedStands DEF RegistrationFails, RegistrationEnds
<1> QED BY <1>2, <1>3, <1>4, <1>5, <1>6, <1>7, <1>8 DEF PageNext

\* A call moves to d[o], the others stay.
CallMoves(o, c, d) == \A p \in Saves \ {o} : d[p] = c[p]

LEMMA ListMovesOne ==
    ASSUME NEW s, NEW c, NEW d, NEW o \in Saves, ListOK(s, c), CallMoves(o, c, d),
           d[o].pc \notin {"idle", "post"}
    PROVE  ListOK(s, d)
<1>1. \A p \in Saves : d[p].pc \in {"idle", "post"} => c[p].pc \in {"idle", "post"}
  BY DEF CallMoves
<1> QED BY <1>1, ListMoves

LEMMA ReturnsMoves ==
    ASSUME CallOK(call), NEW o \in Saves, NEW id, NEW m, Returns(o, id, m)
    PROVE  /\ CallMoves(o, call, call') /\ call'[o] = [IdleCall EXCEPT !.pc = "over"]
           /\ call'[o].pc = "over" /\ call'[o].id = None /\ call'[o].page = FALSE
           /\ full' = full
BY DEF Returns, CallMoves, CallOK, IdleCall

\* createContest breaks off: its contest stays as it is, unsaved.
LEMMA BrokenOffKeeps ==
    ASSUME StoreInv, Follows, CallOK(call), NEW o \in Saves, NEW id, NEW m,
           mem' = Released(mem, o), disk' = disk, Returns(o, id, m)
    PROVE  StoreInv' /\ Follows'
<1>1. mem \in StateT /\ ListOK(mem.contests, call) /\ HeldOK(mem.contests, call)
      /\ ListOK(disk.contests, call)
  BY DEF StoreInv
<1>2. CallMoves(o, call, call') /\ call'[o].pc = "over" /\ full' = full
  BY ReturnsMoves
<1>3. mem' \in StateT /\ ListOK(mem'.contests, call) /\ Erased(mem') = Erased(mem)
  BY <1>1, ReleasedIsOK, ReleasedIsErased
<1>4. ListOK(mem'.contests, call') /\ ListOK(disk.contests, call')
  BY <1>1, <1>2, <1>3, ListMovesOne
<1>5. HeldOK(mem'.contests, call')
  BY <1>1, <1>2, ReleasedIsHeld DEF CallMoves
<1> QED BY <1>2, <1>3, <1>4, <1>5, UnsavedKeeps

\* createContest ends: the contest is let go and the store saved.
LEMMA EndedKeeps ==
    ASSUME StoreInv, CallOK(call), NEW o \in Saves, NEW id, NEW n \in StateT, NEW d,
           CallMoves(o, call, d), ListOK(n.contests, d), HeldOK(n.contests, d),
           Save(Released(n, o)), Returns(o, id, Released(n, o))
    PROVE  StoreInv' /\ Follows'
<1> DEFINE m == Released(n, o)
<1>1. CallMoves(o, call, call') /\ call'[o].pc = "over" /\ full' = full
  BY ReturnsMoves
<1>2. CallMoves(o, d, call')
  BY <1>1 DEF CallMoves
<1>3. m \in StateT /\ ListOK(m.contests, d)
  BY ReleasedIsOK
<1>4. HeldOK(m.contests, call')
  BY <1>2, ReleasedIsHeld DEF CallMoves
<1>5. ListOK(m.contests, call') /\ ListOK(disk.contests, call')
  BY <1>1, <1>2, <1>3, ListMovesOne DEF StoreInv
<1> QED BY <1>1, <1>3, <1>4, <1>5, SaveKeeps

LEMMA CreateAnsweredKeeps ==
    ASSUME StoreInv, CallOK(call), NEW o \in Saves, CreateAnswered(o)
    PROVE  StoreInv' /\ Follows'
<1> DEFINE d == [call EXCEPT ![o].pc = "rounds", ![o].id = ServerId(o)]
           n == Renamed(mem, o)
<1>1. call[o].pc = "posted" /\ mem \in StateT /\ ListOK(disk.contests, call)
  BY DEF CreateAnswered, StoreInv
<1>2. CallMoves(o, call, d) /\ d[o].pc = "rounds" /\ d[o].id = ServerId(o)
  BY DEF CallMoves, CallOK, CallT
<1> HIDE DEF d
<1>3. n \in StateT /\ ListOK(n.contests, d) /\ HeldOK(n.contests, d)
  BY <1>1, <1>2, RenamedIsOK DEF StoreInv, CallMoves
<1> HIDE DEF n
<1>4. CASE call[o].n = 0
  <2>1. Save(Released(n, o)) /\ Returns(o, ServerId(o), Released(n, o))
    BY <1>4 DEF CreateAnswered, ServerId, n
  <2> QED BY <1>2, <1>3, <2>1, EndedKeeps
<1>5. CASE call[o].n # 0
  <2>1. Save(n) /\ call' = d /\ full' = full
    BY <1>5 DEF CreateAnswered, ServerId, n, d
  <2>2. ListOK(disk.contests, d)
    BY <1>1, <1>2, ListMovesOne
  <2> QED BY <1>3, <2>1, <2>2, SaveKeeps
<1> QED BY <1>4, <1>5

LEMMA RoundAnsweredKeeps ==
    ASSUME StoreInv, Follows, CallOK(call), NEW o \in Saves, RoundAnswered(o)
    PROVE  StoreInv' /\ Follows'
<1>1. mem \in StateT /\ ListOK(mem.contests, call) /\ HeldOK(mem.contests, call)
      /\ ListOK(disk.contests, call)
  BY DEF StoreInv
<1>2. PICK ok \in BOOLEAN :
        LET named == IF ok THEN RoundNamed(mem, o, call[o].i) ELSE mem
            last == call[o].i = call[o].n
            m == IF last THEN Released(named, o) ELSE named
        IN  IF last
            THEN Save(m) /\ Returns(o, call[o].id, m)
            ELSE /\ mem' = m /\ disk' = disk
                 /\ call' = [call EXCEPT ![o].i = @ + 1]
                 /\ UNCHANGED <<formVars, full, fetching, reg, sockets, page, clicks>>
  BY DEF RoundAnswered
<1> DEFINE n == IF ok THEN RoundNamed(mem, o, call[o].i) ELSE mem
<1>3. /\ n \in StateT /\ ListOK(n.contests, call) /\ HeldOK(n.contests, call)
      /\ Erased(n) = Erased(mem)
  <2>1. CASE ok
    BY <1>1, <2>1, RoundNamedIsOK, RoundNamedIsErased
  <2>2. CASE ~ok
    BY <1>1, <2>2
  <2> QED BY <2>1, <2>2
<1>4. CASE call[o].i = call[o].n
  <2>1. Save(Released(n, o)) /\ Returns(o, call[o].id, Released(n, o))
    BY <1>2, <1>4
  <2> HIDE DEF n
  <2> QED BY <1>3, <2>1, EndedKeeps DEF CallMoves
<1>5. CASE call[o].i # call[o].n
  <2>1. mem' = n /\ disk' = disk /\ call' = [call EXCEPT ![o].i = @ + 1] /\ full' = full
    BY <1>2, <1>5
  <2> HIDE DEF n
  <2>2. CallsStand(call, call')
    BY <2>1 DEF CallsStand, CallOK, CallT
  <2>3. ListOK(n.contests, call') /\ HeldOK(n.contests, call') /\ ListOK(disk.contests, call')
    BY <1>1, <1>3, <2>2, ListStands
  <2> QED BY <1>3, <2>1, <2>3, UnsavedKeeps
<1> QED BY <1>4, <1>5

\* What the form holds.
LEMMA FormFields ==
    ASSUME NEW r \in FormRounds
    PROVE  /\ r \in Seq(FormRoundT) /\ Len(r) \in Nat /\ Len(r) <= MaxRounds
           /\ DOMAIN r = 1..Len(r) /\ \A i \in DOMAIN r : r[i] \in FormRoundT
BY ElementOfSeq, LenProperties DEF FormRounds

\* The contest createContest makes from the form.
SavedRounds(r, o) ==
    [i \in DOMAIN r |-> [id |-> r[i].id, live |-> r[i].live, data |-> r[i].data, by |-> o]]
SavedContest(id, status, r, o) == [Contest(id, status, SavedRounds(r, o)) EXCEPT !.by = o]

LEMMA SavedIsContest ==
    ASSUME NEW r \in FormRounds, Known(r), NEW o \in Saves, NEW id \in ContestIds,
           NEW status \in {"draft", "active"}
    PROVE  LET x == SavedContest(id, status, r, o) IN
           /\ x \in ContestT /\ x.id = id /\ x.by = o
           /\ Len(x.rounds) <= MaxRounds /\ Known(x.rounds)
<1> DEFINE q == SavedRounds(r, o)
           x == SavedContest(id, status, r, o)
<1>1. r \in Seq(FormRoundT) /\ Len(r) <= MaxRounds /\ \A i \in DOMAIN r : r[i] \in FormRoundT
  BY FormFields
<1>2. o \in 0..MaxSaves /\ {} \in SUBSET (0..MaxRegs)
  BY StoreAssumption DEF Saves
<1>3. \A i \in DOMAIN r : q[i] \in RoundT /\ q[i].data = r[i].data /\ q[i].id = r[i].id
  BY <1>1, <1>2 DEF SavedRounds, FormRoundT, RoundT
<1>4. DOMAIN q = DOMAIN r /\ q = [i \in DOMAIN q |-> q[i]]
  BY DEF SavedRounds
<1>5. q \in Seq(RoundT) /\ Len(q) = Len(r)
  BY <1>1, <1>3, <1>4, MapIsSeq
<1>6. Known(q)
  BY <1>3, <1>4 DEF Known
<1> HIDE DEF q
<1>7. x = [Contest(id, status, q) EXCEPT !.by = o]
  BY DEF SavedContest, q
<1>8. x \in ContestT /\ x.id = id /\ x.by = o /\ x.rounds = q
  BY <1>2, <1>5, <1>7 DEF Contest, ContestT, Statuses
<1> QED BY <1>1, <1>5, <1>6, <1>8

\* The id createContest takes: that of the form, or one made from the time.
TakenId(o) == IF form.id = None THEN <<"local", o>> ELSE form.id

LEMMA TakenIds ==
    ASSUME FormOK(form, call), NEW o \in Saves
    PROVE  /\ TakenId(o) \in ContestIds /\ TakenId(o) # None /\ TakenId(o) \notin Demos
           /\ \A p \in Saves : call[p].pc \in {"idle", "post", "posted"} =>
                TakenId(o) # ServerId(p)
<1>1. CASE form.id = None
  <2>1. TakenId(o) = <<"local", o>>
    BY <1>1 DEF TakenId
  <2>2. <<"local", o>> \in ContestIds
    BY DEF ContestIds
  <2> QED BY <2>1, <2>2, ServerIds DEF None, Demos
<1>2. CASE form.id # None
  BY <1>2 DEF TakenId, FormOK
<1> QED BY <1>1, <1>2

LEMMA SaveContestIs ==
    ASSUME NEW o \in Saves, SaveContest(o)
    PROVE  \E status \in {"draft", "active"} :
            LET x == SavedContest(TakenId(o), status, form.rounds, o) IN
            /\ Save([mem EXCEPT !.contests = Put(@, x)])
            /\ call' = [call EXCEPT ![o] = [pc |-> "post", id |-> TakenId(o), i |-> 1,
                                            n |-> Len(form.rounds), page |-> TRUE]]
BY DEF SaveContest, SavedContest, SavedRounds, TakenId

LEMMA SaveContestKeeps ==
    ASSUME StoreInv, CallOK(call), FormOK(form, call), NEW o \in Saves, SaveContest(o)
    PROVE  StoreInv' /\ Follows'
<1>1. /\ mem \in StateT /\ ListOK(mem.contests, call) /\ HeldOK(mem.contests, call)
      /\ ListOK(disk.contests, call) /\ mem.contests \in Seq(ContestT)
  BY ListFields DEF StoreInv
<1>2. form.rounds \in FormRounds /\ Known(form.rounds)
  BY DEF FormOK
<1>3. call[o].pc = "idle" /\ full' = full
  BY DEF SaveContest
<1>4. PICK status \in {"draft", "active"} :
        LET x == SavedContest(TakenId(o), status, form.rounds, o) IN
        /\ Save([mem EXCEPT !.contests = Put(@, x)])
        /\ call' = [call EXCEPT ![o] = [pc |-> "post", id |-> TakenId(o), i |-> 1,
                                        n |-> Len(form.rounds), page |-> TRUE]]
  BY SaveContestIs
<1> DEFINE x == SavedContest(TakenId(o), status, form.rounds, o)
           t == Put(mem.contests, x)
           m == [mem EXCEPT !.contests = t]
<1>5. /\ CallMoves(o, call, call') /\ call'[o].pc = "post" /\ call'[o].id = TakenId(o)
  BY <1>4 DEF CallMoves, CallOK
<1>6. Save(m)
  BY <1>4
<1>7. /\ x \in ContestT /\ x.id = TakenId(o) /\ x.by = o
      /\ Len(x.rounds) <= MaxRounds /\ Known(x.rounds)
  BY <1>2, TakenIds, SavedIsContest
<1> HIDE DEF x
<1>8. \A p \in Saves : call'[p].pc \in {"idle", "post", "posted"} => x.id # ServerId(p)
  BY <1>3, <1>5, <1>7, TakenIds DEF CallMoves
<1>9. t \in Seq(ContestT) /\ ListOK(t, call') /\ HeldOK(t, call')
  BY <1>1, <1>3, <1>5, <1>7, <1>8, PutIsOK DEF CallMoves
<1> HIDE DEF t
<1>10. m \in StateT /\ m.contests = t
  BY <1>1, <1>9 DEF StateT
<1>11. ListOK(disk.contests, call')
  <2>1. \A p \in Saves : call'[p].pc \in {"idle", "post"} => call[p].pc \in {"idle", "post"}
    BY <1>3, <1>5 DEF CallMoves
  <2> QED BY <1>1, <2>1, ListMoves
<1> HIDE DEF m
<1> QED BY <1>3, <1>6, <1>9, <1>10, <1>11, SaveKeeps

LEMMA FetchKeeps ==
    ASSUME StoreInv, ServerOK(server, call, clicks), FetchContestsFromServer
    PROVE  StoreInv' /\ Follows'
<1> DEFINE t == Active(server)
           m == [mem EXCEPT !.contests = t]
<1>1. Save(m) /\ call' = call /\ full' = full
  BY DEF FetchContestsFromServer
<1>2. t \in Seq(ContestT) /\ ListOK(t, call) /\ HeldOK(t, call)
  BY ActiveIsOK
<1> HIDE DEF t
<1>3. m \in StateT /\ m.contests = t
  BY <1>2 DEF StateT, StoreInv
<1> HIDE DEF m
<1> QED BY <1>1, <1>2, <1>3, SaveKeeps DEF StoreInv

LEMMA FormKeepsStore ==
    ASSUME StoreInv, Follows, CreatorInv, FormNext
    PROVE  StoreInv' /\ Follows'
<1>1. CallOK(call) /\ FormOK(form, call) /\ ServerOK(server, call, clicks)
  BY DEF CreatorInv
<1>2. CASE (\E i \in 1..MaxRounds : EditRound(i) \/ DeleteRound(i) \/ BeginUpload(i))
           \/ EditForm \/ AddBlankRound \/ (\E u \in uploads : EndUpload(u))
  BY <1>2, NothingSaved, CallsStandStill
     DEF EditRound, DeleteRound, BeginUpload, EditForm, AddBlankRound, EndUpload,
         allButClicks, storeVars
<1>3. ASSUME NEW id \in ListedIds, PublishContest(id) PROVE StoreInv' /\ Follows'
  BY <1>3, ClickedIsListed, PublishedIsLike, UpdateKeeps DEF PublishContest
<1>4. ASSUME NEW o \in Saves, SaveContest(o) PROVE StoreInv' /\ Follows'
  BY <1>1, <1>4, SaveContestKeeps
<1>5. ASSUME NEW o \in Saves, CreateAnswered(o) PROVE StoreInv' /\ Follows'
  BY <1>1, <1>5, CreateAnsweredKeeps
<1>6. ASSUME NEW o \in Saves, CreateFails(o) \/ RoundFails(o) PROVE StoreInv' /\ Follows'
  BY <1>1, <1>6, BrokenOffKeeps DEF CreateFails, RoundFails
<1>7. ASSUME NEW o \in Saves, RoundAnswered(o) PROVE StoreInv' /\ Follows'
  BY <1>1, <1>7, RoundAnsweredKeeps
<1>8. CASE FetchReplacesList
  BY <1>1, <1>8, FetchKeeps DEF FetchReplacesList
<1> QED BY <1>2, <1>3, <1>4, <1>5, <1>6, <1>7, <1>8 DEF FormNext

LEMMA StoreStep ==
    ASSUME StoreInv, Follows, CreatorInv, [Next]_vars
    PROVE  StoreInv' /\ Follows'
<1>1. CallOK(call)
  BY DEF CreatorInv
<1>2. CASE StudentNext \/ ListNext
  BY <1>1, <1>2, StudentKeepsStore, ListKeepsStore
<1>3. CASE PageNext
  BY <1>1, <1>3, PageKeepsStore
<1>4. CASE FormNext
  BY <1>4, FormKeepsStore
<1>5. CASE MonitorNext
  BY <1>5, NothingSaved, CallsStandStill
     DEF MonitorNext, Watch, HandleFinalEvaluation, EvaluationEnds, allButClicks, storeVars
<1>6. CASE UNCHANGED vars
  BY <1>6, NothingSaved, CallsStandStill DEF vars, storeVars, allButClicks
<1> QED BY <1>2, <1>3, <1>4, <1>5, <1>6 DEF Next

---------------------------------------------------------------------------
(* The rounds of the form. *)

\* A function over the indices of the form's rounds.
LEMMA FormMap ==
    ASSUME NEW r \in FormRounds, NEW q, DOMAIN q = DOMAIN r, q = [i \in DOMAIN q |-> q[i]],
           \A i \in DOMAIN r : q[i] \in FormRoundT
    PROVE  q \in FormRounds
<1>1. r \in Seq(FormRoundT) /\ Len(r) <= MaxRounds
  BY FormFields
<1>2. q \in Seq(FormRoundT) /\ Len(q) = Len(r)
  BY <1>1, MapIsSeq
<1> QED BY <1>1, <1>2 DEF FormRounds

LEMMA FormRoundFields ==
    ASSUME NEW x \in FormRoundT
    PROVE  /\ [x EXCEPT !.src = 0] \in FormRoundT
           /\ [x EXCEPT !.src = 0].data = x.data /\ [x EXCEPT !.src = 0].id = x.id
           /\ [x EXCEPT !.live = TRUE] \in FormRoundT
           /\ [x EXCEPT !.live = TRUE].data = x.data /\ [x EXCEPT !.live = TRUE].id = x.id
           /\ \A mark \in Marks : /\ [x EXCEPT !.data = mark] \in FormRoundT
                                  /\ [x EXCEPT !.data = mark].id = x.id
<1>1. 0 \in 0..MaxRounds /\ TRUE \in Flags
  BY CreatorAssumption DEF Flags
<1> QED BY <1>1 DEF FormRoundT

\* updateRound with a round that is known if it is marked.
LEMMA UpdateIsOK ==
    ASSUME NEW r \in FormRounds, Known(r), NEW i \in DOMAIN r, NEW x \in FormRoundT,
           x.data # "none" => x.id # 0
    PROVE  UpdateRound(r, i, x) \in FormRounds /\ Known(UpdateRound(r, i, x))
<1> DEFINE y == [x EXCEPT !.src = 0]
           q == [r EXCEPT ![i] = y]
<1>1. UpdateRound(r, i, x) = q
  BY DEF UpdateRound
<1>2. y \in FormRoundT /\ y.data = x.data /\ y.id = x.id
  BY FormRoundFields
<1> HIDE DEF y
<1>3. /\ DOMAIN q = DOMAIN r /\ q = [j \in DOMAIN q |-> q[j]]
      /\ \A j \in DOMAIN r : q[j] = IF j = i THEN y ELSE r[j]
  OBVIOUS
<1> HIDE DEF q
<1>4. \A j \in DOMAIN r : q[j] \in FormRoundT
  BY <1>2, <1>3, FormFields
<1>5. Known(q)
  BY <1>2, <1>3 DEF Known
<1> QED BY <1>1, <1>3, <1>4, <1>5, FormMap

LEMMA MarkedIsOK ==
    ASSUME NEW r \in FormRounds, Known(r), NEW i \in DOMAIN r, NEW mark \in Marks,
           r[i].id # 0
    PROVE  Marked(r, i, mark) \in FormRounds /\ Known(Marked(r, i, mark))
<1> DEFINE x == [r[i] EXCEPT !.data = mark]
<1>1. r[i] \in FormRoundT
  BY FormFields
<1>2. x \in FormRoundT /\ x.id # 0
  BY <1>1, FormRoundFields
<1>3. Marked(r, i, mark) = UpdateRound(r, i, x)
  BY DEF Marked
<1> HIDE DEF x
<1> QED BY <1>2, <1>3, UpdateIsOK

LEMMA UnsharedIsOK ==
    ASSUME NEW r \in FormRounds
    PROVE  /\ Unshared(r) \in FormRounds /\ DOMAIN Unshared(r) = DOMAIN r
           /\ Known(r) => Known(Unshared(r))
           /\ \A i \in DOMAIN r : Unshared(r)[i].id = r[i].id
<1>1. \A i \in DOMAIN r : /\ Unshared(r)[i] \in FormRoundT
                          /\ Unshared(r)[i].id = r[i].id /\ Unshared(r)[i].data = r[i].data
  BY FormFields, FormRoundFields DEF Unshared
<1>2. DOMAIN Unshared(r) = DOMAIN r /\ Unshared(r) = [i \in DOMAIN Unshared(r) |-> Unshared(r)[i]]
  BY DEF Unshared
<1> QED BY <1>1, <1>2, FormMap DEF Known

LEMMA LiveSharedIsOK ==
    ASSUME NEW r \in FormRounds
    PROVE  /\ LiveShared(r) \in FormRounds /\ DOMAIN LiveShared(r) = DOMAIN r
           /\ Known(r) => Known(LiveShared(r))
           /\ \A i \in DOMAIN r : LiveShared(r)[i].id = r[i].id
<1>1. \A i \in DOMAIN r : /\ LiveShared(r)[i] \in FormRoundT
                          /\ LiveShared(r)[i].id = r[i].id
                          /\ LiveShared(r)[i].data = r[i].data
  BY FormFields, FormRoundFields DEF LiveShared
<1>2. /\ DOMAIN LiveShared(r) = DOMAIN r
      /\ LiveShared(r) = [i \in DOMAIN LiveShared(r) |-> LiveShared(r)[i]]
  BY DEF LiveShared
<1> QED BY <1>1, <1>2, FormMap DEF Known

LEMMA RemovedIsOK ==
    ASSUME NEW r \in FormRounds, Known(r), NEW i \in DOMAIN r
    PROVE  RemoveAt(r, i) \in FormRounds /\ Known(RemoveAt(r, i))
<1> DEFINE a == SubSeq(r, 1, i - 1)
           b == SubSeq(r, i + 1, Len(r))
           q == RemoveAt(r, i)
<1>1. /\ r \in Seq(FormRoundT) /\ Len(r) \in Nat /\ Len(r) <= MaxRounds
      /\ DOMAIN r = 1..Len(r) /\ i \in 1..Len(r) /\ MaxRounds \in Nat
  BY FormFields, CreatorAssumption
<1>2. /\ a \in Seq(FormRoundT) /\ Len(a) = i - 1
      /\ \A j \in 1..(i - 1) : a[j] = r[j]
  BY <1>1, SubSeqProperties
<1>3. /\ b \in Seq(FormRoundT) /\ Len(b) = Len(r) - i
      /\ \A j \in 1..(Len(r) - i) : b[j] = r[i + j]
  BY <1>1, SubSeqProperties
<1> HIDE DEF a, b
<1>4. /\ q \in Seq(FormRoundT) /\ Len(q) = Len(a) + Len(b)
      /\ \A j \in 1..(Len(a) + Len(b)) : q[j] = IF j <= Len(a) THEN a[j] ELSE b[j - Len(a)]
  BY <1>2, <1>3, ConcatProperties DEF RemoveAt, a, b
<1> HIDE DEF q
<1>5. Len(q) = Len(r) - 1 /\ DOMAIN q = 1..(Len(r) - 1)
  BY <1>1, <1>2, <1>3, <1>4, LenProperties
<1>6. ASSUME NEW j \in DOMAIN q PROVE \E k \in DOMAIN r : q[j] = r[k]
  <2>1. CASE j <= i - 1
    BY <1>1, <1>2, <1>3, <1>4, <1>5, <2>1
  <2>2. CASE ~(j <= i - 1)
    <3>1. j - (i - 1) \in 1..(Len(r) - i) /\ j + 1 \in 1..Len(r) /\ i + (j - (i - 1)) = j + 1
      BY <1>1, <1>5, <2>2
    <3>2. q[j] = b[j - (i - 1)]
      BY <1>1, <1>2, <1>3, <1>4, <1>5, <2>2
    <3> QED BY <1>1, <1>3, <3>1, <3>2
  <2> QED BY <2>1, <2>2
<1>7. Known(q)
  BY <1>6 DEF Known
<1>8. q \in FormRounds
  BY <1>1, <1>4, <1>5 DEF FormRounds
<1> QED BY <1>7, <1>8 DEF q

LEMMA BlankIsOK ==
    /\ BlankRound \in FormRoundT /\ BlankRound.data = "none"
    /\ BlankForm.rounds \in FormRounds /\ Known(BlankForm.rounds)
<1>1. FALSE \in Flags /\ 0 \in 0..MaxRounds /\ 0 \in 0..MaxSaves /\ 1 <= MaxRounds
  BY CreatorAssumption, StoreAssumption DEF Flags
<1>2. BlankRound \in FormRoundT /\ BlankRound.data = "none"
  BY <1>1 DEF BlankRound, FormRoundT, Marks
<1>3. BlankForm.rounds = <<BlankRound>>
  BY DEF BlankForm
<1> HIDE DEF BlankRound
<1>4. /\ <<BlankRound>> \in Seq(FormRoundT) /\ Len(<<BlankRound>>) = 1
      /\ DOMAIN <<BlankRound>> = {1} /\ <<BlankRound>>[1] = BlankRound
  BY <1>2
<1> QED BY <1>1, <1>2, <1>3, <1>4 DEF FormRounds, Known

LEMMA AddedIsOK ==
    ASSUME NEW r \in FormRounds, Known(r), Len(r) < MaxRounds
    PROVE  Append(r, BlankRound) \in FormRounds /\ Known(Append(r, BlankRound))
<1> DEFINE q == Append(r, BlankRound)
<1>1. /\ r \in Seq(FormRoundT) /\ Len(r) \in Nat /\ DOMAIN r = 1..Len(r) /\ MaxRounds \in Nat
  BY FormFields, CreatorAssumption
<1>2. /\ q \in Seq(FormRoundT) /\ Len(q) = Len(r) + 1 /\ DOMAIN q = 1..(Len(r) + 1)
      /\ \A j \in 1..Len(r) : q[j] = r[j]
      /\ q[Len(r) + 1] = BlankRound
  BY <1>1, BlankIsOK, AppendProperties, LenProperties
<1> HIDE DEF q
<1>3. \A j \in DOMAIN q : j \in DOMAIN r \/ j = Len(r) + 1
  BY <1>1, <1>2
<1>4. Known(q)
  BY <1>1, <1>2, <1>3, BlankIsOK DEF Known
<1> QED BY <1>1, <1>2, <1>4 DEF FormRounds, q

---------------------------------------------------------------------------
(* Steps of the calls, of the server and of the form. *)

Early == {"idle", "post", "posted"}

\* No call becomes idle again or goes back, and a call that sends rounds has
\* sent at least as many as before.
Onward(c, d) ==
    \A o \in Saves :
        /\ d[o].pc \in Early => c[o].pc \in Early
        /\ c[o].pc \notin {"idle", "post"} =>
            /\ d[o].pc \notin {"idle", "post"}
            /\ d[o].pc = "posted" => c[o].pc = "posted"
            /\ d[o].pc = "rounds" => \/ c[o].pc = "posted" /\ 1 <= d[o].i
                                     \/ c[o].pc = "rounds" /\ c[o].i <= d[o].i

LEMMA ServerOnward ==
    ASSUME NEW s, NEW c, NEW d, NEW n \in Nat, NEW n2 \in Nat, ServerOK(s, c, n), n <= n2,
           Onward(c, d), CallOK(c), d \in [Saves -> CallT]
    PROVE  ServerOK(s, d, n2)
<1>1. s \in Seq(ServerT) /\ Unique(s)
  BY DEF ServerOK
<1>2. ASSUME NEW k \in DOMAIN s
      PROVE  /\ Len(s[k].rounds) <= MaxRounds
             /\ \A i \in 1..MaxClicks : s[k].id = <<"extra", i>> => i <= n2
             /\ \A o \in Saves : s[k].id = ServerId(o) =>
                 /\ d[o].pc \notin {"idle", "post"}
                 /\ d[o].pc = "posted" => Len(s[k].rounds) = 0
                 /\ d[o].pc = "rounds" => Len(s[k].rounds) < d[o].i
  <2>1. Len(s[k].rounds) \in Nat
    <3>1. s[k] \in ServerT
      BY <1>1, ElementOfSeq, LenProperties
    <3>2. s[k].rounds \in Seq(1..MaxSaves)
      BY <3>1 DEF ServerT
    <3> QED BY <3>2, LenProperties
  <2>2. Len(s[k].rounds) <= MaxRounds
    BY DEF ServerOK
  <2>3. \A i \in 1..MaxClicks : s[k].id = <<"extra", i>> => i <= n2
    <3> SUFFICES ASSUME NEW i \in 1..MaxClicks, s[k].id = <<"extra", i>> PROVE i <= n2
      OBVIOUS
    <3>1. i <= n
      BY DEF ServerOK
    <3> QED BY <3>1, StoreAssumption
  <2>4. ASSUME NEW o \in Saves, s[k].id = ServerId(o)
        PROVE  /\ d[o].pc \notin {"idle", "post"}
               /\ d[o].pc = "posted" => Len(s[k].rounds) = 0
               /\ d[o].pc = "rounds" => Len(s[k].rounds) < d[o].i
    <3>1. /\ c[o].pc \notin {"idle", "post"}
          /\ c[o].pc = "posted" => Len(s[k].rounds) = 0
          /\ c[o].pc = "rounds" => Len(s[k].rounds) < c[o].i
      BY <2>4 DEF ServerOK
    <3>2. c[o].i \in Nat /\ d[o].i \in Nat
      BY CreatorAssumption DEF CallOK, CallT
    <3> QED BY <2>1, <3>1, <3>2 DEF Onward
  <2> QED BY <2>2, <2>3, <2>4
<1> QED BY <1>1, <1>2 DEF ServerOK

LEMMA FormOnward ==
    ASSUME NEW f, NEW c, NEW d, FormOK(f, c), Onward(c, d)
    PROVE  FormOK(f, d)
BY DEF FormOK, Onward, Early

\* One call moves.
LEMMA CallsOnward ==
    ASSUME NEW c, NEW d, CallOK(c), NEW o \in Saves, d \in [Saves -> CallT], CallMoves(o, c, d),
           d[o].id \notin Demos, d[o].pc \in Busy => d[o].id # None,
           d[o].pc \in {"post", "posted"} => d[o].i = 1,
           d[o].pc = "rounds" => /\ d[o].id = ServerId(o)
                                 /\ 1 <= d[o].i /\ d[o].i <= d[o].n,
           d[o].pc \in Early => c[o].pc \in Early,
           \A p \in Saves : d[p].pc \in Early => d[o].id # ServerId(p)
    PROVE  CallOK(d)
<1>1. ASSUME NEW p \in Saves
      PROVE  /\ d[p].id \notin Demos
             /\ d[p].pc \in Busy => d[p].id # None
             /\ d[p].pc \in {"post", "posted"} => d[p].i = 1
             /\ d[p].pc = "rounds" => /\ d[p].id = ServerId(p)
                                      /\ 1 <= d[p].i /\ d[p].i <= d[p].n
  <2>1. CASE p = o
    BY <2>1
  <2>2. CASE p # o
    <3>1. d[p] = c[p]
      BY <2>2 DEF CallMoves
    <3> QED BY <3>1 DEF CallOK
  <2> QED BY <2>1, <2>2
<1>2. ASSUME NEW p \in Saves, d[p].pc \in Early, NEW q \in Saves PROVE d[q].id # ServerId(p)
  <2>1. CASE q = o
    BY <1>2, <2>1
  <2>2. CASE q # o
    <3>1. d[q] = c[q] /\ c[p].pc \in Early
      BY <1>2, <2>2 DEF CallMoves
    <3> QED BY <3>1 DEF CallOK, Early
  <2> QED BY <2>1, <2>2
<1> QED BY <1>1, <1>2 DEF CallOK, Early

\* A call is over.
LEMMA OverIsOnward ==
    ASSUME NEW c, NEW d, NEW o \in Saves, CallMoves(o, c, d), d[o].pc = "over", CallOK(c)
    PROVE  Onward(c, d)
<1>1. \A p \in Saves : c[p].i \in Nat
  BY CreatorAssumption DEF CallOK, CallT
<1>2. ASSUME NEW p \in Saves
      PROVE  /\ d[p].pc \in Early => c[p].pc \in Early
             /\ c[p].pc \notin {"idle", "post"} =>
                /\ d[p].pc \notin {"idle", "post"}
                /\ d[p].pc = "posted" => c[p].pc = "posted"
                /\ d[p].pc = "rounds" => \/ c[p].pc = "posted" /\ 1 <= d[p].i
                                         \/ c[p].pc = "rounds" /\ c[p].i <= d[p].i
  <2>1. CASE p = o
    BY <2>1 DEF Early
  <2>2. CASE p # o
    <3>1. d[p] = c[p] /\ c[p].i <= d[p].i
      BY <1>1, <2>2 DEF CallMoves
    <3> QED BY <3>1 DEF CallOK, CallT
  <2> QED BY <2>1, <2>2
<1> QED BY <1>2 DEF Onward

\* The calls stand: all that changes is whether their page shows.
LEMMA StandingCalls ==
    ASSUME CallOK(call), call' = call \/ call' = Orphaned
    PROVE  CallOK(call)' /\ Onward(call, call')
<1>1. FALSE \in Flags
  BY DEF Flags
<1>2. /\ call' \in [Saves -> CallT]
      /\ \A o \in Saves : /\ call'[o].pc = call[o].pc /\ call'[o].id = call[o].id
                          /\ call'[o].i = call[o].i /\ call'[o].n = call[o].n
  <2>1. CASE call' = call
    BY <2>1 DEF CallOK
  <2>2. CASE call' = Orphaned
    BY <1>1, <2>2 DEF CallOK, CallT, Orphaned
  <2> QED BY <2>1, <2>2
<1>3. \A o \in Saves : call[o].i \in Nat
  BY CreatorAssumption DEF CallOK, CallT
<1>4. CallOK(call)'
  BY <1>2 DEF CallOK
<1>5. Onward(call, call')
  BY <1>2, <1>3 DEF Onward
<1> QED BY <1>4, <1>5

LEMMA ClicksCount ==
    ASSUME clicks \in 0..MaxClicks, Click \/ UNCHANGED clicks
    PROVE  clicks' \in 0..MaxClicks /\ clicks \in Nat /\ clicks' \in Nat /\ clicks <= clicks'
BY StoreAssumption DEF Click

\* The steps that leave the server alone and let the calls stand.
LEMMA QuietKeepsCreator ==
    ASSUME CreatorInv, UNCHANGED server, call' = call \/ call' = Orphaned,
           Click \/ UNCHANGED clicks
    PROVE  /\ clicks' \in 0..MaxClicks /\ ServerOK(server', call', clicks') /\ CallOK(call')
           /\ \A f : FormOK(f, call) => FormOK(f, call')
<1>1. clicks' \in 0..MaxClicks /\ clicks \in Nat /\ clicks' \in Nat /\ clicks <= clicks'
  BY ClicksCount DEF CreatorInv
<1>2. CallOK(call) /\ CallOK(call') /\ Onward(call, call')
  BY StandingCalls DEF CreatorInv
<1>3. call' \in [Saves -> CallT]
  BY <1>2 DEF CallOK
<1>4. ServerOK(server, call', clicks')
  BY <1>1, <1>2, <1>3, ServerOnward DEF CreatorInv
<1> QED BY <1>1, <1>2, <1>4, FormOnward

\* The server has one more contest.
LEMMA PostIsOK ==
    ASSUME NEW s \in Seq(ServerT), Unique(s), NEW id \in ContestIds, Lacks(s, id)
    PROVE  LET x == [id |-> id, rounds |-> <<>>]
               t == <<x>> \o s
           IN  /\ t \in Seq(ServerT) /\ Unique(t) /\ x.id = id /\ Len(x.rounds) = 0
               /\ \A k \in DOMAIN t : t[k] = x \/ \E j \in DOMAIN s : t[k] = s[j]
<1> DEFINE x == [id |-> id, rounds |-> <<>>]
           t == <<x>> \o s
<1>1. x \in ServerT /\ x.id = id /\ Len(x.rounds) = 0
  BY EmptySeq DEF ServerT
<1> HIDE DEF x
<1>2. <<x>> \in Seq(ServerT) /\ Len(<<x>>) = 1 /\ <<x>>[1] = x
  BY <1>1
<1>3. Len(s) \in Nat /\ DOMAIN s = 1..Len(s)
  BY LenProperties
<1>4. /\ t \in Seq(ServerT) /\ Len(t) = 1 + Len(s)
      /\ \A i \in 1..(1 + Len(s)) : t[i] = IF i <= 1 THEN <<x>>[i] ELSE s[i - 1]
  BY <1>2, ConcatProperties
<1> HIDE DEF t
<1>5. DOMAIN t = 1..(1 + Len(s))
  BY <1>4, LenProperties
<1>6. \A k \in DOMAIN t : (k = 1 /\ t[k] = x) \/ (k - 1 \in DOMAIN s /\ t[k] = s[k - 1])
  BY <1>2, <1>3, <1>4, <1>5
<1>7. Unique(t)
  <2> SUFFICES ASSUME NEW j \in DOMAIN t, NEW k \in DOMAIN t, t[j].id = t[k].id PROVE j = k
    BY DEF Unique
  <2>1. (j = 1 /\ k = 1) \/ (j - 1 \in DOMAIN s /\ k - 1 \in DOMAIN s /\ j - 1 = k - 1)
    BY <1>1, <1>6 DEF Unique, Lacks
  <2> QED BY <1>5, <2>1, <1>3
<1> QED BY <1>1, <1>4, <1>6, <1>7 DEF x, t

\* The server has one more round of call o, which goes on to its next.
LEMMA AddRoundIsOK ==
    ASSUME NEW n \in Nat, ServerOK(server, call, n), CallOK(call), NEW o \in Saves,
           call[o].pc = "rounds", NEW d, d \in [Saves -> CallT], CallMoves(o, call, d),
           \/ d[o].pc = "over"
           \/ d[o].pc = "rounds" /\ d[o].i = call[o].i + 1
    PROVE  ServerOK(AddRound(o), d, n)
<1> DEFINE t == AddRound(o)
<1>1. /\ server \in Seq(ServerT) /\ Unique(server) /\ MaxRounds \in Nat
      /\ \A k \in DOMAIN server : server[k] \in ServerT
  BY ElementOfSeq, LenProperties, CreatorAssumption DEF ServerOK
<1>2. /\ DOMAIN t = DOMAIN server /\ t = [k \in DOMAIN t |-> t[k]]
      /\ \A k \in DOMAIN server :
            t[k] = IF server[k].id = ServerId(o)
                   THEN [server[k] EXCEPT !.rounds = Append(@, o)] ELSE server[k]
  BY DEF AddRound, ServerId
<1> HIDE DEF t
<1>3. /\ call[o].i \in Nat /\ call[o].n \in 0..MaxRounds /\ call[o].i <= call[o].n
      /\ \A p \in Saves : d[p].i \in Nat
  BY CreatorAssumption DEF CallOK, CallT
<1>4. ASSUME NEW k \in DOMAIN server
      PROVE  /\ t[k] \in ServerT /\ t[k].id = server[k].id
             /\ server[k].id # ServerId(o) => t[k] = server[k]
             /\ server[k].id = ServerId(o) => Len(t[k].rounds) <= call[o].i
             /\ Len(t[k].rounds) <= MaxRounds
  <2>1. CASE server[k].id # ServerId(o)
    BY <1>1, <1>2, <2>1 DEF ServerOK
  <2>2. CASE server[k].id = ServerId(o)
    <3> DEFINE r == server[k].rounds
               q == Append(r, o)
    <3>1. t[k] = [server[k] EXCEPT !.rounds = q]
      BY <1>2, <2>2
    <3>2. r \in Seq(1..MaxSaves) /\ o \in 1..MaxSaves
      BY <1>1 DEF ServerT, Saves
    <3>3. q \in Seq(1..MaxSaves) /\ Len(q) = Len(r) + 1 /\ Len(r) \in Nat
      BY <3>2, AppendProperties, LenProperties
    <3>4. Len(r) < call[o].i
      BY <2>2 DEF ServerOK
    <3>5. Len(q) <= call[o].i /\ Len(q) <= MaxRounds
      BY <1>1, <1>3, <3>3, <3>4
    <3> HIDE DEF q
    <3> QED BY <1>1, <2>2, <3>1, <3>3, <3>5 DEF ServerT
  <2> QED BY <2>1, <2>2
<1>5. t \in Seq(ServerT)
  BY <1>1, <1>2, <1>4, MapIsSeq
<1>6. Unique(t)
  BY <1>1, <1>2, <1>4 DEF Unique
<1>7. ASSUME NEW k \in DOMAIN t, NEW p \in Saves, t[k].id = ServerId(p)
      PROVE  /\ d[p].pc \notin {"idle", "post"}
             /\ d[p].pc = "posted" => Len(t[k].rounds) = 0
             /\ d[p].pc = "rounds" => Len(t[k].rounds) < d[p].i
  <2>1. CASE p = o
    <3>1. Len(t[k].rounds) \in Nat /\ Len(t[k].rounds) <= call[o].i
      <4>1. t[k].rounds \in Seq(1..MaxSaves)
        BY <1>2, <1>4 DEF ServerT
      <4> QED BY <1>2, <1>4, <1>7, <2>1, <4>1, LenProperties
    <3> QED BY <1>3, <2>1, <3>1
  <2>2. CASE p # o
    <3>1. server[k].id = ServerId(p) /\ server[k].id # ServerId(o)
      BY <1>2, <1>4, <1>7, <2>2, ServerIds
    <3>2. t[k] = server[k] /\ d[p] = call[p]
      BY <1>2, <1>4, <2>2, <3>1 DEF CallMoves
    <3> QED BY <1>2, <3>1, <3>2 DEF ServerOK
  <2> QED BY <2>1, <2>2
<1>8. \A k \in DOMAIN t : /\ Len(t[k].rounds) <= MaxRounds
                          /\ \A i \in 1..MaxClicks : t[k].id = <<"extra", i>> => i <= n
  BY <1>2, <1>4 DEF ServerOK
<1> QED BY <1>5, <1>6, <1>7, <1>8 DEF ServerOK, t

\* saveContest takes the stored contest over into the form.
LEMMA ReturnsIsOK ==
    ASSUME FormOK(form, call), CallOK(call), NEW o \in Saves, NEW id, NEW m \in StateT,
           NEW c, ListOK(m.contests, c), Returns(o, id, m), id \notin Demos,
           \A p \in Saves \ {o} : call[p].pc \in Early => id # ServerId(p)
    PROVE  FormOK(form', call') /\ CallOK(call') /\ Onward(call, call')
<1>1. /\ CallMoves(o, call, call') /\ call'[o] = [IdleCall EXCEPT !.pc = "over"]
      /\ call'[o].pc = "over" /\ call'[o].id = None
  BY ReturnsMoves
<1>2. Onward(call, call')
  BY <1>1, OverIsOnward
<1>3. call' \in [Saves -> CallT]
  <2>1. FALSE \in Flags /\ 0 \in 0..MaxRounds
    BY CreatorAssumption DEF Flags
  <2>2. [IdleCall EXCEPT !.pc = "over"] \in CallT
    BY <2>1 DEF IdleCall, CallT
  <2> QED BY <2>2 DEF Returns, CallOK
<1>4. CallOK(call')
  <2>1. None \notin Demos /\ \A p \in Saves : None # ServerId(p)
    BY ServerIds DEF None, Demos
  <2> QED BY <1>1, <1>3, <2>1, CallsOnward DEF Early, Busy
<1>5. CASE form' = form
  BY <1>2, <1>4, <1>5, FormOnward
<1>6. CASE call[o].page /\ Listed(m, id)
  <2> DEFINE rounds == m.contests[IndexOf(m, id)].rounds
             q == [i \in DOMAIN rounds |->
                     [id |-> rounds[i].id, live |-> rounds[i].live,
                      data |-> rounds[i].data, src |-> i]]
  <2>1. form' = [id |-> id, named |-> TRUE, rounds |-> q]
    BY <1>6 DEF Returns
  <2>2. /\ IndexOf(m, id) \in DOMAIN m.contests /\ m.contests[IndexOf(m, id)].id = id
        /\ m.contests[IndexOf(m, id)] \in ContestT
    BY <1>6, ListFields, IndexIsFirst
  <2>3. /\ id \in ContestIds /\ rounds \in Seq(RoundT)
        /\ \A i \in DOMAIN rounds : rounds[i] \in RoundT
    BY <2>2, ContestFields
  <2>4. Len(rounds) <= MaxRounds /\ Known(rounds)
    BY <2>2 DEF ListOK
  <2> HIDE DEF rounds
  <2>5. Len(rounds) \in Nat /\ DOMAIN rounds = 1..Len(rounds)
    BY <2>3, LenProperties
  <2>6. \A i \in DOMAIN rounds : i \in 0..MaxRounds
    BY <2>4, <2>5, CreatorAssumption
  <2>7. \A i \in DOMAIN rounds : /\ q[i] \in FormRoundT /\ q[i].id = rounds[i].id
                                 /\ q[i].data = rounds[i].data
    BY <2>3, <2>6 DEF RoundT, FormRoundT
  <2>8. DOMAIN q = DOMAIN rounds /\ q = [i \in DOMAIN q |-> q[i]]
    OBVIOUS
  <2> HIDE DEF q
  <2>9. q \in Seq(FormRoundT) /\ Len(q) = Len(rounds)
    BY <2>3, <2>7, <2>8, MapIsSeq
  <2>10. q \in FormRounds /\ Known(q)
    BY <2>4, <2>7, <2>8, <2>9 DEF FormRounds, Known
  <2>11. TRUE \in Flags
    BY DEF Flags
  <2>12. /\ form' \in [id : ContestIds \cup {None}, named : Flags, rounds : FormRounds]
         /\ form'.id = id /\ form'.rounds = q
    BY <2>1, <2>3, <2>10, <2>11
  <2>13. \A p \in Saves : call'[p].pc \in Early => id # ServerId(p)
    BY <1>1 DEF CallMoves, Early
  <2> QED BY <1>2, <1>4, <2>10, <2>12, <2>13 DEF FormOK, Early
<1> QED BY <1>2, <1>4, <1>5, <1>6 DEF Returns

LEMMA BlankFormIsOK == ASSUME NEW c PROVE FormOK(BlankForm, c)
<1>1. FALSE \in Flags
  BY DEF Flags
<1>2. BlankForm.rounds \in FormRounds /\ Known(BlankForm.rounds)
  BY BlankIsOK
<1> DEFINE r == <<BlankRound>>
<1>3. BlankForm = [id |-> None, named |-> FALSE, rounds |-> r]
  BY DEF BlankForm
<1> HIDE DEF r
<1>4. None \notin Demos /\ \A o \in Saves : None # ServerId(o)
  BY ServerIds DEF None, Demos
<1>5. /\ BlankForm \in [id : ContestIds \cup {None}, named : Flags, rounds : FormRounds]
      /\ BlankForm.id = None
  <2>1. BlankForm.rounds = r
    BY <1>3
  <2>2. r \in FormRounds
    BY <1>2, <2>1
  <2> HIDE DEF BlankForm
  <2> QED BY <1>1, <1>3, <2>2
<1> QED BY <1>2, <1>4, <1>5 DEF FormOK

LEMMA RoundsReplaced ==
    ASSUME NEW c, FormOK(form, c), NEW q \in FormRounds, Known(q)
    PROVE  FormOK([form EXCEPT !.rounds = q], c)
BY DEF FormOK

LEMMA UploadReplaced ==
    ASSUME NEW u, UploadOK(u), NEW q \in FormRounds, DOMAIN q = DOMAIN u.rounds, Known(q),
           \A i \in DOMAIN q : q[i].id = u.rounds[i].id
    PROVE  UploadOK([u EXCEPT !.rounds = q])
BY DEF UploadOK

LEMMA FormIsUnshared ==
    ASSUME CreatorInv, NEW c, FormOK(form, c)
    PROVE  /\ FormOK(Detached(form), c)
           /\ \A u \in DetachedUploads : UploadOK(u)
<1>1. form.rounds \in FormRounds /\ Known(form.rounds)
  BY DEF FormOK
<1>2. FormOK(Detached(form), c)
  BY <1>1, UnsharedIsOK, RoundsReplaced DEF Detached
<1>3. ASSUME NEW u \in uploads PROVE UploadOK([u EXCEPT !.rounds = Unshared(@)])
  <2>1. UploadOK(u) /\ u.rounds \in FormRounds /\ Known(u.rounds)
    BY DEF CreatorInv, UploadOK
  <2>2. /\ Unshared(u.rounds) \in FormRounds /\ DOMAIN Unshared(u.rounds) = DOMAIN u.rounds
        /\ Known(Unshared(u.rounds))
        /\ \A i \in DOMAIN u.rounds : Unshared(u.rounds)[i].id = u.rounds[i].id
    BY <2>1, UnsharedIsOK
  <2> QED BY <2>1, <2>2, UploadReplaced
<1> QED BY <1>2, <1>3 DEF DetachedUploads

LEMMA FormIsLive ==
    ASSUME CreatorInv, NEW c, FormOK(form, c)
    PROVE  /\ FormOK([form EXCEPT !.rounds = LiveShared(@)], c)
           /\ \A u \in uploads : UploadOK([u EXCEPT !.rounds = LiveShared(@)])
<1>1. form.rounds \in FormRounds /\ Known(form.rounds)
  BY DEF FormOK
<1>2. FormOK([form EXCEPT !.rounds = LiveShared(@)], c)
  BY <1>1, LiveSharedIsOK, RoundsReplaced
<1>3. ASSUME NEW u \in uploads PROVE UploadOK([u EXCEPT !.rounds = LiveShared(@)])
  <2>1. UploadOK(u) /\ u.rounds \in FormRounds /\ Known(u.rounds)
    BY DEF CreatorInv, UploadOK
  <2>2. /\ LiveShared(u.rounds) \in FormRounds /\ DOMAIN LiveShared(u.rounds) = DOMAIN u.rounds
        /\ Known(LiveShared(u.rounds))
        /\ \A i \in DOMAIN u.rounds : LiveShared(u.rounds)[i].id = u.rounds[i].id
    BY <2>1, LiveSharedIsOK
  <2> QED BY <2>1, <2>2, UploadReplaced
<1> QED BY <1>2, <1>3

\* POST /api/contests reached the server.
LEMMA PostedKeepsCreator ==
    ASSUME CreatorInv, NEW o \in Saves, Posted(o), UNCHANGED formVars
    PROVE  CreatorInv'
<1> DEFINE x == [id |-> ServerId(o), rounds |-> <<>>]
           t == <<x>> \o server
<1>1. /\ call[o].pc = "post" /\ call' = [call EXCEPT ![o].pc = "posted"]
      /\ server' = t /\ clicks' = clicks /\ UNCHANGED <<form, uploads>>
  BY DEF Posted, ServerId, formVars
<1>2. CallOK(call) /\ ServerOK(server, call, clicks) /\ clicks \in 0..MaxClicks
      /\ FormOK(form, call)
  BY DEF CreatorInv
<1>3. /\ call' \in [Saves -> CallT] /\ CallMoves(o, call, call')
      /\ call'[o].pc = "posted" /\ call'[o].id = call[o].id /\ call'[o].i = call[o].i
  BY <1>1, <1>2 DEF CallOK, CallT, CallMoves
<1>4. CallOK(call')
  <2>1. /\ call[o].id \notin Demos /\ call[o].id # None /\ call[o].i = 1
        /\ \A p \in Saves : call[p].pc \in Early => call[o].id # ServerId(p)
    BY <1>1, <1>2 DEF CallOK, Busy, Early
  <2>2. \A p \in Saves : call'[p].pc \in Early => call[p].pc \in Early
    BY <1>1, <1>3 DEF CallMoves, Early
  <2> QED BY <1>2, <1>3, <2>1, <2>2, CallsOnward
<1>5. FormOK(form, call')
  <2>1. \A p \in Saves : call'[p].pc \in Early => call[p].pc \in Early
    BY <1>1, <1>3 DEF CallMoves, Early
  <2> QED BY <1>2, <2>1 DEF FormOK, Early
<1>6. server \in Seq(ServerT) /\ Unique(server) /\ Lacks(server, ServerId(o))
  BY <1>1, <1>2 DEF ServerOK, Lacks
<1>7. /\ t \in Seq(ServerT) /\ Unique(t) /\ x.id = ServerId(o) /\ Len(x.rounds) = 0
      /\ \A k \in DOMAIN t : t[k] = x \/ \E j \in DOMAIN server : t[k] = server[j]
  BY <1>6, ServerIds, PostIsOK
<1> HIDE DEF x, t
<1>8. ASSUME NEW k \in DOMAIN t
      PROVE  /\ Len(t[k].rounds) <= MaxRounds
             /\ \A i \in 1..MaxClicks : t[k].id = <<"extra", i>> => i <= clicks
             /\ \A p \in Saves : t[k].id = ServerId(p) =>
                 /\ call'[p].pc \notin {"idle", "post"}
                 /\ call'[p].pc = "posted" => Len(t[k].rounds) = 0
                 /\ call'[p].pc = "rounds" => Len(t[k].rounds) < call'[p].i
  <2>1. CASE t[k] = x
    <3>1. t[k].id = ServerId(o) /\ Len(t[k].rounds) = 0 /\ 0 <= MaxRounds
      BY <1>7, <2>1, CreatorAssumption
    <3>2. \A i \in 1..MaxClicks : ServerId(o) # <<"extra", i>>
      BY DEF ServerId
    <3>3. ASSUME NEW p \in Saves, ServerId(o) = ServerId(p) PROVE call'[p].pc = "posted"
      <4>1. p = o
        BY <3>3 DEF ServerId
      <4> QED BY <1>3, <4>1
    <3>4. Len(t[k].rounds) <= MaxRounds
      BY <3>1
    <3>5. \A p \in Saves : t[k].id = ServerId(p) => call'[p].pc = "posted"
      BY <3>1, <3>3
    <3> QED BY <3>1, <3>2, <3>4, <3>5
  <2>2. ASSUME NEW j \in DOMAIN server, t[k] = server[j]
        PROVE  /\ Len(t[k].rounds) <= MaxRounds
               /\ \A i \in 1..MaxClicks : t[k].id = <<"extra", i>> => i <= clicks
               /\ \A p \in Saves : t[k].id = ServerId(p) =>
                   /\ call'[p].pc \notin {"idle", "post"}
                   /\ call'[p].pc = "posted" => Len(t[k].rounds) = 0
                   /\ call'[p].pc = "rounds" => Len(t[k].rounds) < call'[p].i
    <3>1. server[j].id # ServerId(o)
      BY <1>6 DEF Lacks
    <3> QED BY <1>2, <1>3, <2>2, <3>1 DEF ServerOK, CallMoves
  <2> QED BY <1>7, <2>1, <2>2
<1>9. ServerOK(server', call', clicks')
  BY <1>1, <1>7, <1>8 DEF ServerOK
<1> QED BY <1>1, <1>2, <1>4, <1>5, <1>9 DEF CreatorInv

LEMMA PageKeepsCreator ==
    ASSUME CreatorInv, PageNext, form' = BlankForm, uploads' = {}
    PROVE  CreatorInv'
<1>1. CASE ~Reload
  <2>1. UNCHANGED server /\ (call' = call \/ call' = Orphaned) /\ (Click \/ UNCHANGED clicks)
    BY <1>1 DEF PageNext, EnterAsCreator, Exit, ResetAndCreateDemoContests, PanelThrows,
                KeyAnswered, RegistrationFails, RegistrationEnds
  <2> QED BY <2>1, QuietKeepsCreator, BlankFormIsOK DEF CreatorInv
<1>2. CASE Reload
  <2>1. /\ UNCHANGED server /\ Click
        /\ call' = [o \in Saves |-> IF call[o].pc = "idle" THEN IdleCall
                                    ELSE [IdleCall EXCEPT !.pc = "over"]]
    BY <1>2 DEF Reload
  <2>2. clicks' \in 0..MaxClicks /\ clicks \in Nat /\ clicks' \in Nat /\ clicks <= clicks'
    BY <2>1, ClicksCount DEF CreatorInv
  <2>3. FALSE \in Flags /\ 0 \in 0..MaxRounds
    BY CreatorAssumption DEF Flags
  <2>4. IdleCall \in CallT /\ [IdleCall EXCEPT !.pc = "over"] \in CallT
    BY <2>3 DEF IdleCall, CallT
  <2>5. /\ call' \in [Saves -> CallT]
        /\ \A o \in Saves : /\ call'[o].id = None
                            /\ call'[o].pc = (IF call[o].pc = "idle" THEN "idle" ELSE "over")
    BY <2>1, <2>4 DEF IdleCall
  <2>6. None \notin Demos /\ \A p \in Saves : None # ServerId(p)
    BY ServerIds DEF None, Demos
  <2>7. CallOK(call')
    BY <2>5, <2>6 DEF CallOK, Busy
  <2>8. Onward(call, call')
    BY <2>5 DEF Onward, Early
  <2>9. ServerOK(server', call', clicks')
    BY <2>1, <2>2, <2>5, <2>8, ServerOnward DEF CreatorInv
  <2> QED BY <2>2, <2>7, <2>9, BlankFormIsOK DEF CreatorInv
<1> QED BY <1>1, <1>2

LEMMA EditKeepsCreator ==
    ASSUME CreatorInv,
           \/ \E i \in 1..MaxRounds : EditRound(i) \/ DeleteRound(i) \/ BeginUpload(i)
           \/ EditForm \/ AddBlankRound
           \/ \E u \in uploads : EndUpload(u)
    PROVE  CreatorInv'
<1>1. UNCHANGED <<server, call>> /\ (Click \/ UNCHANGED clicks)
  BY DEF EditRound, DeleteRound, BeginUpload, EditForm, AddBlankRound, EndUpload,
         allButClicks, storeVars
<1>2. /\ clicks' \in 0..MaxClicks /\ ServerOK(server', call', clicks') /\ CallOK(call')
      /\ FormOK(form, call') /\ form.rounds \in FormRounds /\ Known(form.rounds)
      /\ \A u \in uploads : UploadOK(u)
  BY <1>1, QuietKeepsCreator DEF CreatorInv, FormOK
<1>3. SUFFICES FormOK(form', call') /\ \A u \in uploads' : UploadOK(u)
  BY <1>2 DEF CreatorInv
<1>4. ASSUME NEW i \in 1..MaxRounds, EditRound(i)
      PROVE  FormOK(form', call') /\ \A u \in uploads' : UploadOK(u)
  <2>1. /\ i \in DOMAIN form.rounds /\ uploads' = uploads
        /\ form' = [form EXCEPT !.rounds = UpdateRound(form.rounds, i, form.rounds[i])]
    BY <1>4 DEF EditRound
  <2>2. /\ form.rounds[i] \in FormRoundT
        /\ form.rounds[i].data # "none" => form.rounds[i].id # 0
    BY <1>2, <2>1, FormFields DEF Known
  <2>3. /\ UpdateRound(form.rounds, i, form.rounds[i]) \in FormRounds
        /\ Known(UpdateRound(form.rounds, i, form.rounds[i]))
    BY <1>2, <2>1, <2>2, UpdateIsOK
  <2> QED BY <1>2, <2>1, <2>3, RoundsReplaced
<1>5. ASSUME NEW i \in 1..MaxRounds, DeleteRound(i)
      PROVE  FormOK(form', call') /\ \A u \in uploads' : UploadOK(u)
  BY <1>2, <1>5, RemovedIsOK, RoundsReplaced DEF DeleteRound
<1>6. ASSUME NEW i \in 1..MaxRounds, BeginUpload(i)
      PROVE  FormOK(form', call') /\ \A u \in uploads' : UploadOK(u)
  <2> DEFINE u == [i |-> i, rounds |-> form.rounds]
  <2>1. /\ i \in DOMAIN form.rounds /\ form.rounds[i].id # 0
        /\ uploads' = uploads \cup {u}
        /\ form' = [form EXCEPT !.rounds = Marked(form.rounds, i, "uploading")]
    BY <1>6 DEF BeginUpload, MayUpload
  <2>2. "uploading" \in Marks
    BY DEF Marks
  <2>3. /\ Marked(form.rounds, i, "uploading") \in FormRounds
        /\ Known(Marked(form.rounds, i, "uploading"))
    BY <1>2, <2>1, <2>2, MarkedIsOK
  <2>4. UploadOK(u)
    BY <1>2, <2>1, CreatorAssumption DEF UploadOK
  <2> QED BY <1>2, <2>1, <2>3, <2>4, RoundsReplaced
<1>7. CASE EditForm
  <2>1. form' = [form EXCEPT !.named = TRUE] /\ uploads' = uploads
    BY <1>7 DEF EditForm
  <2>2. TRUE \in Flags
    BY DEF Flags
  <2> QED BY <1>2, <2>1, <2>2 DEF FormOK
<1>8. CASE AddBlankRound
  BY <1>2, <1>8, AddedIsOK, RoundsReplaced DEF AddBlankRound
<1>9. ASSUME NEW u \in uploads, EndUpload(u)
      PROVE  FormOK(form', call') /\ \A v \in uploads' : UploadOK(v)
  <2>1. PICK mark \in UploadRoundDataset :
          form' = [form EXCEPT !.rounds = Marked(u.rounds, u.i, mark)]
    BY <1>9 DEF EndUpload
  <2>2. /\ u.rounds \in FormRounds /\ u.i \in DOMAIN u.rounds /\ Known(u.rounds)
        /\ u.rounds[u.i].id # 0
    BY <1>2 DEF UploadOK
  <2>3. mark \in Marks
    BY DEF UploadRoundDataset, Marks
  <2>4. Marked(u.rounds, u.i, mark) \in FormRounds /\ Known(Marked(u.rounds, u.i, mark))
    BY <2>2, <2>3, MarkedIsOK
  <2>5. uploads' \subseteq uploads
    BY <1>9 DEF EndUpload
  <2> QED BY <1>2, <2>1, <2>4, <2>5, RoundsReplaced
<1> QED BY <1>4, <1>5, <1>6, <1>7, <1>8, <1>9

\* publishContest posts the contest again: the server may have one more.
LEMMA PublishKeepsCreator ==
    ASSUME CreatorInv, NEW id, PublishContest(id)
    PROVE  CreatorInv'
<1> DEFINE e == <<"extra", clicks'>>
           x == [id |-> e, rounds |-> <<>>]
           t == <<x>> \o server
<1>1. /\ Click /\ call' = call /\ (server' = server \/ server' = t)
      /\ \/ /\ form' = [form EXCEPT !.rounds = LiveShared(@)]
            /\ uploads' = {[u EXCEPT !.rounds = LiveShared(@)] : u \in uploads}
         \/ UNCHANGED <<form, uploads>>
  BY DEF PublishContest, Clicks, formVars
<1>2. /\ ServerOK(server, call, clicks) /\ CallOK(call) /\ FormOK(form, call)
      /\ \A u \in uploads : UploadOK(u)
  BY DEF CreatorInv
<1>3. /\ clicks' \in 0..MaxClicks /\ clicks \in Nat /\ clicks' \in Nat /\ clicks <= clicks'
  BY <1>1, ClicksCount DEF CreatorInv
<1>4. clicks' \in 1..MaxClicks /\ ~(clicks' <= clicks)
  BY <1>1, <1>3 DEF Click
<1>5. FormOK(form', call') /\ \A u \in uploads' : UploadOK(u)
  BY <1>1, <1>2, FormIsLive
<1>6. CallOK(call') /\ Onward(call, call) /\ call \in [Saves -> CallT]
  BY <1>1, <1>2, StandingCalls DEF CallOK
<1>7. ServerOK(server, call, clicks')
  BY <1>2, <1>3, <1>6, ServerOnward
<1>8. CASE server' = server
  BY <1>1, <1>3, <1>5, <1>6, <1>7, <1>8 DEF CreatorInv
<1>9. CASE server' = t
  <2>1. e \in ContestIds /\ \A o \in Saves : e # ServerId(o)
    BY <1>4 DEF ContestIds, ServerId
  <2>2. server \in Seq(ServerT) /\ Unique(server) /\ Lacks(server, e)
    BY <1>2, <1>4 DEF ServerOK, Lacks
  <2>3. /\ t \in Seq(ServerT) /\ Unique(t) /\ x.id = e /\ Len(x.rounds) = 0
        /\ \A k \in DOMAIN t : t[k] = x \/ \E j \in DOMAIN server : t[k] = server[j]
    BY <2>1, <2>2, PostIsOK
  <2>4. \A i \in 1..MaxClicks : e = <<"extra", i>> => i <= clicks'
    BY <1>3
  <2> HIDE DEF e, x, t
  <2>5. ASSUME NEW k \in DOMAIN t
        PROVE  /\ Len(t[k].rounds) <= MaxRounds
               /\ \A i \in 1..MaxClicks : t[k].id = <<"extra", i>> => i <= clicks'
               /\ \A p \in Saves : t[k].id = ServerId(p) =>
                   /\ call[p].pc \notin {"idle", "post"}
                   /\ call[p].pc = "posted" => Len(t[k].rounds) = 0
                   /\ call[p].pc = "rounds" => Len(t[k].rounds) < call[p].i
    <3>1. CASE t[k] = x
      <4>1. t[k].id = e /\ Len(t[k].rounds) = 0 /\ 0 <= MaxRounds
        BY <2>3, <3>1, CreatorAssumption
      <4>2. Len(t[k].rounds) <= MaxRounds
        BY <4>1
      <4> QED BY <2>1, <2>4, <4>1, <4>2
    <3>2. CASE \E j \in DOMAIN server : t[k] = server[j]
      BY <1>7, <3>2 DEF ServerOK
    <3> QED BY <2>3, <3>1, <3>2
  <2>6. ServerOK(t, call, clicks')
    BY <2>3, <2>5 DEF ServerOK
  <2> QED BY <1>1, <1>3, <1>5, <1>6, <1>9, <2>6 DEF CreatorInv
<1> QED BY <1>1, <1>8, <1>9

\* saveContest begins: the form's rounds are now shared with no one.
LEMMA SaveKeepsCreator ==
    ASSUME CreatorInv, NEW o \in Saves, SaveContest(o)
    PROVE  CreatorInv'
<1> DEFINE n == Len(form.rounds)
           d == [pc |-> "post", id |-> TakenId(o), i |-> 1, n |-> n, page |-> TRUE]
<1>1. /\ Click /\ call[o].pc = "idle" /\ server' = server
      /\ form' = Detached(form) /\ uploads' = DetachedUploads
  BY DEF SaveContest
<1>2. call' = [call EXCEPT ![o] = d]
  BY SaveContestIs
<1>3. /\ ServerOK(server, call, clicks) /\ CallOK(call) /\ FormOK(form, call)
      /\ form.rounds \in FormRounds
  BY DEF CreatorInv, FormOK
<1>4. /\ clicks' \in 0..MaxClicks /\ clicks \in Nat /\ clicks' \in Nat /\ clicks <= clicks'
  BY <1>1, ClicksCount DEF CreatorInv
<1>5. n \in 0..MaxRounds /\ 1 \in 0..MaxRounds /\ TRUE \in Flags
  BY <1>3, FormFields, CreatorAssumption DEF Flags
<1>6. /\ TakenId(o) \in ContestIds /\ TakenId(o) # None /\ TakenId(o) \notin Demos
      /\ \A p \in Saves : call[p].pc \in Early => TakenId(o) # ServerId(p)
  BY <1>3, TakenIds DEF Early
<1> HIDE DEF n
<1>7. d \in CallT /\ d.pc = "post" /\ d.id = TakenId(o) /\ d.i = 1
  BY <1>5, <1>6 DEF CallT
<1> HIDE DEF d
<1>8. call' \in [Saves -> CallT] /\ CallMoves(o, call, call') /\ call'[o] = d
  BY <1>2, <1>3, <1>7 DEF CallOK, CallMoves
<1>9. \A p \in Saves : call'[p].pc \in Early => call[p].pc \in Early
  BY <1>1, <1>7, <1>8 DEF CallMoves, Early
<1>10. CallOK(call')
  BY <1>1, <1>3, <1>6, <1>7, <1>8, <1>9, CallsOnward DEF Early
<1>11. Onward(call, call')
  <2>1. \A p \in Saves : call[p].i \in Nat
    BY <1>3, CreatorAssumption DEF CallOK, CallT
  <2>2. \A p \in Saves \ {o} : call'[p] = call[p] /\ call[p].i <= call'[p].i
    BY <1>8, <2>1 DEF CallMoves
  <2> QED BY <1>1, <1>9, <2>2 DEF Onward
<1>12. ServerOK(server', call', clicks')
  BY <1>1, <1>3, <1>4, <1>8, <1>11, ServerOnward
<1>13. FormOK(form, call')
  BY <1>3, <1>11, FormOnward
<1> QED BY <1>1, <1>4, <1>10, <1>12, <1>13, FormIsUnshared DEF CreatorInv

\* createContest returns while the server stays as it is.
LEMMA ReturnKeepsCreator ==
    ASSUME CreatorInv, NEW o \in Saves, NEW id, NEW m \in StateT, NEW c,
           ListOK(m.contests, c), Returns(o, id, m), server' = server, id \notin Demos,
           \A p \in Saves \ {o} : call[p].pc \in Early => id # ServerId(p)
    PROVE  CreatorInv'
<1>1. FormOK(form', call') /\ CallOK(call') /\ Onward(call, call')
  BY ReturnsIsOK DEF CreatorInv
<1>2. clicks' = clicks /\ uploads' = uploads /\ clicks \in Nat /\ clicks <= clicks
  BY StoreAssumption DEF Returns, CreatorInv
<1>3. ServerOK(server', call', clicks')
  BY <1>1, <1>2, ServerOnward DEF CreatorInv, CallOK
<1> QED BY <1>1, <1>2, <1>3 DEF CreatorInv

\* The last round was sent, and the server may have it.
LEMMA LastRoundKeepsCreator ==
    ASSUME CreatorInv, NEW o \in Saves, call[o].pc = "rounds", NEW m \in StateT, NEW c,
           ListOK(m.contests, c), Returns(o, call[o].id, m),
           server' = server \/ server' = AddRound(o)
    PROVE  CreatorInv'
<1>1. CallOK(call) /\ ServerOK(server, call, clicks)
  BY DEF CreatorInv
<1>2. call[o].id = ServerId(o) /\ ServerId(o) \notin Demos
  BY <1>1, ServerIds DEF CallOK
<1>3. \A p \in Saves \ {o} : call[p].pc \in Early => call[o].id # ServerId(p)
  BY <1>2, ServerIds
<1>4. CASE server' = server
  BY <1>2, <1>3, <1>4, ReturnKeepsCreator
<1>5. CASE server' = AddRound(o)
  <2>1. FormOK(form', call') /\ CallOK(call')
    BY <1>2, <1>3, ReturnsIsOK DEF CreatorInv
  <2>2. clicks' = clicks /\ uploads' = uploads /\ clicks \in Nat
    BY StoreAssumption DEF Returns, CreatorInv
  <2>3. CallMoves(o, call, call') /\ call'[o].pc = "over" /\ call' \in [Saves -> CallT]
    BY <1>1, <2>1, ReturnsMoves DEF CallOK
  <2>4. ServerOK(server', call', clicks')
    BY <1>1, <1>5, <2>2, <2>3, AddRoundIsOK
  <2> QED BY <2>1, <2>2, <2>4 DEF CreatorInv
<1> QED BY <1>4, <1>5

LEMMA CreateAnsweredKeepsCreator ==
    ASSUME StoreInv, CreatorInv, NEW o \in Saves, CreateAnswered(o)
    PROVE  CreatorInv'
<1> DEFINE d == [call EXCEPT ![o].pc = "rounds", ![o].id = ServerId(o)]
<1>1. call[o].pc = "posted" /\ mem \in StateT /\ server' = server
  BY DEF CreateAnswered, StoreInv
<1>2. CallOK(call) /\ ServerOK(server, call, clicks) /\ FormOK(form, call)
      /\ clicks \in 0..MaxClicks
  BY DEF CreatorInv
<1>3. ServerId(o) \in ContestIds /\ ServerId(o) \notin Demos /\ ServerId(o) # None
      /\ \A p \in Saves : ServerId(o) = ServerId(p) => o = p
  BY ServerIds
<1>4. /\ CallMoves(o, call, d) /\ d \in [Saves -> CallT]
      /\ d[o].pc = "rounds" /\ d[o].id = ServerId(o) /\ d[o].i = call[o].i /\ d[o].n = call[o].n
  <2> DEFINE e == [call[o] EXCEPT !.pc = "rounds", !.id = ServerId(o)]
  <2>1. call \in [Saves -> CallT] /\ d = [call EXCEPT ![o] = e]
    BY <1>2 DEF CallOK
  <2>2. /\ e \in CallT /\ e.pc = "rounds" /\ e.id = ServerId(o)
        /\ e.i = call[o].i /\ e.n = call[o].n
    BY <1>3, <2>1 DEF CallT
  <2> HIDE DEF d, e
  <2> QED BY <2>1, <2>2 DEF CallMoves
<1> HIDE DEF d
<1>5. CASE call[o].n = 0
  <2> DEFINE n == Renamed(mem, o)
  <2>1. n \in StateT /\ ListOK(n.contests, d)
    BY <1>1, <1>2, <1>4, RenamedIsOK DEF StoreInv, CallMoves
  <2>2. Returns(o, ServerId(o), Released(n, o))
    BY <1>5 DEF CreateAnswered, ServerId
  <2> HIDE DEF n
  <2>3. Released(n, o) \in StateT /\ ListOK(Released(n, o).contests, d)
    BY <2>1, ReleasedIsOK
  <2> QED BY <1>1, <1>3, <2>2, <2>3, ReturnKeepsCreator
<1>6. CASE call[o].n # 0
  <2>1. call' = d /\ UNCHANGED <<form, uploads, clicks>>
    BY <1>6 DEF CreateAnswered, ServerId, formVars, d
  <2>2. call[o].i = 1 /\ call[o].n \in Nat /\ 1 <= 1 /\ 1 <= call[o].n
    BY <1>1, <1>2, <1>6, CreatorAssumption DEF CallOK, CallT
  <2>3. \A p \in Saves : d[p].pc \in Early => p # o /\ call[p].pc \in Early
    BY <1>4 DEF CallMoves, Early
  <2>4. CallOK(d)
    BY <1>2, <1>3, <1>4, <2>2, <2>3, CallsOnward DEF Early
  <2>5. Onward(call, d)
    <3>1. \A p \in Saves : call[p].i \in Nat
      BY <1>2, CreatorAssumption DEF CallOK, CallT
    <3>2. \A p \in Saves \ {o} : d[p] = call[p] /\ call[p].i <= d[p].i
      BY <1>4, <3>1 DEF CallMoves
    <3> QED BY <1>1, <1>4, <2>2, <2>3, <3>2 DEF Onward, Early
  <2>6. clicks \in Nat /\ clicks <= clicks
    BY <1>2, StoreAssumption
  <2>7. ServerOK(server, d, clicks) /\ FormOK(form, d)
    BY <1>2, <1>4, <2>5, <2>6, ServerOnward, FormOnward
  <2> QED BY <1>1, <1>2, <2>1, <2>4, <2>7 DEF CreatorInv
<1> QED BY <1>5, <1>6

LEMMA RoundAnsweredKeepsCreator ==
    ASSUME StoreInv, CreatorInv, NEW o \in Saves, RoundAnswered(o)
    PROVE  CreatorInv'
<1>1. mem \in StateT /\ ListOK(mem.contests, call) /\ call[o].pc = "rounds"
  BY DEF StoreInv, RoundAnswered
<1>2. CallOK(call) /\ ServerOK(server, call, clicks) /\ FormOK(form, call)
      /\ clicks \in 0..MaxClicks
  BY DEF CreatorInv
<1>3. PICK ok \in BOOLEAN :
        LET named == IF ok THEN RoundNamed(mem, o, call[o].i) ELSE mem
            last == call[o].i = call[o].n
            m == IF last THEN Released(named, o) ELSE named
        IN  /\ server' = IF ok THEN AddRound(o) ELSE server
            /\ IF last
               THEN Save(m) /\ Returns(o, call[o].id, m)
               ELSE /\ call' = [call EXCEPT ![o].i = @ + 1]
                    /\ UNCHANGED <<formVars, full, fetching, reg, sockets, page, clicks>>
  BY DEF RoundAnswered
<1> DEFINE n == IF ok THEN RoundNamed(mem, o, call[o].i) ELSE mem
<1>4. n \in StateT /\ ListOK(n.contests, call)
  BY <1>1, RoundNamedIsOK
<1>5. server' = server \/ server' = AddRound(o)
  BY <1>3
<1>6. CASE call[o].i = call[o].n
  <2>1. Returns(o, call[o].id, Released(n, o))
    BY <1>3, <1>6
  <2> HIDE DEF n
  <2>2. Released(n, o) \in StateT /\ ListOK(Released(n, o).contests, call)
    BY <1>4, ReleasedIsOK
  <2> QED BY <1>1, <1>5, <2>1, <2>2, LastRoundKeepsCreator
<1>7. CASE call[o].i # call[o].n
  <2>1. call' = [call EXCEPT ![o].i = @ + 1] /\ UNCHANGED <<form, uploads, clicks>>
    BY <1>3, <1>7 DEF formVars
  <2>2. /\ call[o].i \in 0..MaxRounds /\ call[o].n \in 0..MaxRounds /\ 1 <= call[o].i
        /\ call[o].i <= call[o].n /\ call[o].id = ServerId(o)
    BY <1>1, <1>2 DEF CallOK, CallT
  <2>3. /\ call[o].i + 1 \in 0..MaxRounds /\ call[o].i + 1 <= call[o].n
        /\ 1 <= call[o].i + 1 /\ call[o].i <= call[o].i + 1
    BY <1>7, <2>2, CreatorAssumption
  <2>4. /\ call' \in [Saves -> CallT] /\ CallMoves(o, call, call')
        /\ call'[o].pc = "rounds" /\ call'[o].id = call[o].id
        /\ call'[o].i = call[o].i + 1 /\ call'[o].n = call[o].n
    BY <1>1, <1>2, <2>1, <2>3 DEF CallMoves, CallOK, CallT
  <2>5. \A p \in Saves : call'[p].pc \in Early => p # o /\ call[p].pc \in Early
    BY <2>4 DEF CallMoves, Early
  <2>6. /\ ServerId(o) \notin Demos /\ ServerId(o) # None
        /\ \A p \in Saves : ServerId(o) = ServerId(p) => o = p
    BY ServerIds
  <2>7. CallOK(call')
    <3>1. /\ call'[o].id = ServerId(o) /\ 1 <= call'[o].i /\ call'[o].i <= call'[o].n
      BY <2>2, <2>3, <2>4
    <3> QED BY <1>2, <2>4, <2>5, <2>6, <3>1, CallsOnward DEF Early
  <2>8. Onward(call, call')
    <3>1. \A p \in Saves : call[p].i \in Nat
      BY <1>2, CreatorAssumption DEF CallOK, CallT
    <3>2. \A p \in Saves \ {o} : call'[p] = call[p] /\ call[p].i <= call'[p].i
      BY <2>4, <3>1 DEF CallMoves
    <3>3. call[o].i <= call'[o].i
      BY <2>3, <2>4
    <3> QED BY <1>1, <2>4, <2>5, <3>2, <3>3 DEF Onward, Early
  <2>9. clicks \in Nat /\ clicks <= clicks
    BY <1>2, StoreAssumption
  <2>10. ServerOK(server', call', clicks)
    <3>1. ServerOK(server, call', clicks)
      BY <1>2, <2>4, <2>8, <2>9, ServerOnward
    <3>2. ServerOK(AddRound(o), call', clicks)
      BY <1>1, <1>2, <2>4, <2>9, AddRoundIsOK
    <3> QED BY <1>5, <3>1, <3>2
  <2>11. FormOK(form, call')
    BY <1>2, <2>8, FormOnward
  <2> QED BY <1>2, <2>1, <2>7, <2>10, <2>11 DEF CreatorInv
<1> QED BY <1>6, <1>7

LEMMA FormKeepsCreator ==
    ASSUME StoreInv, CreatorInv, FormNext
    PROVE  CreatorInv'
<1>1. CallOK(call) /\ FormOK(form, call) /\ clicks \in 0..MaxClicks
  BY DEF CreatorInv
<1>2. CASE (\E i \in 1..MaxRounds : EditRound(i) \/ DeleteRound(i) \/ BeginUpload(i))
           \/ EditForm \/ AddBlankRound \/ (\E u \in uploads : EndUpload(u))
  BY <1>2, EditKeepsCreator
<1>3. ASSUME NEW id \in ListedIds, PublishContest(id) PROVE CreatorInv'
  BY <1>3, PublishKeepsCreator
<1>4. ASSUME NEW o \in Saves, SaveContest(o) PROVE CreatorInv'
  BY <1>4, SaveKeepsCreator
<1>5. ASSUME NEW o \in Saves, CreateAnswered(o) PROVE CreatorInv'
  BY <1>5, CreateAnsweredKeepsCreator
<1>6. ASSUME NEW o \in Saves, CreateFails(o) PROVE CreatorInv'
  <2>1. Released(mem, o) \in StateT /\ ListOK(Released(mem, o).contests, call)
    BY ReleasedIsOK DEF StoreInv
  <2>2. Returns(o, call[o].id, Released(mem, o)) /\ server' = server
    BY <1>6 DEF CreateFails
  <2>3. /\ call[o].id \notin Demos
        /\ \A p \in Saves \ {o} : call[p].pc \in Early => call[o].id # ServerId(p)
    BY <1>1 DEF CallOK, Early
  <2> QED BY <2>1, <2>2, <2>3, ReturnKeepsCreator
<1>7. ASSUME NEW o \in Saves, RoundAnswered(o) PROVE CreatorInv'
  BY <1>7, RoundAnsweredKeepsCreator
<1>8. ASSUME NEW o \in Saves, RoundFails(o) PROVE CreatorInv'
  <2>1. Released(mem, o) \in StateT /\ ListOK(Released(mem, o).contests, call)
    BY ReleasedIsOK DEF StoreInv
  <2> QED BY <1>8, <2>1, LastRoundKeepsCreator DEF RoundFails
<1>9. CASE FetchReplacesList
  <2>1. /\ UNCHANGED <<server, call, clicks>>
        /\ form' = Detached(form) /\ uploads' = DetachedUploads
    BY <1>9 DEF FetchReplacesList, FetchContestsFromServer
  <2>2. FormOK(form', call') /\ \A u \in uploads' : UploadOK(u)
    BY <1>1, <2>1, FormIsUnshared
  <2> QED BY <2>1, <2>2 DEF CreatorInv
<1> QED BY <1>2, <1>3, <1>4, <1>5, <1>6, <1>7, <1>8, <1>9 DEF FormNext

LEMMA CreatorStep ==
    ASSUME StoreInv, CreatorInv, [Next]_vars
    PROVE  CreatorInv'
<1>1. CASE (StudentNext \/ ListNext) /\ UNCHANGED <<formVars, monitor>>
  <2>1. CASE \E o \in Saves : Posted(o)
    BY <1>1, <2>1, PostedKeepsCreator
  <2>2. CASE ~\E o \in Saves : Posted(o)
    <3>1. /\ UNCHANGED <<server, form, uploads>> /\ (call' = call \/ call' = Orphaned)
          /\ (Click \/ UNCHANGED clicks)
      BY <1>1, <2>2 DEF StudentNext, ListNext, EnterAsStudent, Registered, JoinContest,
         LeaveContest, Render, RecordResult, SaveLastCode, QuotaExceeded, FetchFails,
         SocketOpens, SocketCloses, FlushTelemetry, EndContest, DeleteContest, Clicks, formVars
    <3> QED BY <3>1, QuietKeepsCreator DEF CreatorInv
  <2> QED BY <2>1, <2>2
<1>2. CASE PageNext /\ form' = BlankForm /\ uploads' = {}
  BY <1>2, PageKeepsCreator
<1>3. CASE FormNext
  BY <1>3, FormKeepsCreator
<1>4. CASE MonitorNext
  <2>1. /\ UNCHANGED <<server, form, uploads, call>> /\ (Click \/ UNCHANGED clicks)
    BY <1>4 DEF MonitorNext, Watch, HandleFinalEvaluation, EvaluationEnds, Clicks,
       allButClicks, storeVars, formVars
  <2> QED BY <2>1, QuietKeepsCreator DEF CreatorInv
<1>5. CASE UNCHANGED vars
  BY <1>5 DEF vars, storeVars, allButClicks, CreatorInv
<1> QED BY <1>1, <1>2, <1>3, <1>4, <1>5 DEF Next

---------------------------------------------------------------------------
(* The page that shows, the role it is for, and the selection. *)

\* What most operations leave alone.
Stays(m, n) == n.role = m.role /\ n.active = m.active

LEMMA FieldsStay ==
    ASSUME NEW m \in StateT
    PROVE  /\ \A t : Stays(m, [m EXCEPT !.contests = t])
           /\ \A k : Stays(m, [m EXCEPT !.key = k]) /\ Stays(m, [m EXCEPT !.sid = k])
           /\ \A t : Stays(m, [m EXCEPT !.telemetry = t])
           /\ Stays(m, Connected(m))
           /\ \A o : Stays(m, Released(m, o)) /\ Stays(m, Renamed(m, o))
           /\ \A o, i : Stays(m, RoundNamed(m, o, i))
           /\ \A c : Stays(m, Updated(m, c))
<1>1. \A t : Stays(m, [m EXCEPT !.contests = t])
  BY DEF StateT, Stays
<1>2. \A k : Stays(m, [m EXCEPT !.key = k]) /\ Stays(m, [m EXCEPT !.sid = k])
  BY DEF StateT, Stays
<1>3. \A t : Stays(m, [m EXCEPT !.telemetry = t])
  BY DEF StateT, Stays
<1>4. Stays(m, Connected(m))
  BY <1>3 DEF Connected, Stays
<1>5. \A o : Stays(m, Released(m, o)) /\ Stays(m, Renamed(m, o))
  BY <1>1 DEF Released, Renamed
<1>6. \A o, i : Stays(m, RoundNamed(m, o, i))
  BY <1>1 DEF RoundNamed
<1>7. ASSUME NEW c PROVE Stays(m, Updated(m, c))
  <2>1. Updated(m, c) = [m EXCEPT !.contests =
                          [m.contests EXCEPT ![IndexOf(m, c.id)] = [c EXCEPT !.by = 0]]]
    BY DEF Updated, StateT
  <2> QED BY <1>1, <2>1
<1> QED BY <1>1, <1>2, <1>3, <1>4, <1>5, <1>6, <1>7

\* The steps that choose neither the role nor the contest.
LEMMA ListStays ==
    ASSUME mem \in StateT, ListNext
    PROVE  Stays(mem, mem') /\ page' = page /\ \A o \in Saves : call'[o].page = call[o].page
<1>1. CASE QuotaExceeded \/ FetchFails \/ FlushTelemetry
  BY <1>1 DEF QuotaExceeded, FetchFails, FlushTelemetry, Save, Stays
<1>2. CASE SocketOpens \/ SocketCloses
  BY <1>2, FieldsStay DEF SocketOpens, SocketCloses, Save
<1>3. CASE \E id \in ListedIds : EndContest(id) \/ DeleteContest(id)
  BY <1>3, FieldsStay DEF EndContest, DeleteContest, Save
<1>4. ASSUME NEW o \in Saves, Posted(o)
      PROVE  Stays(mem, mem') /\ page' = page /\ \A p \in Saves : call'[p].page = call[p].page
  BY <1>4 DEF Posted, Stays
<1> QED BY <1>1, <1>2, <1>3, <1>4 DEF ListNext

LEMMA FormStays ==
    ASSUME mem \in StateT, FormNext
    PROVE  Stays(mem, mem') /\ page' = page
<1>1. CASE (\E i \in 1..MaxRounds : EditRound(i) \/ DeleteRound(i) \/ BeginUpload(i))
           \/ EditForm \/ AddBlankRound \/ (\E u \in uploads : EndUpload(u))
  BY <1>1 DEF EditRound, DeleteRound, BeginUpload, EditForm, AddBlankRound, EndUpload,
              allButClicks, storeVars, Stays
<1>2. CASE \E id \in ListedIds : PublishContest(id)
  BY <1>2, FieldsStay DEF PublishContest, Save
<1>3. ASSUME NEW o \in Saves, SaveContest(o) PROVE Stays(mem, mem') /\ page' = page
  <2>1. \E t : mem' = [mem EXCEPT !.contests = t]
    BY <1>3, SaveContestIs DEF Save
  <2>2. page' = page
    BY <1>3 DEF SaveContest
  <2> QED BY <2>1, <2>2, FieldsStay
<1>4. ASSUME NEW o \in Saves, CreateFails(o) \/ RoundFails(o)
      PROVE  Stays(mem, mem') /\ page' = page
  BY <1>4, FieldsStay DEF CreateFails, RoundFails, Returns
<1>5. ASSUME NEW o \in Saves, CreateAnswered(o) PROVE Stays(mem, mem') /\ page' = page
  <2>1. /\ mem' = Released(Renamed(mem, o), o) \/ mem' = Renamed(mem, o)
        /\ page' = page
    BY <1>5 DEF CreateAnswered, Save, Returns
  <2>2. \A t : [mem EXCEPT !.contests = t].contests = t
    BY DEF StateT
  <2>3. \E t : mem' = [mem EXCEPT !.contests = t]
    <3> DEFINE s == Renamed(mem, o).contests
    <3>1. \E t : Renamed(mem, o) = [mem EXCEPT !.contests = t]
      BY DEF Renamed
    <3>2. Released(Renamed(mem, o), o) =
            [Renamed(mem, o) EXCEPT !.contests = [k \in DOMAIN s |-> Dropped(s[k], o)]]
      BY DEF Released
    <3> HIDE DEF s
    <3> QED BY <2>1, <3>1, <3>2
  <2> QED BY <2>1, <2>3, FieldsStay
<1>6. ASSUME NEW o \in Saves, RoundAnswered(o) PROVE Stays(mem, mem') /\ page' = page
  <2>1. PICK ok \in BOOLEAN :
          LET named == IF ok THEN RoundNamed(mem, o, call[o].i) ELSE mem
          IN  mem' = Released(named, o) \/ mem' = named
    BY <1>6 DEF RoundAnswered, Save
  <2>2. page' = page
    BY <1>6 DEF RoundAnswered, Returns
  <2> DEFINE n == RoundNamed(mem, o, call[o].i)
             s == n.contests
  <2>3. \E t : n = [mem EXCEPT !.contests = t]
    BY DEF RoundNamed
  <2>4. Released(n, o) = [n EXCEPT !.contests = [k \in DOMAIN s |-> Dropped(s[k], o)]]
    BY DEF Released
  <2> HIDE DEF n, s
  <2>5. \E t : Released(n, o) = [mem EXCEPT !.contests = t]
    BY <2>3, <2>4
  <2>6. mem' = Released(n, o) \/ mem' = n \/ mem' = Released(mem, o) \/ mem' = mem
    BY <2>1 DEF n
  <2>7. Stays(mem, mem)
    BY DEF Stays
  <2> QED BY <2>2, <2>3, <2>5, <2>6, <2>7, FieldsStay
<1>7. CASE FetchReplacesList
  BY <1>7, FieldsStay DEF FetchReplacesList, FetchContestsFromServer, Save
<1> QED BY <1>1, <1>2, <1>3, <1>4, <1>5, <1>6, <1>7 DEF FormNext

\* Nothing is edited while the creator's page is away.
LEMMA FormKeepsPage ==
    ASSUME PageInv, CallOK(call), FormNext
    PROVE  /\ page # "creator" => form' = form /\ uploads' = uploads
           /\ page # "creator" => \A o \in Saves : call'[o].page = FALSE
<1> SUFFICES ASSUME page # "creator"
             PROVE  form' = form /\ uploads' = uploads /\ \A o \in Saves : call'[o].page = FALSE
  OBVIOUS
<1>1. form = BlankForm /\ uploads = {} /\ \A o \in Saves : call[o].page = FALSE
  <2>1. \A o \in Saves : call[o].page \in BOOLEAN /\ ~call[o].page
    BY DEF PageInv, CallOK, CallT, Flags
  <2> QED BY <2>1 DEF PageInv
<1>2. ASSUME NEW o \in Saves, NEW id, NEW m, Returns(o, id, m)
      PROVE  form' = form /\ uploads' = uploads /\ \A p \in Saves : call'[p].page = FALSE
  <2>1. CallMoves(o, call, call') /\ call'[o].page = FALSE
    BY <1>2, ReturnsMoves
  <2> QED BY <1>1, <1>2, <2>1 DEF Returns, CallMoves
<1>3. CASE \E o \in Saves : CreateFails(o) \/ RoundFails(o)
  BY <1>2, <1>3 DEF CreateFails, RoundFails
<1>4. ASSUME NEW o \in Saves, CreateAnswered(o)
      PROVE  form' = form /\ uploads' = uploads /\ \A p \in Saves : call'[p].page = FALSE
  <2>1. CASE call[o].n = 0
    BY <1>2, <1>4, <2>1 DEF CreateAnswered
  <2>2. CASE call[o].n # 0
    <3>1. /\ call' = [call EXCEPT ![o].pc = "rounds", ![o].id = <<"server", o>>]
          /\ form' = form /\ uploads' = uploads
      BY <1>4, <2>2 DEF CreateAnswered, formVars
    <3> DEFINE e == [call[o] EXCEPT !.pc = "rounds", !.id = <<"server", o>>]
    <3>2. call \in [Saves -> CallT] /\ call' = [call EXCEPT ![o] = e]
      BY <3>1 DEF CallOK
    <3>3. e.page = call[o].page
      BY <3>2 DEF CallT
    <3> HIDE DEF e
    <3> QED BY <1>1, <3>1, <3>2, <3>3
  <2> QED BY <2>1, <2>2
<1>5. ASSUME NEW o \in Saves, RoundAnswered(o)
      PROVE  form' = form /\ uploads' = uploads /\ \A p \in Saves : call'[p].page = FALSE
  <2>1. CASE call[o].i = call[o].n
    BY <1>2, <1>5, <2>1 DEF RoundAnswered
  <2>2. CASE call[o].i # call[o].n
    <3>1. /\ call' = [call EXCEPT ![o].i = @ + 1] /\ form' = form /\ uploads' = uploads
      BY <1>5, <2>2 DEF RoundAnswered, formVars
    <3> DEFINE e == [call[o] EXCEPT !.i = @ + 1]
    <3>2. call \in [Saves -> CallT] /\ call' = [call EXCEPT ![o] = e]
      BY <3>1 DEF CallOK
    <3>3. e.page = call[o].page
      BY <3>2 DEF CallT
    <3> HIDE DEF e
    <3> QED BY <1>1, <3>1, <3>2, <3>3
  <2> QED BY <2>1, <2>2
<1>6. CASE FetchReplacesList
  <2>1. call' = call /\ form' = Detached(form) /\ uploads' = DetachedUploads
    BY <1>6 DEF FetchReplacesList, FetchContestsFromServer
  <2>2. uploads' = uploads
    BY <1>1, <2>1 DEF DetachedUploads
  <2>3. Unshared(<<BlankRound>>) = <<BlankRound>>
    <3>1. [BlankRound EXCEPT !.src = 0] = BlankRound
      BY DEF BlankRound
    <3> HIDE DEF BlankRound
    <3> QED BY <3>1 DEF Unshared
  <2>4. Detached(BlankForm) = BlankForm
    <3> DEFINE r == <<BlankRound>>
    <3>1. BlankForm = [id |-> None, named |-> FALSE, rounds |-> r] /\ Unshared(r) = r
      BY <2>3 DEF BlankForm
    <3> HIDE DEF r
    <3> DEFINE f(b) == [id |-> None, named |-> b, rounds |-> r]
    <3>2. \A b : f(b).rounds = r /\ [f(b) EXCEPT !.rounds = r] = f(b)
      OBVIOUS
    <3>3. BlankForm = f(FALSE)
      BY <3>1
    <3> HIDE DEF f
    <3>4. f(FALSE).rounds = r /\ [f(FALSE) EXCEPT !.rounds = r] = f(FALSE)
      BY <3>2
    <3> QED BY <3>1, <3>3, <3>4 DEF Detached
  <2> QED BY <1>1, <2>1, <2>2, <2>4
<1>7. CASE \/ \E i \in 1..MaxRounds : EditRound(i) \/ DeleteRound(i) \/ BeginUpload(i)
           \/ EditForm \/ AddBlankRound \/ (\E o \in Saves : SaveContest(o))
           \/ \E id \in ListedIds : PublishContest(id)
  BY <1>7 DEF EditRound, DeleteRound, BeginUpload, EditForm, AddBlankRound, SaveContest,
              PublishContest, Clicks
<1>8. CASE \E u \in uploads : EndUpload(u)
  BY <1>1, <1>8
<1> QED BY <1>3, <1>4, <1>5, <1>6, <1>7, <1>8 DEF FormNext

\* The student's steps: the role stays, or nothing shows but the form that is
\* sent; the selection stays, or the student joined or left, or none was listed.
LEMMA StudentStays ==
    ASSUME StoreInv, StudentNext
    PROVE  /\ \/ page' = page /\ mem'.role = mem.role
              \/ page = "select" /\ page' = "loading"
           /\ call' = call
<1>1. mem \in StateT
  BY DEF StoreInv
<1>2. ASSUME NEW n \in Regs, EnterAsStudent(n)
      PROVE  page = "select" /\ page' = "loading" /\ call' = call
  BY <1>2 DEF EnterAsStudent
<1>3. ASSUME NEW n \in Regs, Registered(n)
      PROVE  page' = page /\ mem'.role = mem.role /\ call' = call
  BY <1>1, <1>3, FieldsStay DEF Registered, Stays
<1>4. ASSUME NEW id \in ListedIds, JoinContest(id)
      PROVE  page' = page /\ mem'.role = mem.role /\ call' = call
  BY <1>1, <1>4 DEF JoinContest, Save, StateT
<1>5. CASE LeaveContest
  BY <1>1, <1>5 DEF LeaveContest, Save, StateT
<1>6. CASE Render \/ RecordResult
  BY <1>1, <1>6, GetActiveKeeps DEF Render, RecordResult, Save
<1>7. CASE SaveLastCode
  BY <1>7 DEF SaveLastCode, Save
<1> QED BY <1>2, <1>3, <1>4, <1>5, <1>6, <1>7 DEF StudentNext

\* The steps that replace the page.
LEMMA PageTurns ==
    ASSUME StoreInv, CallOK(call), PageNext
    PROVE  /\ page' \in {"creator", "student"} => mem'.role = page'
           /\ page' # "creator" => \A o \in Saves : call'[o].page = FALSE
<1>1. mem \in StateT /\ disk \in StateT
  BY DEF StoreInv
<1>2. \A o \in Saves : Orphaned[o].page = FALSE
  BY DEF Orphaned, CallOK, CallT
<1>3. CASE EnterAsCreator
  <2>1. Connected(mem) \in StateT
    BY <1>1, ConnectedKeeps
  <2>2. [Connected(mem) EXCEPT !.role = "creator"].role = "creator"
    BY <2>1 DEF StateT
  <2> QED BY <1>3, <2>2 DEF EnterAsCreator, Save
<1>4. CASE Exit \/ ResetAndCreateDemoContests \/ PanelThrows
  BY <1>2, <1>4 DEF Exit, ResetAndCreateDemoContests, PanelThrows
<1>5. CASE Reload
  <2>1. mem'.role = disk.role
    BY <1>1, <1>5, FieldsStay DEF Reload, Save, Stays
  <2>2. page' = "select" \/ page' = disk.role
    BY <1>5 DEF Reload, Guarded
  <2>3. \A o \in Saves : call'[o].page = FALSE
    BY <1>5 DEF Reload, IdleCall
  <2> QED BY <2>1, <2>2, <2>3
<1>6. ASSUME NEW n \in Regs, KeyAnswered(n) \/ RegistrationFails(n)
      PROVE  /\ page' \in {"creator", "student"} => mem'.role = page'
             /\ page' # "creator" => \A o \in Saves : call'[o].page = FALSE
  <2>1. mem'.role = mem.role
    <3>1. mem' = mem \/ \E key : mem' = [mem EXCEPT !.key = key]
      BY <1>6 DEF KeyAnswered, RegistrationFails, Save
    <3>2. \A key : [mem EXCEPT !.key = key].role = mem.role
      BY <1>1 DEF StateT
    <3> QED BY <3>1, <3>2
  <2>2. page' \in {"blank", "select"} \/ page' = mem.role
    BY <1>6 DEF KeyAnswered, RegistrationFails, RegistrationEnds, Guarded
  <2>3. call' = Orphaned
    BY <1>6 DEF KeyAnswered, RegistrationFails, RegistrationEnds
  <2> QED BY <1>2, <2>1, <2>2, <2>3
<1> QED BY <1>3, <1>4, <1>5, <1>6 DEF PageNext

LEMMA CallPageIs ==
    ASSUME CallOK(call), NEW o \in Saves
    PROVE  call[o].page = TRUE \/ call[o].page = FALSE
<1>1. call[o].page \in BOOLEAN
  BY DEF CallOK, CallT, Flags
<1> QED BY <1>1

LEMMA PageStep ==
    ASSUME StoreInv, CreatorInv, PageInv, [Next]_vars
    PROVE  PageInv'
<1>1. mem \in StateT /\ CallOK(call)
  BY DEF StoreInv, CreatorInv
<1>2. /\ page \in {"creator", "student"} => mem.role = page
      /\ page # "creator" => form = BlankForm /\ uploads = {} /\ monitor = NoMonitor
      /\ page # "creator" => \A o \in Saves : call[o].page = FALSE
      /\ monitor \in [target : ContestIds \cup {None}, evaluating : Flags]
  <2>1. ASSUME page # "creator", NEW o \in Saves PROVE call[o].page = FALSE
    BY <1>1, <2>1, CallPageIs DEF PageInv
  <2> QED BY <2>1 DEF PageInv
<1>3. SUFFICES
        /\ page' \in {"creator", "student"} => mem'.role = page'
        /\ page' # "creator" => form' = BlankForm /\ uploads' = {} /\ monitor' = NoMonitor
        /\ page' # "creator" => \A o \in Saves : call'[o].page = FALSE
        /\ monitor' \in [target : ContestIds \cup {None}, evaluating : Flags]
  BY DEF PageInv
<1>4. CASE StudentNext /\ UNCHANGED <<formVars, monitor>>
  <2>1. /\ (page' = page /\ mem'.role = mem.role) \/ (page = "select" /\ page' = "loading")
        /\ call' = call
    BY <1>4, StudentStays
  <2>2. form' = form /\ uploads' = uploads /\ monitor' = monitor
    BY <1>4 DEF formVars
  <2> QED BY <1>2, <2>1, <2>2
<1>5. CASE ListNext /\ UNCHANGED <<formVars, monitor>>
  <2>1. /\ page' = page /\ mem'.role = mem.role
        /\ \A o \in Saves : call'[o].page = call[o].page
    BY <1>1, <1>5, ListStays DEF Stays
  <2>2. form' = form /\ uploads' = uploads /\ monitor' = monitor
    BY <1>5 DEF formVars
  <2> QED BY <1>2, <2>1, <2>2
<1>6. CASE PageNext /\ form' = BlankForm /\ uploads' = {} /\ monitor' = NoMonitor
  <2>1. NoMonitor \in [target : ContestIds \cup {None}, evaluating : Flags]
    <3>1. FALSE \in Flags
      BY DEF Flags
    <3> QED BY <3>1 DEF NoMonitor
  <2> QED BY <1>1, <1>6, <2>1, PageTurns
<1>7. CASE FormNext /\ UNCHANGED monitor
  <2>1. page' = page /\ mem'.role = mem.role
    BY <1>1, <1>7, FormStays DEF Stays
  <2>2. /\ page # "creator" => form' = form /\ uploads' = uploads
        /\ page # "creator" => \A o \in Saves : call'[o].page = FALSE
    BY <1>1, <1>7, FormKeepsPage
  <2> QED BY <1>2, <1>7, <2>1, <2>2
<1>8. CASE MonitorNext
  <2>1. UNCHANGED <<page, mem, call, form, uploads>>
    BY <1>8 DEF MonitorNext, Watch, HandleFinalEvaluation, EvaluationEnds, Clicks,
                allButClicks, storeVars, formVars
  <2>2. TRUE \in Flags /\ FALSE \in Flags
    BY DEF Flags
  <2>3. ASSUME NEW id \in ListedIds, Watch(id)
        PROVE  /\ monitor' \in [target : ContestIds \cup {None}, evaluating : Flags]
               /\ page = "creator"
    <3>1. id \in ContestIds
      BY <1>1, ListFields, ContestFields DEF ListedIds
    <3> QED BY <1>2, <2>3, <3>1 DEF Watch, Clicks
  <2>4. CASE HandleFinalEvaluation
    <3>1. /\ monitor' \in [target : ContestIds \cup {None}, evaluating : Flags]
          /\ page = "creator"
      BY <1>2, <2>2, <2>4 DEF HandleFinalEvaluation
    <3> QED BY <1>2, <2>1, <3>1
  <2>5. CASE EvaluationEnds
    <3>1. /\ monitor.evaluating
          /\ monitor' = [monitor EXCEPT !.evaluating = FALSE]
      BY <2>5 DEF EvaluationEnds
    <3>2. monitor' \in [target : ContestIds \cup {None}, evaluating : Flags]
      BY <1>2, <2>2, <3>1
    <3>3. page = "creator"
      BY <1>2, <3>1 DEF NoMonitor
    <3> QED BY <1>2, <2>1, <3>2, <3>3
  <2> QED BY <1>2, <1>8, <2>1, <2>3, <2>4, <2>5 DEF MonitorNext
<1>9. CASE UNCHANGED vars
  BY <1>2, <1>9 DEF vars, storeVars, allButClicks
<1> QED BY <1>4, <1>5, <1>6, <1>7, <1>8, <1>9 DEF Next

---------------------------------------------------------------------------
(* The invariant holds. *)

LEMMA InitIsOK == Init => IInv
<1> SUFFICES ASSUME Init PROVE IInv
  OBVIOUS
<1>1. /\ call = [o \in Saves |-> IdleCall] /\ server = <<>> /\ clicks = 0 /\ disk = mem
      /\ form = BlankForm /\ uploads = {} /\ monitor = NoMonitor
      /\ page \in {"select", "creator", "student"}
  BY DEF Init, InitStore
<1>2. DefaultState \in StateT /\ DefaultState.contests = <<>> /\ DefaultState.role = "none"
  <2>1. 0 \in 0..MaxRegs /\ <<>> \in Seq(ContestT)
    BY StoreAssumption, EmptySeq
  <2> QED BY <2>1 DEF DefaultState, StateT
<1>3. /\ mem \in StateT /\ mem.contests = <<>>
      /\ page \in {"creator", "student"} => mem.role = page
  <2>1. CASE page = "select"
    BY <1>2, <2>1 DEF Init, InitStore
  <2>2. CASE page = "student"
    <3>1. mem = [DefaultState EXCEPT !.role = "student"]
      BY <2>2 DEF Init, InitStore
    <3> HIDE DEF DefaultState
    <3> QED BY <1>2, <2>2, <3>1 DEF StateT
  <2>3. CASE page = "creator"
    <3>1. mem = [DefaultState EXCEPT !.role = "creator", !.telemetry = "connecting"]
      BY <2>3 DEF Init, InitStore
    <3> HIDE DEF DefaultState
    <3> QED BY <1>2, <2>3, <3>1 DEF StateT
  <2> QED BY <1>1, <2>1, <2>2, <2>3
<1>4. <<>> \in Seq(ContestT) /\ <<>> \in Seq(ServerT) /\ DOMAIN <<>> = {}
  BY EmptySeq
<1>5. StoreInv
  <2>1. ListOK(<<>>, call) /\ HeldOK(<<>>, call) /\ BareOK(<<>>)
    BY <1>4 DEF ListOK, HeldOK, BareOK, Unique, Lacks
  <2> QED BY <1>1, <1>3, <2>1 DEF StoreInv
<1>6. /\ call \in [Saves -> CallT]
      /\ \A o \in Saves : /\ call[o].pc = "idle" /\ call[o].id = None /\ call[o].page = FALSE
  <2>1. FALSE \in Flags /\ 0 \in 0..MaxRounds
    BY CreatorAssumption DEF Flags
  <2>2. IdleCall \in CallT /\ IdleCall.pc = "idle" /\ IdleCall.id = None
        /\ IdleCall.page = FALSE
    BY <2>1 DEF IdleCall, CallT
  <2> HIDE DEF IdleCall
  <2> QED BY <1>1, <2>2
<1>7. CallOK(call)
  <2>1. None \notin Demos /\ \A p \in Saves : None # ServerId(p)
    BY ServerIds DEF None, Demos
  <2> QED BY <1>6, <2>1 DEF CallOK, Busy
<1>8. CreatorInv
  <2>1. ServerOK(<<>>, call, 0)
    BY <1>4 DEF ServerOK, Unique
  <2>2. 0 \in 0..MaxClicks
    BY StoreAssumption
  <2> QED BY <1>1, <1>7, <2>1, <2>2, BlankFormIsOK DEF CreatorInv
<1>9. PageInv
  <2>1. FALSE \in Flags
    BY DEF Flags
  <2>2. NoMonitor \in [target : ContestIds \cup {None}, evaluating : Flags]
    BY <2>1 DEF NoMonitor
  <2> QED BY <1>1, <1>3, <1>6, <2>2 DEF PageInv
<1>10. Follows
  BY <1>1 DEF Follows
<1> QED BY <1>5, <1>8, <1>9, <1>10 DEF IInv

LEMMA NextKeeps == IInv /\ [Next]_vars => IInv'
<1> SUFFICES ASSUME IInv, [Next]_vars PROVE IInv'
  OBVIOUS
<1>1. StoreInv' /\ Follows'
  BY StoreStep DEF IInv
<1>2. CreatorInv'
  BY CreatorStep DEF IInv
<1>3. PageInv'
  BY PageStep DEF IInv
<1> QED BY <1>1, <1>2, <1>3 DEF IInv

LEMMA Inductive == Spec => []IInv
BY InitIsOK, NextKeeps, PTL DEF Spec

LEMMA StateIsOK == ASSUME NEW m \in StateT PROVE StateOK(m)
<1>1. /\ m.role \in {"none", "student", "creator"} /\ m.sid \in 0..MaxRegs
      /\ m.key \in 0..MaxRegs /\ m.active \in ContestIds \cup {None}
      /\ m.telemetry \in {"offline", "connecting", "online"}
  BY DEF StateT
<1>2. ASSUME NEW k \in DOMAIN m.contests
      PROVE  LET c == m.contests[k] IN
             /\ c.id \in ContestIds /\ c.status \in {"draft", "active", "ended"}
             /\ c.joined \subseteq 0..MaxRegs /\ c.by \in 0..MaxSaves
             /\ \A i \in DOMAIN c.rounds :
                 c.rounds[i] \in [id : 0..MaxSaves, live : BOOLEAN, data : Marks,
                                  by : 0..MaxSaves]
  <2> DEFINE c == m.contests[k]
  <2>1. c \in ContestT
    BY ListFields
  <2> HIDE DEF c
  <2>2. /\ c.id \in ContestIds /\ c.status \in {"draft", "active", "ended"}
        /\ c.joined \in SUBSET (0..MaxRegs) /\ c.by \in 0..MaxSaves
    BY <2>1 DEF ContestT, Statuses
  <2>3. \A i \in DOMAIN c.rounds : c.rounds[i] \in RoundT
    BY <2>1, ContestFields
  <2>4. RoundT = [id : 0..MaxSaves, live : BOOLEAN, data : Marks, by : 0..MaxSaves]
    BY DEF RoundT, Flags
  <2> QED BY <2>2, <2>3, <2>4 DEF c
<1> QED BY <1>1, <1>2 DEF StateOK

\* TypeOK for every number of saves, registrations, clicks, sockets, rounds and
\* uploads: the contests of ContestStore.js and the form of ContestCreator.jsx
\* keep their shape, a page shows only to its role (RoleGuard), a contest held by
\* a createContest call belongs to one that is under way, and the form, the
\* uploads and the monitor go with the creator's page.
THEOREM TypeCorrect == Spec => []TypeOK
<1>1. IInv => TypeOK
  <2> SUFFICES ASSUME IInv PROVE TypeOK
    OBVIOUS
  <2>1. StateOK(mem) /\ StateOK(disk)
    BY StateIsOK DEF IInv, StoreInv
  <2>2. \A k \in DOMAIN mem.contests :
          mem.contests[k].by # 0 => call[mem.contests[k].by].pc \in {"post", "posted", "rounds"}
    BY DEF IInv, StoreInv, HeldOK, Busy
  <2>3. form.id \in ContestIds \cup {None} /\ form.named \in Flags /\ form.rounds \in FormRounds
    BY DEF IInv, CreatorInv, FormOK
  <2>4. \A i \in DOMAIN form.rounds : form.rounds[i] \in FormRoundT
    BY <2>3, FormFields
  <2>5. FormRoundT = [id : 0..MaxSaves, live : BOOLEAN, data : Marks, src : 0..MaxRounds]
    BY DEF FormRoundT, Flags
  <2>6. form.named \in BOOLEAN
        /\ monitor \in [target : ContestIds \cup {None}, evaluating : BOOLEAN]
    BY <2>3 DEF IInv, PageInv, Flags
  <2>7. /\ page \in {"creator", "student"} => mem.role = page
        /\ page # "creator" => form = BlankForm /\ uploads = {} /\ monitor = NoMonitor
    BY DEF IInv, PageInv
  <2>8. \A i \in DOMAIN form.rounds :
          form.rounds[i] \in [id : 0..MaxSaves, live : BOOLEAN, data : Marks,
                              src : 0..MaxRounds]
    BY <2>4, <2>5
  <2> QED BY <2>1, <2>2, <2>3, <2>6, <2>7, <2>8 DEF TypeOK
<1> QED BY <1>1, Inductive, PTL

\* No contest is twice in the list, in memory or in localStorage: createContest
\* renames the contest it still holds to the id the server gave (contest.id =
\* d.id) without looking into the list, and that id is never there, whatever
\* fetch, delete, reload or second save came in between.
THEOREM IdsAreUnique == Spec => []UniqueIds
<1>1. IInv => UniqueIds
  BY DEF IInv, StoreInv, ListOK, Unique, UniqueIds
<1> QED BY <1>1, Inductive, PTL

\* As long as localStorage accepts writes it holds what memory holds, but for
\* the ids that calls under way or broken off received: every operation of
\* ContestStore.js that changes something else ends in _save.
THEOREM StorageFollows == Spec => []DiskFollows
<1>1. IInv => DiskFollows
  BY FollowsMeans DEF IInv
<1> QED BY <1>1, Inductive, PTL

\* A dataset is marked, in the form or in a stored contest, only at a round the
\* server gave an id, although uploadRoundDataset writes back the rounds the
\* form had when the upload began and createContest copies them.
THEOREM UploadsAreKnown == Spec => []UploadedIsKnown
<1>1. IInv => UploadedIsKnown
  BY DEF IInv, StoreInv, ListOK, CreatorInv, FormOK, Known, UploadedIsKnown, Demos
<1> QED BY <1>1, Inductive, PTL
=============================================================================
