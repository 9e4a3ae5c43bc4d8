------------------------ MODULE DeliveryCaches_proofs -------------------------
(***************************************************************************)
(* What the caches of the Delivery API guarantee for any graph of links,   *)
(* any depth of resolution, any batches, retries and lifetimes.  In the KV *)
(* cache a hit is out of date only while the event of a change to an entry *)
(* it shows or should show is on its way, and an invalidated envelope      *)
(* stays so; in Redis a hit may also have lost the set of one of its tags. *)
(***************************************************************************)
EXTENDS KvDeliveryCache, RedisDeliveryCache, WellFoundedInduction, TLAPS

(***************************************************************************)
(* Induction over the levels of links.                                     *)
(***************************************************************************)
LEMMA InductionOnSet ==
  ASSUME NEW S, 0 \in S, \A n \in Nat : n \in S => n + 1 \in S
  PROVE  Nat \subseteq S
<1> DEFINE T == Nat \ S
<1> SUFFICES ASSUME T # {} PROVE FALSE
  OBVIOUS
<1>1. PICK x \in T : \A y \in T : <<y, x>> \notin OpToRel(<, Nat)
  BY NatLessThanWellFounded, WFMin
<1>2. x - 1 \in Nat /\ x - 1 \in T
  OBVIOUS
<1>3. <<x - 1, x>> \in OpToRel(<, Nat)
  BY <1>2 DEF OpToRel
<1> QED BY <1>1, <1>2, <1>3

\* A function of sets of entries can be applied over and over.
EntrySets == SUBSET Entries
Iterated(F, base, d) ==
  \E w \in [0..d -> EntrySets] : w[0] = base /\ \A n \in 1..d : w[n] = F[w[n - 1]]

LEMMA Iterates ==
  ASSUME NEW base \in EntrySets, NEW F \in [EntrySets -> EntrySets], NEW d \in Nat
  PROVE  Iterated(F, base, d)
<1> SUFFICES \A m \in Nat : Iterated(F, base, m)
  OBVIOUS
<1> DEFINE S == {m \in Nat : Iterated(F, base, m)}
<1>1. 0 \in S
  <2> DEFINE w == [n \in 0..0 |-> base]
  <2>1. w \in [0..0 -> EntrySets] /\ w[0] = base /\ \A n \in 1..0 : w[n] = F[w[n - 1]]
    OBVIOUS
  <2>2. Iterated(F, base, 0)
    <3> HIDE DEF w
    <3> QED BY <2>1 DEF Iterated
  <2> QED BY <2>2
<1>2. ASSUME NEW m \in Nat, m \in S PROVE m + 1 \in S
  <2>1. PICK w \in [0..m -> EntrySets] : w[0] = base /\ \A n \in 1..m : w[n] = F[w[n - 1]]
    BY <1>2 DEF Iterated
  <2> DEFINE v == [n \in 0..(m + 1) |-> IF n = m + 1 THEN F[w[m]] ELSE w[n]]
  <2>2. v \in [0..(m + 1) -> EntrySets] /\ v[0] = base
    BY <2>1
  <2>3. \A n \in 1..(m + 1) : v[n] = F[v[n - 1]]
    BY <2>1
  <2>4. Iterated(F, base, m + 1)
    <3> HIDE DEF v
    <3> QED BY <2>2, <2>3 DEF Iterated
  <2> QED BY <2>4
<1>3. Nat \subseteq S
  <2> HIDE DEF S
  <2> QED BY <1>1, <1>2, InductionOnSet
<1> QED BY <1>3

\* The levels of what is rendered from consistent snapshots.
Levels(k, s, d, w) ==
  /\ w \in [0..d -> SUBSET Entries]
  /\ w[0] = Roots(k, s)
  /\ \A n \in 1..d : w[n] = w[n - 1] \union (LinksOf(w[n - 1]) \intersect Published(s))
  /\ Reach(k, s, d) = w[d]

LEMMA ReachLevels ==
  ASSUME NEW k, NEW s, NEW d \in Nat, Roots(k, s) \subseteq Entries
  PROVE  \E w : Levels(k, s, d, w)
<1> DEFINE Next1(S) == S \union (LinksOf(S) \intersect Published(s))
           F == [S \in SUBSET Entries |-> Next1(S)]
           base == Roots(k, s)
           Fits(g) == g = [n \in 0..d |-> IF n = 0 THEN base ELSE Next1(g[n - 1])]
           f == CHOOSE g : Fits(g)
<1>1. F \in [SUBSET Entries -> SUBSET Entries]
  BY DEF Published
<1>2. PICK w \in [0..d -> SUBSET Entries] : w[0] = base /\ \A n \in 1..d : w[n] = F[w[n - 1]]
  <2>1. base \in SUBSET Entries
    OBVIOUS
  <2>2. base \in EntrySets /\ F \in [EntrySets -> EntrySets]
    BY <1>1, <2>1 DEF EntrySets
  <2> HIDE DEF F, base
  <2>3. Iterated(F, base, d)
    BY <2>2, Iterates
  <2> QED BY <2>3 DEF EntrySets, Iterated
<1>3. \A n \in 1..d : w[n] = Next1(w[n - 1])
  <2> SUFFICES ASSUME NEW n \in 1..d PROVE w[n] = Next1(w[n - 1])
    OBVIOUS
  <2>1. n - 1 \in 0..d
    OBVIOUS
  <2> QED BY <1>2, <2>1
<1>4. Fits(w)
  <2> HIDE DEF Next1, base
  <2>1. \A n \in 0..d : w[n] = IF n = 0 THEN base ELSE Next1(w[n - 1])
    BY <1>2, <1>3
  <2> QED BY <2>1
<1>5. Fits(f)
  <2> HIDE DEF Fits
  <2> QED BY <1>4
<1>6. f[0] = base /\ \A n \in 1..d : f[n] = Next1(f[n - 1])
  <2> HIDE DEF Next1, base, f
  <2>1. \A n \in 0..d : f[n] = IF n = 0 THEN base ELSE Next1(f[n - 1])
    BY <1>5
  <2> QED BY <2>1
<1>7. f = w
  <2> DEFINE S == {n \in Nat : n <= d => f[n] = w[n]}
  <2> HIDE DEF Next1, base, f
  <2>1. 0 \in S
    BY <1>2, <1>6
  <2>2. ASSUME NEW n \in Nat, n \in S PROVE n + 1 \in S
    <3>1. n + 1 <= d => f[n + 1] = Next1(f[n]) /\ w[n + 1] = Next1(w[n])
      BY <1>3, <1>6
    <3> QED BY <2>2, <3>1
  <2>3. \A n \in 0..d : f[n] = w[n]
    <3> HIDE DEF S
    <3>1. Nat \subseteq S
      BY <2>1, <2>2, InductionOnSet
    <3> QED BY <3>1 DEF S
  <2>4. DOMAIN f = 0..d
    BY <1>5
  <2> QED BY <1>5, <2>3, <2>4
<1>8. Reach(k, s, d) = f[d]
  BY DEF Reach
<1> QED
  <2> HIDE DEF f
  <2>1. Levels(k, s, d, w)
    BY <1>2, <1>3, <1>7, <1>8 DEF Levels
  <2> QED BY <2>1

\* The levels of the entries that embed e.
Linking(s, S) == {f \in Published(s) : Links[f] \intersect S # {}}

Embedding(e, s, w) ==
  /\ w \in [0..MaxClosure -> SUBSET Entries]
  /\ w[0] = {}
  /\ \A n \in 1..MaxClosure : w[n] = w[n - 1] \union Linking(s, w[n - 1] \union {e})
  /\ Embedders(e, s) = w[MaxClosure] \ {e}

LEMMA EmbedderLevels ==
  ASSUME NEW s, NEW e \in Entries
  PROVE  \E w : Embedding(e, s, w)
<1> DEFINE F == [S \in SUBSET Entries |-> S \union Linking(s, S \union {e})]
           none == {}
           Fits(g) == g = [n \in 0..MaxClosure |->
                             IF n = 0 THEN {} ELSE g[n - 1] \union Linking(s, g[n - 1] \union {e})]
           h == CHOOSE g : Fits(g)
<1>0. MaxClosure \in Nat
  BY RenderAssumption
<1>1. F \in [SUBSET Entries -> SUBSET Entries]
  BY DEF Linking, Published
<1>2. PICK w \in [0..MaxClosure -> SUBSET Entries] : w[0] = {} /\ \A n \in 1..MaxClosure : w[n] = F[w[n - 1]]
  <2>1. none \in EntrySets /\ F \in [EntrySets -> EntrySets]
    BY <1>1 DEF EntrySets
  <2> HIDE DEF F, none
  <2>2. Iterated(F, none, MaxClosure)
    BY <1>0, <2>1, Iterates
  <2> QED BY <2>2 DEF EntrySets, none, Iterated
<1>3. \A n \in 0..MaxClosure : w[n] = IF n = 0 THEN {} ELSE w[n - 1] \union Linking(s, w[n - 1] \union {e})
  <2>1. w[0] = {}
    BY <1>2
  <2>2. ASSUME NEW n \in 1..MaxClosure PROVE w[n] = w[n - 1] \union Linking(s, w[n - 1] \union {e})
    <3>1. n - 1 \in 0..MaxClosure
      BY <1>0
    <3> QED BY <1>2, <3>1
  <2>3. \A n \in 0..MaxClosure : n # 0 => n \in 1..MaxClosure
    BY <1>0
  <2> QED BY <2>1, <2>2, <2>3
<1>4. Fits(w)
  BY <1>3
<1>5. Fits(h)
  <2> HIDE DEF Fits
  <2> QED BY <1>4
<1>6. \A n \in 0..MaxClosure : h[n] = IF n = 0 THEN {} ELSE h[n - 1] \union Linking(s, h[n - 1] \union {e})
  <2> HIDE DEF h
  <2> QED BY <1>5
<1>7. h[MaxClosure] = w[MaxClosure]
  <2> DEFINE S == {n \in Nat : n \in 0..MaxClosure => h[n] = w[n]}
  <2> HIDE DEF h
  <2>1. 0 \in S
    BY <1>3, <1>6
  <2>2. ASSUME NEW n \in Nat, n \in S PROVE n + 1 \in S
    <3> SUFFICES ASSUME n + 1 \in 0..MaxClosure PROVE h[n + 1] = w[n + 1]
      OBVIOUS
    <3>1. (n + 1) - 1 = n /\ n + 1 # 0 /\ h[n] = w[n]
      BY <1>0, <2>2
    <3>2. h[n + 1] = h[n] \union Linking(s, h[n] \union {e})
      BY <1>6, <3>1
    <3>3. w[n + 1] = w[n] \union Linking(s, w[n] \union {e})
      BY <1>3, <3>1
    <3> QED BY <3>1, <3>2, <3>3
  <2>3. Nat \subseteq S
    <3> HIDE DEF S
    <3> QED BY <2>1, <2>2, InductionOnSet
  <2> QED BY <1>0, <2>3
<1>8. Embedders(e, s) = h[MaxClosure] \ {e}
  BY DEF Embedders, Linking
<1>9. Embedding(e, s, w)
  <2> HIDE DEF h
  <2>1. \A n \in 1..MaxClosure : n \in 0..MaxClosure /\ n # 0
    BY <1>0
  <2> QED BY <1>2, <1>3, <1>7, <1>8, <2>1 DEF Embedding
<1> QED BY <1>9

\* A published entry that links to another is among its embedders.
LEMMA DirectEmbedders ==
  ASSUME NEW s, NEW e \in Entries, NEW f \in Entries \ {e}, s[f] > 0, e \in Links[f], MaxClosure > 0
  PROVE  f \in Embedders(e, s)
<1>0. MaxClosure \in Nat
  BY RenderAssumption
<1>1. PICK w : Embedding(e, s, w)
  BY EmbedderLevels
<1>2. f \in w[1]
  <2>1. f \in Linking(s, w[0] \union {e})
    BY DEF Linking, Published
  <2> QED BY <1>0, <1>1, <2>1 DEF Embedding
<1>3. f \in w[MaxClosure]
  <2> DEFINE S == {n \in Nat : n \in 1..MaxClosure => f \in w[n]}
  <2>1. 0 \in S
    OBVIOUS
  <2>2. ASSUME NEW n \in Nat, n \in S PROVE n + 1 \in S
    <3>1. CASE n = 0
      BY <1>2, <3>1
    <3>2. CASE n # 0
      <4> SUFFICES ASSUME n + 1 \in 1..MaxClosure PROVE f \in w[n + 1]
        OBVIOUS
      <4>1. f \in w[n] /\ (n + 1) - 1 = n
        BY <1>0, <2>2, <3>2
      <4> QED BY <1>1, <4>1 DEF Embedding
    <3> QED BY <3>1, <3>2
  <2>3. Nat \subseteq S
    <3> HIDE DEF S
    <3> QED BY <2>1, <2>2, InductionOnSet
  <2> QED BY <1>0, <2>3
<1> QED BY <1>1, <1>3 DEF Embedding

-------------------------------------------------------------------------------
(***************************************************************************)
(* What a reader saw of the served versions s under the key k, against the *)
(* set `owed` of the entries with a change that is announced, or was while *)
(* the reader looked.                                                      *)
(***************************************************************************)
\* The events are those dispatched during the render, `late`, and those of the queue that
\* will be noticed: the consumer has not bumped one of `tags` for their batch already.
Owing(q, c, late, tags) ==
  {y \in Entries : \E event \in q \union late :
     /\ y \in event.entries
     /\ event \in late \/ event \notin c.batch \/ tags \intersect c.bumped = {}}

\* What is shown of an entry is what is served of it.
ShownOwed(s, owed, value) == \A y \in DOMAIN value : s[y] # value[y] => y \in owed

\* The entries that can be roots.
Candidates(k) == IF k.kind = "entry" THEN {k.of} ELSE {e \in Entries : TypeOf[e] = k.of}

\* L are the entries found up to each of the levels 0 to l: the roots, and what the entries
\* of a level link to.  What was not found is not published.
Follows(s, owed, k, shown, l, L) ==
  /\ L \in [0..Include -> SUBSET Entries]
  /\ \A n \in l..Include : L[n] = shown
  /\ L[0] \subseteq Candidates(k) /\ (k.kind = "entry" => L[0] = {k.of})
  /\ \A y \in Candidates(k) \ L[0] : s[y] > 0 => y \in owed
  /\ \A n \in 1..l : L[n - 1] \subseteq L[n] /\ L[n] \subseteq L[n - 1] \union LinksOf(L[n - 1])
  /\ \A n \in 1..l : \A f \in L[n - 1] : \A y \in Links[f] \ L[n] :
       s[y] > 0 => y \in owed \/ f \in owed

\* A view of all levels.
View(s, owed, k, value) ==
  ShownOwed(s, owed, value) /\ \E L : Follows(s, owed, k, DOMAIN value, Include, L)

Served == [Entries -> 0..MaxCommits]

LEMMA KeyTypes == \A k \in Keys : /\ k.kind \in {"entry", "list"}
                                  /\ k.kind = "entry" => k.of \in Entries /\ k = EntryKey(k.of)
BY DEF Keys, EntryKey, ListKey

\* A view that no event touches shows what a render now would show.
LEMMA RenderIsCurrent ==
  ASSUME NEW s \in Served, NEW owed, NEW k \in Keys, NEW value \in Shown, View(s, owed, k, value),
         owed \intersect (DOMAIN value \union DOMAIN Render(k, s)) = {}
  PROVE  value = Render(k, s)
<1>0. Include \in Nat
  BY RenderAssumption
<1>1. PICK L : Follows(s, owed, k, DOMAIN value, Include, L)
  BY DEF View
<1>2. \A y \in Entries : y \in Published(s) <=> s[y] > 0
  BY DEF Published
<1>3. /\ DOMAIN value \subseteq Entries
      /\ \A y \in DOMAIN value : s[y] = value[y] /\ y \in Published(s)
      /\ value = [y \in DOMAIN value |-> value[y]]
  <2>1. PICK S \in SUBSET Entries : value \in [S -> 1..MaxCommits]
    BY DEF Shown
  <2>2. \A y \in DOMAIN value : s[y] = value[y]
    BY DEF View, ShownOwed
  <2> QED BY <1>2, <2>1, <2>2, RequestsAssumption
<1>4. /\ Roots(k, s) = Candidates(k) \intersect Published(s)
      /\ Roots(k, s) \subseteq Entries
  BY KeyTypes DEF Roots, Candidates, Published
<1>5. PICK w : Levels(k, s, Include, w)
  BY <1>0, <1>4, ReachLevels
<1>6. DOMAIN Render(k, s) = w[Include]
  BY <1>5 DEF Render, Levels
<1>7. L[Include] = DOMAIN value /\ \A n \in 0..Include : L[n] \subseteq L[Include] /\ w[n] \subseteq w[Include]
  <2> DEFINE S == {m \in Nat : m <= Include =>
                       L[Include - m] \subseteq L[Include] /\ w[Include - m] \subseteq w[Include]}
  <2>1. 0 \in S
    BY <1>0
  <2>2. ASSUME NEW m \in Nat, m \in S PROVE m + 1 \in S
    <3> SUFFICES ASSUME m + 1 <= Include
                 PROVE  /\ L[Include - (m + 1)] \subseteq L[Include]
                        /\ w[Include - (m + 1)] \subseteq w[Include]
      OBVIOUS
    <3> DEFINE n == Include - m
    <3>1. n \in 1..Include /\ Include - (m + 1) = n - 1
      BY <1>0
    <3>2. L[n - 1] \subseteq L[n] /\ w[n - 1] \subseteq w[n]
      <4> HIDE DEF n
      <4> QED BY <1>1, <1>5, <3>1 DEF Follows, Levels
    <3>3. L[n] \subseteq L[Include] /\ w[n] \subseteq w[Include]
      BY <1>0, <2>2
    <3> QED BY <3>1, <3>2, <3>3
  <2>3. Nat \subseteq S
    <3> HIDE DEF S
    <3> QED BY <2>1, <2>2, InductionOnSet
  <2>4. L[Include] = DOMAIN value
    BY <1>0, <1>1 DEF Follows
  <2>5. ASSUME NEW n \in 0..Include PROVE L[n] \subseteq L[Include] /\ w[n] \subseteq w[Include]
    <3>1. Include - n \in S
      BY <1>0, <2>3
    <3>2. Include - (Include - n) = n
      BY <1>0
    <3> QED BY <1>0, <3>1, <3>2
  <2> QED BY <2>4, <2>5
<1>8. L[Include] = w[Include]
  <2> DEFINE S == {m \in Nat : m <= Include => L[m] = w[m]}
  <2>1. 0 \in S
    <3>1. L[0] \subseteq w[0]
      BY <1>0, <1>1, <1>3, <1>4, <1>5, <1>7 DEF Follows, Levels
    <3>2. \A y \in w[0] : y \in L[0]
      BY <1>0, <1>1, <1>2, <1>4, <1>5, <1>6, <1>7 DEF Follows, Levels
    <3> QED BY <3>1, <3>2
  <2>2. ASSUME NEW m \in Nat, m \in S PROVE m + 1 \in S
    <3> SUFFICES ASSUME m + 1 <= Include PROVE L[m + 1] = w[m + 1]
      OBVIOUS
    <3> DEFINE n == m + 1
    <3>1. n \in 1..Include /\ n - 1 = m /\ L[m] = w[m]
      BY <1>0, <2>2
    <3> HIDE DEF n
    <3>2. /\ L[m] \subseteq L[n] /\ L[n] \subseteq L[m] \union LinksOf(L[m])
          /\ \A f \in L[m] : \A y \in Links[f] \ L[n] : s[y] > 0 => y \in owed \/ f \in owed
      BY <1>1, <3>1 DEF Follows
    <3>3. w[n] = w[m] \union (LinksOf(w[m]) \intersect Published(s))
      BY <1>5, <3>1 DEF Levels
    <3>4. L[n] \subseteq w[n]
      BY <1>0, <1>3, <1>7, <3>1, <3>2, <3>3
    <3>5. ASSUME NEW y \in w[n], y \notin L[n] PROVE FALSE
      <4>1. y \in LinksOf(L[m]) /\ s[y] > 0
        BY <1>0, <1>2, <1>5, <3>1, <3>2, <3>3, <3>5 DEF Levels
      <4>2. PICK f \in L[m] : y \in Links[f]
        BY <4>1 DEF LinksOf
      <4>3. y \in owed \/ f \in owed
        BY <3>2, <3>5, <4>1, <4>2
      <4>4. y \in DOMAIN Render(k, s) /\ f \in DOMAIN value
        BY <1>0, <1>6, <1>7, <3>1, <3>5, <4>2
      <4> QED BY <4>3, <4>4
    <3> QED BY <3>4, <3>5 DEF n
  <2>3. Nat \subseteq S
    <3> HIDE DEF S
    <3> QED BY <2>1, <2>2, InductionOnSet
  <2> QED BY <1>0, <2>3
<1> QED
  <2>1. Render(k, s) = [y \in w[Include] |-> s[y]]
    BY <1>5 DEF Render, Levels
  <2> QED BY <1>3, <1>7, <1>8, <2>1

-------------------------------------------------------------------------------
(***************************************************************************)
(* The inductive invariant.  w stands for the tag versions.                *)
(***************************************************************************)
Now(w, t) == IF w[t].left = 0 THEN 0 ELSE w[t].ver

Matches(w, tags) == \A t \in DOMAIN tags : tags[t] = Now(w, t)

\* Recorded versions are not from the future.  A version recorded as missing and written
\* since stays for `left` ticks, so that it is not missing again while the record lives.
Noted(w, tags, left) ==
  \A t \in DOMAIN tags : /\ tags[t] <= w[t].ver
                         /\ tags[t] = 0 /\ Now(w, t) # 0 => w[t].left >= left

\* What is cached, or is about to be.
Kept(s, q, c, w, k, value, tags, late, left) ==
  /\ DOMAIN tags = RenderTags(k, DOMAIN value)
  /\ Noted(w, tags, left)
  /\ Matches(w, tags) => View(s, Owing(q, c, late, DOMAIN tags), k, value)

\* A render on its way, and the links it has followed: those of the entries that it has
\* found and that are not in the frontier.
Expanded(x, L) ==
  IF x.level = 0 THEN DOMAIN x.value \subseteq x.frontier
                 ELSE DOMAIN x.value \ x.frontier \subseteq L[x.level - 1]

Reads(s, owed, x) ==
  /\ ShownOwed(s, owed, x.value) /\ x.frontier \subseteq DOMAIN x.value
  /\ \E L : Follows(s, owed, x.key, DOMAIN x.value, x.level, L) /\ Expanded(x, L)

Sees(s, q, c, w, x) ==
  /\ x.step = "read" => Reads(s, Owing(q, c, x.late, Tags), x)
  /\ x.step = "rendered" => /\ x.tags = RenderTags(x.key, DOMAIN x.value)
                            /\ View(s, Owing(q, c, x.late, Tags), x.key, x.value)
  /\ x.step = "put" => Kept(s, q, c, w, x.key, x.value, x.versions, x.late, EnvelopeTtl)

Holds(s, q, c, w, k, x) ==
  x.left > 0 => Kept(s, q, c, w, k, x.value, x.tags, x.late, x.left)

Inv == /\ TypeOK
       /\ \A r \in Readers : Sees(served, queue, consumer, tv, reader[r])
       /\ \A k \in Keys : Holds(served, queue, consumer, tv, k, envelope[k])

-------------------------------------------------------------------------------
(***************************************************************************)
(* Types.                                                                  *)
(***************************************************************************)
LEMMA TtlType == EnvelopeTtl \in 1..TagTtl /\ TagTtl \in Nat
<1>1. TagTtl \div 2 \in 1..TagTtl
  BY KvTtlAssumption
<1> QED BY <1>1, KvTtlAssumption DEF EnvelopeTtl

LEMMA LinkTypes == \A S \in SUBSET Entries : LinksOf(S) \subseteq Entries
BY RenderAssumption DEF LinksOf

LEMMA RootTypes == \A k \in Keys : \A s : Roots(k, s) \subseteq Entries \intersect Published(s)
BY KeyTypes DEF Roots, Published

LEMMA TagTypes ==
  ASSUME NEW k \in Keys, NEW shown \in SUBSET Entries
  PROVE  RenderTags(k, shown) \subseteq Tags
<1>1. k.kind # "entry" => k.of \in Types
  BY DEF Keys, EntryKey, ListKey, Types
<1>2. \A y \in shown : y \in Entries
  OBVIOUS
<1>3. LinksOf(shown) \subseteq Entries
  BY LinkTypes
<1>4. CASE k.kind = "entry"
  BY <1>2, <1>4 DEF RenderTags, Tags
<1>5. CASE k.kind # "entry"
  <2>1. {ContentTypeTag(t) : t \in {k.of} \union {TypeOf[e] : e \in shown}} \subseteq Tags
    BY <1>1, <1>2, <1>5 DEF Tags, Types
  <2>2. {CacheTag(e) : e \in LinksOf(shown) \ shown} \subseteq Tags
    BY <1>3 DEF Tags
  <2> QED BY <1>5, <2>1, <2>2 DEF RenderTags, Tags
<1> QED BY <1>4, <1>5

\* What is shown of published entries is a value.
LEMMA ShownTypes ==
  ASSUME NEW s \in Served, NEW value, NEW S \in SUBSET Entries,
         DOMAIN value = S, value = [e \in S |-> value[e]],
         \A e \in S : value[e] \in 1..MaxCommits
  PROVE  value \in Shown
BY DEF Shown

LEMMA ShownFacts ==
  ASSUME NEW value \in Shown
  PROVE  /\ DOMAIN value \subseteq Entries /\ value = [e \in DOMAIN value |-> value[e]]
         /\ \A e \in DOMAIN value : value[e] \in 1..MaxCommits
BY DEF Shown

\* The shapes of readers and envelopes.
IsReader(x) == \/ x \in {Idle} \union Reading \union Rendered
               \/ \E T \in SUBSET Tags : x \in Putting(T)

LEMMA Shapes ==
  ASSUME NEW x, IsReader(x)
  PROVE  /\ x.step \in {"idle", "read", "rendered", "put"}
         /\ x.step = "idle" => x = Idle
         /\ x.step = "read" => x \in Reading
         /\ x.step = "rendered" => x \in Rendered
         /\ x.step = "put" => \E T \in SUBSET Tags : x \in Putting(T)
<1>1. CASE x \in {Idle} \union Reading \union Rendered
  BY <1>1 DEF Idle, Reading, Rendered
<1>2. CASE \E T \in SUBSET Tags : x \in Putting(T)
  <2>1. PICK T \in SUBSET Tags : x \in Putting(T)
    BY <1>2
  <2> QED BY <2>1 DEF Putting
<1> QED BY <1>1, <1>2 DEF IsReader

LEMMA ReaderShapes ==
  ASSUME TypeOK, NEW r \in Readers
  PROVE  /\ IsReader(reader[r])
         /\ reader[r].step \in {"idle", "read", "rendered", "put"}
         /\ reader[r].step = "idle" => reader[r] = Idle
         /\ reader[r].step = "read" => reader[r] \in Reading
         /\ reader[r].step = "rendered" => reader[r] \in Rendered
         /\ reader[r].step = "put" => \E T \in SUBSET Tags : reader[r] \in Putting(T)
<1>1. IsReader(reader[r])
  BY DEF TypeOK, IsReader
<1> QED BY <1>1, Shapes

LEMMA EnvelopeShapes ==
  ASSUME TypeOK, NEW k \in Keys
  PROVE  /\ envelope[k].left \in 0..EnvelopeTtl
         /\ envelope[k].left = 0 => envelope[k] = NoEnvelope
         /\ envelope[k].left > 0 => \E T \in SUBSET Tags : envelope[k] \in Envelope(T)
<1>1. CASE envelope[k] = NoEnvelope
  BY <1>1, TtlType DEF NoEnvelope
<1>2. CASE \E T \in SUBSET Tags : envelope[k] \in Envelope(T)
  <2>1. PICK T \in SUBSET Tags : envelope[k] \in Envelope(T)
    BY <1>2
  <2> QED BY <2>1, TtlType DEF Envelope
<1> QED BY <1>1, <1>2 DEF TypeOK

LEMMA TypeInit == Init => TypeOK
<1> SUFFICES ASSUME Init PROVE TypeOK
  OBVIOUS
<1>1. ReadsTypeOK
  BY RequestsAssumption DEF Init, InitReads, ReadsTypeOK
<1>2. tv \in [Tags -> [ver : Nat, left : 0..TagTtl]]
  BY TtlType DEF Init
<1> QED BY <1>1, <1>2, KvTtlAssumption DEF Init, InitReads, TypeOK

\* The steps of a reader, whatever the cache.
Becomes(r, x) ==
  /\ reader'[r] = x /\ DOMAIN reader' = Readers
  /\ \A q \in Readers \ {r} : reader'[q] = reader[q]

ReadersRead ==
  /\ ReadsTypeOK /\ DOMAIN reader = Readers
  /\ \A r \in Readers : reader[r].step = "read" => reader[r] \in Reading

LEMMA KvReaders == TypeOK => ReadersRead
BY ReaderShapes DEF TypeOK, ReadersRead

LEMMA ReaderChanges ==
  ASSUME ReadersRead, NEW r \in Readers, NEW x, reader' = [reader EXCEPT ![r] = x]
  PROVE  Becomes(r, x)
BY DEF ReadersRead, Becomes

LEMMA RootsDo ==
  ASSUME ReadersRead, NEW r \in Readers, NEW k \in Requests, ReadRoots(r, k)
  PROVE  \E x \in Reading :
           /\ Becomes(r, x)
           /\ x.key = k /\ x.level = 0 /\ DOMAIN x.value = Roots(k, served)
           /\ \A e \in Roots(k, served) : x.value[e] = served[e]
           /\ x.frontier = Roots(k, served)
           /\ k.kind = "entry" => Roots(k, served) # {}
<1> DEFINE value == [e \in Roots(k, served) |-> served[e]]
           x == [step |-> "read", key |-> k, value |-> value,
                 frontier |-> Roots(k, served), level |-> 0, late |-> {}]
<1>1. served \in Served /\ k \in Keys /\ Roots(k, served) \subseteq Entries \intersect Published(served)
  BY RequestsAssumption, RootTypes DEF ReadersRead, ReadsTypeOK, Served
<1>2. value \in Shown
  <2>1. \A e \in Roots(k, served) : value[e] \in 1..MaxCommits
    BY <1>1, RequestsAssumption DEF Published, Served
  <2>2. DOMAIN value = Roots(k, served) /\ value = [e \in Roots(k, served) |-> value[e]]
    OBVIOUS
  <2> HIDE DEF value
  <2> QED BY <1>1, <2>1, <2>2, ShownTypes
<1>3. 0 \in 0..Include /\ {} \in SUBSET Event
  BY RenderAssumption
<1>4. x \in Reading
  <2> HIDE DEF value
  <2> QED BY <1>1, <1>2, <1>3 DEF Reading
<1>5. Becomes(r, x)
  <2>1. reader' = [reader EXCEPT ![r] = x]
    BY DEF ReadRoots
  <2> HIDE DEF x
  <2> QED BY <2>1, ReaderChanges
<1>6. k.kind = "entry" => Roots(k, served) # {}
  BY DEF ReadRoots
<1> QED BY <1>4, <1>5, <1>6

Fetched(s, x) == (LinksOf(x.frontier) \ DOMAIN x.value) \intersect Published(s)

LEMMA LevelDoes ==
  ASSUME ReadersRead, NEW r \in Readers, ReadLevel(r), reader[r].level < Include, reader[r].frontier # {}
  PROVE  \E x \in Reading :
           /\ Becomes(r, x)
           /\ x.key = reader[r].key /\ x.late = reader[r].late /\ x.level = reader[r].level + 1
           /\ x.frontier = Fetched(served, reader[r])
           /\ DOMAIN x.value = DOMAIN reader[r].value \union x.frontier
           /\ \A e \in x.frontier : x.value[e] = served[e]
           /\ \A e \in DOMAIN reader[r].value \ x.frontier : x.value[e] = reader[r].value[e]
<1> DEFINE old == reader[r]
           fetched == Fetched(served, old)
           all == DOMAIN old.value \union fetched
           value == [e \in all |-> IF e \in fetched THEN served[e] ELSE old.value[e]]
           x == [step |-> "read", key |-> old.key, value |-> value,
                 frontier |-> fetched, level |-> old.level + 1, late |-> old.late]
<1>1. served \in Served /\ old \in Reading /\ old.step = "read"
  BY DEF ReadersRead, ReadsTypeOK, Served, ReadLevel
<1>2. fetched \subseteq Entries \intersect Published(served)
  <2>1. old.frontier \in SUBSET Entries
    BY <1>1 DEF Reading
  <2> QED BY <2>1, LinkTypes DEF Fetched, Published
<1>3. /\ old.key \in Requests /\ old.value \in Shown /\ old.late \in SUBSET Event /\ old.level \in 0..Include
  BY <1>1 DEF Reading
<1>4. value \in Shown
  <2>1. all \in SUBSET Entries
    BY <1>2, <1>3, ShownFacts
  <2>2. \A e \in all : value[e] \in 1..MaxCommits
    BY <1>1, <1>2, <1>3, ShownFacts, RequestsAssumption DEF Published, Served
  <2>3. DOMAIN value = all /\ value = [e \in all |-> value[e]]
    OBVIOUS
  <2> HIDE DEF value, all
  <2> QED BY <1>1, <2>1, <2>2, <2>3, ShownTypes
<1>5. x \in Reading
  <2>1. fetched \in SUBSET Entries /\ old.level + 1 \in 0..Include
    BY <1>2, <1>3, RenderAssumption
  <2> HIDE DEF value, fetched
  <2> QED BY <1>3, <1>4, <2>1 DEF Reading
<1>6. Becomes(r, x)
  <2>1. reader' = [reader EXCEPT ![r] = x]
    BY DEF ReadLevel, Fetched
  <2> HIDE DEF x
  <2> QED BY <2>1, ReaderChanges
<1>7. /\ x.key = old.key /\ x.late = old.late /\ x.level = old.level + 1 /\ x.frontier = fetched
      /\ DOMAIN x.value = all
      /\ \A e \in fetched : x.value[e] = served[e]
      /\ \A e \in DOMAIN old.value \ fetched : x.value[e] = old.value[e]
  OBVIOUS
<1> HIDE DEF x
<1> QED BY <1>5, <1>6, <1>7

LEMMA LastLevelDoes ==
  ASSUME ReadersRead, NEW r \in Readers, ReadLevel(r), ~(reader[r].level < Include /\ reader[r].frontier # {})
  PROVE  \E x \in Rendered :
           /\ Becomes(r, x)
           /\ x.key = reader[r].key /\ x.late = reader[r].late /\ x.value = reader[r].value
           /\ x.tags = RenderTags(x.key, DOMAIN x.value)
<1> DEFINE old == reader[r]
           tags == RenderTags(old.key, DOMAIN old.value)
           x == [step |-> "rendered", key |-> old.key, value |-> old.value, tags |-> tags, late |-> old.late]
<1>1. old \in Reading
  BY DEF ReadersRead, ReadLevel
<1>2. /\ old.key \in Requests /\ old.value \in Shown /\ old.late \in SUBSET Event
  BY <1>1 DEF Reading
<1>3. tags \in SUBSET Tags
  BY <1>2, ShownFacts, TagTypes, RequestsAssumption
<1>4. x \in Rendered
  <2> HIDE DEF tags
  <2> QED BY <1>2, <1>3 DEF Rendered
<1>5. Becomes(r, x)
  <2>1. reader' = [reader EXCEPT ![r] = x]
    BY DEF ReadLevel
  <2> HIDE DEF x
  <2> QED BY <2>1, ReaderChanges
<1> QED BY <1>4, <1>5

LEMMA VersionsDo ==
  ASSUME TypeOK, NEW r \in Readers, ReadVersions(r)
  PROVE  \E x : /\ x \in Putting(reader[r].tags) /\ reader[r].tags \in SUBSET Tags
                /\ Becomes(r, x)
                /\ x.key = reader[r].key /\ x.late = reader[r].late /\ x.value = reader[r].value
                /\ DOMAIN x.versions = reader[r].tags
                /\ \A t \in reader[r].tags : x.versions[t] = Current(t)
<1> DEFINE old == reader[r]
           versions == [t \in old.tags |-> Current(t)]
           x == [step |-> "put", key |-> old.key, value |-> old.value, late |-> old.late, versions |-> versions]
<1>1. old \in Rendered
  BY ReaderShapes DEF ReadVersions
<1>2. /\ old.key \in Requests /\ old.value \in Shown /\ old.late \in SUBSET Event /\ old.tags \in SUBSET Tags
  BY <1>1 DEF Rendered
<1>3. versions \in [old.tags -> Nat]
  BY <1>2 DEF TypeOK, Current
<1>4. x \in Putting(old.tags)
  <2> HIDE DEF versions
  <2> QED BY <1>2, <1>3 DEF Putting
<1>5. Becomes(r, x)
  <2>1. reader' = [reader EXCEPT ![r] = x]
    BY DEF ReadVersions
  <2> HIDE DEF x
  <2> QED BY <2>1, KvReaders, ReaderChanges
<1> QED BY <1>2, <1>4, <1>5

\* A commit changes what is served of its entries, and announces it.
LEMMA CommitDoes ==
  ASSUME ReadsTypeOK, CommitSome
  PROVE  \E event \in Event :
           /\ queue' = queue \union {event} /\ event \notin queue
           /\ commits' = event.n /\ commits' = commits + 1 /\ served' \in Served
           /\ \A e \in Entries \ event.entries : served'[e] = served[e]
           /\ ReadsTypeOK' /\ UNCHANGED reader
<1>1. PICK kind \in {"single", "bulk"}, S \in SUBSET Entries, publishes \in BOOLEAN : Commit(kind, S, publishes)
  BY DEF CommitSome
<1> DEFINE event == [n |-> commits', kind |-> kind, entries |-> S]
<1>2. commits \in Nat /\ commits' = commits + 1 /\ commits' \in 1..MaxCommits
  BY <1>1, RequestsAssumption DEF Commit, ReadsTypeOK
<1>3. event \in Event
  BY <1>2 DEF Event
<1>4. event \notin queue
  BY <1>2 DEF ReadsTypeOK
<1>5. served' \in Served
  <2>1. served' = [e \in Entries |-> IF e \notin S THEN served[e] ELSE IF publishes THEN commits' ELSE 0]
    BY <1>1 DEF Commit
  <2>2. \A e \in Entries : served[e] \in 0..MaxCommits
    BY DEF ReadsTypeOK
  <2>3. commits' \in 0..MaxCommits /\ 0 \in 0..MaxCommits
    BY <1>2, RequestsAssumption
  <2> QED BY <2>1, <2>2, <2>3 DEF Served
<1>6. \A e \in Entries \ S : served'[e] = served[e]
  BY <1>1 DEF Commit, ReadsTypeOK
<1>7. queue' = queue \union {event}
  BY <1>1 DEF Commit
<1>8. UNCHANGED reader
  BY <1>1 DEF Commit
<1>9. ReadsTypeOK'
  <2>1. \A x \in queue : x \in Event /\ x.n \in Nat /\ x.n <= commits
    BY RequestsAssumption DEF ReadsTypeOK, Event
  <2>2. \A x \in queue : x \in Event /\ x.n <= commits'
    BY <1>2, <2>1
  <2>3. event \in Event /\ event.n <= commits'
    BY <1>2, <1>3
  <2>4. queue' \subseteq {x \in Event : x.n <= commits'}
    <3> HIDE DEF event
    <3> QED BY <1>7, <2>2, <2>3 DEF event
  <2> QED BY <1>2, <1>5, <2>4, RequestsAssumption DEF ReadsTypeOK, Served
<1> QED BY <1>2, <1>3, <1>4, <1>5, <1>6, <1>7, <1>8, <1>9

\* A dispatch.
Fresh(event) == EventTags(event, served) \ consumer.bumped

DispatchSteps(event) ==
  /\ event \in consumer.batch /\ event \in queue
  /\ UNCHANGED <<served, commits, envelope, ticks>> /\ failures' \in 0..MaxFailures
  /\ queue' \in {queue, queue \ {event}}
  /\ consumer'.batch = consumer.batch \ {event}
  /\ consumer'.bumped = consumer.bumped \union Fresh(event)
  /\ \A t \in Tags : tv'[t] = IF t \in Fresh(event) THEN [ver |-> tv[t].ver + 1, left |-> TagTtl] ELSE tv[t]

Overlaps(x, y, batch) ==
  IF x.step \in {"read", "rendered"}
    THEN /\ y.step = x.step /\ y.key = x.key /\ y.value = x.value /\ y.late = x.late \union batch
         /\ x.step = "read" => y.frontier = x.frontier /\ y.level = x.level
         /\ x.step = "rendered" => y.tags = x.tags
    ELSE y = x

LEMMA EventTagTypes ==
  ASSUME NEW event \in Event PROVE EventTags(event, served) \subseteq Tags
<1>1. ASSUME NEW e \in Entries PROVE Embedders(e, served) \subseteq Entries
  <2>1. PICK w : Embedding(e, served, w)
    BY EmbedderLevels
  <2> QED BY <2>1, RenderAssumption DEF Embedding
<1> QED BY <1>1 DEF EventTags, Tags, Event, Types

LEMMA DispatchDoes ==
  ASSUME TypeOK, NEW event \in queue, Dispatch(event)
  PROVE  /\ DispatchSteps(event)
         /\ consumer' \in [batch : SUBSET queue', bumped : SUBSET Tags]
         /\ tv' \in [Tags -> [ver : Nat, left : 0..TagTtl]]
         /\ DOMAIN reader' = Readers
         /\ \A r \in Readers : Overlaps(reader[r], reader'[r], consumer.batch) /\ IsReader(reader'[r])
<1>1. /\ consumer \in [batch : SUBSET queue, bumped : SUBSET Tags]
      /\ tv \in [Tags -> [ver : Nat, left : 0..TagTtl]]
      /\ queue \subseteq Event /\ event \in Event /\ TagTtl \in 0..TagTtl
  BY TtlType DEF TypeOK, ReadsTypeOK
<1>2. Fresh(event) \subseteq Tags
  BY <1>1, EventTagTypes DEF Fresh
<1>3. /\ tv' = [t \in Tags |-> IF t \in Fresh(event) THEN [ver |-> tv[t].ver + 1, left |-> TagTtl] ELSE tv[t]]
      /\ consumer' = [batch |-> consumer.batch \ {event}, bumped |-> consumer.bumped \union Fresh(event)]
      /\ queue' \in {queue, queue \ {event}} /\ event \in consumer.batch
      /\ UNCHANGED <<served, commits, envelope, ticks>>
  BY DEF Dispatch, Fresh
<1>4. failures' \in 0..MaxFailures
  BY KvTtlAssumption DEF Dispatch, TypeOK
<1>5. consumer' \in [batch : SUBSET queue', bumped : SUBSET Tags]
  <2>1. consumer.batch \ {event} \subseteq queue' /\ consumer.bumped \union Fresh(event) \subseteq Tags
    BY <1>1, <1>2, <1>3
  <2> QED BY <1>3, <2>1
<1>6. tv' \in [Tags -> [ver : Nat, left : 0..TagTtl]]
  <2>1. \A t \in Tags : [ver |-> tv[t].ver + 1, left |-> TagTtl] \in [ver : Nat, left : 0..TagTtl]
    BY <1>1
  <2>2. \A t \in Tags : tv[t] \in [ver : Nat, left : 0..TagTtl]
    BY <1>1
  <2> QED BY <1>3, <2>1, <2>2
<1>7. DOMAIN reader' = Readers
  BY DEF Dispatch, Overlap
<1>8. ASSUME NEW r \in Readers
      PROVE  Overlaps(reader[r], reader'[r], consumer.batch) /\ IsReader(reader'[r])
  <2>1. reader'[r] = IF reader[r].step \in {"read", "rendered"}
                       THEN [reader[r] EXCEPT !.late = @ \union consumer.batch] ELSE reader[r]
    BY DEF Dispatch, Overlap
  <2>2. CASE reader[r].step \notin {"read", "rendered"}
    BY <2>1, <2>2 DEF Overlaps, TypeOK, IsReader
  <2>3. consumer.batch \subseteq Event
    BY <1>1
  <2>4. CASE reader[r].step = "read"
    <3>1. reader[r] \in Reading
      BY <2>4, ReaderShapes
    <3>2. reader[r].late \union consumer.batch \in SUBSET Event
      BY <2>3, <3>1 DEF Reading
    <3> DEFINE late == reader[r].late \union consumer.batch
    <3>3. reader'[r] = [reader[r] EXCEPT !.late = late]
      BY <2>1, <2>4
    <3> HIDE DEF late
    <3>4. reader'[r] \in Reading
      BY <3>1, <3>2, <3>3 DEF Reading, late
    <3>5. Overlaps(reader[r], reader'[r], consumer.batch)
      BY <2>4, <3>1, <3>3 DEF Reading, Overlaps, late
    <3> QED BY <3>4, <3>5 DEF IsReader
  <2>5. CASE reader[r].step = "rendered"
    <3>1. reader[r] \in Rendered
      BY <2>5, ReaderShapes
    <3>2. reader[r].late \union consumer.batch \in SUBSET Event
      BY <2>3, <3>1 DEF Rendered
    <3> DEFINE late == reader[r].late \union consumer.batch
    <3>3. reader'[r] = [reader[r] EXCEPT !.late = late]
      BY <2>1, <2>5
    <3> HIDE DEF late
    <3>4. reader'[r] \in Rendered
      BY <3>1, <3>2, <3>3 DEF Rendered, late
    <3>5. Overlaps(reader[r], reader'[r], consumer.batch)
      BY <2>5, <3>1, <3>3 DEF Rendered, Overlaps, late
    <3> QED BY <3>4, <3>5 DEF IsReader
  <2> QED BY <2>2, <2>4, <2>5
<1> QED BY <1>3, <1>4, <1>5, <1>6, <1>7, <1>8 DEF DispatchSteps

\* The other steps of the readers, of the consumer and of the clock.
LEMMA StoreDoes ==
  ASSUME TypeOK, ReadStore
  PROVE  /\ UNCHANGED <<served, commits, queue, consumer, tv, envelope, ticks, failures>>
         /\ \E r \in Readers : \/ \E k \in Requests : ReadRoots(r, k)
                               \/ ReadLevel(r)
                               \/ Becomes(r, Idle)
<1>1. PICK r \in Readers : (\E k \in Requests : ReadRoots(r, k)) \/ ReadLevel(r) \/ GiveUp(r)
  BY DEF ReadStore
<1>2. UNCHANGED <<served, commits, queue, consumer, tv, envelope, ticks, failures>>
  BY <1>1 DEF ReadStore, ReadRoots, ReadLevel, GiveUp
<1>3. GiveUp(r) => Becomes(r, Idle)
  BY KvReaders, ReaderChanges DEF GiveUp
<1> QED BY <1>1, <1>2, <1>3

LEMMA PutDoes ==
  ASSUME TypeOK, NEW r \in Readers, PutEnvelope(r)
  PROVE  \E x : \E T \in SUBSET Tags :
           /\ UNCHANGED <<served, commits, queue, consumer, tv, ticks, failures>>
           /\ reader[r].step = "put" /\ reader[r].key \in Keys /\ Becomes(r, Idle) /\ x \in Envelope(T)
           /\ DOMAIN envelope' = Keys /\ envelope'[reader[r].key] = x
           /\ \A k \in Keys \ {reader[r].key} : envelope'[k] = envelope[k]
           /\ x.value = reader[r].value /\ x.late = reader[r].late /\ x.left = EnvelopeTtl
           /\ x.tags = reader[r].versions
<1> DEFINE old == reader[r]
           x == [value |-> old.value, tags |-> old.versions, late |-> old.late, left |-> EnvelopeTtl]
<1>1. PICK T \in SUBSET Tags : old \in Putting(T)
  BY ReaderShapes DEF PutEnvelope
<1>2. old.key \in Keys /\ old.value \in Shown /\ old.late \in SUBSET Event /\ old.versions \in [T -> Nat]
  BY <1>1, RequestsAssumption DEF Putting
<1>3. x \in Envelope(T)
  <2>1. EnvelopeTtl \in 1..EnvelopeTtl
    BY TtlType
  <2> QED BY <1>2, <2>1 DEF Envelope
<1>4. UNCHANGED <<served, commits, queue, consumer, tv, ticks, failures>> /\ Becomes(r, Idle) /\ old.step = "put"
  BY KvReaders, ReaderChanges DEF PutEnvelope
<1>5. envelope' = [envelope EXCEPT ![old.key] = x] /\ DOMAIN envelope = Keys
  BY DEF PutEnvelope, TypeOK
<1>6. x.value = old.value /\ x.late = old.late /\ x.left = EnvelopeTtl /\ x.tags = old.versions
  OBVIOUS
<1> HIDE DEF x
<1>7. /\ DOMAIN envelope' = Keys /\ envelope'[old.key] = x
      /\ \A k \in Keys \ {old.key} : envelope'[k] = envelope[k]
  BY <1>2, <1>5
<1>8. /\ UNCHANGED <<served, commits, queue, consumer, tv, ticks, failures>>
      /\ reader[r].step = "put" /\ reader[r].key \in Keys /\ Becomes(r, Idle) /\ x \in Envelope(T)
      /\ DOMAIN envelope' = Keys /\ envelope'[reader[r].key] = x
      /\ \A k \in Keys \ {reader[r].key} : envelope'[k] = envelope[k]
      /\ x.value = reader[r].value /\ x.late = reader[r].late /\ x.left = EnvelopeTtl
      /\ x.tags = reader[r].versions
  BY <1>2, <1>3, <1>4, <1>6, <1>7
<1> QED BY <1>8

LEMMA TickDoes ==
  ASSUME TypeOK, Tick
  PROVE  /\ UNCHANGED <<readVars, consumer, failures>> /\ ticks' \in 0..MaxTicks
         /\ \A r \in Readers : reader[r].step # "put"
         /\ tv' \in [Tags -> [ver : Nat, left : 0..TagTtl]]
         /\ \A t \in Tags : tv'[t].ver = tv[t].ver /\ tv'[t].left = IF tv[t].left = 0 THEN 0 ELSE tv[t].left - 1
         /\ DOMAIN envelope' = Keys
         /\ \A k \in Keys : \/ envelope'[k] = NoEnvelope
                            \/ \E T \in SUBSET Tags :
                                 /\ envelope'[k] \in Envelope(T)
                                 /\ envelope'[k].value = envelope[k].value /\ envelope'[k].late = envelope[k].late
                                 /\ envelope'[k].tags = envelope[k].tags
                                 /\ envelope[k].left > 1 /\ envelope'[k].left = envelope[k].left - 1
<1>1. tv \in [Tags -> [ver : Nat, left : 0..TagTtl]] /\ TagTtl \in Nat
  BY TtlType DEF TypeOK
<1>2. /\ UNCHANGED <<readVars, consumer, failures>>
      /\ \A r \in Readers : reader[r].step # "put"
      /\ tv' = [t \in Tags |-> [tv[t] EXCEPT !.left = IF @ = 0 THEN 0 ELSE @ - 1]]
  BY DEF Tick
<1>3. ticks' \in 0..MaxTicks
  BY KvTtlAssumption DEF Tick, TypeOK
<1>4. ASSUME NEW t \in Tags
      PROVE  /\ tv'[t] \in [ver : Nat, left : 0..TagTtl]
             /\ tv'[t].ver = tv[t].ver /\ tv'[t].left = IF tv[t].left = 0 THEN 0 ELSE tv[t].left - 1
  <2>1. tv'[t] = [tv[t] EXCEPT !.left = IF tv[t].left = 0 THEN 0 ELSE tv[t].left - 1]
    BY <1>2
  <2>2. tv[t] \in [ver : Nat, left : 0..TagTtl]
    BY <1>1
  <2>3. (IF tv[t].left = 0 THEN 0 ELSE tv[t].left - 1) \in 0..TagTtl
    BY <1>1, <2>2
  <2> QED BY <2>1, <2>2, <2>3
<1>5. tv' \in [Tags -> [ver : Nat, left : 0..TagTtl]]
  <2>1. tv' = [t \in Tags |-> tv'[t]]
    BY <1>2
  <2> QED BY <1>4, <2>1
<1>6. envelope' = [k \in Keys |-> IF envelope[k].left <= 1 THEN NoEnvelope
                                  ELSE [envelope[k] EXCEPT !.left = @ - 1]]
  BY DEF Tick
<1>7. ASSUME NEW k \in Keys, envelope[k].left > 1
      PROVE  \E T \in SUBSET Tags :
                /\ envelope'[k] \in Envelope(T)
                /\ envelope'[k].value = envelope[k].value /\ envelope'[k].late = envelope[k].late
                /\ envelope'[k].tags = envelope[k].tags
                /\ envelope[k].left > 1 /\ envelope'[k].left = envelope[k].left - 1
  <2>1. envelope[k].left \in 0..EnvelopeTtl /\ EnvelopeTtl \in Nat
    BY EnvelopeShapes, TtlType
  <2>2. PICK T \in SUBSET Tags : envelope[k] \in Envelope(T)
    BY <1>7, <2>1, EnvelopeShapes
  <2> DEFINE left == envelope[k].left - 1
  <2>3. left \in 1..EnvelopeTtl
    BY <1>7, <2>1
  <2>4. envelope'[k] = [envelope[k] EXCEPT !.left = left]
    BY <1>6, <1>7, <2>1
  <2> HIDE DEF left
  <2>5. envelope'[k] \in Envelope(T) /\ envelope'[k].left = left /\ envelope'[k].value = envelope[k].value
        /\ envelope'[k].late = envelope[k].late /\ envelope'[k].tags = envelope[k].tags
    BY <2>2, <2>3, <2>4 DEF Envelope
  <2> QED BY <1>7, <2>5 DEF left
<1>8. \A k \in Keys : envelope[k].left <= 1 \/ envelope[k].left > 1
  BY EnvelopeShapes, TtlType
<1>9. ASSUME NEW k \in Keys, envelope[k].left <= 1 PROVE envelope'[k] = NoEnvelope
  BY <1>6, <1>9
<1>10. DOMAIN envelope' = Keys
  BY <1>6
<1> QED BY <1>2, <1>3, <1>4, <1>5, <1>7, <1>8, <1>9, <1>10

LEMMA TypeStep == TypeOK /\ [Next]_vars => TypeOK'
<1> SUFFICES ASSUME TypeOK, [Next]_vars PROVE TypeOK'
  OBVIOUS
<1>1. CASE Publish
  <2>1. /\ ReadsTypeOK' /\ UNCHANGED <<reader, consumer, tv, envelope, ticks, failures>>
        /\ \E event \in Event : queue' = queue \union {event}
    BY <1>1, CommitDoes DEF TypeOK, Publish
  <2>2. consumer' \in [batch : SUBSET queue', bumped : SUBSET Tags]
    BY <2>1 DEF TypeOK
  <2> QED BY <2>1, <2>2 DEF TypeOK
<1>2. CASE TakeBatch \/ Abort
  <2>1. UNCHANGED <<readVars, tv, envelope, ticks>>
    BY <1>2 DEF TakeBatch, Abort
  <2>2. consumer' \in [batch : SUBSET queue, bumped : SUBSET Tags]
    BY <1>2 DEF TakeBatch, Abort
  <2>3. failures' \in 0..MaxFailures
    BY <1>2, KvTtlAssumption DEF TakeBatch, Abort, TypeOK
  <2> QED BY <2>1, <2>2, <2>3 DEF TypeOK, ReadsTypeOK, readVars
<1>3. CASE ReadStore
  <2>1. UNCHANGED <<served, commits, queue, consumer, tv, envelope, ticks, failures>>
    BY <1>3, StoreDoes
  <2>2. PICK r \in Readers : (\E k \in Requests : ReadRoots(r, k)) \/ ReadLevel(r) \/ Becomes(r, Idle)
    BY <1>3, StoreDoes
  <2>3. \E x : IsReader(x) /\ Becomes(r, x)
    <3>1. ASSUME NEW k \in Requests, ReadRoots(r, k) PROVE \E x : IsReader(x) /\ Becomes(r, x)
      BY <3>1, KvReaders, RootsDo DEF IsReader
    <3>2. CASE ReadLevel(r)
      BY <3>2, LevelDoes, KvReaders, LastLevelDoes DEF IsReader
    <3>3. IsReader(Idle)
      BY DEF IsReader
    <3> QED BY <2>2, <3>1, <3>2, <3>3
  <2>4. DOMAIN reader' = Readers /\ \A q \in Readers : IsReader(reader'[q])
    BY <2>3 DEF Becomes, TypeOK, IsReader
  <2> QED BY <2>1, <2>4 DEF TypeOK, ReadsTypeOK, IsReader
<1>4. CASE Tick
  <2>1. /\ DOMAIN envelope' = Keys
        /\ \A k \in Keys : envelope'[k] = NoEnvelope \/ \E T \in SUBSET Tags : envelope'[k] \in Envelope(T)
    BY <1>4, TickDoes
  <2>2. UNCHANGED <<readVars, consumer, failures>> /\ ticks' \in 0..MaxTicks
        /\ tv' \in [Tags -> [ver : Nat, left : 0..TagTtl]]
    BY <1>4, TickDoes
  <2> QED BY <2>1, <2>2 DEF TypeOK, ReadsTypeOK, readVars
<1>5. ASSUME NEW event \in queue, Dispatch(event) PROVE TypeOK'
  <2>1. DispatchSteps(event)
    BY <1>5, DispatchDoes
  <2>2. /\ consumer' \in [batch : SUBSET queue', bumped : SUBSET Tags]
        /\ tv' \in [Tags -> [ver : Nat, left : 0..TagTtl]]
        /\ DOMAIN reader' = Readers /\ \A r \in Readers : IsReader(reader'[r])
    BY <1>5, DispatchDoes
  <2>3. ReadsTypeOK'
    BY <2>1 DEF DispatchSteps, TypeOK, ReadsTypeOK
  <2> QED BY <2>1, <2>2, <2>3 DEF TypeOK, DispatchSteps, IsReader
<1>6. ASSUME NEW r \in Readers, ReadVersions(r) PROVE TypeOK'
  <2>1. UNCHANGED <<served, commits, queue, consumer, tv, envelope, ticks, failures>>
    BY <1>6 DEF ReadVersions
  <2>2. \E x : IsReader(x) /\ Becomes(r, x)
    BY <1>6, VersionsDo DEF IsReader
  <2>3. DOMAIN reader' = Readers /\ \A q \in Readers : IsReader(reader'[q])
    BY <2>2 DEF Becomes, TypeOK, IsReader
  <2> QED BY <2>1, <2>3 DEF TypeOK, ReadsTypeOK, IsReader
<1>7. ASSUME NEW r \in Readers, PutEnvelope(r) PROVE TypeOK'
  <2>1. PICK x : \E T \in SUBSET Tags :
           /\ UNCHANGED <<served, commits, queue, consumer, tv, ticks, failures>>
           /\ Becomes(r, Idle) /\ x \in Envelope(T)
           /\ DOMAIN envelope' = Keys /\ envelope'[reader[r].key] = x
           /\ \A k \in Keys \ {reader[r].key} : envelope'[k] = envelope[k]
    BY <1>7, PutDoes
  <2>2. DOMAIN reader' = Readers /\ \A q \in Readers : IsReader(reader'[q])
    BY <2>1 DEF Becomes, TypeOK, IsReader
  <2>3. \A k \in Keys : envelope'[k] = NoEnvelope \/ \E T \in SUBSET Tags : envelope'[k] \in Envelope(T)
    BY <2>1 DEF TypeOK
  <2> QED BY <2>1, <2>2, <2>3 DEF TypeOK, ReadsTypeOK, IsReader
<1>8. CASE UNCHANGED vars
  BY <1>8 DEF vars, readVars, TypeOK, ReadsTypeOK
<1> QED BY <1>1, <1>2, <1>3, <1>4, <1>5, <1>6, <1>7, <1>8 DEF Next

-------------------------------------------------------------------------------
(***************************************************************************)
(* What is owed, and what a view needs of it.                              *)
(***************************************************************************)
LEMMA FollowsStays ==
  ASSUME NEW s, NEW s2, NEW o, NEW o2, NEW k \in Keys, NEW shown, NEW l \in 0..Include, NEW L,
         Follows(s, o, k, shown, l, L), o \subseteq o2,
         \A e \in Entries : s2[e] # s[e] => e \in o2
  PROVE  Follows(s2, o2, k, shown, l, L)
<1>1. Candidates(k) \subseteq Entries
  BY KeyTypes DEF Candidates
<1>2. \A n \in 1..l : n - 1 \in 0..Include /\ \A f \in L[n - 1] : f \in Entries /\ Links[f] \subseteq Entries
  BY RenderAssumption DEF Follows
<1> QED BY <1>1, <1>2 DEF Follows

LEMMA ViewStays ==
  ASSUME NEW s, NEW s2, NEW o, NEW o2, NEW k \in Keys, NEW value \in Shown,
         View(s, o, k, value), o \subseteq o2, \A e \in Entries : s2[e] # s[e] => e \in o2
  PROVE  View(s2, o2, k, value)
<1>1. PICK L : Follows(s, o, k, DOMAIN value, Include, L)
  BY DEF View
<1>2. Follows(s2, o2, k, DOMAIN value, Include, L)
  BY <1>1, FollowsStays, RenderAssumption
<1>3. ShownOwed(s2, o2, value)
  BY ShownFacts DEF View, ShownOwed
<1> QED BY <1>2, <1>3 DEF View

\* The tags of an event and of a render meet when the event concerns what is shown, what
\* could be a root, or what is linked to and not resolved.
LEMMA ShownMeets ==
  ASSUME NEW s, NEW event \in Event, NEW k \in Keys, NEW shown \in SUBSET Entries,
         RenderTags(k, shown) \intersect EventTags(event, s) = {}
  PROVE  shown \intersect event.entries = {}
<1>1. EpochTag \in RenderTags(k, shown)
  BY DEF RenderTags
<1>2. event.kind # "bulk"
  BY <1>1 DEF EventTags
<1> SUFFICES ASSUME NEW y \in shown, y \in event.entries PROVE FALSE
  OBVIOUS
<1>3. CacheTag(y) \in EventTags(event, s) /\ ContentTypeTag(TypeOf[y]) \in EventTags(event, s)
  BY <1>2 DEF EventTags
<1>4. CacheTag(y) \in RenderTags(k, shown) \/ ContentTypeTag(TypeOf[y]) \in RenderTags(k, shown)
  BY DEF RenderTags
<1> QED BY <1>3, <1>4

LEMMA RootMeets ==
  ASSUME NEW s, NEW event \in Event, NEW k \in Keys, NEW shown \in SUBSET Entries, k.kind # "entry",
         RenderTags(k, shown) \intersect EventTags(event, s) = {}
  PROVE  Candidates(k) \intersect event.entries = {}
<1>1. EpochTag \in RenderTags(k, shown)
  BY DEF RenderTags
<1>2. event.kind # "bulk"
  BY <1>1 DEF EventTags
<1> SUFFICES ASSUME NEW y \in Candidates(k), y \in event.entries PROVE FALSE
  OBVIOUS
<1>3. ContentTypeTag(TypeOf[y]) \in EventTags(event, s)
  BY <1>2 DEF EventTags
<1>4. ContentTypeTag(TypeOf[y]) \in RenderTags(k, shown)
  BY DEF RenderTags, Candidates
<1> QED BY <1>3, <1>4

LEMMA LinkMeets ==
  ASSUME NEW s, NEW event \in Event, NEW k \in Keys, NEW shown \in SUBSET Entries,
         RenderTags(k, shown) \intersect EventTags(event, s) = {},
         NEW f \in shown, s[f] > 0, NEW y \in Links[f] \ shown, Include > 0
  PROVE  y \notin event.entries
<1> SUFFICES ASSUME y \in event.entries PROVE FALSE
  OBVIOUS
<1>1. EpochTag \in RenderTags(k, shown)
  BY DEF RenderTags
<1>2. event.kind # "bulk"
  BY <1>1 DEF EventTags
<1>3. y \in Entries /\ f \in Entries \ {y}
  BY RenderAssumption
<1>4. CASE k.kind = "entry"
  <2>1. MaxClosure > 0
    BY RenderAssumption
  <2>2. f \in Embedders(y, s)
    BY <1>3, <2>1, DirectEmbedders
  <2>3. CacheTag(f) \in EventTags(event, s)
    BY <1>2, <2>2 DEF EventTags
  <2>4. CacheTag(f) \in RenderTags(k, shown)
    BY <1>4 DEF RenderTags
  <2> QED BY <2>3, <2>4
<1>5. CASE k.kind # "entry"
  <2>1. y \in LinksOf(shown) \ shown
    BY DEF LinksOf
  <2>2. CacheTag(y) \in RenderTags(k, shown)
    BY <1>5, <2>1 DEF RenderTags
  <2>3. CacheTag(y) \in EventTags(event, s)
    BY <1>2 DEF EventTags
  <2> QED BY <2>2, <2>3
<1> QED BY <1>4, <1>5

\* A dispatch that meets none of the tags of a view concerns nothing that the view owes.
LEMMA ViewSurvives ==
  ASSUME NEW s \in Served, NEW o, NEW o2, NEW event \in Event, NEW k \in Keys, NEW value \in Shown,
         View(s, o, k, value), o \subseteq o2 \union event.entries,
         RenderTags(k, DOMAIN value) \intersect EventTags(event, s) = {}
  PROVE  View(s, o2, k, value)
<1>1. PICK L : Follows(s, o, k, DOMAIN value, Include, L)
  BY DEF View
<1>2. Include \in Nat /\ DOMAIN value \subseteq Entries /\ \A y \in DOMAIN value : value[y] > 0
  BY RenderAssumption, RequestsAssumption, ShownFacts
<1>3. \A y \in DOMAIN value : y \notin event.entries
  BY <1>2, ShownMeets
<1>4. ShownOwed(s, o2, value)
  BY <1>3 DEF View, ShownOwed
<1>5. \A y \in Candidates(k) \ L[0] : s[y] > 0 => y \in o2
  <2>1. CASE k.kind = "entry"
    BY <1>1, <2>1 DEF Follows, Candidates
  <2>2. CASE k.kind # "entry"
    <3>1. Candidates(k) \intersect event.entries = {}
      BY <1>2, <2>2, RootMeets
    <3> QED BY <1>1, <3>1 DEF Follows
  <2> QED BY <2>1, <2>2
<1>6. ASSUME NEW n \in 1..Include, NEW f \in L[n - 1], NEW y \in Links[f] \ L[n], s[y] > 0
      PROVE  y \in o2 \/ f \in o2
  <2>1. f \in DOMAIN value
    <3>1. f \in L[n]
      BY <1>1, <1>6 DEF Follows
    <3> DEFINE S == {m \in Nat : n + m <= Include => f \in L[n + m]}
    <3>2. 0 \in S
      BY <1>2, <3>1
    <3>3. ASSUME NEW m \in Nat, m \in S PROVE m + 1 \in S
      <4> SUFFICES ASSUME n + (m + 1) <= Include PROVE f \in L[n + (m + 1)]
        OBVIOUS
      <4> DEFINE j == n + (m + 1)
      <4>1. j \in 1..Include /\ j - 1 = n + m /\ f \in L[n + m]
        BY <1>2, <3>3
      <4> HIDE DEF j
      <4>2. L[j - 1] \subseteq L[j]
        BY <1>1, <4>1 DEF Follows
      <4> QED BY <4>1, <4>2 DEF j
    <3>4. Nat \subseteq S
      <4> HIDE DEF S
      <4> QED BY <3>2, <3>3, InductionOnSet
    <3>5. Include - n \in Nat /\ n + (Include - n) = Include
      BY <1>2
    <3>6. f \in L[Include]
      BY <3>4, <3>5
    <3> QED BY <1>1, <1>2, <3>6 DEF Follows
  <2>2. y \in o \/ f \in o
    BY <1>1, <1>6 DEF Follows
  <2>3. CASE f \in o
    BY <1>3, <2>1, <2>3
  <2>4. CASE s[f] # value[f]
    BY <1>3, <2>1, <2>4 DEF View, ShownOwed
  <2>5. CASE y \in o /\ y \in DOMAIN value
    BY <1>3, <2>5
  <2>6. CASE y \in o /\ y \notin DOMAIN value /\ s[f] = value[f]
    <3>1. s[f] > 0 /\ Include > 0
      BY <1>2, <2>1, <2>6
    <3>2. y \notin event.entries
      BY <1>2, <2>1, <2>6, <3>1, LinkMeets
    <3> QED BY <2>6, <3>2
  <2> QED BY <2>2, <2>3, <2>4, <2>5, <2>6
<1>7. Follows(s, o2, k, DOMAIN value, Include, L)
  BY <1>1, <1>5, <1>6 DEF Follows
<1> QED BY <1>4, <1>7 DEF View

\* What is owed to the same render, as the queue and the consumer move on.
LEMMA OwingCommit ==
  ASSUME NEW q, NEW event, NEW c, event \notin q, c.batch \subseteq q, NEW late, NEW T
  PROVE  /\ Owing(q, c, late, T) \subseteq Owing(q \union {event}, c, late, T)
         /\ \A e \in Entries : e \in event.entries => e \in Owing(q \union {event}, c, late, T)
BY DEF Owing

LEMMA OwingReset ==
  ASSUME NEW q, NEW c, NEW c2, c2.bumped = {}, NEW late, NEW T
  PROVE  Owing(q, c, late, T) \subseteq Owing(q, c2, late, T)
BY DEF Owing

\* An event of the batch is dispatched, and bumps the tags in `fresh`.
Dispatched(event, fresh, q, c, q2, c2) ==
  /\ event \in c.batch /\ q \ {event} \subseteq q2
  /\ c2.batch = c.batch \ {event} /\ c2.bumped = c.bumped \union fresh

Bumps(fresh, w, w2) ==
  \A t \in Tags : w2[t] = IF t \in fresh THEN [ver |-> w[t].ver + 1, left |-> TagTtl] ELSE w[t]

LEMMA OwingOverlap ==
  ASSUME NEW q, NEW q2, NEW c, NEW c2, NEW event, NEW fresh, Dispatched(event, fresh, q, c, q2, c2),
         NEW late, NEW T
  PROVE  Owing(q, c, late, T) \subseteq Owing(q2, c2, late \union c.batch, T)
BY DEF Owing, Dispatched

LEMMA OwingDispatch ==
  ASSUME NEW q, NEW q2, NEW c, NEW c2, NEW event, NEW fresh, Dispatched(event, fresh, q, c, q2, c2),
         NEW late, NEW T, T \intersect fresh = {}
  PROVE  /\ T \intersect c.bumped # {} => Owing(q, c, late, T) \subseteq Owing(q2, c2, late, T)
         /\ Owing(q, c, late, T) \subseteq Owing(q2, c2, late, T) \union event.entries
<1>1. ASSUME NEW y \in Owing(q, c, late, T), y \notin Owing(q2, c2, late, T)
      PROVE  y \in event.entries /\ T \intersect c.bumped = {}
  <2>1. PICK x \in q \union late : y \in x.entries /\ (x \in late \/ x \notin c.batch \/ T \intersect c.bumped = {})
    BY <1>1 DEF Owing
  <2>2. x \notin late
    BY <1>1, <2>1 DEF Owing
  <2>3. x = event
    BY <1>1, <2>1, <2>2 DEF Owing, Dispatched
  <2> QED BY <2>1, <2>2, <2>3 DEF Dispatched
<1> QED BY <1>1

LEMMA OwingFewerTags ==
  ASSUME NEW q, NEW c, NEW late, NEW T, NEW S \in SUBSET T
  PROVE  Owing(q, c, late, T) \subseteq Owing(q, c, late, S)
BY DEF Owing

\* What is cached, or about to be, as events are announced, batches begin and end, tags are
\* bumped and keys expire.
TagVersions == [Tags -> [ver : Nat, left : 0..TagTtl]]

Dispatching(event, s, q, c, w, q2, c2, w2) ==
  /\ event \in Event /\ s \in Served /\ w \in TagVersions /\ w2 \in TagVersions
  /\ LET fresh == EventTags(event, s) \ c.bumped
     IN Dispatched(event, fresh, q, c, q2, c2) /\ Bumps(fresh, w, w2)

\* An envelope's content, with the versions of its tags.
Storable(value, tags, left) ==
  value \in Shown /\ left \in 1..EnvelopeTtl /\ \E T \in SUBSET Tags : tags \in [T -> Nat]

LEMMA KeptBump ==
  ASSUME NEW event, NEW s, NEW q, NEW c, NEW w, NEW q2, NEW c2, NEW w2,
         Dispatching(event, s, q, c, w, q2, c2, w2),
         NEW k \in Keys, NEW value, NEW tags, NEW late, NEW left, Storable(value, tags, left),
         Kept(s, q, c, w, k, value, tags, late, left)
  PROVE  Kept(s, q2, c2, w2, k, value, tags, late, left)
<1> DEFINE fresh == EventTags(event, s) \ c.bumped
<1> HIDE DEF fresh
<1> event \in Event /\ s \in Served /\ w \in TagVersions /\ w2 \in TagVersions
  BY DEF Dispatching
<1> Dispatched(event, fresh, q, c, q2, c2) /\ Bumps(fresh, w, w2)
  BY DEF Dispatching, fresh
<1> fresh = EventTags(event, s) \ c.bumped
  BY DEF fresh
<1> value \in Shown /\ left \in 1..EnvelopeTtl
  BY DEF Storable
<1> PICK T \in SUBSET Tags : tags \in [T -> Nat]
  BY DEF Storable
<1>0. TagTtl \in Nat \ {0} /\ left <= TagTtl /\ \A t \in Tags : w[t].ver \in Nat /\ w[t].left \in Nat
  BY TtlType DEF TagVersions
<1>1. /\ \A t \in fresh \intersect Tags : w2[t].ver = w[t].ver + 1 /\ w2[t].left = TagTtl
      /\ \A t \in Tags \ fresh : w2[t] = w[t]
  <2>1. ASSUME NEW t \in Tags, t \in fresh PROVE w2[t].ver = w[t].ver + 1 /\ w2[t].left = TagTtl
    <3>1. w2[t] = [ver |-> w[t].ver + 1, left |-> TagTtl]
      BY <2>1 DEF Bumps
    <3> QED BY <3>1
  <2>2. ASSUME NEW t \in Tags, t \notin fresh PROVE w2[t] = w[t]
    BY <2>2 DEF Bumps
  <2> QED BY <2>1, <2>2
<1>2. \A t \in DOMAIN tags : tags[t] \in Nat /\ tags[t] <= w[t].ver
  BY DEF Kept, Noted
<1>3. Noted(w2, tags, left)
  <2> SUFFICES ASSUME NEW t \in T
               PROVE  tags[t] <= w2[t].ver /\ (tags[t] = 0 /\ Now(w2, t) # 0 => w2[t].left >= left)
    BY DEF Noted
  <2>1. CASE t \in fresh
    BY <1>0, <1>1, <1>2, <2>1, TtlType
  <2>2. CASE t \notin fresh
    BY <1>1, <2>2 DEF Kept, Noted, Now
  <2> QED BY <2>1, <2>2
<1>4. ASSUME Matches(w2, tags) PROVE T \intersect fresh = {} /\ Matches(w, tags)
  <2>1. ASSUME NEW t \in T, t \in fresh PROVE FALSE
    <3>1. Now(w2, t) = w[t].ver + 1
      BY <1>0, <1>1, <2>1 DEF Now
    <3>2. tags[t] = Now(w2, t)
      BY <1>4 DEF Matches
    <3> QED BY <1>0, <1>2, <3>1, <3>2
  <2>2. \A t \in T : w2[t] = w[t]
    BY <1>1, <2>1
  <2> QED BY <1>4, <2>1, <2>2 DEF Matches, Now
<1>6. ASSUME T \intersect fresh = {}
      PROVE  /\ T \intersect c.bumped # {} => Owing(q, c, late, T) \subseteq Owing(q2, c2, late, T)
             /\ Owing(q, c, late, T) \subseteq Owing(q2, c2, late, T) \union event.entries
  BY <1>6, OwingDispatch
<1>5. ASSUME Matches(w2, tags) PROVE View(s, Owing(q2, c2, late, T), k, value)
  <2>1. View(s, Owing(q, c, late, T), k, value) /\ T = RenderTags(k, DOMAIN value)
    BY <1>4, <1>5 DEF Kept
  <2>2. T \intersect fresh = {}
    BY <1>4, <1>5
  <2>3. CASE T \intersect c.bumped # {}
    <3>1. Owing(q, c, late, T) \subseteq Owing(q2, c2, late, T)
      BY <1>6, <2>2, <2>3
    <3> QED BY <2>1, <3>1, ViewStays
  <2>4. CASE T \intersect c.bumped = {}
    <3>1. Owing(q, c, late, T) \subseteq Owing(q2, c2, late, T) \union event.entries
      BY <1>6, <2>2
    <3>2. RenderTags(k, DOMAIN value) \intersect EventTags(event, s) = {}
      BY <2>1, <2>2, <2>4
    <3> QED BY <2>1, <3>1, <3>2, ViewSurvives
  <2> QED BY <2>3, <2>4
<1> QED BY <1>3, <1>5 DEF Kept

LEMMA KeptTick ==
  ASSUME NEW s, NEW q, NEW c, NEW w \in TagVersions, NEW w2 \in TagVersions,
         \A t \in Tags : w2[t].ver = w[t].ver /\ w2[t].left = IF w[t].left = 0 THEN 0 ELSE w[t].left - 1,
         NEW k \in Keys, NEW value \in Shown, NEW T \in SUBSET Tags, NEW tags \in [T -> Nat],
         NEW late, NEW left \in Nat, left > 1,
         Kept(s, q, c, w, k, value, tags, late, left)
  PROVE  Kept(s, q, c, w2, k, value, tags, late, left - 1)
<1>0. \A t \in Tags : w[t].ver \in Nat /\ w[t].left \in Nat
  BY DEF TagVersions
<1>1. Noted(w2, tags, left - 1)
  BY <1>0 DEF Kept, Noted, Now
<1>2. ASSUME Matches(w2, tags) PROVE Matches(w, tags)
  BY <1>0, <1>2 DEF Kept, Noted, Matches, Now
<1> QED BY <1>1, <1>2 DEF Kept

-------------------------------------------------------------------------------
(***************************************************************************)
(* What a reader sees, step by step.                                       *)
(***************************************************************************)
LEMMA ReadsStays ==
  ASSUME NEW s, NEW s2, NEW o, NEW o2, o \subseteq o2, \A e \in Entries : s2[e] # s[e] => e \in o2,
         NEW x \in Reading, Reads(s, o, x), NEW y,
         y.key = x.key, y.value = x.value, y.frontier = x.frontier, y.level = x.level
  PROVE  Reads(s2, o2, y)
<1>1. x.key \in Keys /\ x.value \in Shown /\ x.level \in 0..Include
  BY RequestsAssumption DEF Reading
<1>2. PICK L : Follows(s, o, x.key, DOMAIN x.value, x.level, L) /\ Expanded(x, L)
  BY DEF Reads
<1>3. Follows(s2, o2, x.key, DOMAIN x.value, x.level, L)
  BY <1>1, <1>2, FollowsStays
<1>4. Expanded(y, L)
  BY <1>2 DEF Expanded
<1>5. ShownOwed(s2, o2, y.value) /\ y.frontier \subseteq DOMAIN y.value
  BY <1>1, ShownFacts DEF Reads, ShownOwed
<1> QED BY <1>3, <1>4, <1>5 DEF Reads

\* Nobody is owed less.
Owes(s, q, c, s2, q2, c2) ==
  \A late, T : /\ Owing(q, c, late, T) \subseteq Owing(q2, c2, late, T)
               /\ \A e \in Entries : s2[e] # s[e] => e \in Owing(q2, c2, late, T)

LEMMA KeptOwes ==
  ASSUME NEW s, NEW q, NEW c, NEW s2, NEW q2, NEW c2, Owes(s, q, c, s2, q2, c2), NEW w,
         NEW k \in Keys, NEW value \in Shown, NEW tags, NEW late, NEW left,
         Kept(s, q, c, w, k, value, tags, late, left)
  PROVE  Kept(s2, q2, c2, w, k, value, tags, late, left)
<1> SUFFICES ASSUME Matches(w, tags)
             PROVE  View(s2, Owing(q2, c2, late, DOMAIN tags), k, value)
  BY DEF Kept
<1> DEFINE o == Owing(q, c, late, DOMAIN tags)
           o2 == Owing(q2, c2, late, DOMAIN tags)
<1>1. View(s, o, k, value)
  BY DEF Kept
<1>2. o \subseteq o2 /\ \A e \in Entries : s2[e] # s[e] => e \in o2
  BY DEF Owes
<1> HIDE DEF o, o2
<1>3. View(s2, o2, k, value)
  BY <1>1, <1>2, ViewStays
<1> QED BY <1>3 DEF o2

LEMMA SeesOwes ==
  ASSUME NEW s, NEW q, NEW c, NEW s2, NEW q2, NEW c2, Owes(s, q, c, s2, q2, c2), NEW w,
         NEW x, IsReader(x), Sees(s, q, c, w, x)
  PROVE  Sees(s2, q2, c2, w, x)
<1> DEFINE o == Owing(q, c, x.late, Tags)
           o2 == Owing(q2, c2, x.late, Tags)
<1>1. o \subseteq o2 /\ \A e \in Entries : s2[e] # s[e] => e \in o2
  BY DEF Owes
<1>2. ASSUME x.step = "read" PROVE Reads(s2, o2, x)
  <2>1. x \in Reading
    BY <1>2, Shapes
  <2>2. Reads(s, o, x)
    BY <1>2 DEF Sees
  <2> HIDE DEF o, o2
  <2> QED BY <1>1, <2>1, <2>2, ReadsStays
<1>3. ASSUME x.step = "rendered" PROVE View(s2, o2, x.key, x.value)
  <2>1. x.key \in Keys /\ x.value \in Shown
    BY <1>3, Shapes, RequestsAssumption DEF Rendered
  <2>2. View(s, o, x.key, x.value)
    BY <1>3 DEF Sees
  <2> HIDE DEF o, o2
  <2> QED BY <1>1, <2>1, <2>2, ViewStays
<1>4. ASSUME x.step = "put"
      PROVE  Kept(s2, q2, c2, w, x.key, x.value, x.versions, x.late, EnvelopeTtl)
  <2>1. x.key \in Keys /\ x.value \in Shown
    BY <1>4, Shapes, RequestsAssumption DEF Putting
  <2> QED BY <1>4, <2>1, KeptOwes DEF Sees
<1> QED BY <1>2, <1>3, <1>4 DEF Sees

LEMMA HoldsOwes ==
  ASSUME TypeOK, NEW s, NEW q, NEW c, NEW s2, NEW q2, NEW c2, Owes(s, q, c, s2, q2, c2), NEW w,
         NEW k \in Keys, Holds(s, q, c, w, k, envelope[k])
  PROVE  Holds(s2, q2, c2, w, k, envelope[k])
<1> SUFFICES ASSUME envelope[k].left > 0
             PROVE  Kept(s2, q2, c2, w, k, envelope[k].value, envelope[k].tags, envelope[k].late, envelope[k].left)
  BY DEF Holds
<1>1. envelope[k].value \in Shown
  BY EnvelopeShapes DEF Envelope
<1> QED BY <1>1, KeptOwes DEF Holds

\* A dispatch: a reader that still renders keeps its batch, what is put later and what is
\* cached stays as it is.
LEMMA SeesDispatch ==
  ASSUME NEW event, NEW s, NEW q, NEW c, NEW w, NEW q2, NEW c2, NEW w2,
         Dispatching(event, s, q, c, w, q2, c2, w2),
         NEW x, IsReader(x), NEW y, Overlaps(x, y, c.batch), Sees(s, q, c, w, x)
  PROVE  Sees(s, q2, c2, w2, y)
<1> DEFINE o == Owing(q, c, x.late, Tags)
           o2 == Owing(q2, c2, y.late, Tags)
<1>0. PICK fresh : Dispatched(event, fresh, q, c, q2, c2)
  BY DEF Dispatching
<1>1. x.step \in {"idle", "read", "rendered", "put"} /\ y.step = x.step
  BY Shapes DEF Overlaps
<1>2. CASE x.step \in {"read", "rendered"}
  <2>1. /\ y.key = x.key /\ y.value = x.value /\ y.late = x.late \union c.batch
        /\ x.step = "read" => y.frontier = x.frontier /\ y.level = x.level
        /\ x.step = "rendered" => y.tags = x.tags
    BY <1>2 DEF Overlaps
  <2>2. o \subseteq o2
    BY <1>0, <2>1, OwingOverlap
  <2>3. ASSUME x.step = "read" PROVE Reads(s, o2, y)
    <3>1. x \in Reading /\ Reads(s, o, x)
      BY <2>3, Shapes DEF Sees
    <3> HIDE DEF o, o2
    <3> QED BY <2>1, <2>2, <2>3, <3>1, ReadsStays
  <2>4. ASSUME x.step = "rendered" PROVE View(s, o2, y.key, y.value)
    <3>1. x.key \in Keys /\ x.value \in Shown
      BY <2>4, Shapes, RequestsAssumption DEF Rendered
    <3>2. View(s, o, x.key, x.value)
      BY <2>4 DEF Sees
    <3> HIDE DEF o, o2
    <3> QED BY <2>1, <2>2, <3>1, <3>2, ViewStays
  <2> QED BY <1>1, <1>2, <2>1, <2>3, <2>4 DEF Sees
<1>3. CASE x.step = "put"
  <2>1. PICK T \in SUBSET Tags : x \in Putting(T)
    BY <1>3, Shapes
  <2>2. x.key \in Keys /\ Storable(x.value, x.versions, EnvelopeTtl)
    BY <2>1, RequestsAssumption, TtlType DEF Putting, Storable
  <2>3. Kept(s, q, c, w, x.key, x.value, x.versions, x.late, EnvelopeTtl)
    BY <1>3 DEF Sees
  <2>4. Kept(s, q2, c2, w2, x.key, x.value, x.versions, x.late, EnvelopeTtl)
    BY <2>2, <2>3, KeptBump
  <2>5. y = x
    BY <1>3 DEF Overlaps
  <2> QED BY <1>3, <2>4, <2>5 DEF Sees
<1>4. CASE x.step = "idle"
  BY <1>1, <1>4 DEF Sees
<1> QED BY <1>1, <1>2, <1>3, <1>4

\* The queries of a reader: the roots, a level, the last level.
LEMMA RootsSee ==
  ASSUME NEW s \in Served, NEW o, NEW k \in Keys, NEW x, x.key = k, x.level = 0,
         DOMAIN x.value = Roots(k, s), \A e \in Roots(k, s) : x.value[e] = s[e], x.frontier = Roots(k, s),
         k.kind = "entry" => Roots(k, s) # {}
  PROVE  Reads(s, o, x)
<1> DEFINE L == [n \in 0..Include |-> Roots(k, s)]
<1>0. Include \in Nat /\ Roots(k, s) \in SUBSET Entries
  BY RenderAssumption, RootTypes
<1>1. Roots(k, s) \subseteq Candidates(k) /\ (k.kind = "entry" => Roots(k, s) = {k.of})
  <2>1. CASE k.kind = "entry"
    <3>1. Roots(k, s) = {k.of} \intersect Published(s)
      BY <2>1 DEF Roots
    <3> QED BY <2>1, <3>1 DEF Candidates
  <2>2. CASE k.kind # "entry"
    BY <2>2 DEF Roots, Candidates, Published
  <2> QED BY <2>1, <2>2
<1>2. \A y \in Candidates(k) \ Roots(k, s) : ~(s[y] > 0)
  BY KeyTypes DEF Roots, Candidates, Published
<1>3. L \in [0..Include -> SUBSET Entries] /\ L[0] = Roots(k, s) /\ \A n \in 0..Include : L[n] = Roots(k, s)
  BY <1>0
<1> HIDE DEF L
<1>4. Follows(s, o, k, Roots(k, s), 0, L)
  BY <1>0, <1>1, <1>2, <1>3 DEF Follows
<1>5. Expanded(x, L)
  BY DEF Expanded
<1> QED BY <1>4, <1>5 DEF Reads, ShownOwed

LEMMA LevelSees ==
  ASSUME NEW s \in Served, NEW o, NEW x \in Reading, Reads(s, o, x), x.level < Include,
         NEW y \in Reading, y.key = x.key, y.level = x.level + 1, y.frontier = Fetched(s, x),
         DOMAIN y.value = DOMAIN x.value \union y.frontier,
         \A e \in y.frontier : y.value[e] = s[e],
         \A e \in DOMAIN x.value \ y.frontier : y.value[e] = x.value[e]
  PROVE  Reads(s, o, y)
<1> DEFINE l == x.level
           found == DOMAIN x.value
           all == DOMAIN y.value
<1>0. Include \in Nat /\ l \in Nat /\ l < Include /\ found \subseteq Entries /\ all \subseteq Entries
  BY RenderAssumption, ShownFacts DEF Reading
<1>1. PICK L : Follows(s, o, x.key, found, l, L) /\ Expanded(x, L)
  BY DEF Reads
<1> DEFINE M == [n \in 0..Include |-> IF n <= l THEN L[n] ELSE all]
<1>2. /\ M \in [0..Include -> SUBSET Entries]
      /\ \A n \in 0..Include : n <= l => M[n] = L[n]
      /\ \A n \in 0..Include : n > l => M[n] = all
  BY <1>0, <1>1 DEF Follows
<1>3. /\ L[l] = found /\ M[l] = found /\ M[l + 1] = all /\ M[0] = L[0] /\ found \subseteq all
      /\ all \subseteq found \union LinksOf(found)
  <2>1. L[l] = found
    BY <1>0, <1>1 DEF Follows
  <2>2. y.frontier \subseteq LinksOf(found)
    BY DEF Reads, Fetched, LinksOf
  <2> HIDE DEF M, found, l, all
  <2> QED BY <1>0, <1>2, <2>1, <2>2 DEF found, all
<1>4. ASSUME NEW f \in found, NEW z \in Links[f] \ all, s[z] > 0
      PROVE  z \in o \/ f \in o
  <2>1. z \in Entries /\ z \in Published(s)
    BY <1>0, <1>4, RenderAssumption DEF Published
  <2>2. CASE f \in x.frontier
    BY <1>4, <2>1, <2>2 DEF Fetched, LinksOf
  <2>3. CASE f \notin x.frontier
    <3>1. l # 0 /\ f \in L[l - 1]
      BY <1>1, <1>4, <2>3 DEF Expanded
    <3>2. z \notin L[l] /\ l \in 1..l
      BY <1>0, <1>3, <1>4, <3>1
    <3> QED BY <1>1, <1>4, <3>1, <3>2 DEF Follows
  <2> QED BY <2>2, <2>3
<1> HIDE DEF M
<1>5. ASSUME NEW n \in 1..(l + 1)
      PROVE  /\ M[n - 1] \subseteq M[n] /\ M[n] \subseteq M[n - 1] \union LinksOf(M[n - 1])
             /\ \A f \in M[n - 1] : \A z \in Links[f] \ M[n] : s[z] > 0 => z \in o \/ f \in o
  <2>1. CASE n = l + 1
    <3>1. n - 1 = l
      BY <1>0, <2>1
    <3> QED BY <1>3, <1>4, <2>1, <3>1
  <2>2. CASE n # l + 1
    <3>1. n \in 1..l /\ M[n - 1] = L[n - 1] /\ M[n] = L[n]
      BY <1>0, <1>2, <2>2
    <3> QED BY <1>1, <3>1 DEF Follows
  <2> QED BY <2>1, <2>2
<1>6. \A n \in (l + 1)..Include : M[n] = all
  BY <1>0, <1>2
<1>7. Follows(s, o, y.key, all, y.level, M)
  BY <1>1, <1>2, <1>3, <1>5, <1>6 DEF Follows
<1>8. Expanded(y, M)
  <2>1. y.level # 0 /\ y.level - 1 = l
    BY <1>0
  <2>2. all \ y.frontier \subseteq M[l]
    BY <1>3
  <2> QED BY <2>1, <2>2 DEF Expanded
<1>9. ShownOwed(s, o, y.value) /\ y.frontier \subseteq all
  BY DEF Reads, ShownOwed
<1> QED BY <1>7, <1>8, <1>9 DEF Reads

LEMMA LastLevelSees ==
  ASSUME NEW s \in Served, NEW o, NEW x \in Reading, Reads(s, o, x), ~(x.level < Include /\ x.frontier # {})
  PROVE  View(s, o, x.key, x.value)
<1> DEFINE l == x.level
           found == DOMAIN x.value
<1>0. Include \in Nat /\ l \in 0..Include
  BY RenderAssumption DEF Reading
<1>1. PICK L : Follows(s, o, x.key, found, l, L) /\ Expanded(x, L)
  BY DEF Reads
<1>2. CASE l = Include
  BY <1>1, <1>2 DEF View, Reads
<1>3. CASE l # Include
  <2>1. x.frontier = {}
    BY <1>0, <1>3
  <2>2. ASSUME NEW n \in 1..Include
        PROVE  /\ L[n - 1] \subseteq L[n] /\ L[n] \subseteq L[n - 1] \union LinksOf(L[n - 1])
               /\ \A f \in L[n - 1] : \A z \in Links[f] \ L[n] : s[z] > 0 => z \in o \/ f \in o
    <3>1. CASE n <= l
      <4>1. n \in 1..l
        BY <1>0, <3>1
      <4> QED BY <1>1, <4>1 DEF Follows
    <3>2. CASE n > l
      <4>1. n \in l..Include /\ n - 1 \in l..Include
        BY <1>0, <3>2
      <4>2. L[n] = found /\ L[n - 1] = found /\ L[l] = found
        BY <1>0, <1>1, <4>1 DEF Follows
      <4>3. found # {} => l # 0 /\ found \subseteq L[l - 1]
        BY <1>1, <2>1 DEF Expanded
      <4>4. l # 0 => l \in 1..l
        BY <1>0
      <4>5. \A f \in found : \A z \in Links[f] \ found : s[z] > 0 => z \in o \/ f \in o
        BY <1>1, <4>2, <4>3, <4>4 DEF Follows
      <4> QED BY <4>2, <4>5
    <3> QED BY <1>0, <3>1, <3>2
  <2>3. \A n \in Include..Include : L[n] = found
    BY <1>0, <1>1 DEF Follows
  <2>4. Follows(s, o, x.key, found, Include, L)
    BY <1>1, <2>2, <2>3 DEF Follows
  <2> QED BY <2>4 DEF View, Reads
<1> QED BY <1>2, <1>3

LEMMA HoldsDispatch ==
  ASSUME NEW event, NEW s, NEW q, NEW c, NEW w, NEW q2, NEW c2, NEW w2,
         Dispatching(event, s, q, c, w, q2, c2, w2),
         NEW k \in Keys, NEW T \in SUBSET Tags, NEW x \in Envelope(T), Holds(s, q, c, w, k, x)
  PROVE  Holds(s, q2, c2, w2, k, x)
<1>1. Storable(x.value, x.tags, x.left) /\ x.left > 0
  BY TtlType DEF Envelope, Storable
<1>2. Kept(s, q, c, w, k, x.value, x.tags, x.late, x.left)
  BY <1>1 DEF Holds
<1>3. Kept(s, q2, c2, w2, k, x.value, x.tags, x.late, x.left)
  BY <1>1, <1>2, KeptBump
<1>4. ASSUME Kept(s, q2, c2, w2, k, x.value, x.tags, x.late, x.left)
      PROVE  Holds(s, q2, c2, w2, k, x)
  BY <1>4 DEF Holds
<1> QED BY <1>3, <1>4

-------------------------------------------------------------------------------
(***************************************************************************)
(* The invariant is inductive.                                             *)
(***************************************************************************)
SeesAll == \A r \in Readers : Sees(served, queue, consumer, tv, reader[r])
HoldsAll == \A k \in Keys : Holds(served, queue, consumer, tv, k, envelope[k])

LEMMA InvInit == Init => Inv
<1> SUFFICES ASSUME Init PROVE Inv
  OBVIOUS
<1>1. TypeOK
  BY TypeInit
<1>2. \A r \in Readers : reader[r].step = "idle"
  BY DEF Init, InitReads, Idle
<1>3. \A k \in Keys : envelope[k].left = 0
  BY DEF Init, NoEnvelope
<1> QED BY <1>1, <1>2, <1>3 DEF Inv, Sees, Holds

\* What changes only the queue and the consumer, so that nobody is owed less.
LEMMA OwesStep ==
  ASSUME Inv, Owes(served, queue, consumer, served', queue', consumer'),
         UNCHANGED <<reader, tv, envelope>>
  PROVE  SeesAll' /\ HoldsAll'
<1>1. TypeOK /\ SeesAll /\ HoldsAll
  BY DEF Inv, SeesAll, HoldsAll
<1>2. \A r \in Readers : Sees(served', queue', consumer', tv, reader[r])
  BY <1>1, SeesOwes, ReaderShapes DEF SeesAll
<1>3. \A k \in Keys : Holds(served', queue', consumer', tv, k, envelope[k])
  BY <1>1, HoldsOwes DEF HoldsAll
<1> QED BY <1>2, <1>3 DEF SeesAll, HoldsAll

LEMMA CommitStep == ASSUME Inv, Publish PROVE SeesAll' /\ HoldsAll'
<1>1. PICK event \in Event :
         /\ queue' = queue \union {event} /\ event \notin queue
         /\ \A e \in Entries \ event.entries : served'[e] = served[e]
         /\ UNCHANGED <<reader, consumer, tv, envelope, ticks, failures>>
  BY CommitDoes DEF Inv, TypeOK, Publish
<1>2. consumer.batch \subseteq queue
  BY DEF Inv, TypeOK
<1>3. Owes(served, queue, consumer, served', queue', consumer')
  BY <1>1, <1>2, OwingCommit DEF Owes
<1> QED BY <1>1, <1>3, OwesStep

LEMMA BatchStep == ASSUME Inv, TakeBatch \/ Abort PROVE SeesAll' /\ HoldsAll'
<1>1. UNCHANGED <<readVars, tv, envelope>> /\ consumer'.bumped = {}
  BY DEF TakeBatch, Abort
<1>2. Owes(served, queue, consumer, served', queue', consumer')
  BY <1>1, OwingReset DEF Owes, readVars
<1> QED BY <1>1, <1>2, OwesStep DEF readVars

LEMMA DispatchStep == ASSUME Inv, NEW event \in queue, Dispatch(event) PROVE SeesAll' /\ HoldsAll'
<1>1. TypeOK /\ SeesAll /\ HoldsAll
  BY DEF Inv, SeesAll, HoldsAll
<1>2. TypeOK'
  BY <1>1, TypeStep DEF Next
<1>3. DispatchSteps(event) /\ \A r \in Readers : Overlaps(reader[r], reader'[r], consumer.batch)
  BY <1>1, DispatchDoes
<1>4. /\ event \in Event /\ served \in Served /\ tv \in TagVersions /\ tv' \in TagVersions
      /\ served' = served /\ envelope' = envelope
  BY <1>1, <1>2, <1>3 DEF TypeOK, ReadsTypeOK, Served, TagVersions, DispatchSteps
<1>5. Dispatched(event, Fresh(event), queue, consumer, queue', consumer') /\ Bumps(Fresh(event), tv, tv')
  BY <1>3 DEF DispatchSteps, Dispatched, Bumps
<1>6. Fresh(event) = EventTags(event, served) \ consumer.bumped
  BY DEF Fresh
<1>10. Dispatching(event, served, queue, consumer, tv, queue', consumer', tv')
  BY <1>4, <1>5, <1>6 DEF Dispatching
<1>7. ASSUME NEW r \in Readers PROVE Sees(served, queue', consumer', tv', reader'[r])
  <2>1. IsReader(reader[r]) /\ Sees(served, queue, consumer, tv, reader[r])
    BY <1>1, ReaderShapes DEF SeesAll
  <2> QED BY <1>3, <1>10, <2>1, SeesDispatch
<1>8. ASSUME NEW k \in Keys, envelope[k].left > 0
      PROVE  Holds(served, queue', consumer', tv', k, envelope[k])
  <2>1. PICK T \in SUBSET Tags : envelope[k] \in Envelope(T)
    BY <1>1, <1>8, EnvelopeShapes
  <2>2. Holds(served, queue, consumer, tv, k, envelope[k])
    BY <1>1 DEF HoldsAll
  <2> QED BY <1>10, <2>1, <2>2, HoldsDispatch
<1>9. HoldsAll'
  BY <1>4, <1>8 DEF HoldsAll, Holds
<1> QED BY <1>4, <1>7, <1>9 DEF SeesAll

LEMMA TickStep == ASSUME Inv, Tick PROVE SeesAll' /\ HoldsAll'
<1>1. TypeOK /\ SeesAll /\ HoldsAll
  BY DEF Inv, SeesAll, HoldsAll
<1>2. TypeOK'
  BY <1>1, TypeStep DEF Next
<1>3. /\ UNCHANGED <<readVars, consumer>> /\ \A r \in Readers : reader[r].step # "put"
      /\ \A t \in Tags : tv'[t].ver = tv[t].ver /\ tv'[t].left = IF tv[t].left = 0 THEN 0 ELSE tv[t].left - 1
  BY <1>1, TickDoes
<1>4. SeesAll'
  BY <1>1, <1>3 DEF SeesAll, Sees, readVars
<1>5. tv \in TagVersions /\ tv' \in TagVersions
  BY <1>1, <1>2 DEF TypeOK, TagVersions
<1>6. ASSUME NEW k \in Keys PROVE Holds(served, queue, consumer, tv', k, envelope'[k])
  <2>1. CASE envelope'[k] = NoEnvelope
    BY <2>1 DEF Holds, NoEnvelope
  <2>2. CASE envelope'[k] # NoEnvelope
    <3>1. PICK T \in SUBSET Tags :
             /\ envelope'[k] \in Envelope(T)
             /\ envelope'[k].value = envelope[k].value /\ envelope'[k].late = envelope[k].late
             /\ envelope'[k].tags = envelope[k].tags
             /\ envelope[k].left > 1 /\ envelope'[k].left = envelope[k].left - 1
      BY <1>1, <2>2, TickDoes
    <3>2. envelope[k].left \in Nat
      BY <1>1, EnvelopeShapes, TtlType
    <3>3. envelope[k].value \in Shown /\ envelope[k].tags \in [T -> Nat]
      BY <3>1 DEF Envelope
    <3>4. Kept(served, queue, consumer, tv, k, envelope[k].value, envelope[k].tags,
               envelope[k].late, envelope[k].left)
      BY <1>1, <3>1, <3>2 DEF HoldsAll, Holds
    <3>5. Kept(served, queue, consumer, tv', k, envelope[k].value, envelope[k].tags,
               envelope[k].late, envelope[k].left - 1)
      BY <1>3, <1>5, <3>1, <3>2, <3>3, <3>4, KeptTick
    <3> QED BY <3>1, <3>5 DEF Holds
  <2> QED BY <2>1, <2>2
<1> QED BY <1>3, <1>4, <1>6 DEF HoldsAll, readVars

\* A reader takes a step, and what it sees then is as it should be.
LEMMA ReaderStep ==
  ASSUME Inv, NEW r \in Readers, NEW x, Becomes(r, x), Sees(served, queue, consumer, tv, x),
         UNCHANGED <<served, queue, consumer, tv>>
  PROVE  SeesAll'
BY DEF Inv, Becomes, SeesAll

LEMMA StoreStep == ASSUME Inv, ReadStore PROVE SeesAll' /\ HoldsAll'
<1>1. TypeOK /\ SeesAll /\ HoldsAll /\ served \in Served
  BY DEF Inv, SeesAll, HoldsAll, TypeOK, ReadsTypeOK, Served
<1>2. UNCHANGED <<served, commits, queue, consumer, tv, envelope>>
  BY <1>1, StoreDoes
<1>3. PICK r \in Readers : (\E k \in Requests : ReadRoots(r, k)) \/ ReadLevel(r) \/ Becomes(r, Idle)
  BY <1>1, StoreDoes
<1>4. ASSUME NEW x, Becomes(r, x), Sees(served, queue, consumer, tv, x) PROVE SeesAll'
  BY <1>2, <1>4, ReaderStep
<1>5. ASSUME NEW k \in Requests, ReadRoots(r, k) PROVE SeesAll'
  <2>1. PICK x \in Reading :
           /\ Becomes(r, x)
           /\ x.key = k /\ x.level = 0 /\ DOMAIN x.value = Roots(k, served)
           /\ \A e \in Roots(k, served) : x.value[e] = served[e]
           /\ x.frontier = Roots(k, served)
           /\ k.kind = "entry" => Roots(k, served) # {}
    BY <1>1, <1>5, KvReaders, RootsDo
  <2>2. Reads(served, Owing(queue, consumer, x.late, Tags), x)
    <3>1. k \in Keys
      BY RequestsAssumption
    <3> QED BY <1>1, <2>1, <3>1, RootsSee
  <2>3. Sees(served, queue, consumer, tv, x)
    BY <2>2 DEF Sees, Reading
  <2> QED BY <1>4, <2>1, <2>3
<1>6. ASSUME ReadLevel(r) PROVE SeesAll'
  <2> DEFINE old == reader[r]
             o == Owing(queue, consumer, old.late, Tags)
  <2>1. old \in Reading /\ old.step = "read"
    BY <1>1, <1>6, ReaderShapes DEF ReadLevel
  <2>2. Reads(served, o, old)
    BY <1>1, <2>1 DEF SeesAll, Sees
  <2>3. CASE old.level < Include /\ old.frontier # {}
    <3>1. PICK x \in Reading :
             /\ Becomes(r, x)
             /\ x.key = old.key /\ x.late = old.late /\ x.level = old.level + 1
             /\ x.frontier = Fetched(served, old)
             /\ DOMAIN x.value = DOMAIN old.value \union x.frontier
             /\ \A e \in x.frontier : x.value[e] = served[e]
             /\ \A e \in DOMAIN old.value \ x.frontier : x.value[e] = old.value[e]
      BY <1>1, <1>6, <2>3, KvReaders, LevelDoes
    <3>2. Reads(served, o, x)
      <4> HIDE DEF o, old
      <4> QED BY <1>1, <2>1, <2>2, <2>3, <3>1, LevelSees
    <3>3. Sees(served, queue, consumer, tv, x)
      BY <3>1, <3>2 DEF Sees, Reading
    <3> QED BY <1>4, <3>1, <3>3
  <2>4. CASE ~(old.level < Include /\ old.frontier # {})
    <3>1. PICK x \in Rendered :
             /\ Becomes(r, x)
             /\ x.key = old.key /\ x.late = old.late /\ x.value = old.value
             /\ x.tags = RenderTags(x.key, DOMAIN x.value)
      BY <1>1, <1>6, <2>4, KvReaders, LastLevelDoes
    <3>2. View(served, o, old.key, old.value)
      <4> HIDE DEF o, old
      <4> QED BY <1>1, <2>1, <2>2, <2>4, LastLevelSees
    <3>3. Sees(served, queue, consumer, tv, x)
      BY <3>1, <3>2 DEF Sees, Rendered
    <3> QED BY <1>4, <3>1, <3>3
  <2> QED BY <2>3, <2>4
<1>7. ASSUME Becomes(r, Idle) PROVE SeesAll'
  <2>1. Sees(served, queue, consumer, tv, Idle)
    BY DEF Sees, Idle
  <2> QED BY <1>7, <1>4, <2>1
<1> QED BY <1>1, <1>2, <1>3, <1>5, <1>6, <1>7 DEF HoldsAll

LEMMA VersionsStep == ASSUME Inv, NEW r \in Readers, ReadVersions(r) PROVE SeesAll' /\ HoldsAll'
<1> DEFINE old == reader[r]
<1>1. TypeOK /\ SeesAll /\ HoldsAll
  BY DEF Inv, SeesAll, HoldsAll
<1>2. UNCHANGED <<served, commits, queue, consumer, tv, envelope>>
  BY DEF ReadVersions
<1>3. PICK x : /\ x \in Putting(old.tags) /\ old.tags \in SUBSET Tags
               /\ Becomes(r, x)
               /\ x.key = old.key /\ x.late = old.late /\ x.value = old.value
               /\ DOMAIN x.versions = old.tags
               /\ \A t \in old.tags : x.versions[t] = Current(t)
  BY <1>1, VersionsDo
<1>4. old \in Rendered /\ old.step = "rendered"
  BY <1>1, ReaderShapes DEF ReadVersions
<1>5. /\ old.tags = RenderTags(old.key, DOMAIN old.value)
      /\ View(served, Owing(queue, consumer, old.late, Tags), old.key, old.value)
  BY <1>1, <1>4 DEF SeesAll, Sees
<1>6. View(served, Owing(queue, consumer, old.late, old.tags), old.key, old.value)
  <2>1. Owing(queue, consumer, old.late, Tags) \subseteq Owing(queue, consumer, old.late, old.tags)
    BY <1>3, OwingFewerTags
  <2>2. old.key \in Keys /\ old.value \in Shown
    BY <1>4, RequestsAssumption DEF Rendered
  <2> QED BY <1>5, <2>1, <2>2, ViewStays
<1>7. Noted(tv, x.versions, EnvelopeTtl)
  <2>1. \A t \in old.tags : tv[t].ver \in Nat /\ Current(t) = Now(tv, t)
    BY <1>1, <1>3 DEF TypeOK, Current, Now
  <2>2. \A t \in old.tags : Now(tv, t) <= tv[t].ver
    BY <2>1 DEF Now
  <2> QED BY <1>3, <2>1, <2>2 DEF Noted
<1>8. Kept(served, queue, consumer, tv, x.key, x.value, x.versions, x.late, EnvelopeTtl)
  BY <1>3, <1>5, <1>6, <1>7 DEF Kept
<1>9. Sees(served, queue, consumer, tv, x)
  BY <1>3, <1>8 DEF Sees, Putting
<1> QED BY <1>1, <1>2, <1>3, <1>9, ReaderStep DEF HoldsAll

LEMMA PutStep == ASSUME Inv, NEW r \in Readers, PutEnvelope(r) PROVE SeesAll' /\ HoldsAll'
<1>1. TypeOK /\ SeesAll /\ HoldsAll
  BY DEF Inv, SeesAll, HoldsAll
<1>2. PICK x : \E T \in SUBSET Tags :
           /\ UNCHANGED <<served, commits, queue, consumer, tv, ticks, failures>>
           /\ reader[r].step = "put" /\ reader[r].key \in Keys /\ Becomes(r, Idle) /\ x \in Envelope(T)
           /\ DOMAIN envelope' = Keys /\ envelope'[reader[r].key] = x
           /\ \A k \in Keys \ {reader[r].key} : envelope'[k] = envelope[k]
           /\ x.value = reader[r].value /\ x.late = reader[r].late /\ x.left = EnvelopeTtl
           /\ x.tags = reader[r].versions
  BY <1>1, PutDoes
<1>3. Sees(served, queue, consumer, tv, Idle)
  BY DEF Sees, Idle
<1>4. SeesAll'
  BY <1>2, <1>3, ReaderStep
<1>5. Kept(served, queue, consumer, tv, reader[r].key, x.value, x.tags, x.late, x.left)
  BY <1>1, <1>2 DEF SeesAll, Sees
<1>6. \A k \in Keys : Holds(served, queue, consumer, tv, k, envelope'[k])
  BY <1>1, <1>2, <1>5 DEF HoldsAll, Holds
<1> QED BY <1>2, <1>4, <1>6 DEF HoldsAll

LEMMA InvStep == Inv /\ [Next]_vars => Inv'
<1> SUFFICES ASSUME Inv, [Next]_vars PROVE Inv'
  OBVIOUS
<1>1. TypeOK'
  BY TypeStep DEF Inv
<1>2. CASE UNCHANGED vars
  BY <1>2 DEF Inv, TypeOK, ReadsTypeOK, vars, readVars
<1>3. CASE Next
  <2>1. SeesAll' /\ HoldsAll'
    BY <1>3, CommitStep, BatchStep, DispatchStep, TickStep, StoreStep, VersionsStep, PutStep DEF Next
  <2> QED BY <1>1, <2>1 DEF Inv, SeesAll, HoldsAll
<1> QED BY <1>2, <1>3

LEMMA Invariance == Spec => []Inv
<1> QED BY InvInit, InvStep, PTL DEF Spec

\* A hit that differs from what a render would show now is owed a change by its view.
LEMMA InvImpliesCause == Inv => StaleHasCause
<1> SUFFICES ASSUME Inv, NEW k \in Keys, Hit(k), envelope[k].value # Render(k, served)
             PROVE  Touches(queue \union envelope[k].late, Concerned(k, envelope[k].value))
  BY DEF StaleHasCause
<1> DEFINE value == envelope[k].value
           owed == Owing(queue, consumer, envelope[k].late, DOMAIN envelope[k].tags)
<1>1. TypeOK /\ served \in Served /\ envelope[k].left > 0
  BY DEF Inv, TypeOK, ReadsTypeOK, Served, Hit
<1>2. value \in Shown
  BY <1>1, EnvelopeShapes DEF Envelope
<1>3. Matches(tv, envelope[k].tags)
  BY DEF Hit, Matches, Now, Current
<1>4. View(served, owed, k, value)
  BY <1>1, <1>3 DEF Inv, Holds, Kept
<1>5. PICK y \in owed : y \in DOMAIN value \union DOMAIN Render(k, served)
  <2> HIDE DEF value, owed
  <2>1. value # Render(k, served)
    BY DEF value
  <2> QED BY <1>1, <1>2, <1>4, <2>1, RenderIsCurrent
<1>6. PICK event \in queue \union envelope[k].late : y \in event.entries
  BY DEF Owing
<1> QED BY <1>5, <1>6 DEF Touches, Concerned

\* A hit is out of date only while the event of a change to an entry that it shows, or
\* should show, is to be dispatched, or because it was dispatched during the render: the
\* tags that cache-kv.ts stores and those that dispatchEvent bumps meet for every graph of
\* links, depth, batch, retry and lifetime of keys.
THEOREM StaleAlwaysHasCause == Spec => []StaleHasCause
<1> QED BY Invariance, InvImpliesCause, PTL

LEMMA InvImpliesStays == Inv /\ Inv' /\ [Next]_vars => StaysInvalidated
<1> SUFFICES ASSUME Inv, [Next]_vars, NEW k \in Keys, envelope[k].left > 0, ~Hit(k),
                    envelope'[k].left > 0, envelope'[k].tags = envelope[k].tags
             PROVE  ~Hit(k)'
  BY DEF StaysInvalidated
<1> DEFINE tags == envelope[k].tags
<1>1. TypeOK
  BY DEF Inv
<1>2. PICK T \in SUBSET Tags : tags \in [T -> Nat]
  BY <1>1, EnvelopeShapes DEF Envelope
<1>3. PICK t \in T : tags[t] # Current(t)
  BY <1>2 DEF Hit
<1>4. /\ tv[t].ver \in Nat /\ tv[t].left \in Nat /\ tags[t] \in Nat /\ tags[t] <= tv[t].ver
      /\ tags[t] = 0 /\ Current(t) # 0 => tv[t].left >= envelope[k].left
  BY <1>1, <1>2, TtlType DEF TypeOK, Inv, Holds, Kept, Noted, Now, Current
<1> SUFFICES tags[t] # Current(t)'
  BY <1>2 DEF Hit
<1> HIDE DEF tags
<1>5. CASE tv' = tv
  BY <1>3, <1>5 DEF Current
<1>6. ASSUME NEW event \in queue, Dispatch(event) PROVE tags[t] # Current(t)'
  <2>1. /\ t \in Fresh(event) => tv'[t] = [ver |-> tv[t].ver + 1, left |-> TagTtl]
        /\ t \notin Fresh(event) => tv'[t] = tv[t]
    BY <1>1, <1>2, <1>6, DispatchDoes DEF DispatchSteps
  <2>2. CASE t \in Fresh(event)
    BY <1>4, <2>1, <2>2, TtlType DEF Current
  <2>3. CASE t \notin Fresh(event)
    BY <1>3, <2>1, <2>3 DEF Current
  <2> QED BY <2>2, <2>3
<1>7. CASE Tick
  <2>1. tv'[t].ver = tv[t].ver /\ tv'[t].left = IF tv[t].left = 0 THEN 0 ELSE tv[t].left - 1
    BY <1>1, <1>2, <1>7, TickDoes
  <2>2. envelope[k].left > 1 /\ envelope[k].left \in Nat
    BY <1>1, <1>7, TickDoes, EnvelopeShapes, TtlType DEF NoEnvelope
  <2> QED BY <1>3, <1>4, <2>1, <2>2 DEF Current
<1> QED
  BY <1>1, <1>5, <1>6, <1>7, StoreDoes, PutDoes
     DEF Next, vars, Publish, TakeBatch, Abort, ReadVersions

\* cache-kv.ts: "expiry can only produce a miss, never a stale hit": an envelope whose tags
\* were bumped is never a hit again, however the keys of the tags and its own expire.
THEOREM AlwaysInvalidatedForGood == Spec => InvalidatedForGood
<1>1. Inv /\ Inv' /\ [Next]_vars => [StaysInvalidated]_vars
  BY InvImpliesStays
<1> QED BY <1>1, Invariance, PTL DEF Spec, InvalidatedForGood

-------------------------------------------------------------------------------
(***************************************************************************)
(* Redis: types.                                                           *)
(***************************************************************************)
IsRedisReader(x) == x \in {Idle} \union Reading \union Rendered \union Tagging

LEMMA RedisShapes ==
  ASSUME NEW x, IsRedisReader(x)
  PROVE  /\ x.step \in {"idle", "read", "rendered", "tag"}
         /\ x.step = "idle" => x = Idle
         /\ x.step = "read" => x \in Reading
         /\ x.step = "rendered" => x \in Rendered
         /\ x.step = "tag" => x \in Tagging
BY DEF IsRedisReader, Idle, Reading, Rendered, Tagging

LEMMA RedisReaders ==
  ASSUME RedisTypeOK, NEW r \in Readers
  PROVE  /\ IsRedisReader(reader[r])
         /\ reader[r].step \in {"idle", "read", "rendered", "tag"}
         /\ reader[r].step = "idle" => reader[r] = Idle
         /\ reader[r].step = "read" => reader[r] \in Reading
         /\ reader[r].step = "rendered" => reader[r] \in Rendered
         /\ reader[r].step = "tag" => reader[r] \in Tagging
<1>1. IsRedisReader(reader[r])
  BY DEF RedisTypeOK, IsRedisReader
<1> QED BY <1>1, RedisShapes

LEMMA RedisReads == RedisTypeOK => ReadersRead
<1> SUFFICES ASSUME RedisTypeOK PROVE ReadersRead
  OBVIOUS
<1>1. \A r \in Readers : reader[r].step = "read" => reader[r] \in Reading
  BY RedisReaders
<1> QED BY <1>1 DEF RedisTypeOK, ReadersRead

LEMMA ValueShapes ==
  ASSUME RedisTypeOK, NEW k \in Keys
  PROVE  /\ cached[k].left \in Nat
         /\ cached[k].left = 0 => cached[k] = NoValue
         /\ RedisHit(k) => cached[k] \in Value
<1>1. cached[k] = NoValue \/ cached[k] \in Value
  BY DEF RedisTypeOK
<1> QED BY <1>1 DEF NoValue, Value, RedisHit

LEMMA WorkerShapes ==
  ASSUME RedisTypeOK, NEW w \in Workers
  PROVE  /\ worker[w].step \in {"idle", "delete"}
         /\ worker[w].step = "delete" => worker[w] \in Deleting
<1>1. worker[w] = NoEvent \/ worker[w] \in Deleting
  BY DEF RedisTypeOK
<1> QED BY <1>1 DEF NoEvent, Deleting

LEMMA TtlTypes == \A k : Ttl(k) \in Nat \ {0} /\ Ttl(k) + 1 \in Nat
BY RedisTtlAssumption DEF Ttl

\* A reader in another state, as a function.
LEMMA RedisBecomes ==
  ASSUME RedisTypeOK, NEW r \in Readers, NEW x, IsRedisReader(x), reader' = [reader EXCEPT ![r] = x]
  PROVE  reader' \in [Readers -> {Idle} \union Reading \union Rendered \union Tagging]
BY DEF RedisTypeOK, IsRedisReader

LEMMA LooseTypes ==
  ASSUME RedisTypeOK, NEW K, NEW k \in Keys
  PROVE  /\ RedisHit(k) => Loosened(K)[k] \in Value
         /\ ~RedisHit(k) => Loosened(K)[k] = NoValue
         /\ Loosened(K)[k].left = cached[k].left
         /\ RedisHit(k) => /\ Loosened(K)[k].shown = cached[k].shown
                           /\ Loosened(K)[k].tags = cached[k].tags
                           /\ Loosened(K)[k].late = cached[k].late
                           /\ Loosened(K)[k].loose = (k \in K \/ cached[k].loose)
<1>1. CASE ~RedisHit(k)
  <2>1. cached[k] = NoValue
    BY <1>1, ValueShapes DEF RedisHit
  <2> QED BY <1>1, <2>1 DEF Loosened
<1>2. CASE RedisHit(k)
  <2>1. cached[k] \in Value
    BY <1>2, ValueShapes
  <2>2. CASE k \in K
    <3>1. Loosened(K)[k] = [cached[k] EXCEPT !.loose = TRUE]
      BY <1>2, <2>2 DEF Loosened
    <3> QED BY <1>2, <2>1, <2>2, <3>1 DEF Value
  <2>3. CASE k \notin K
    <3>1. Loosened(K)[k] = cached[k]
      BY <2>3 DEF Loosened
    <3>2. cached[k].loose \in BOOLEAN
      BY <2>1 DEF Value
    <3> QED BY <1>2, <2>1, <2>3, <3>1, <3>2
  <2> QED BY <2>2, <2>3
<1> QED BY <1>1, <1>2

LEMMA LoosenedType ==
  ASSUME RedisTypeOK, NEW K
  PROVE  Loosened(K) \in [Keys -> {NoValue} \union Value]
<1>1. \A k \in Keys : Loosened(K)[k] \in {NoValue} \union Value
  BY LooseTypes
<1> QED BY <1>1 DEF Loosened

\* What each step does.
LEMMA SetDoes ==
  ASSUME RedisTypeOK, NEW r \in Readers, SetValue(r)
  PROVE  \E x \in Tagging, y \in Value :
           /\ UNCHANGED <<served, commits, queue, members, worker, redisTicks, crashes>>
           /\ reader[r] \in Rendered /\ reader[r].step = "rendered"
           /\ reader' = [reader EXCEPT ![r] = x] /\ cached' = [cached EXCEPT ![reader[r].key] = y]
           /\ x.key = reader[r].key /\ x.tags = reader[r].tags /\ x.late = reader[r].late
           /\ y.shown = reader[r].value /\ y.tags = reader[r].tags /\ y.late = reader[r].late
<1> DEFINE old == reader[r]
           x == [old EXCEPT !.step = "tag"]
           y == [shown |-> old.value, tags |-> old.tags, late |-> old.late, left |-> Ttl(old.key), loose |-> FALSE]
<1>1. old \in Rendered /\ old.step = "rendered"
  BY RedisReaders DEF SetValue
<1>2. x \in Tagging /\ x.key = old.key /\ x.tags = old.tags /\ x.late = old.late
  BY <1>1 DEF Rendered, Tagging
<1>3. y \in Value
  BY <1>1, TtlTypes DEF Rendered, Value
<1>4. /\ UNCHANGED <<served, commits, queue, members, worker, redisTicks, crashes>>
      /\ reader' = [reader EXCEPT ![r] = x] /\ cached' = [cached EXCEPT ![old.key] = y]
  BY DEF SetValue
<1>5. y.shown = old.value /\ y.tags = old.tags /\ y.late = old.late
  OBVIOUS
<1> HIDE DEF x, y
<1> QED BY <1>1, <1>2, <1>3, <1>4, <1>5

LEMMA AddDoes ==
  ASSUME RedisTypeOK, NEW r \in Readers, AddToTags(r)
  PROVE  /\ UNCHANGED <<served, commits, queue, worker, redisTicks, crashes>>
         /\ reader[r] \in Tagging /\ reader[r].step = "tag" /\ reader[r].key \in Keys
         /\ reader' = [reader EXCEPT ![r] = Idle]
         /\ members' \in [Tags -> [keys : SUBSET Keys, left : Nat]]
         /\ \A t \in Tags : members'[t].keys = IF t \in reader[r].tags THEN members[t].keys \union {reader[r].key}
                                                                       ELSE members[t].keys
         /\ cached' \in [Keys -> {NoValue} \union Value]
         /\ \A k \in Keys \ {reader[r].key} : cached'[k] = cached[k]
         /\ cached'[reader[r].key].left = cached[reader[r].key].left
         /\ RedisHit(reader[r].key) =>
              /\ cached'[reader[r].key].shown = cached[reader[r].key].shown
              /\ cached'[reader[r].key].tags = cached[reader[r].key].tags
              /\ cached'[reader[r].key].loose = cached[reader[r].key].loose
              /\ cached'[reader[r].key].late = cached[reader[r].key].late \union reader[r].late
<1> DEFINE old == reader[r]
           key == old.key
           late == cached[key].late \union old.late
           y == IF RedisHit(key) THEN [cached[key] EXCEPT !.late = late] ELSE cached[key]
<1>1. old \in Tagging /\ old.step = "tag"
  BY RedisReaders DEF AddToTags
<1>2. key \in Keys /\ old.late \in SUBSET Event /\ old.tags \in SUBSET Tags
  BY <1>1, RequestsAssumption DEF Tagging
<1>3. UNCHANGED <<served, commits, queue, worker, redisTicks, crashes>> /\ reader' = [reader EXCEPT ![r] = Idle]
  BY DEF AddToTags
<1>4. /\ members' = [t \in Tags |-> IF t \in old.tags
                                      THEN [keys |-> members[t].keys \union {key}, left |-> Ttl(key) + 1]
                                      ELSE members[t]]
      /\ cached' = [cached EXCEPT ![key] = y]
  <2>1. members' = [t \in Tags |-> IF t \in old.tags
                                     THEN [keys |-> members[t].keys \union {key}, left |-> Ttl(key) + 1]
                                     ELSE members[t]]
    BY DEF AddToTags
  <2>2. cached' = [cached EXCEPT ![key] = y]
    BY DEF AddToTags
  <2> QED BY <2>1, <2>2
<1>5. ASSUME NEW t \in Tags
      PROVE  /\ members'[t] \in [keys : SUBSET Keys, left : Nat]
             /\ members'[t].keys = IF t \in old.tags THEN members[t].keys \union {key} ELSE members[t].keys
  <2>1. members[t] \in [keys : SUBSET Keys, left : Nat]
    BY DEF RedisTypeOK
  <2>2. CASE t \in old.tags
    <3>1. members'[t] = [keys |-> members[t].keys \union {key}, left |-> Ttl(key) + 1]
      BY <1>4, <2>2
    <3>2. members[t].keys \union {key} \in SUBSET Keys
      BY <1>2, <2>1
    <3> QED BY <2>2, <3>1, <3>2, TtlTypes
  <2>3. CASE t \notin old.tags
    <3>1. members'[t] = members[t]
      BY <1>4, <2>3
    <3> QED BY <2>1, <2>3, <3>1
  <2> QED BY <2>2, <2>3
<1>6. members' \in [Tags -> [keys : SUBSET Keys, left : Nat]]
  <2>1. members' = [t \in Tags |-> members'[t]]
    BY <1>4
  <2> QED BY <1>5, <2>1
<1>7. /\ y \in {NoValue} \union Value
      /\ y.left = cached[key].left
      /\ RedisHit(key) => /\ y.shown = cached[key].shown /\ y.tags = cached[key].tags
                          /\ y.loose = cached[key].loose /\ y.late = late
  <2>1. CASE RedisHit(key)
    <3>1. cached[key] \in Value
      BY <1>2, <2>1, ValueShapes
    <3>2. late \in SUBSET Event
      BY <1>2, <3>1 DEF Value
    <3>3. y = [cached[key] EXCEPT !.late = late]
      BY <2>1
    <3> HIDE DEF late, y
    <3> QED BY <2>1, <3>1, <3>2, <3>3 DEF Value
  <2>2. CASE ~RedisHit(key)
    BY <1>2, <2>2 DEF RedisTypeOK
  <2> QED BY <2>1, <2>2
<1>8. /\ cached' \in [Keys -> {NoValue} \union Value]
      /\ cached'[key] = y /\ \A k \in Keys \ {key} : cached'[k] = cached[k]
  <2> HIDE DEF y, key
  <2> QED BY <1>2, <1>4, <1>7 DEF RedisTypeOK
<1>9. /\ cached'[key].left = cached[key].left
      /\ RedisHit(key) => /\ cached'[key].shown = cached[key].shown /\ cached'[key].tags = cached[key].tags
                          /\ cached'[key].loose = cached[key].loose /\ cached'[key].late = late
  <2> HIDE DEF y, key, late
  <2> QED BY <1>7, <1>8 DEF RedisHit
<1> HIDE DEF y
<1> QED BY <1>1, <1>2, <1>3, <1>5, <1>6, <1>8, <1>9

LEMMA UntaggedDoes ==
  ASSUME RedisTypeOK, NEW r \in Readers, DieUntagged(r)
  PROVE  \E K :
           /\ UNCHANGED <<served, commits, queue, members, worker, redisTicks>>
           /\ reader[r].step = "tag" /\ reader' = [reader EXCEPT ![r] = Idle]
           /\ cached' = Loosened(K) /\ (RedisHit(reader[r].key) /\ ~Tagged(reader[r].key) => reader[r].key \in K)
BY DEF DieUntagged

LEMMA LookUpDoes ==
  ASSUME RedisTypeOK, NEW w \in Workers, NEW event \in queue, LookUp(w, event)
  PROVE  /\ UNCHANGED <<served, commits, queue, cached, members, redisTicks, crashes>>
         /\ event \in Event
         /\ worker[w].step = "idle"
         /\ DOMAIN worker' = Workers /\ \A v \in Workers \ {w} : worker'[v] = worker[v]
         /\ worker'[w] \in Deleting /\ worker'[w].event = event
         /\ worker'[w].found = UNION {members[t].keys : t \in EventTags(event, served)}
         /\ DOMAIN reader' = Readers
         /\ \A r \in Readers :
              /\ IsRedisReader(reader'[r]) /\ reader'[r].step = reader[r].step
              /\ reader[r].step = "idle" => reader'[r] = reader[r]
              /\ reader[r].step # "idle" =>
                   /\ reader'[r].key = reader[r].key /\ reader'[r].value = reader[r].value
                   /\ reader'[r].late = reader[r].late \union {event}
              /\ reader[r].step = "read" =>
                   reader'[r].frontier = reader[r].frontier /\ reader'[r].level = reader[r].level
              /\ reader[r].step \in {"rendered", "tag"} => reader'[r].tags = reader[r].tags
<1> DEFINE tags == EventTags(event, served)
           found == UNION {members[t].keys : t \in tags}
           x == [step |-> "delete", event |-> event, tags |-> tags, found |-> found]
<1>1. event \in Event /\ tags \subseteq Tags
  BY EventTagTypes DEF RedisTypeOK, ReadsTypeOK
<1>2. found \subseteq Keys
  <2>1. \A t \in tags : members[t].keys \subseteq Keys
    BY <1>1 DEF RedisTypeOK
  <2> QED BY <2>1
<1>3. x \in Deleting
  <2> HIDE DEF tags, found
  <2> QED BY <1>1, <1>2 DEF Deleting
<1>4. /\ UNCHANGED <<served, commits, queue, cached, members, redisTicks, crashes>>
      /\ worker[w].step = "idle" /\ worker' = [worker EXCEPT ![w] = x]
      /\ Overlap({event}, {"read", "rendered", "tag"})
  BY DEF LookUp
<1>5. x.event = event /\ x.found = found
  OBVIOUS
<1>6. /\ DOMAIN worker' = Workers /\ \A v \in Workers \ {w} : worker'[v] = worker[v]
      /\ worker'[w] = x
  <2> HIDE DEF x
  <2> QED BY <1>4 DEF RedisTypeOK
<1>7. ASSUME NEW r \in Readers
      PROVE  /\ IsRedisReader(reader'[r]) /\ reader'[r].step = reader[r].step
             /\ reader[r].step = "idle" => reader'[r] = reader[r]
             /\ reader[r].step # "idle" =>
                  /\ reader'[r].key = reader[r].key /\ reader'[r].value = reader[r].value
                  /\ reader'[r].late = reader[r].late \union {event}
             /\ reader[r].step = "read" =>
                  reader'[r].frontier = reader[r].frontier /\ reader'[r].level = reader[r].level
             /\ reader[r].step \in {"rendered", "tag"} => reader'[r].tags = reader[r].tags
  <2> DEFINE late == reader[r].late \union {event}
  <2>1. reader'[r] = IF reader[r].step \in {"read", "rendered", "tag"}
                       THEN [reader[r] EXCEPT !.late = late] ELSE reader[r]
    BY <1>4 DEF Overlap
  <2>2. CASE reader[r].step = "idle"
    BY <2>1, <2>2, RedisReaders
  <2>3. CASE reader[r].step = "read"
    <3>1. reader[r] \in Reading
      BY <2>3, RedisReaders
    <3>2. late \in SUBSET Event
      BY <1>1, <3>1 DEF Reading
    <3> HIDE DEF late
    <3>3. reader'[r] = [reader[r] EXCEPT !.late = late]
      BY <2>1, <2>3
    <3>4. reader'[r] \in Reading /\ reader'[r].key = reader[r].key /\ reader'[r].value = reader[r].value
          /\ reader'[r].frontier = reader[r].frontier /\ reader'[r].level = reader[r].level
          /\ reader'[r].late = late /\ reader'[r].step = reader[r].step
      BY <3>1, <3>2, <3>3 DEF Reading
    <3> QED BY <2>3, <3>4 DEF IsRedisReader, late
  <2>4. CASE reader[r].step = "rendered"
    <3>1. reader[r] \in Rendered
      BY <2>4, RedisReaders
    <3>2. late \in SUBSET Event
      BY <1>1, <3>1 DEF Rendered
    <3> HIDE DEF late
    <3>3. reader'[r] = [reader[r] EXCEPT !.late = late]
      BY <2>1, <2>4
    <3>4. reader'[r] \in Rendered /\ reader'[r].key = reader[r].key /\ reader'[r].value = reader[r].value
          /\ reader'[r].tags = reader[r].tags /\ reader'[r].late = late /\ reader'[r].step = reader[r].step
      BY <3>1, <3>2, <3>3 DEF Rendered
    <3> QED BY <2>4, <3>4 DEF IsRedisReader, late
  <2>5. CASE reader[r].step = "tag"
    <3>1. reader[r] \in Tagging
      BY <2>5, RedisReaders
    <3>2. late \in SUBSET Event
      BY <1>1, <3>1 DEF Tagging
    <3> HIDE DEF late
    <3>3. reader'[r] = [reader[r] EXCEPT !.late = late]
      BY <2>1, <2>5
    <3>4. reader'[r] \in Tagging /\ reader'[r].key = reader[r].key /\ reader'[r].value = reader[r].value
          /\ reader'[r].tags = reader[r].tags /\ reader'[r].late = late /\ reader'[r].step = reader[r].step
      BY <3>1, <3>2, <3>3 DEF Tagging
    <3> QED BY <2>5, <3>4 DEF IsRedisReader, late
  <2> QED BY <2>2, <2>3, <2>4, <2>5, RedisReaders
<1>8. DOMAIN reader' = Readers
  BY <1>4 DEF Overlap
<1> HIDE DEF x
<1> QED BY <1>1, <1>3, <1>4, <1>5, <1>6, <1>7, <1>8

\* A value stays, but for its mark when its key is in K, or is gone.
Keeps(k, K) ==
  \/ cached'[k] = NoValue
  \/ /\ RedisHit(k) /\ cached'[k] \in Value
     /\ cached'[k].shown = cached[k].shown /\ cached'[k].tags = cached[k].tags
     /\ cached'[k].late = cached[k].late /\ cached'[k].loose = (k \in K \/ cached[k].loose)

LEMMA LoosenedKeeps ==
  ASSUME RedisTypeOK, NEW K, NEW k \in Keys, cached'[k] = Loosened(K)[k]
  PROVE  Keeps(k, K)
BY LooseTypes DEF Keeps

LEMMA KeepsTypes ==
  ASSUME RedisTypeOK, NEW K, DOMAIN cached' = Keys, cached' = [k \in Keys |-> cached'[k]],
         \A k \in Keys : Keeps(k, K)
  PROVE  cached' \in [Keys -> {NoValue} \union Value]
<1>1. \A k \in Keys : cached'[k] \in {NoValue} \union Value
  BY DEF Keeps
<1> QED BY <1>1

LEMMA UntaggedKeeps ==
  ASSUME RedisTypeOK, NEW r \in Readers, DieUntagged(r)
  PROVE  \E K : /\ UNCHANGED <<served, commits, queue, members, worker, redisTicks>>
                /\ reader[r].step = "tag" /\ reader' = [reader EXCEPT ![r] = Idle]
                /\ cached' \in [Keys -> {NoValue} \union Value] /\ \A k \in Keys : Keeps(k, K)
                /\ RedisHit(reader[r].key) /\ ~Tagged(reader[r].key) => reader[r].key \in K
<1>1. PICK K :
           /\ UNCHANGED <<served, commits, queue, members, worker, redisTicks>>
           /\ reader[r].step = "tag" /\ reader' = [reader EXCEPT ![r] = Idle]
           /\ cached' = Loosened(K) /\ (RedisHit(reader[r].key) /\ ~Tagged(reader[r].key) => reader[r].key \in K)
  BY UntaggedDoes
<1>2. cached' \in [Keys -> {NoValue} \union Value] /\ \A k \in Keys : Keeps(k, K)
  BY <1>1, LoosenedType, LoosenedKeeps
<1> QED BY <1>1, <1>2

\* The sets of some tags are gone, and the keys in them are in K.
Drops(K) ==
  /\ members' \in [Tags -> [keys : SUBSET Keys, left : Nat]]
  /\ \A t \in Tags : \/ members'[t].keys = members[t].keys
                     \/ members'[t].keys = {} /\ members[t].keys \subseteq K

LEMMA DeleteDoes ==
  ASSUME RedisTypeOK, NEW w \in Workers, Delete(w)
  PROVE  \E K : /\ UNCHANGED <<served, commits, reader, redisTicks, crashes>>
                /\ worker[w] \in Deleting /\ worker[w].step = "delete" /\ queue' = queue \ {worker[w].event}
                /\ worker' = [worker EXCEPT ![w] = NoEvent]
                /\ cached' \in [Keys -> {NoValue} \union Value] /\ \A k \in Keys : Keeps(k, K)
                /\ \A k \in worker[w].found : cached'[k] = NoValue
                /\ Drops(K)
<1> DEFINE K == UNION {members[t].keys : t \in worker[w].tags}
<1>1. worker[w] \in Deleting /\ worker[w].step = "delete"
  BY WorkerShapes DEF Delete
<1>2. worker[w].tags \subseteq Tags /\ worker[w].found \subseteq Keys
  BY <1>1 DEF Deleting
<1>3. /\ UNCHANGED <<served, commits, reader, redisTicks, crashes>>
      /\ queue' = queue \ {worker[w].event} /\ worker' = [worker EXCEPT ![w] = NoEvent]
      /\ cached' = [k \in Keys |-> IF k \in worker[w].found THEN NoValue ELSE Loosened(K)[k]]
      /\ members' = [t \in Tags |-> IF t \in worker[w].tags THEN NoMembers ELSE members[t]]
  BY DEF Delete
<1>4. ASSUME NEW k \in Keys PROVE Keeps(k, K)
  <2> HIDE DEF K
  <2>1. CASE k \in worker[w].found
    BY <1>3, <2>1 DEF Keeps
  <2>2. CASE k \notin worker[w].found
    <3>1. cached'[k] = Loosened(K)[k]
      BY <1>3, <2>2
    <3> QED BY <3>1, LoosenedKeeps
  <2> QED BY <2>1, <2>2
<1>5. Drops(K)
  <2>1. ASSUME NEW t \in Tags
        PROVE  /\ members'[t] \in [keys : SUBSET Keys, left : Nat]
               /\ \/ members'[t].keys = members[t].keys
                  \/ members'[t].keys = {} /\ members[t].keys \subseteq K
    <3>1. CASE t \in worker[w].tags
      <4>1. members'[t] = NoMembers
        BY <1>3, <3>1
      <4> QED BY <3>1, <4>1 DEF NoMembers
    <3>2. CASE t \notin worker[w].tags
      <4>1. members'[t] = members[t]
        BY <1>3, <3>2
      <4> QED BY <4>1 DEF RedisTypeOK
    <3> QED BY <3>1, <3>2
  <2>2. members' = [t \in Tags |-> members'[t]]
    BY <1>3
  <2> HIDE DEF K
  <2> QED BY <2>1, <2>2 DEF Drops
<1> HIDE DEF K
<1>6. cached' \in [Keys -> {NoValue} \union Value]
  <2>1. DOMAIN cached' = Keys /\ cached' = [k \in Keys |-> cached'[k]]
    BY <1>3
  <2> QED BY <1>4, <2>1, KeepsTypes
<1>7. \A k \in worker[w].found : cached'[k] = NoValue
  BY <1>2, <1>3
<1> QED BY <1>1, <1>3, <1>4, <1>5, <1>6, <1>7

LEMMA RedisTickDoes ==
  ASSUME RedisTypeOK, RedisTick
  PROVE  \E K : /\ UNCHANGED <<readVars, worker, crashes>> /\ \A r \in Readers : reader[r].step # "tag"
                /\ cached' \in [Keys -> {NoValue} \union Value] /\ \A k \in Keys : Keeps(k, K)
                /\ Drops(K)
<1> DEFINE K == UNION {members[t].keys : t \in {t \in Tags : members[t].left <= 1}}
<1>1. /\ UNCHANGED <<readVars, worker, crashes>> /\ \A r \in Readers : reader[r].step # "tag"
      /\ cached' = [k \in Keys |-> IF cached[k].left <= 1 THEN NoValue
                                   ELSE [Loosened(K)[k] EXCEPT !.left = @ - 1]]
      /\ members' = [t \in Tags |-> IF members[t].left <= 1 THEN NoMembers
                                    ELSE [members[t] EXCEPT !.left = @ - 1]]
  BY DEF RedisTick
<1>2. ASSUME NEW k \in Keys PROVE Keeps(k, K)
  <2> HIDE DEF K
  <2>1. CASE cached[k].left <= 1
    BY <1>1, <2>1 DEF Keeps
  <2>2. CASE ~(cached[k].left <= 1)
    <3>1. RedisHit(k) /\ cached[k].left \in Nat /\ cached[k].left - 1 \in Nat \ {0}
      BY <2>2, ValueShapes DEF RedisHit
    <3>2. Loosened(K)[k] \in Value /\ Loosened(K)[k].left = cached[k].left
      BY <3>1, LooseTypes
    <3> DEFINE left == cached[k].left - 1
    <3>3. cached'[k] = [Loosened(K)[k] EXCEPT !.left = left]
      BY <1>1, <2>2, <3>2
    <3> HIDE DEF left
    <3>4. /\ cached'[k] \in Value
          /\ cached'[k].shown = Loosened(K)[k].shown /\ cached'[k].tags = Loosened(K)[k].tags
          /\ cached'[k].late = Loosened(K)[k].late /\ cached'[k].loose = Loosened(K)[k].loose
      BY <3>1, <3>2, <3>3 DEF Value, left
    <3> QED BY <3>1, <3>4, LooseTypes DEF Keeps
  <2> QED BY <2>1, <2>2
<1>3. Drops(K)
  <2>1. ASSUME NEW t \in Tags
        PROVE  /\ members'[t] \in [keys : SUBSET Keys, left : Nat]
               /\ \/ members'[t].keys = members[t].keys
                  \/ members'[t].keys = {} /\ members[t].keys \subseteq K
    <3>1. members[t] \in [keys : SUBSET Keys, left : Nat]
      BY DEF RedisTypeOK
    <3>2. CASE members[t].left <= 1
      <4>1. members'[t] = NoMembers
        BY <1>1, <3>2
      <4> QED BY <3>2, <4>1 DEF NoMembers
    <3>3. CASE ~(members[t].left <= 1)
      <4> DEFINE left == members[t].left - 1
      <4>1. members'[t] = [members[t] EXCEPT !.left = left]
        BY <1>1, <3>3
      <4>2. left \in Nat
        BY <3>1, <3>3
      <4> HIDE DEF left
      <4> QED BY <3>1, <4>1, <4>2
    <3> QED BY <3>2, <3>3
  <2>2. members' = [t \in Tags |-> members'[t]]
    BY <1>1
  <2> HIDE DEF K
  <2> QED BY <2>1, <2>2 DEF Drops
<1> HIDE DEF K
<1>4. cached' \in [Keys -> {NoValue} \union Value]
  <2>1. DOMAIN cached' = Keys /\ cached' = [k \in Keys |-> cached'[k]]
    BY <1>1
  <2> QED BY <1>2, <2>1, KeepsTypes
<1> QED BY <1>1, <1>2, <1>3, <1>4

LEMMA RedisStoreDoes ==
  ASSUME RedisTypeOK, RedisReadStore
  PROVE  /\ UNCHANGED <<served, commits, queue, cached, members, worker, redisTicks, crashes>>
         /\ reader' = [q \in Readers |-> reader'[q]]
         /\ \E r \in Readers :
              /\ reader[r].step # "tag"
              /\ \/ \E k \in Requests : ReadRoots(r, k)
                 \/ ReadLevel(r)
                 \/ Becomes(r, Idle)
<1>1. PICK r \in Readers : (\E k \in Requests : ReadRoots(r, k)) \/ ReadLevel(r) \/ GiveUp(r)
  BY DEF RedisReadStore
<1>2. UNCHANGED <<served, commits, queue, cached, members, worker, redisTicks, crashes>>
  BY <1>1 DEF RedisReadStore, ReadRoots, ReadLevel, GiveUp
<1>3. GiveUp(r) => Becomes(r, Idle)
  BY RedisReads, ReaderChanges DEF GiveUp
<1>4. reader[r].step # "tag"
  BY <1>1 DEF ReadRoots, ReadLevel, GiveUp
<1>5. reader' = [q \in Readers |-> reader'[q]]
  <2>1. \E x : reader' = [reader EXCEPT ![r] = x]
    BY <1>1 DEF ReadRoots, ReadLevel, GiveUp
  <2> QED BY <2>1 DEF RedisTypeOK
<1> QED BY <1>1, <1>2, <1>3, <1>4, <1>5

LEMMA RedisTypeInit == RedisInit => RedisTypeOK
<1> SUFFICES ASSUME RedisInit PROVE RedisTypeOK
  OBVIOUS
<1>1. ReadsTypeOK
  BY RequestsAssumption DEF RedisInit, InitReads, ReadsTypeOK
<1>2. members \in [Tags -> [keys : SUBSET Keys, left : Nat]]
  BY DEF RedisInit, NoMembers
<1> QED BY <1>1, <1>2 DEF RedisInit, InitReads, RedisTypeOK

LEMMA RedisTypeStep == RedisTypeOK /\ [RedisNext]_redisVars => RedisTypeOK'
<1> SUFFICES ASSUME RedisTypeOK, [RedisNext]_redisVars PROVE RedisTypeOK'
  OBVIOUS
<1>1. CASE RedisPublish
  BY <1>1, CommitDoes DEF RedisTypeOK, RedisPublish
<1>2. CASE RedisReadStore
  <2>1. UNCHANGED <<served, commits, queue, cached, members, worker, redisTicks, crashes>>
    BY <1>2, RedisStoreDoes
  <2>2. PICK r \in Readers : (\E k \in Requests : ReadRoots(r, k)) \/ ReadLevel(r) \/ Becomes(r, Idle)
    BY <1>2, RedisStoreDoes
  <2>3. \E x : IsRedisReader(x) /\ Becomes(r, x)
    <3>1. ASSUME NEW k \in Requests, ReadRoots(r, k) PROVE \E x : IsRedisReader(x) /\ Becomes(r, x)
      BY <3>1, RedisReads, RootsDo DEF IsRedisReader
    <3>2. CASE ReadLevel(r)
      BY <3>2, RedisReads, LevelDoes, LastLevelDoes DEF IsRedisReader
    <3>3. IsRedisReader(Idle)
      BY DEF IsRedisReader
    <3> QED BY <2>2, <3>1, <3>2, <3>3
  <2>4. \A q \in Readers : IsRedisReader(reader'[q])
    BY <2>3 DEF Becomes, RedisTypeOK, IsRedisReader
  <2>5. reader' = [q \in Readers |-> reader'[q]]
    BY <1>2, RedisStoreDoes
  <2> QED BY <2>1, <2>4, <2>5 DEF RedisTypeOK, ReadsTypeOK, IsRedisReader
<1>3. CASE RedisTick
  BY <1>3, RedisTickDoes DEF Drops, RedisTypeOK, ReadsTypeOK, readVars
<1>4. ASSUME NEW r \in Readers, SetValue(r) PROVE RedisTypeOK'
  <2>1. PICK x \in Tagging, y \in Value :
           /\ UNCHANGED <<served, commits, queue, members, worker, redisTicks, crashes>>
           /\ reader' = [reader EXCEPT ![r] = x] /\ cached' = [cached EXCEPT ![reader[r].key] = y]
    BY <1>4, SetDoes
  <2>2. reader' \in [Readers -> {Idle} \union Reading \union Rendered \union Tagging]
    BY <2>1, RedisBecomes DEF IsRedisReader
  <2>3. cached' \in [Keys -> {NoValue} \union Value]
    BY <2>1 DEF RedisTypeOK
  <2> QED BY <2>1, <2>2, <2>3 DEF RedisTypeOK, ReadsTypeOK
<1>5. ASSUME NEW r \in Readers, AddToTags(r) PROVE RedisTypeOK'
  <2>1. /\ UNCHANGED <<served, commits, queue, worker>> /\ reader' = [reader EXCEPT ![r] = Idle]
        /\ members' \in [Tags -> [keys : SUBSET Keys, left : Nat]]
        /\ cached' \in [Keys -> {NoValue} \union Value]
    BY <1>5, AddDoes
  <2>2. reader' \in [Readers -> {Idle} \union Reading \union Rendered \union Tagging]
    BY <2>1, RedisBecomes DEF IsRedisReader
  <2> QED BY <2>1, <2>2 DEF RedisTypeOK, ReadsTypeOK
<1>6. ASSUME NEW r \in Readers, DieUntagged(r) PROVE RedisTypeOK'
  <2>1. /\ UNCHANGED <<served, commits, queue, members, worker>> /\ reader' = [reader EXCEPT ![r] = Idle]
        /\ cached' \in [Keys -> {NoValue} \union Value]
    BY <1>6, UntaggedKeeps
  <2>2. reader' \in [Readers -> {Idle} \union Reading \union Rendered \union Tagging]
    BY <2>1, RedisBecomes DEF IsRedisReader
  <2> QED BY <2>1, <2>2 DEF RedisTypeOK, ReadsTypeOK
<1>7. ASSUME NEW w \in Workers, NEW event \in queue, LookUp(w, event) PROVE RedisTypeOK'
  <2>1. /\ UNCHANGED <<served, commits, queue, cached, members>>
        /\ worker'[w] \in Deleting /\ \A v \in Workers \ {w} : worker'[v] = worker[v]
        /\ \A r \in Readers : IsRedisReader(reader'[r])
    BY <1>7, LookUpDoes
  <2>2. reader' = [r \in Readers |-> reader'[r]] /\ worker' = [v \in Workers |-> worker'[v]]
    BY <1>7 DEF LookUp, Overlap, RedisTypeOK
  <2>3. worker' \in [Workers -> {NoEvent} \union Deleting]
    BY <2>1, <2>2 DEF RedisTypeOK
  <2>4. reader' \in [Readers -> {Idle} \union Reading \union Rendered \union Tagging]
    BY <2>1, <2>2 DEF IsRedisReader
  <2> QED BY <2>1, <2>3, <2>4 DEF RedisTypeOK, ReadsTypeOK
<1>8. ASSUME NEW w \in Workers, Delete(w) PROVE RedisTypeOK'
  <2>1. /\ UNCHANGED <<served, commits, reader>>
        /\ queue' = queue \ {worker[w].event} /\ worker' = [worker EXCEPT ![w] = NoEvent]
        /\ cached' \in [Keys -> {NoValue} \union Value]
        /\ members' \in [Tags -> [keys : SUBSET Keys, left : Nat]]
    BY <1>8, DeleteDoes DEF Drops
  <2> QED BY <2>1 DEF RedisTypeOK, ReadsTypeOK
<1>9. ASSUME NEW w \in Workers, Die(w) PROVE RedisTypeOK'
  BY <1>9 DEF Die, RedisTypeOK, ReadsTypeOK, readVars
<1>10. CASE UNCHANGED redisVars
  BY <1>10 DEF redisVars, readVars, RedisTypeOK, ReadsTypeOK
<1> QED BY <1>1, <1>2, <1>3, <1>4, <1>5, <1>6, <1>7, <1>8, <1>9, <1>10 DEF RedisNext

-------------------------------------------------------------------------------
(***************************************************************************)
(* Redis: the inductive invariant.  An event that a worker has looked up   *)
(* still is in the queue, and yet will not delete the keys it did not      *)
(* find: those that were in none of its tags' sets, or not yet.  What is   *)
(* owed to a render is owed by the other events, and by those that         *)
(* overlapped.                                                             *)
(***************************************************************************)
OwedTo(events) == {y \in Entries : \E event \in events : y \in event.entries}

Deleters == {w \in Workers : worker[w].step = "delete"}
Looked == {worker[w].event : w \in Deleters}
Waiting == queue \ Looked
Overlooked(k) == {worker[w].event : w \in {v \in Deleters : k \notin worker[v].found}}
Awaited(k) == queue \ Overlooked(k)

\* x stands for a reader, q for the events that no worker has looked up.
Seen(s, q, x) ==
  /\ x.step = "read" => Reads(s, OwedTo(q \union x.late), x)
  /\ x.step = "rendered" => /\ x.tags = RenderTags(x.key, DOMAIN x.value)
                            /\ View(s, OwedTo(q \union x.late), x.key, x.value)

\* x stands for the value of k, q for the events that will find k if it is in their sets, m
\* for the sets, A for the readers that add k to its sets.
InSets(m, tags, k) == \A t \in tags : k \in m[t].keys

Held(s, q, k, x, m, A) ==
  x.left > 0 =>
    /\ x.tags = RenderTags(k, DOMAIN x.shown)
    /\ InSets(m, x.tags, k) => View(s, OwedTo(q \union x.late), k, x.shown)
    /\ \A y \in A : View(s, OwedTo(q \union x.late \union y.late), k, x.shown)
    /\ x.loose \/ InSets(m, x.tags, k) \/ \E y \in A : x.tags \subseteq y.tags

Adders(k) == {reader[r] : r \in Adding(k)}

SeenAll == \A r \in Readers : Seen(served, Waiting, reader[r])
HeldAll == \A k \in Keys : Held(served, Awaited(k), k, cached[k], members, Adders(k))
LookedCommitted == \A w \in Deleters : worker[w].event.n <= commits

RedisInv == RedisTypeOK /\ LookedCommitted /\ SeenAll /\ HeldAll

\* More events owe more.
LEMMA OwedMore ==
  ASSUME NEW X, NEW Y, X \subseteq Y
  PROVE  OwedTo(X) \subseteq OwedTo(Y)
BY DEF OwedTo

LEMMA OwedLess ==
  ASSUME NEW X, NEW Y, NEW event, X \subseteq Y \union {event}
  PROVE  OwedTo(X) \subseteq OwedTo(Y) \union event.entries
BY DEF OwedTo

\* A reader that takes no step is owed no less.
LEMMA SeenStays ==
  ASSUME NEW s, NEW s2, NEW q, NEW q2, NEW x, IsRedisReader(x), NEW y, Seen(s, q, x),
         y.step = x.step,
         x.step # "idle" => y.key = x.key /\ y.value = x.value /\ q \union x.late \subseteq q2 \union y.late,
         x.step = "read" => y.frontier = x.frontier /\ y.level = x.level,
         x.step = "rendered" => y.tags = x.tags,
         \A e \in Entries : s2[e] # s[e] => e \in OwedTo(q2)
  PROVE  Seen(s2, q2, y)
<1> DEFINE o == OwedTo(q \union x.late)
           o2 == OwedTo(q2 \union y.late)
<1>1. \A e \in Entries : s2[e] # s[e] => e \in o2
  BY OwedMore
<1>2. x.step # "idle" => o \subseteq o2
  BY OwedMore
<1>3. ASSUME x.step = "read" PROVE Reads(s2, o2, y)
  <2>1. x \in Reading /\ Reads(s, o, x)
    BY <1>3, RedisShapes DEF Seen
  <2> HIDE DEF o, o2
  <2> QED BY <1>1, <1>2, <1>3, <2>1, ReadsStays
<1>4. ASSUME x.step = "rendered" PROVE View(s2, o2, y.key, y.value)
  <2>1. x.key \in Keys /\ x.value \in Shown
    BY <1>4, RedisShapes, RequestsAssumption DEF Rendered
  <2>2. View(s, o, x.key, x.value)
    BY <1>4 DEF Seen
  <2> HIDE DEF o, o2
  <2> QED BY <1>1, <1>2, <1>4, <2>1, <2>2, ViewStays
<1>5. x.step = "rendered" => y.tags = RenderTags(y.key, DOMAIN y.value)
  BY DEF Seen
<1> QED BY <1>3, <1>4, <1>5 DEF Seen

\* A value stays as it is, is marked, or goes: it is owed no less.
LEMMA HeldStays ==
  ASSUME NEW s, NEW s2, NEW q, NEW q2, NEW k \in Keys, NEW x, NEW y, NEW m, NEW m2, NEW A, NEW A2,
         Held(s, q, k, x, m, A),
         y.left > 0 => /\ x.left > 0 /\ x.shown \in Shown
                       /\ y.shown = x.shown /\ y.tags = x.tags /\ y.late = x.late /\ (x.loose => y.loose)
                       /\ InSets(m2, x.tags, k) => InSets(m, x.tags, k)
                       /\ y.loose \/ InSets(m2, x.tags, k) \/ (~InSets(m, x.tags, k) /\ A \subseteq A2)
                       /\ q \subseteq q2,
         A2 \subseteq A,
         \A e \in Entries : s2[e] # s[e] => e \in OwedTo(q2)
  PROVE  Held(s2, q2, k, y, m2, A2)
<1> SUFFICES ASSUME y.left > 0
             PROVE  /\ y.tags = RenderTags(k, DOMAIN y.shown)
                    /\ InSets(m2, y.tags, k) => View(s2, OwedTo(q2 \union y.late), k, y.shown)
                    /\ \A z \in A2 : View(s2, OwedTo(q2 \union y.late \union z.late), k, y.shown)
                    /\ y.loose \/ InSets(m2, y.tags, k) \/ \E z \in A2 : y.tags \subseteq z.tags
  BY DEF Held
<1>1. y.tags = RenderTags(k, DOMAIN y.shown)
  BY DEF Held
<1>2. ASSUME NEW L, View(s, OwedTo(q \union L), k, x.shown)
      PROVE  View(s2, OwedTo(q2 \union L), k, x.shown)
  <2> DEFINE o == OwedTo(q \union L)
             o2 == OwedTo(q2 \union L)
  <2>1. o \subseteq o2 /\ \A e \in Entries : s2[e] # s[e] => e \in o2
    BY OwedMore
  <2>2. View(s, o, k, x.shown)
    BY <1>2
  <2> HIDE DEF o, o2
  <2>3. View(s2, o2, k, x.shown)
    BY <2>1, <2>2, ViewStays
  <2> QED BY <2>3 DEF o2
<1>3. ASSUME InSets(m2, y.tags, k) PROVE View(s2, OwedTo(q2 \union y.late), k, y.shown)
  <2>1. View(s, OwedTo(q \union x.late), k, x.shown)
    BY <1>3 DEF Held
  <2> QED BY <1>2, <2>1
<1>4. ASSUME NEW z \in A2 PROVE View(s2, OwedTo(q2 \union y.late \union z.late), k, y.shown)
  <2>1. View(s, OwedTo(q \union x.late \union z.late), k, x.shown)
    BY DEF Held
  <2>2. /\ q \union x.late \union z.late = q \union (x.late \union z.late)
        /\ q2 \union x.late \union z.late = q2 \union (x.late \union z.late)
    OBVIOUS
  <2> QED BY <1>2, <2>1, <2>2
<1>5. y.loose \/ InSets(m2, y.tags, k) \/ \E z \in A2 : y.tags \subseteq z.tags
  BY DEF Held
<1> QED BY <1>1, <1>3, <1>4, <1>5

\* The workers' look-ups of an event: keys in a set of its tags are found, and the readers
\* that are not done remember it.
LEMMA HeldLookUp ==
  ASSUME NEW s \in Served, NEW q, NEW q2, NEW k \in Keys, NEW x, NEW m, NEW A, NEW A2, NEW event \in Event,
         Held(s, q, k, x, m, A), x.left > 0 => x.shown \in Shown,
         q \subseteq q2 \union {event},
         q \subseteq q2 \/ \A t \in EventTags(event, s) : k \notin m[t].keys,
         \A z \in A2 : \E y \in A : z.late = y.late \union {event},
         \A y \in A : \E z \in A2 : z.tags = y.tags
  PROVE  Held(s, q2, k, x, m, A2)
<1> SUFFICES ASSUME x.left > 0
             PROVE  /\ x.tags = RenderTags(k, DOMAIN x.shown)
                    /\ InSets(m, x.tags, k) => View(s, OwedTo(q2 \union x.late), k, x.shown)
                    /\ \A z \in A2 : View(s, OwedTo(q2 \union x.late \union z.late), k, x.shown)
                    /\ x.loose \/ InSets(m, x.tags, k) \/ \E z \in A2 : x.tags \subseteq z.tags
  BY DEF Held
<1>1. x.tags = RenderTags(k, DOMAIN x.shown)
  BY DEF Held
<1>2. ASSUME NEW o, NEW o2, o \subseteq o2, View(s, o, k, x.shown) PROVE View(s, o2, k, x.shown)
  BY <1>2, ViewStays
<1>3. ASSUME InSets(m, x.tags, k) PROVE View(s, OwedTo(q2 \union x.late), k, x.shown)
  <2> DEFINE o == OwedTo(q \union x.late)
             o2 == OwedTo(q2 \union x.late)
  <2>1. View(s, o, k, x.shown)
    BY <1>3 DEF Held
  <2>2. CASE q \subseteq q2
    <3>1. o \subseteq o2
      BY <2>2, OwedMore
    <3> HIDE DEF o, o2
    <3>2. View(s, o2, k, x.shown)
      BY <1>2, <2>1, <3>1
    <3> QED BY <3>2 DEF o2
  <2>3. CASE \A t \in EventTags(event, s) : k \notin m[t].keys
    <3>1. RenderTags(k, DOMAIN x.shown) \intersect EventTags(event, s) = {}
      BY <1>1, <1>3, <2>3 DEF InSets
    <3>2. o \subseteq o2 \union event.entries
      BY OwedLess
    <3> HIDE DEF o, o2
    <3>3. View(s, o2, k, x.shown)
      BY <2>1, <3>1, <3>2, ViewSurvives
    <3> QED BY <3>3 DEF o2
  <2> QED BY <2>2, <2>3
<1>4. ASSUME NEW z \in A2 PROVE View(s, OwedTo(q2 \union x.late \union z.late), k, x.shown)
  <2>1. PICK y \in A : z.late = y.late \union {event}
    OBVIOUS
  <2>2. View(s, OwedTo(q \union x.late \union y.late), k, x.shown)
    BY DEF Held
  <2>3. OwedTo(q \union x.late \union y.late) \subseteq OwedTo(q2 \union x.late \union z.late)
    BY <2>1, OwedMore
  <2> QED BY <1>2, <2>2, <2>3
<1>5. x.loose \/ InSets(m, x.tags, k) \/ \E z \in A2 : x.tags \subseteq z.tags
  BY DEF Held
<1> QED BY <1>1, <1>3, <1>4, <1>5

\* A reader, old, is done with adding the key to its sets.
LEMMA HeldAdd ==
  ASSUME NEW s, NEW q, NEW k \in Keys, NEW x, NEW y, NEW m, NEW m2, NEW A, NEW A2, NEW old \in A,
         Held(s, q, k, x, m, A), y.left = x.left,
         x.left > 0 => /\ x.shown \in Shown /\ y.shown = x.shown /\ y.tags = x.tags /\ y.loose = x.loose
                       /\ y.late = x.late \union old.late,
         x.left > 0 => \A t \in x.tags : m2[t].keys = IF t \in old.tags THEN m[t].keys \union {k} ELSE m[t].keys,
         A2 \subseteq A, A \subseteq A2 \union {old}
  PROVE  Held(s, q, k, y, m2, A2)
<1> SUFFICES ASSUME x.left > 0
             PROVE  /\ y.tags = RenderTags(k, DOMAIN y.shown)
                    /\ InSets(m2, y.tags, k) => View(s, OwedTo(q \union y.late), k, y.shown)
                    /\ \A z \in A2 : View(s, OwedTo(q \union y.late \union z.late), k, y.shown)
                    /\ y.loose \/ InSets(m2, y.tags, k) \/ \E z \in A2 : y.tags \subseteq z.tags
  BY DEF Held
<1>1. y.tags = RenderTags(k, DOMAIN y.shown)
  BY DEF Held
<1>2. View(s, OwedTo(q \union y.late), k, y.shown)
  <2>1. View(s, OwedTo(q \union x.late \union old.late), k, x.shown)
    BY DEF Held
  <2>2. q \union x.late \union old.late = q \union y.late
    OBVIOUS
  <2> QED BY <2>1, <2>2
<1>3. ASSUME NEW z \in A2 PROVE View(s, OwedTo(q \union y.late \union z.late), k, y.shown)
  <2> DEFINE o == OwedTo(q \union y.late)
             o2 == OwedTo(q \union y.late \union z.late)
  <2>1. o \subseteq o2 /\ View(s, o, k, y.shown) /\ y.shown \in Shown
    BY <1>2, OwedMore
  <2> HIDE DEF o, o2
  <2>2. View(s, o2, k, y.shown)
    BY <2>1, ViewStays
  <2> QED BY <2>2 DEF o2
<1>4. y.loose \/ InSets(m2, y.tags, k) \/ \E z \in A2 : y.tags \subseteq z.tags
  <2>1. CASE x.loose
    BY <2>1
  <2>2. CASE InSets(m, x.tags, k) \/ x.tags \subseteq old.tags
    BY <2>2 DEF InSets
  <2>3. CASE \E z \in A2 : x.tags \subseteq z.tags
    BY <2>3
  <2>4. x.loose \/ InSets(m, x.tags, k) \/ \E z \in A : x.tags \subseteq z.tags
    BY DEF Held
  <2> QED BY <2>1, <2>2, <2>3, <2>4
<1> QED BY <1>1, <1>2, <1>3, <1>4

-------------------------------------------------------------------------------
(***************************************************************************)
(* Redis: the invariant is inductive.                                      *)
(***************************************************************************)
LEMMA AddersAre ==
  ASSUME NEW k
  PROVE  \A x : x \in Adders(k) <=> \E r \in Readers : x = reader[r] /\ reader[r].step = "tag" /\ reader[r].key = k
BY DEF Adders, Adding

LEMMA AddersAreNext ==
  ASSUME NEW k
  PROVE  \A x : x \in Adders(k)' <=> \E r \in Readers : x = reader'[r] /\ reader'[r].step = "tag" /\ reader'[r].key = k
BY DEF Adders, Adding

LEMMA AddersSame ==
  ASSUME \A r \in Readers : reader'[r] = reader[r] \/ (reader[r].step # "tag" /\ reader'[r].step # "tag")
  PROVE  \A k : Adders(k)' = Adders(k)
<1> SUFFICES ASSUME NEW k PROVE Adders(k)' = Adders(k)
  OBVIOUS
<1> QED BY AddersAre, AddersAreNext

\* A value stays in its sets, or is marked.
LEMMA SetsStay ==
  ASSUME RedisTypeOK, NEW K, Drops(K), NEW k \in Keys, RedisHit(k)
  PROVE  /\ InSets(members', cached[k].tags, k) => InSets(members, cached[k].tags, k)
         /\ k \in K \/ (InSets(members, cached[k].tags, k) => InSets(members', cached[k].tags, k))
<1>1. cached[k].tags \subseteq Tags
  BY ValueShapes DEF Value
<1>2. \A t \in cached[k].tags : \/ members'[t].keys = members[t].keys
                                \/ members'[t].keys = {} /\ members[t].keys \subseteq K
  BY <1>1 DEF Drops
<1> QED BY <1>2 DEF InSets

\* What a step leaves of the events that are awaited.
LEMMA AwaitsStay ==
  ASSUME UNCHANGED worker, queue \subseteq queue'
  PROVE  Waiting \subseteq Waiting' /\ \A k : Awaited(k) \subseteq Awaited(k)'
BY DEF Waiting, Looked, Awaited, Overlooked, Deleters

LEMMA LookedAre ==
  /\ \A event : event \in Looked <=> \E w \in Workers : worker[w].step = "delete" /\ worker[w].event = event
  /\ \A k, event : event \in Overlooked(k) <=>
       \E w \in Workers : worker[w].step = "delete" /\ worker[w].event = event /\ k \notin worker[w].found
BY DEF Looked, Overlooked, Deleters

LEMMA LookedAreNext ==
  /\ \A event : event \in Looked' <=> \E w \in Workers : worker'[w].step = "delete" /\ worker'[w].event = event
  /\ \A k, event : event \in Overlooked(k)' <=>
       \E w \in Workers : worker'[w].step = "delete" /\ worker'[w].event = event /\ k \notin worker'[w].found
BY DEF Looked, Overlooked, Deleters

\* Everything but the readers that render and the values stays, or is owed more.
LEMMA RedisPublishStep == ASSUME RedisInv, RedisPublish PROVE LookedCommitted' /\ SeenAll' /\ HeldAll'
<1>1. RedisTypeOK /\ LookedCommitted /\ SeenAll /\ HeldAll
  BY DEF RedisInv
<1>2. PICK event \in Event :
         /\ queue' = queue \union {event} /\ event \notin queue /\ commits' = event.n /\ commits' = commits + 1
         /\ \A e \in Entries \ event.entries : served'[e] = served[e]
         /\ UNCHANGED <<reader, cached, members, worker>>
  BY <1>1, CommitDoes DEF RedisPublish, RedisTypeOK
<1>3. commits \in Nat /\ \A w \in Deleters : worker[w].event.n \in Nat
  <2>1. \A w \in Deleters : worker[w].event \in Event
    BY <1>1, WorkerShapes DEF Deleters, Deleting
  <2> QED BY <1>1, <2>1, RequestsAssumption DEF RedisTypeOK, ReadsTypeOK, Event
<1>4. LookedCommitted'
  BY <1>1, <1>2, <1>3 DEF LookedCommitted, Deleters
<1>5. event \notin Looked /\ \A k : event \notin Overlooked(k)
  <2>1. event.n = commits + 1
    BY <1>2
  <2>2. ASSUME NEW w \in Deleters PROVE worker[w].event # event
    <3>1. worker[w].event.n <= commits
      BY <1>1 DEF LookedCommitted
    <3> QED BY <1>3, <2>1, <3>1
  <2> QED BY <2>2 DEF Looked, Overlooked
<1>6. /\ event \in Waiting' /\ \A k : event \in Awaited(k)'
      /\ Waiting \subseteq Waiting' /\ \A k : Awaited(k) \subseteq Awaited(k)'
  BY <1>2, <1>5 DEF Waiting, Looked, Awaited, Overlooked, Deleters
<1>7. ASSUME NEW X, event \in X PROVE \A e \in Entries : served'[e] # served[e] => e \in OwedTo(X)
  BY <1>2, <1>7 DEF OwedTo
<1>8. ASSUME NEW r \in Readers PROVE Seen(served', Waiting', reader'[r])
  <2>1. IsRedisReader(reader[r]) /\ Seen(served, Waiting, reader[r]) /\ reader'[r] = reader[r]
    BY <1>1, <1>2, RedisReaders DEF SeenAll
  <2>2. Waiting \union reader[r].late \subseteq Waiting' \union reader'[r].late
    BY <1>6, <2>1
  <2>3. \A e \in Entries : served'[e] # served[e] => e \in OwedTo(Waiting')
    BY <1>6, <1>7
  <2> QED BY <2>1, <2>2, <2>3, SeenStays
<1>9. ASSUME NEW k \in Keys PROVE Held(served', Awaited(k)', k, cached'[k], members', Adders(k)')
  <2>1. Held(served, Awaited(k), k, cached[k], members, Adders(k)) /\ Adders(k)' = Adders(k)
    BY <1>1, <1>2 DEF HeldAll, Adders, Adding
  <2>2. cached[k].left > 0 => cached[k].shown \in Shown
    BY <1>1, ValueShapes DEF RedisHit, Value
  <2>3. \A e \in Entries : served'[e] # served[e] => e \in OwedTo(Awaited(k)')
    BY <1>6, <1>7
  <2>4. Awaited(k) \subseteq Awaited(k)' /\ cached'[k] = cached[k] /\ members' = members
    BY <1>2, <1>6
  <2> QED BY <2>1, <2>2, <2>3, <2>4, HeldStays
<1> QED BY <1>4, <1>8, <1>9 DEF SeenAll, HeldAll

\* A step of one reader that leaves the values and the sets alone.
LEMMA RedisReaderStep ==
  ASSUME RedisInv, NEW r \in Readers, NEW x, Becomes(r, x), reader[r].step # "tag", x.step # "tag",
         Seen(served, Waiting, x), UNCHANGED <<served, commits, queue, cached, members, worker>>
  PROVE  LookedCommitted' /\ SeenAll' /\ HeldAll'
<1>1. /\ Looked' = Looked /\ Waiting' = Waiting /\ \A k : Awaited(k)' = Awaited(k)
      /\ LookedCommitted' = LookedCommitted
  BY DEF Waiting, Looked, Overlooked, Awaited, Deleters, LookedCommitted
<1>2. SeenAll'
  BY <1>1 DEF RedisInv, Becomes, SeenAll
<1>3. \A k : Adders(k)' = Adders(k)
  BY AddersSame DEF Becomes
<1> QED BY <1>1, <1>2, <1>3 DEF RedisInv, HeldAll

LEMMA RedisStoreStep == ASSUME RedisInv, RedisReadStore PROVE LookedCommitted' /\ SeenAll' /\ HeldAll'
<1>1. RedisTypeOK /\ SeenAll /\ served \in Served /\ ReadersRead
  BY RedisReads DEF RedisInv, RedisTypeOK, ReadsTypeOK, Served
<1>2. UNCHANGED <<served, commits, queue, cached, members, worker>>
  BY <1>1, RedisStoreDoes
<1>3. PICK r \in Readers : /\ reader[r].step # "tag"
                           /\ (\E k \in Requests : ReadRoots(r, k)) \/ ReadLevel(r) \/ Becomes(r, Idle)
  BY <1>1, RedisStoreDoes
<1>4. ASSUME NEW x, Becomes(r, x), x.step # "tag", Seen(served, Waiting, x)
      PROVE  LookedCommitted' /\ SeenAll' /\ HeldAll'
  BY <1>2, <1>3, <1>4, RedisReaderStep
<1>5. ASSUME NEW k \in Requests, ReadRoots(r, k) PROVE LookedCommitted' /\ SeenAll' /\ HeldAll'
  <2>1. PICK x \in Reading :
           /\ Becomes(r, x)
           /\ x.key = k /\ x.level = 0 /\ DOMAIN x.value = Roots(k, served)
           /\ \A e \in Roots(k, served) : x.value[e] = served[e]
           /\ x.frontier = Roots(k, served)
           /\ k.kind = "entry" => Roots(k, served) # {}
    BY <1>1, <1>5, RootsDo
  <2>2. Reads(served, OwedTo(Waiting \union x.late), x)
    <3>1. k \in Keys
      BY RequestsAssumption
    <3> QED BY <1>1, <2>1, <3>1, RootsSee
  <2>3. Seen(served, Waiting, x) /\ x.step # "tag"
    BY <2>2 DEF Seen, Reading
  <2> QED BY <1>4, <2>1, <2>3
<1>6. ASSUME ReadLevel(r) PROVE LookedCommitted' /\ SeenAll' /\ HeldAll'
  <2> DEFINE old == reader[r]
             o == OwedTo(Waiting \union old.late)
  <2>1. old \in Reading /\ old.step = "read"
    BY <1>1, <1>6, RedisReaders DEF ReadLevel
  <2>2. Reads(served, o, old)
    BY <1>1, <2>1 DEF SeenAll, Seen
  <2>3. CASE old.level < Include /\ old.frontier # {}
    <3>1. PICK x \in Reading :
             /\ Becomes(r, x)
             /\ x.key = old.key /\ x.late = old.late /\ x.level = old.level + 1
             /\ x.frontier = Fetched(served, old)
             /\ DOMAIN x.value = DOMAIN old.value \union x.frontier
             /\ \A e \in x.frontier : x.value[e] = served[e]
             /\ \A e \in DOMAIN old.value \ x.frontier : x.value[e] = old.value[e]
      BY <1>1, <1>6, <2>3, LevelDoes
    <3>2. Reads(served, o, x)
      <4> HIDE DEF o, old
      <4> QED BY <1>1, <2>1, <2>2, <2>3, <3>1, LevelSees
    <3>3. Seen(served, Waiting, x) /\ x.step # "tag"
      BY <3>1, <3>2 DEF Seen, Reading
    <3> QED BY <1>4, <3>1, <3>3
  <2>4. CASE ~(old.level < Include /\ old.frontier # {})
    <3>1. PICK x \in Rendered :
             /\ Becomes(r, x)
             /\ x.key = old.key /\ x.late = old.late /\ x.value = old.value
             /\ x.tags = RenderTags(x.key, DOMAIN x.value)
      BY <1>1, <1>6, <2>4, LastLevelDoes
    <3>2. View(served, o, old.key, old.value)
      <4> HIDE DEF o, old
      <4> QED BY <1>1, <2>1, <2>2, <2>4, LastLevelSees
    <3>3. Seen(served, Waiting, x) /\ x.step # "tag"
      BY <3>1, <3>2 DEF Seen, Rendered
    <3> QED BY <1>4, <3>1, <3>3
  <2> QED BY <2>3, <2>4
<1>7. ASSUME Becomes(r, Idle) PROVE LookedCommitted' /\ SeenAll' /\ HeldAll'
  <2>1. Seen(served, Waiting, Idle) /\ Idle.step # "tag"
    BY DEF Seen, Idle
  <2> QED BY <1>4, <1>7, <2>1
<1> QED BY <1>3, <1>5, <1>6, <1>7

\* No reader renders: those that are done with a key may go.
LEMMA RedisValueStep ==
  ASSUME RedisInv, NEW K, \A k \in Keys : Keeps(k, K), Drops(K), UNCHANGED <<served, commits, reader>>,
         \A k \in Keys : cached'[k] # NoValue => Awaited(k) \subseteq Awaited(k)'
  PROVE  HeldAll'
<1>1. RedisTypeOK /\ HeldAll
  BY DEF RedisInv
<1>2. ASSUME NEW k \in Keys PROVE Held(served', Awaited(k)', k, cached'[k], members', Adders(k)')
  <2>1. Held(served, Awaited(k), k, cached[k], members, Adders(k)) /\ Adders(k)' = Adders(k)
    BY <1>1, AddersSame DEF HeldAll
  <2>2. CASE cached'[k] = NoValue
    BY <2>2 DEF Held, NoValue
  <2>3. CASE cached'[k] # NoValue
    <3>1. /\ RedisHit(k) /\ cached'[k].shown = cached[k].shown /\ cached'[k].tags = cached[k].tags
          /\ cached'[k].late = cached[k].late /\ cached'[k].loose = (k \in K \/ cached[k].loose)
      BY <2>3 DEF Keeps
    <3>2. cached[k].left > 0 /\ cached[k].shown \in Shown
      BY <1>1, <3>1, ValueShapes DEF RedisHit, Value
    <3>3. /\ InSets(members', cached[k].tags, k) => InSets(members, cached[k].tags, k)
          /\ k \in K \/ (InSets(members, cached[k].tags, k) => InSets(members', cached[k].tags, k))
      BY <1>1, <3>1, SetsStay
    <3>4. /\ cached[k].loose => cached'[k].loose
          /\ \/ cached'[k].loose \/ InSets(members', cached[k].tags, k)
             \/ ~InSets(members, cached[k].tags, k) /\ Adders(k) \subseteq Adders(k)'
      BY <2>1, <3>1, <3>3
    <3>5. Awaited(k) \subseteq Awaited(k)' /\ served' = served /\ Adders(k)' \subseteq Adders(k)
      BY <2>1, <2>3
    <3> QED BY <2>1, <3>1, <3>2, <3>3, <3>4, <3>5, HeldStays
  <2> QED BY <2>2, <2>3
<1> QED BY <1>2 DEF HeldAll

\* No reader takes a step, and no fewer events wait.
LEMMA RedisSeenStep ==
  ASSUME RedisInv, UNCHANGED <<served, reader>>, Waiting \subseteq Waiting'
  PROVE  SeenAll'
<1> SUFFICES ASSUME NEW r \in Readers PROVE Seen(served', Waiting', reader'[r])
  BY DEF SeenAll
<1>1. IsRedisReader(reader[r]) /\ Seen(served, Waiting, reader[r]) /\ reader'[r] = reader[r]
  BY RedisReaders DEF RedisInv, SeenAll
<1>2. Waiting \union reader[r].late \subseteq Waiting' \union reader'[r].late
  BY <1>1
<1> QED BY <1>1, <1>2, SeenStays

LEMMA RedisTickStep == ASSUME RedisInv, RedisTick PROVE LookedCommitted' /\ SeenAll' /\ HeldAll'
<1>1. RedisTypeOK /\ LookedCommitted
  BY DEF RedisInv
<1>2. PICK K : /\ UNCHANGED <<readVars, worker>>
               /\ \A k \in Keys : Keeps(k, K)
               /\ Drops(K)
  BY <1>1, RedisTickDoes
<1>3. Waiting \subseteq Waiting' /\ \A k : Awaited(k) \subseteq Awaited(k)'
  BY <1>2, AwaitsStay DEF readVars
<1>4. LookedCommitted'
  BY <1>1, <1>2 DEF LookedCommitted, Deleters, readVars
<1> QED BY <1>2, <1>3, <1>4, RedisSeenStep, RedisValueStep DEF readVars

LEMMA DeleteStep == ASSUME RedisInv, NEW w \in Workers, Delete(w) PROVE LookedCommitted' /\ SeenAll' /\ HeldAll'
<1>1. RedisTypeOK /\ LookedCommitted
  BY DEF RedisInv
<1>2. PICK K : /\ UNCHANGED <<served, commits, reader>>
               /\ worker[w] \in Deleting /\ worker[w].step = "delete" /\ queue' = queue \ {worker[w].event}
               /\ worker' = [worker EXCEPT ![w] = NoEvent]
               /\ \A k \in Keys : Keeps(k, K)
               /\ \A k \in worker[w].found : cached'[k] = NoValue
               /\ Drops(K)
  BY <1>1, DeleteDoes
<1>3. \A v \in Workers : worker'[v] = IF v = w THEN NoEvent ELSE worker[v]
  BY <1>1, <1>2 DEF RedisTypeOK
<1>4. \A v \in Workers : worker'[v].step = "delete" => v # w /\ worker'[v] = worker[v]
  BY <1>3 DEF NoEvent
<1>5. LookedCommitted'
  BY <1>1, <1>2, <1>4 DEF LookedCommitted, Deleters
<1>6. Waiting \subseteq Waiting'
  <2>1. worker[w].event \in Looked
    BY <1>2, LookedAre
  <2>2. Looked' \subseteq Looked
    BY <1>4, LookedAre, LookedAreNext
  <2> QED BY <1>2, <2>1, <2>2 DEF Waiting
<1>7. ASSUME NEW k \in Keys, cached'[k] # NoValue PROVE Awaited(k) \subseteq Awaited(k)'
  <2>1. worker[w].event \in Overlooked(k)
    BY <1>2, <1>7, LookedAre
  <2>2. Overlooked(k)' \subseteq Overlooked(k)
    BY <1>4, LookedAre, LookedAreNext
  <2> QED BY <1>2, <2>1, <2>2 DEF Awaited
<1> QED BY <1>2, <1>5, <1>6, <1>7, RedisSeenStep, RedisValueStep

LEMMA DieStep == ASSUME RedisInv, NEW w \in Workers, Die(w) PROVE LookedCommitted' /\ SeenAll' /\ HeldAll'
<1>1. RedisTypeOK /\ LookedCommitted
  BY DEF RedisInv
<1>2. UNCHANGED <<readVars, cached, members>> /\ worker' = [worker EXCEPT ![w] = NoEvent]
  BY DEF Die
<1>3. \A v \in Workers : worker'[v] = IF v = w THEN NoEvent ELSE worker[v]
  BY <1>1, <1>2 DEF RedisTypeOK
<1>4. \A v \in Workers : worker'[v].step = "delete" => v # w /\ worker'[v] = worker[v]
  BY <1>3 DEF NoEvent
<1>5. LookedCommitted'
  BY <1>1, <1>2, <1>4 DEF LookedCommitted, Deleters, readVars
<1>6. Looked' \subseteq Looked /\ \A k : Overlooked(k)' \subseteq Overlooked(k)
  BY <1>4, LookedAre, LookedAreNext
<1>7. Waiting \subseteq Waiting' /\ \A k : Awaited(k) \subseteq Awaited(k)'
  BY <1>2, <1>6 DEF Waiting, Awaited, readVars
<1> DEFINE K == {}
<1>8. Drops(K) /\ \A k \in Keys : Keeps(k, K)
  <2>1. \A k \in Keys : cached[k] = NoValue \/ (RedisHit(k) /\ cached[k] \in Value /\ cached[k].loose \in BOOLEAN)
    BY <1>1, ValueShapes DEF RedisHit, Value
  <2>2. \A k \in Keys : Keeps(k, K)
    BY <1>2, <2>1 DEF Keeps
  <2>3. Drops(K)
    BY <1>1, <1>2 DEF Drops, RedisTypeOK
  <2> QED BY <2>2, <2>3
<1> HIDE DEF K
<1> QED BY <1>2, <1>5, <1>7, <1>8, RedisSeenStep, RedisValueStep DEF readVars

\* The steps of a reader that stores.
LEMMA SetStep == ASSUME RedisInv, NEW r \in Readers, SetValue(r) PROVE LookedCommitted' /\ SeenAll' /\ HeldAll'
<1> DEFINE key == reader[r].key
<1>1. RedisTypeOK /\ SeenAll /\ HeldAll
  BY DEF RedisInv
<1>2. PICK x \in Tagging, y \in Value :
         /\ UNCHANGED <<served, commits, queue, members, worker>>
         /\ reader[r] \in Rendered /\ reader[r].step = "rendered"
         /\ reader' = [reader EXCEPT ![r] = x] /\ cached' = [cached EXCEPT ![key] = y]
         /\ x.key = key /\ x.tags = reader[r].tags /\ x.late = reader[r].late
         /\ y.shown = reader[r].value /\ y.tags = reader[r].tags /\ y.late = reader[r].late
  BY <1>1, SetDoes
<1>3. /\ LookedCommitted' /\ Waiting' = Waiting /\ \A k : Awaited(k)' = Awaited(k)
      /\ \A k : Waiting \subseteq Awaited(k)
  BY <1>2 DEF RedisInv, Waiting, Looked, Overlooked, Awaited, Deleters, LookedCommitted
<1>4. \A q \in Readers : reader'[q] = IF q = r THEN x ELSE reader[q]
  BY <1>1, <1>2 DEF RedisTypeOK
<1>5. x.step = "tag" /\ key \in Requests
  BY <1>2 DEF Tagging, Rendered
<1>6. SeenAll'
  BY <1>1, <1>2, <1>3, <1>4, <1>5 DEF SeenAll, Seen
<1>7. /\ reader[r].tags = RenderTags(key, DOMAIN reader[r].value)
      /\ View(served, OwedTo(Waiting \union reader[r].late), key, reader[r].value)
  BY <1>1, <1>2 DEF SeenAll, Seen
<1>8. key \in Keys /\ reader[r].value \in Shown
  BY <1>2, <1>5, RequestsAssumption DEF Rendered
<1>9. ASSUME NEW L, Waiting \union reader[r].late \subseteq L PROVE View(served, OwedTo(L), key, reader[r].value)
  <2> DEFINE o == OwedTo(Waiting \union reader[r].late)
             o2 == OwedTo(L)
  <2>1. o \subseteq o2 /\ View(served, o, key, reader[r].value)
    BY <1>7, <1>9, OwedMore
  <2> HIDE DEF o, o2
  <2>2. View(served, o2, key, reader[r].value)
    BY <1>8, <2>1, ViewStays
  <2> QED BY <2>2 DEF o2
<1>10. Held(served, Awaited(key), key, y, members, Adders(key)')
  <2> HIDE DEF key
  <2>1. View(served, OwedTo(Awaited(key) \union y.late), key, y.shown)
    <3>1. Waiting \union reader[r].late \subseteq Awaited(key) \union y.late
      BY <1>2, <1>3
    <3> QED BY <1>2, <1>9, <3>1
  <2>2. \A z : View(served, OwedTo(Awaited(key) \union y.late \union z.late), key, y.shown)
    <3>1. \A z : Waiting \union reader[r].late \subseteq Awaited(key) \union y.late \union z.late
      BY <1>2, <1>3
    <3> QED BY <1>2, <1>9, <3>1
  <2>3. y.tags = RenderTags(key, DOMAIN y.shown)
    BY <1>2, <1>7
  <2>4. x \in Adders(key)' /\ y.tags \subseteq x.tags
    <3>1. x = reader'[r] /\ reader'[r].step = "tag" /\ reader'[r].key = reader[r].key
      BY <1>2, <1>4, <1>5 DEF key
    <3>2. \E q \in Readers : x = reader'[q] /\ reader'[q].step = "tag" /\ reader'[q].key = reader[r].key
      BY <3>1
    <3> QED BY <1>2, <3>2, AddersAreNext DEF key
  <2> QED BY <2>1, <2>2, <2>3, <2>4 DEF Held
<1>11. ASSUME NEW k \in Keys PROVE Held(served', Awaited(k)', k, cached'[k], members', Adders(k)')
  <2>1. CASE k = key
    <3>1. cached'[k] = y
      BY <1>1, <1>2, <2>1 DEF RedisTypeOK
    <3> QED BY <1>2, <1>3, <1>10, <2>1, <3>1
  <2>2. CASE k # key
    <3>1. cached'[k] = cached[k]
      BY <1>1, <1>2, <2>2 DEF RedisTypeOK
    <3>2. Adders(k)' = Adders(k)
      <4>1. reader[r].step # "tag" /\ reader'[r].key # k /\ \A q \in Readers : q # r => reader'[q] = reader[q]
        BY <1>2, <1>4, <2>2
      <4>2. \A z : z \in Adders(k)' <=> z \in Adders(k)
        BY <4>1, AddersAre, AddersAreNext
      <4> QED BY <4>2
    <3>3. Held(served, Awaited(k), k, cached[k], members, Adders(k))
      BY <1>1 DEF HeldAll
    <3>4. served' = served /\ members' = members
      BY <1>2
    <3>5. Awaited(k)' = Awaited(k)
      BY <1>3
    <3> QED BY <3>1, <3>2, <3>3, <3>4, <3>5
  <2> QED BY <2>1, <2>2
<1> QED BY <1>3, <1>6, <1>11 DEF HeldAll

\* A reader is done with storing: the others see what they saw.
LEMMA DoneSeen ==
  ASSUME RedisInv, NEW r \in Readers, reader' = [reader EXCEPT ![r] = Idle], UNCHANGED <<served, commits, queue, worker>>
  PROVE  /\ LookedCommitted' /\ SeenAll'
         /\ \A k : Awaited(k)' = Awaited(k)
         /\ \A q \in Readers : reader'[q] = IF q = r THEN Idle ELSE reader[q]
<1>1. \A q \in Readers : reader'[q] = IF q = r THEN Idle ELSE reader[q]
  BY DEF RedisInv, RedisTypeOK
<1>2. /\ LookedCommitted' /\ Waiting' = Waiting /\ \A k : Awaited(k)' = Awaited(k)
  BY DEF RedisInv, Waiting, Looked, Overlooked, Awaited, Deleters, LookedCommitted
<1>3. SeenAll'
  BY <1>1, <1>2 DEF RedisInv, SeenAll, Seen, Idle
<1> QED BY <1>1, <1>2, <1>3

LEMMA AddStep == ASSUME RedisInv, NEW r \in Readers, AddToTags(r) PROVE LookedCommitted' /\ SeenAll' /\ HeldAll'
<1> DEFINE old == reader[r]
<1>1. RedisTypeOK /\ HeldAll
  BY DEF RedisInv
<1>2. /\ UNCHANGED <<served, commits, queue, worker>>
      /\ old \in Tagging /\ old.step = "tag" /\ old.key \in Keys /\ reader' = [reader EXCEPT ![r] = Idle]
      /\ \A t \in Tags : members'[t].keys = IF t \in old.tags THEN members[t].keys \union {old.key}
                                                              ELSE members[t].keys
      /\ \A k \in Keys \ {old.key} : cached'[k] = cached[k]
      /\ cached'[old.key].left = cached[old.key].left
      /\ RedisHit(old.key) => /\ cached'[old.key].shown = cached[old.key].shown
                              /\ cached'[old.key].tags = cached[old.key].tags
                              /\ cached'[old.key].loose = cached[old.key].loose
                              /\ cached'[old.key].late = cached[old.key].late \union old.late
  BY <1>1, AddDoes
<1>3. /\ LookedCommitted' /\ SeenAll' /\ \A k : Awaited(k)' = Awaited(k)
      /\ \A q \in Readers : reader'[q] = IF q = r THEN Idle ELSE reader[q]
  BY <1>2, DoneSeen
<1>4. ASSUME NEW k \in Keys PROVE Held(served', Awaited(k)', k, cached'[k], members', Adders(k)')
  <2>1. Held(served, Awaited(k), k, cached[k], members, Adders(k))
    BY <1>1 DEF HeldAll
  <2>2. cached[k].left > 0 => cached[k].shown \in Shown /\ cached[k].tags \subseteq Tags
    BY <1>1, ValueShapes DEF RedisHit, Value
  <2>3. Adders(k)' \subseteq Adders(k) /\ Adders(k) \subseteq Adders(k)' \union {old}
    BY <1>3, AddersAre, AddersAreNext DEF Idle
  <2>4. CASE k = old.key
    <3>1. old \in Adders(k)
      BY <1>2, <2>4, AddersAre
    <3>2. cached[k].left > 0 => \A t \in cached[k].tags :
             members'[t].keys = IF t \in old.tags THEN members[t].keys \union {k} ELSE members[t].keys
      BY <1>2, <2>2, <2>4
    <3>3. /\ cached'[k].left = cached[k].left
          /\ cached[k].left > 0 =>
               /\ cached'[k].shown = cached[k].shown /\ cached'[k].tags = cached[k].tags
               /\ cached'[k].loose = cached[k].loose /\ cached'[k].late = cached[k].late \union old.late
      BY <1>2, <2>4 DEF RedisHit
    <3>4. Held(served, Awaited(k), k, cached'[k], members', Adders(k)')
      <4> HIDE DEF old
      <4> QED BY <2>1, <2>2, <2>3, <3>1, <3>2, <3>3, HeldAdd
    <3> QED BY <1>2, <1>3, <3>4
  <2>5. CASE k # old.key
    <3>1. cached'[k] = cached[k] /\ Adders(k)' = Adders(k)
      <4>1. old \notin Adders(k)
        BY <2>5, AddersAre
      <4> QED BY <1>2, <2>3, <2>5, <4>1
    <3>2. \A t \in Tags : k \in members'[t].keys <=> k \in members[t].keys
      BY <1>2, <2>5
    <3>3. cached[k].left > 0 => (InSets(members', cached[k].tags, k) <=> InSets(members, cached[k].tags, k))
      BY <2>2, <3>2 DEF InSets
    <3>4. served' = served /\ Awaited(k)' = Awaited(k)
      BY <1>2, <1>3
    <3> QED BY <2>1, <2>2, <3>1, <3>3, <3>4, HeldStays
  <2> QED BY <2>4, <2>5
<1> QED BY <1>3, <1>4 DEF HeldAll

LEMMA UntaggedStep == ASSUME RedisInv, NEW r \in Readers, DieUntagged(r) PROVE LookedCommitted' /\ SeenAll' /\ HeldAll'
<1> DEFINE key == reader[r].key
<1>1. RedisTypeOK /\ HeldAll
  BY DEF RedisInv
<1>2. PICK K : /\ UNCHANGED <<served, commits, queue, members, worker>>
               /\ reader[r].step = "tag" /\ reader' = [reader EXCEPT ![r] = Idle]
               /\ \A k \in Keys : Keeps(k, K)
               /\ RedisHit(key) /\ ~Tagged(key) => key \in K
  BY <1>1, UntaggedKeeps
<1>3. /\ LookedCommitted' /\ SeenAll' /\ \A k : Awaited(k)' = Awaited(k)
      /\ \A q \in Readers : reader'[q] = IF q = r THEN Idle ELSE reader[q]
  BY <1>2, DoneSeen
<1>4. ASSUME NEW k \in Keys PROVE Held(served', Awaited(k)', k, cached'[k], members', Adders(k)')
  <2>1. Held(served, Awaited(k), k, cached[k], members, Adders(k))
    BY <1>1 DEF HeldAll
  <2>2. CASE cached'[k] = NoValue
    BY <2>2 DEF Held, NoValue
  <2>3. CASE cached'[k] # NoValue
    <3>1. /\ RedisHit(k) /\ cached'[k].shown = cached[k].shown /\ cached'[k].tags = cached[k].tags
          /\ cached'[k].late = cached[k].late /\ cached'[k].loose = (k \in K \/ cached[k].loose)
      BY <1>2, <2>3 DEF Keeps
    <3>2. cached[k].left > 0 /\ cached[k].shown \in Shown
      BY <1>1, <3>1, ValueShapes DEF RedisHit, Value
    <3>3. Adders(k)' \subseteq Adders(k) /\ (k # key => Adders(k) \subseteq Adders(k)')
      BY <1>3, AddersAre, AddersAreNext DEF Idle
    <3>4. k \in K \/ InSets(members, cached[k].tags, k) \/ k # key
      BY <1>2, <3>1 DEF Tagged, InSets
    <3>5. /\ cached[k].loose => cached'[k].loose
          /\ \/ cached'[k].loose \/ InSets(members', cached[k].tags, k)
             \/ ~InSets(members, cached[k].tags, k) /\ Adders(k) \subseteq Adders(k)'
      BY <1>2, <3>1, <3>3, <3>4
    <3>6. Awaited(k) \subseteq Awaited(k)' /\ served' = served /\ members' = members
      BY <1>2, <1>3
    <3> QED BY <2>1, <3>1, <3>2, <3>3, <3>5, <3>6, HeldStays
  <2> QED BY <2>2, <2>3
<1> QED BY <1>3, <1>4 DEF HeldAll

\* A worker looks an event up: it remembers the keys that it found, and the readers the event.
LEMMA LookUpStep ==
  ASSUME RedisInv, NEW w \in Workers, NEW event \in queue, LookUp(w, event)
  PROVE  LookedCommitted' /\ SeenAll' /\ HeldAll'
<1>1. RedisTypeOK /\ LookedCommitted /\ SeenAll /\ HeldAll
  BY DEF RedisInv
<1>2. /\ UNCHANGED <<served, commits, queue, cached, members>>
      /\ event \in Event /\ worker[w].step = "idle"
      /\ \A v \in Workers \ {w} : worker'[v] = worker[v]
      /\ worker'[w] \in Deleting /\ worker'[w].event = event
      /\ worker'[w].found = UNION {members[t].keys : t \in EventTags(event, served)}
      /\ \A r \in Readers :
           /\ reader'[r].step = reader[r].step
           /\ reader[r].step = "idle" => reader'[r] = reader[r]
           /\ reader[r].step # "idle" =>
                /\ reader'[r].key = reader[r].key /\ reader'[r].value = reader[r].value
                /\ reader'[r].late = reader[r].late \union {event}
           /\ reader[r].step = "read" =>
                reader'[r].frontier = reader[r].frontier /\ reader'[r].level = reader[r].level
           /\ reader[r].step \in {"rendered", "tag"} => reader'[r].tags = reader[r].tags
  BY <1>1, LookUpDoes
<1>3. \A v \in Workers : worker'[v].step = "delete" =>
         \/ v = w /\ worker'[v].event = event
         \/ worker'[v] = worker[v]
  BY <1>2
<1>4. LookedCommitted'
  <2>1. event.n <= commits
    BY <1>1 DEF RedisTypeOK, ReadsTypeOK
  <2>2. commits' = commits
    BY <1>2
  <2> QED BY <1>1, <1>3, <2>1, <2>2 DEF LookedCommitted, Deleters
<1>5. Waiting \subseteq Waiting' \union {event}
  <2>1. Looked' \subseteq Looked \union {event}
    BY <1>3, LookedAre, LookedAreNext
  <2> QED BY <1>2, <2>1 DEF Waiting
<1>6. \A k : Awaited(k) \subseteq Awaited(k)' \union {event}
  <2>1. \A k : Overlooked(k)' \subseteq Overlooked(k) \union {event}
    BY <1>3, LookedAre, LookedAreNext
  <2> QED BY <1>2, <2>1 DEF Awaited
<1>7. ASSUME NEW k, k \in worker'[w].found PROVE Awaited(k) \subseteq Awaited(k)'
  <2>1. Overlooked(k)' \subseteq Overlooked(k)
    BY <1>2, <1>7, LookedAre, LookedAreNext
  <2> QED BY <1>2, <2>1 DEF Awaited
<1>8. ASSUME NEW r \in Readers PROVE Seen(served', Waiting', reader'[r])
  <2>1. IsRedisReader(reader[r]) /\ Seen(served, Waiting, reader[r]) /\ served' = served
    BY <1>1, <1>2, RedisReaders DEF SeenAll
  <2>2. reader[r].step # "idle" => Waiting \union reader[r].late \subseteq Waiting' \union reader'[r].late
    BY <1>2, <1>5
  <2>3. /\ reader'[r].step = reader[r].step
        /\ reader[r].step # "idle" => reader'[r].key = reader[r].key /\ reader'[r].value = reader[r].value
        /\ reader[r].step = "read" =>
             reader'[r].frontier = reader[r].frontier /\ reader'[r].level = reader[r].level
        /\ reader[r].step = "rendered" => reader'[r].tags = reader[r].tags
    BY <1>2
  <2> QED BY <2>1, <2>2, <2>3, SeenStays
<1>9. ASSUME NEW k \in Keys PROVE Held(served', Awaited(k)', k, cached'[k], members', Adders(k)')
  <2>1. Held(served, Awaited(k), k, cached[k], members, Adders(k)) /\ served \in Served
    BY <1>1 DEF HeldAll, RedisTypeOK, ReadsTypeOK, Served
  <2>2. cached[k].left > 0 => cached[k].shown \in Shown
    BY <1>1, ValueShapes DEF RedisHit, Value
  <2>3. Awaited(k) \subseteq Awaited(k)' \/ \A t \in EventTags(event, served) : k \notin members[t].keys
    BY <1>2, <1>7
  <2>4. \A z \in Adders(k)' : \E y \in Adders(k) : z.late = y.late \union {event}
    <3> SUFFICES ASSUME NEW z \in Adders(k)' PROVE \E y \in Adders(k) : z.late = y.late \union {event}
      OBVIOUS
    <3>1. PICK r \in Readers : z = reader'[r] /\ reader'[r].step = "tag" /\ reader'[r].key = k
      BY AddersAreNext
    <3>2. reader[r].step = "tag" /\ reader[r].key = k /\ reader'[r].late = reader[r].late \union {event}
      BY <1>2, <3>1
    <3>3. reader[r] \in Adders(k)
      BY <3>2, AddersAre
    <3> QED BY <3>1, <3>2, <3>3
  <2>5. \A y \in Adders(k) : \E z \in Adders(k)' : z.tags = y.tags
    <3> SUFFICES ASSUME NEW y \in Adders(k) PROVE \E z \in Adders(k)' : z.tags = y.tags
      OBVIOUS
    <3>1. PICK r \in Readers : y = reader[r] /\ reader[r].step = "tag" /\ reader[r].key = k
      BY AddersAre
    <3>2. reader'[r].step = "tag" /\ reader'[r].key = k /\ reader'[r].tags = reader[r].tags
      BY <1>2, <3>1
    <3>3. reader'[r] \in Adders(k)'
      BY <3>2, AddersAreNext
    <3> QED BY <3>1, <3>2, <3>3
  <2>6. Held(served, Awaited(k)', k, cached[k], members, Adders(k)')
    BY <1>2, <1>6, <2>1, <2>2, <2>3, <2>4, <2>5, HeldLookUp
  <2>7. served' = served /\ cached' = cached /\ members' = members
    BY <1>2
  <2> QED BY <2>6, <2>7
<1> QED BY <1>4, <1>8, <1>9 DEF SeenAll, HeldAll

LEMMA RedisInvInit == RedisInit => RedisInv
<1> SUFFICES ASSUME RedisInit PROVE RedisInv
  OBVIOUS
<1>1. RedisTypeOK
  BY RedisTypeInit
<1>2. LookedCommitted
  BY DEF RedisInit, NoEvent, LookedCommitted, Deleters
<1>3. SeenAll
  BY DEF RedisInit, InitReads, Idle, SeenAll, Seen
<1>4. HeldAll
  BY DEF RedisInit, NoValue, HeldAll, Held
<1> QED BY <1>1, <1>2, <1>3, <1>4 DEF RedisInv

LEMMA RedisInvStep == RedisInv /\ [RedisNext]_redisVars => RedisInv'
<1> SUFFICES ASSUME RedisInv, [RedisNext]_redisVars PROVE RedisInv'
  OBVIOUS
<1>1. RedisTypeOK'
  BY RedisTypeStep DEF RedisInv
<1> SUFFICES LookedCommitted' /\ SeenAll' /\ HeldAll'
  BY <1>1 DEF RedisInv
<1>2. CASE UNCHANGED redisVars
  <2>1. /\ UNCHANGED <<served, commits, queue, reader, cached, members, worker>>
    BY <1>2 DEF redisVars, readVars
  <2>2. LookedCommitted' = LookedCommitted /\ SeenAll' = SeenAll /\ HeldAll' = HeldAll
    BY <2>1 DEF LookedCommitted, SeenAll, HeldAll, Deleters, Looked, Waiting, Overlooked, Awaited,
                Adders, Adding
  <2> QED BY <2>2 DEF RedisInv
<1>3. CASE RedisPublish
  BY <1>3, RedisPublishStep
<1>4. CASE RedisReadStore
  BY <1>4, RedisStoreStep
<1>5. CASE RedisTick
  BY <1>5, RedisTickStep
<1>6. ASSUME NEW r \in Readers, SetValue(r) \/ AddToTags(r) \/ DieUntagged(r)
      PROVE  LookedCommitted' /\ SeenAll' /\ HeldAll'
  BY <1>6, SetStep, AddStep, UntaggedStep
<1>7. ASSUME NEW w \in Workers, (\E event \in queue : LookUp(w, event)) \/ Delete(w) \/ Die(w)
      PROVE  LookedCommitted' /\ SeenAll' /\ HeldAll'
  BY <1>7, LookUpStep, DeleteStep, DieStep
<1> QED BY <1>2, <1>3, <1>4, <1>5, <1>6, <1>7 DEF RedisNext

LEMMA RedisInvariance == RedisSpec => []RedisInv
<1> QED BY RedisInvInit, RedisInvStep, PTL DEF RedisSpec

-------------------------------------------------------------------------------
(***************************************************************************)
(* Redis: why a hit may be out of date.                                    *)
(***************************************************************************)
\* What is owed to a value is owed by an event in the queue, or by one that overlapped its
\* rendering and storing.
LEMMA HeldOwes ==
  ASSUME RedisInv, NEW k \in Keys, RedisHit(k), ~cached[k].loose
  PROVE  \E L : L \subseteq queue \union Overlapped(k) /\ View(served, OwedTo(L), k, cached[k].shown)
<1>1. /\ InSets(members, cached[k].tags, k) => View(served, OwedTo(Awaited(k) \union cached[k].late), k, cached[k].shown)
      /\ \A y \in Adders(k) : View(served, OwedTo(Awaited(k) \union cached[k].late \union y.late), k, cached[k].shown)
      /\ InSets(members, cached[k].tags, k) \/ \E y \in Adders(k) : cached[k].tags \subseteq y.tags
  BY DEF RedisInv, HeldAll, Held, RedisHit
<1>2. Awaited(k) \subseteq queue /\ cached[k].late \subseteq Overlapped(k)
  BY DEF Awaited, Overlapped
<1>3. CASE InSets(members, cached[k].tags, k)
  BY <1>1, <1>2, <1>3
<1>4. CASE \E y \in Adders(k) : cached[k].tags \subseteq y.tags
  <2>1. PICK y \in Adders(k) : cached[k].tags \subseteq y.tags
    BY <1>4
  <2>2. y.late \subseteq Overlapped(k)
    BY DEF Adders, Overlapped
  <2>3. Awaited(k) \union cached[k].late \union y.late \subseteq queue \union Overlapped(k)
    BY <1>2, <2>2
  <2> QED BY <1>1, <2>3
<1> QED BY <1>1, <1>3, <1>4

LEMMA RedisInvImpliesCause == RedisInv => RedisStaleHasCause
<1> SUFFICES ASSUME RedisInv, NEW k \in Keys, RedisHit(k), cached[k].shown # Render(k, served),
                    ~cached[k].loose
             PROVE  Touches(queue \union Overlapped(k), Concerned(k, cached[k].shown))
  BY DEF RedisStaleHasCause
<1> DEFINE value == cached[k].shown
<1>1. RedisTypeOK /\ served \in Served
  BY DEF RedisInv, RedisTypeOK, ReadsTypeOK, Served
<1>2. value \in Shown
  BY <1>1, ValueShapes DEF Value
<1>3. PICK L : L \subseteq queue \union Overlapped(k) /\ View(served, OwedTo(L), k, value)
  BY HeldOwes
<1>4. PICK y \in OwedTo(L) : y \in DOMAIN value \union DOMAIN Render(k, served)
  <2> DEFINE owed == OwedTo(L)
  <2>1. value # Render(k, served) /\ View(served, owed, k, value)
    BY <1>3
  <2> HIDE DEF value, owed
  <2>2. \E y \in owed : y \in DOMAIN value \union DOMAIN Render(k, served)
    BY <1>1, <1>2, <2>1, RenderIsCurrent
  <2> QED BY <2>2 DEF owed
<1>5. PICK event \in L : y \in event.entries
  BY DEF OwedTo
<1> QED BY <1>3, <1>4, <1>5 DEF Touches, Concerned

\* Over Redis as over KV, a hit is out of date only while the event of a change to an entry
\* that it shows, or should show, is to be dispatched or overlapped, unless its key has lost
\* the set of a tag: the sets that cache.ts fills and those that dispatchEvent reads and
\* deletes meet for any number of readers and workers, in every order of their round trips.
THEOREM RedisStaleAlwaysHasCause == RedisSpec => []RedisStaleHasCause
<1> QED BY RedisInvariance, RedisInvImpliesCause, PTL

===============================================================================
