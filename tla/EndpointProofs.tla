--------------------------- MODULE EndpointProofs ---------------------------
(***************************************************************************)
(* Proofs about Endpoint, for every policy and every backend: any kinds,   *)
(* names, pages and cursors, and any guidance with schemas of any depth.   *)
(***************************************************************************)
EXTENDS Endpoint, Integers, FiniteSetTheorems, WellFoundedInduction, TLAPS

-----------------------------------------------------------------------------
(* The walk of shortenSchema over a schema.                                *)

\* Of some natural numbers, one is the least.
LEMMA Least ==
  ASSUME NEW T \in SUBSET Nat, T # {}
  PROVE  \E m \in T : \A j \in T : m <= j
<1>1. PICK m \in T : \A j \in T : <<j, m>> \notin OpToRel(<, Nat)
  BY WFMin, NatLessThanWellFounded
<1>2. ASSUME NEW j \in T PROVE m <= j
  <2>1. j \in Nat /\ m \in Nat
    OBVIOUS
  <2>2. ~(j < m)
    BY <1>1, <2>1 DEF OpToRel
  <2>3. QED
    BY <2>1, <2>2
<1>3. QED
  BY <1>2

LEMMA HeightNat == \A v \in JSON : Height(v) \in Nat
BY JSONAssumption

\* Of the values of a set, one is nested least deep.
LEMMA Lowest ==
  ASSUME NEW S \in SUBSET JSON, S # {}
  PROVE  \E v \in S : \A w \in S : ~(Height(w) < Height(v))
<1> DEFINE T == {Height(v) : v \in S}
<1>1. T \in SUBSET Nat /\ T # {}
  BY HeightNat
<1>2. PICK m \in T : \A j \in T : m <= j
  BY <1>1, Least
<1>3. PICK v \in S : m = Height(v)
  OBVIOUS
<1>4. ASSUME NEW w \in S PROVE ~(Height(w) < Height(v))
  BY <1>2, <1>3, HeightNat
<1>5. QED
  BY <1>4

\* What holds of a value if it holds of all that are nested less deep holds
\* of all: G is the set of those of which it holds.
LEMMA ByHeight ==
  ASSUME NEW G, \A v \in JSON : (\A w \in JSON : Within(w, v) => w \in G) => v \in G
  PROVE  JSON \subseteq G
<1> DEFINE Bad == {v \in JSON : v \notin G}
<1>1. SUFFICES ASSUME Bad # {} PROVE FALSE
  OBVIOUS
<1>2. PICK v \in Bad : \A w \in Bad : ~(Height(w) < Height(v))
  BY <1>1, Lowest
<1>3. QED
  BY <1>2 DEF Within

\* A functional F on functions from values to R, whose value at v depends
\* only on those at values nested less deep, has a fixed point.
LEMMA Recursion ==
  ASSUME NEW R, NEW F \in [[JSON -> R] -> [JSON -> R]], NEW g0 \in [JSON -> R],
         \A g, h \in [JSON -> R] : \A v \in JSON :
           (\A w \in JSON : Within(w, v) => g[w] = h[w]) => F[g][v] = F[h][v]
  PROVE  \E f \in [JSON -> R] : f = F[f]
<1> DEFINE Good(n) == {g \in [JSON -> R] : \A v \in JSON : Height(v) < n => g[v] = F[g][v]}
<1>1. \A n \in Nat : Good(n) # {}
  <2> DEFINE T == {n \in Nat : Good(n) = {}}
  <2>1. SUFFICES ASSUME T # {} PROVE FALSE
    <3> HIDE DEF Good
    <3>1. QED
      OBVIOUS
  <2>2. PICK n \in T : \A j \in T : n <= j
    <3>1. T \in SUBSET Nat
      OBVIOUS
    <3> HIDE DEF T
    <3>2. QED
      BY <2>1, <3>1, Least
  <2>3. CASE n = 0
    <3>1. g0 \in Good(0)
      BY HeightNat
    <3>2. QED
      BY <2>3, <3>1
  <2>4. CASE n # 0
    <3>1. n - 1 \in Nat /\ n - 1 \notin T
      BY <2>2, <2>4
    <3>2. PICK g \in [JSON -> R] : \A v \in JSON : Height(v) < n - 1 => g[v] = F[g][v]
      BY <3>1
    <3>3. F[g] \in [JSON -> R]
      OBVIOUS
    <3>4. ASSUME NEW v \in JSON, Height(v) < n PROVE F[g][v] = F[F[g]][v]
      <4>1. ASSUME NEW w \in JSON, Within(w, v) PROVE g[w] = F[g][w]
        BY <3>1, <3>2, <3>4, <4>1, HeightNat DEF Within
      <4>2. QED
        BY <3>3, <4>1
    <3>5. F[g] \in Good(n)
      BY <3>3, <3>4
    <3>6. QED
      BY <3>5
  <2>5. QED
    BY <2>3, <2>4
<1>2. ASSUME NEW m \in Nat, NEW n \in Nat, NEW g \in Good(m), NEW h \in Good(n),
             NEW v \in JSON, Height(v) < m, Height(v) < n
      PROVE  g[v] = h[v]
  <2> DEFINE G == {w \in JSON : Height(w) < m /\ Height(w) < n => g[w] = h[w]}
  <2>1. ASSUME NEW u \in JSON, \A w \in JSON : Within(w, u) => w \in G PROVE u \in G
    <3>1. SUFFICES ASSUME Height(u) < m, Height(u) < n PROVE g[u] = h[u]
      OBVIOUS
    <3>2. \A w \in JSON : Within(w, u) => g[w] = h[w]
      BY <2>1, <3>1, HeightNat DEF Within
    <3>3. F[g][u] = F[h][u]
      BY <3>2
    <3>4. QED
      BY <3>1, <3>3
  <2>2. JSON \subseteq G
    <3> HIDE DEF G
    <3>1. QED
      BY <2>1, ByHeight
  <2>3. QED
    BY <1>2, <2>2
<1> DEFINE B(n) == CHOOSE g : g \in Good(n)
<1>3. \A n \in Nat : B(n) \in Good(n)
  <2> HIDE DEF Good
  <2>1. QED
    BY <1>1
<1> DEFINE f == [v \in JSON |-> B(Height(v) + 1)[v]]
<1> HIDE DEF B
<1>4. f \in [JSON -> R]
  BY <1>3, HeightNat
<1>5. ASSUME NEW v \in JSON PROVE f[v] = F[f][v]
  <2> DEFINE n == Height(v) + 1
  <2>1. n \in Nat /\ Height(v) < n /\ B(n) \in Good(n) /\ f[v] = B(n)[v]
    BY <1>3, HeightNat
  <2>2. B(n)[v] = F[B(n)][v]
    BY <2>1
  <2>3. ASSUME NEW w \in JSON, Within(w, v) PROVE f[w] = B(n)[w]
    <3> DEFINE m == Height(w) + 1
    <3>1. m \in Nat /\ Height(w) < m /\ Height(w) < n /\ f[w] = B(m)[w]
      BY <2>3, HeightNat DEF Within
    <3>2. B(m) \in Good(m)
      BY <1>3, <3>1
    <3> HIDE DEF Good, m, n, f
    <3>3. QED
      BY <1>2, <2>1, <3>1, <3>2
  <2>4. B(n) \in [JSON -> R]
    BY <2>1
  <2> HIDE DEF f, n
  <2>5. F[f][v] = F[B(n)][v]
    BY <1>4, <2>3, <2>4
  <2>6. QED
    BY <2>1, <2>2, <2>5
<1>6. f = F[f]
  <2> HIDE DEF f
  <2>1. F[f] \in [JSON -> R]
    BY <1>4
  <2>2. QED
    BY <1>4, <1>5, <2>1
<1>7. QED
  BY <1>4, <1>6

-----------------------------------------------------------------------------
(* shortenSchema.                                                          *)

\* What a call makes of a value depends on what those it makes do to values
\* nested less deep.
LEMMA WalkedLocal ==
  ASSUME NEW g, NEW h, NEW v \in JSON,
         \A w \in JSON : Within(w, v) => g[w] = h[w]
  PROVE  Walked(g, v) = Walked(h, v)
<1>1. ASSUME NEW k \in DOMAIN v.parts PROVE Member(g, k, v.parts[k]) = Member(h, k, v.parts[k])
  <2> DEFINE w == v.parts[k]
  <2>1. Within(w, v) /\ w \in JSON
    BY JSONAssumption DEF Within
  <2>2. g[w] = h[w]
    BY <2>1
  <2>3. \A j \in DOMAIN w.parts : g[w.parts[j]] = h[w.parts[j]]
    BY <2>1, JSONAssumption DEF Within
  <2> HIDE DEF w
  <2>4. Each(g, w) = Each(h, w)
    BY <2>3 DEF Each, Value
  <2>5. QED
    BY <2>2, <2>4 DEF Member
<1>2. QED
  BY <1>1 DEF Walked, Value

\* Where the calls it makes keep values as deep as they were, so does it.
LEMMA WalkedAmong ==
  ASSUME NEW g, NEW v \in JSON,
         \A w \in JSON : Within(w, v) => Among(g[w], w)
  PROVE  Among(Walked(g, v), v)
<1> USE JSONAssumption
<1>1. ASSUME NEW k \in DOMAIN v.parts PROVE Within(Member(g, k, v.parts[k]), v)
  <2> DEFINE w == v.parts[k]
  <2>1. Within(w, v) /\ w \in JSON
    BY DEF Within
  <2>2. Among(g[w], w)
    BY <2>1
  <2>3. ASSUME NEW j \in DOMAIN w.parts PROVE Within(g[w.parts[j]], w)
    <3>1. Within(w.parts[j], w) /\ w.parts[j] \in JSON
      BY <2>1 DEF Within
    <3>2. Among(g[w.parts[j]], w.parts[j])
      BY <2>1, <3>1, HeightNat DEF Within
    <3>3. QED
      BY <2>1, <3>1, <3>2, HeightNat DEF Among, Within
  <2> HIDE DEF w
  <2>4. Among(Each(g, w), w)
    <3>1. [j \in DOMAIN w.parts |-> g[w.parts[j]]] \in Parts(w)
      BY <2>3 DEF Parts, Within
    <3>2. QED
      BY <2>1, <3>1 DEF Each
  <2>5. w.type = "text" => Among(Text(Shorten(w.text)), w)
    BY <2>1
  <2>6. Among(Member(g, k, w), w)
    BY <2>1, <2>2, <2>4, <2>5, HeightNat DEF Member, Among
  <2>7. QED
    BY <2>1, <2>6, HeightNat DEF Among, Within, w
<1>2. [k \in DOMAIN v.parts |-> Member(g, k, v.parts[k])] \in Parts(v)
  BY <1>1 DEF Parts, Within
<1>3. Among(v, v)
  BY HeightNat DEF Among
<1>4. QED
  BY <1>2, <1>3 DEF Walked

\* The equation of ShortenSchema is that of a function: no value is walked
\* for ever, and what comes out is a value again.
LEMMA ShortenSchemaDef ==
  ShortenSchema = [v \in JSON |-> Walked(ShortenSchema, v)]
<1> DEFINE F == [g \in [JSON -> JSON] |->
                  [v \in JSON |-> IF Among(Walked(g, v), v) THEN Walked(g, v) ELSE v]]
           Id == [v \in JSON |-> v]
<1>1. F \in [[JSON -> JSON] -> [JSON -> JSON]]
  BY DEF Among
<1>2. ASSUME NEW g \in [JSON -> JSON], NEW h \in [JSON -> JSON], NEW v \in JSON,
             \A w \in JSON : Within(w, v) => g[w] = h[w]
      PROVE  F[g][v] = F[h][v]
  <2>1. Walked(g, v) = Walked(h, v)
    BY <1>2, WalkedLocal
  <2>2. QED
    BY <2>1
<1>3. PICK f \in [JSON -> JSON] : f = F[f]
  <2>1. Id \in [JSON -> JSON]
    OBVIOUS
  <2> HIDE DEF F, Id
  <2>2. QED
    BY <1>1, <1>2, <2>1, Recursion
<1>4. \A v \in JSON : f[v] = IF Among(Walked(f, v), v) THEN Walked(f, v) ELSE v
  BY <1>3
<1> DEFINE G == {v \in JSON : Among(f[v], v)}
<1>5. \A v \in JSON : Among(f[v], v)
  <2>1. ASSUME NEW v \in JSON, \A w \in JSON : Within(w, v) => w \in G PROVE v \in G
    <3>1. Among(Walked(f, v), v)
      BY <2>1, WalkedAmong
    <3>2. QED
      BY <1>4, <3>1
  <2>2. JSON \subseteq G
    <3> HIDE DEF G
    <3>1. QED
      BY <2>1, ByHeight
  <2>3. QED
    BY <2>2
<1>6. \A v \in JSON : f[v] = Walked(f, v)
  BY <1>4, <1>5, WalkedAmong
<1>7. f = [v \in JSON |-> Walked(f, v)]
  BY <1>6
<1>8. QED
  BY <1>7 DEF ShortenSchema

LEMMA Shortened ==
  \A v \in JSON : /\ ShortenSchema[v] = Walked(ShortenSchema, v)
                 /\ Among(ShortenSchema[v], v)
<1>1. \A v \in JSON : ShortenSchema[v] = Walked(ShortenSchema, v)
  <2> DEFINE f == ShortenSchema
  <2>1. f = [v \in JSON |-> Walked(f, v)]
    BY ShortenSchemaDef
  <2> HIDE DEF f
  <2>2. \A v \in JSON : f[v] = Walked(f, v)
    BY <2>1
  <2>3. QED
    BY <2>2 DEF f
<1> DEFINE G == {v \in JSON : Among(ShortenSchema[v], v)}
<1>2. ASSUME NEW v \in JSON, \A w \in JSON : Within(w, v) => w \in G PROVE v \in G
  BY <1>1, <1>2, WalkedAmong
<1>3. JSON \subseteq G
  <2> HIDE DEF G
  <2>1. QED
    BY <1>2, ByHeight
<1>4. QED
  BY <1>1, <1>3

-----------------------------------------------------------------------------
(* The texts of a value.                                                   *)

Steps == [of : {v.type : v \in JSON}, key : UNION {DOMAIN v.parts : v \in JSON}]
Entries == [path : Seq(Steps), text : {v.text : v \in JSON}]

LEMMA StepType ==
  ASSUME NEW v \in JSON, NEW k \in DOMAIN v.parts
  PROVE  Step(v.type, k) \in Steps
BY DEF Steps, Step

LEMMA BeneathType ==
  ASSUME NEW s \in Steps, NEW T \in SUBSET Entries
  PROVE  Beneath(s, T) \in SUBSET Entries
<1>1. ASSUME NEW t \in Entries PROVE Entry(<<s>> \o t.path, t.text) \in Entries
  <2>1. t.path \in Seq(Steps) /\ t.text \in {v.text : v \in JSON}
    BY DEF Entries
  <2>2. <<s>> \o t.path \in Seq(Steps)
    BY <2>1
  <2>3. QED
    BY <2>1, <2>2 DEF Entries, Entry
<1>2. QED
  BY <1>1 DEF Beneath

LEMMA TextsInType ==
  ASSUME NEW v \in JSON, NEW g, \A w \in JSON : Within(w, v) => g[w] \in SUBSET Entries
  PROVE  TextsIn(g, v) \in SUBSET Entries
<1>1. ASSUME v.type = "text" PROVE Entry(Empty, v.text) \in Entries
  <2>1. Empty \in Seq(Steps)
    BY DEF Empty
  <2>2. QED
    BY <2>1 DEF Entries, Entry
<1>2. ASSUME NEW k \in DOMAIN v.parts PROVE Beneath(Step(v.type, k), g[v.parts[k]]) \in SUBSET Entries
  <2>1. g[v.parts[k]] \in SUBSET Entries
    BY JSONAssumption DEF Within
  <2>2. QED
    BY <2>1, StepType, BeneathType
<1>3. QED
  BY <1>1, <1>2 DEF TextsIn

LEMMA TextsInLocal ==
  ASSUME NEW g, NEW h, NEW v \in JSON,
         \A w \in JSON : Within(w, v) => g[w] = h[w]
  PROVE  TextsIn(g, v) = TextsIn(h, v)
<1> DEFINE G(k) == Beneath(Step(v.type, k), g[v.parts[k]])
           H(k) == Beneath(Step(v.type, k), h[v.parts[k]])
<1>1. ASSUME NEW k \in DOMAIN v.parts PROVE G(k) = H(k)
  <2>1. g[v.parts[k]] = h[v.parts[k]]
    BY JSONAssumption DEF Within
  <2>2. QED
    BY <2>1
<1>2. UNION {G(k) : k \in DOMAIN v.parts} = UNION {H(k) : k \in DOMAIN v.parts}
  <2> HIDE DEF G, H
  <2>1. QED
    BY <1>1
<1>3. QED
  BY <1>2 DEF TextsIn

LEMMA TextsDef == Texts = [v \in JSON |-> TextsIn(Texts, v)]
<1> DEFINE R == SUBSET Entries
           F == [g \in [JSON -> R] |-> [v \in JSON |-> TextsIn(g, v)]]
           None == [v \in JSON |-> {}]
<1>1. F \in [[JSON -> R] -> [JSON -> R]]
  BY TextsInType
<1>2. ASSUME NEW g \in [JSON -> R], NEW h \in [JSON -> R], NEW v \in JSON,
             \A w \in JSON : Within(w, v) => g[w] = h[w]
      PROVE  F[g][v] = F[h][v]
  <2>1. TextsIn(g, v) = TextsIn(h, v)
    BY <1>2, TextsInLocal
  <2>2. QED
    BY <2>1
<1>3. PICK f \in [JSON -> R] : f = F[f]
  <2>1. None \in [JSON -> R]
    OBVIOUS
  <2> HIDE DEF F, None, R
  <2>2. QED
    BY <1>1, <1>2, <2>1, Recursion
<1>4. f = [v \in JSON |-> TextsIn(f, v)]
  BY <1>3
<1>5. QED
  BY <1>4 DEF Texts

LEMMA TextsOf ==
  \A v \in JSON : Texts[v] = TextsIn(Texts, v) /\ Texts[v] \in SUBSET Entries
<1>1. \A v \in JSON : Texts[v] = TextsIn(Texts, v)
  <2> DEFINE f == Texts
  <2>1. f = [v \in JSON |-> TextsIn(f, v)]
    BY TextsDef
  <2> HIDE DEF f
  <2>2. \A v \in JSON : f[v] = TextsIn(f, v)
    BY <2>1
  <2>3. QED
    BY <2>2 DEF f
<1> DEFINE G == {v \in JSON : Texts[v] \in SUBSET Entries}
<1>2. ASSUME NEW v \in JSON, \A w \in JSON : Within(w, v) => w \in G PROVE v \in G
  BY <1>1, <1>2, TextsInType
<1>3. JSON \subseteq G
  <2> HIDE DEF G
  <2>1. QED
    BY <1>2, ByHeight
<1>4. QED
  BY <1>1, <1>3

\* The first step of a path to a text says what kind of value it leads into.
LEMMA FirstStep ==
  ASSUME NEW v \in JSON, NEW t \in Texts[v]
  PROVE  /\ t.path \in Seq(Steps)
         /\ v.type = "text" => t.path = Empty
         /\ v.type # "text" => Len(t.path) > 0 /\ t.path[1].of = v.type
<1>1. t.path \in Seq(Steps)
  BY TextsOf DEF Entries
<1>4. t \in TextsIn(Texts, v)
  BY TextsOf
<1>2. CASE v.type = "text"
  BY <1>1, <1>2, <1>4 DEF TextsIn, Entry
<1>3. CASE v.type # "text"
  <2> DEFINE B(k) == Beneath(Step(v.type, k), Texts[v.parts[k]])
  <2>7. t \in UNION {B(k) : k \in DOMAIN v.parts}
    BY <1>3, <1>4 DEF TextsIn
  <2>1. PICK k \in DOMAIN v.parts : t \in B(k)
    <3> HIDE DEF B
    <3>1. QED
      BY <2>7
  <2>2. PICK u \in Texts[v.parts[k]] : t = Entry(<<Step(v.type, k)>> \o u.path, u.text)
    BY <2>1 DEF Beneath
  <2>3. u.path \in Seq(Steps) /\ Step(v.type, k) \in Steps
    BY TextsOf, StepType, JSONAssumption DEF Entries, Within
  <2>4. t.path = <<Step(v.type, k)>> \o u.path
    BY <2>2 DEF Entry
  <2>5. Len(t.path) > 0 /\ t.path[1] = Step(v.type, k)
    BY <2>3, <2>4
  <2>6. QED
    BY <1>1, <1>3, <2>5 DEF Step
<1>5. QED
  BY <1>2, <1>3

-----------------------------------------------------------------------------
(* Where guidance is found.                                                *)

LEMMA SchemaOnwards ==
  ASSUME NEW p, NEW m \in Nat, NEW n \in Nat, m < n
  PROVE  SchemaFrom(p, m, n) <=>
           \E j \in m + 1..n : SchemaStep(p, m, j) /\ SchemaFrom(p, j, n)
<1>1. ASSUME SchemaFrom(p, m, n)
      PROVE  \E j \in m + 1..n : SchemaStep(p, m, j) /\ SchemaFrom(p, j, n)
  <2>1. PICK S \in SUBSET (m..n) :
          m \in S /\ \A i \in S \ {n} : \E j \in S : SchemaStep(p, i, j)
    BY <1>1 DEF SchemaFrom
  <2>2. PICK j \in S : SchemaStep(p, m, j)
    BY <2>1
  <2>3. j \in m + 1..n
    BY <2>2 DEF SchemaStep
  <2> DEFINE U == {i \in S : j <= i}
  <2>4. U \in SUBSET (j..n) /\ j \in U
    <3>1. \A i \in S : i \in Int /\ i <= n
      BY <2>1
    <3>2. j \in S /\ j \in Int
      BY <2>3
    <3>3. ASSUME NEW i \in U PROVE i \in j..n
      BY <3>1, <3>2
    <3>4. j \in U
      BY <3>2
    <3> HIDE DEF U
    <3>5. QED
      BY <3>3, <3>4
  <2>5. ASSUME NEW i \in U \ {n} PROVE \E l \in U : SchemaStep(p, i, l)
    <3>1. PICK l \in S : SchemaStep(p, i, l)
      BY <2>1
    <3>2. l > i
      BY <3>1 DEF SchemaStep
    <3>3. QED
      BY <2>3, <3>1, <3>2
  <2> HIDE DEF U
  <2>6. SchemaFrom(p, j, n)
    BY <2>4, <2>5 DEF SchemaFrom
  <2>7. QED
    BY <2>2, <2>3, <2>6
<1>2. ASSUME NEW j \in m + 1..n, SchemaStep(p, m, j), SchemaFrom(p, j, n)
      PROVE  SchemaFrom(p, m, n)
  <2>1. PICK S \in SUBSET (j..n) :
          j \in S /\ \A i \in S \ {n} : \E l \in S : SchemaStep(p, i, l)
    BY <1>2 DEF SchemaFrom
  <2> DEFINE U == S \cup {m}
  <2>2. U \in SUBSET (m..n) /\ m \in U
    BY <2>1
  <2>3. \A i \in U \ {n} : \E l \in U : SchemaStep(p, i, l)
    BY <1>2, <2>1
  <2> HIDE DEF U
  <2>4. QED
    BY <2>2, <2>3 DEF SchemaFrom
<1>3. QED
  BY <1>1, <1>2

\* A path says the same of what follows whatever comes before.
LEMMA SchemaShift ==
  ASSUME NEW p, NEW q, NEW d \in Nat, NEW m \in Nat, NEW n \in Nat,
         \A i \in m + 1..n : p[i] = q[i + d]
  PROVE  SchemaFrom(p, m, n) <=> SchemaFrom(q, m + d, n + d)
<1>1. ASSUME NEW i \in m..n, NEW j \in m..n
      PROVE  SchemaStep(p, i, j) <=> SchemaStep(q, i + d, j + d)
  <2>1. CASE j = i + 1
    <3>1. p[i + 1] = q[(i + d) + 1]
      BY <2>1
    <3>2. QED
      BY <2>1, <3>1 DEF SchemaStep
  <2>2. CASE j = i + 2
    <3>1. p[i + 1] = q[(i + d) + 1] /\ p[i + 2] = q[(i + d) + 2]
      BY <2>2
    <3>2. QED
      BY <2>2, <3>1 DEF SchemaStep
  <2>3. CASE j # i + 1 /\ j # i + 2
    BY <2>3 DEF SchemaStep
  <2>4. QED
    BY <2>1, <2>2, <2>3
<1>2. ASSUME SchemaFrom(p, m, n) PROVE SchemaFrom(q, m + d, n + d)
  <2>1. PICK S \in SUBSET (m..n) :
          m \in S /\ \A i \in S \ {n} : \E j \in S : SchemaStep(p, i, j)
    BY <1>2 DEF SchemaFrom
  <2> DEFINE U == {i + d : i \in S}
  <2>2. U \in SUBSET (m + d..n + d) /\ m + d \in U
    BY <2>1
  <2>3. ASSUME NEW u \in U \ {n + d} PROVE \E l \in U : SchemaStep(q, u, l)
    <3>1. PICK i \in S \ {n} : u = i + d
      OBVIOUS
    <3>2. PICK j \in S : SchemaStep(p, i, j)
      BY <2>1
    <3>3. QED
      BY <1>1, <3>1, <3>2
  <2> HIDE DEF U
  <2>4. QED
    BY <2>2, <2>3 DEF SchemaFrom
<1>3. ASSUME SchemaFrom(q, m + d, n + d) PROVE SchemaFrom(p, m, n)
  <2>1. PICK S \in SUBSET (m + d..n + d) :
          m + d \in S /\ \A i \in S \ {n + d} : \E j \in S : SchemaStep(q, i, j)
    BY <1>3 DEF SchemaFrom
  <2> DEFINE U == {i \in m..n : i + d \in S}
  <2>2. U \in SUBSET (m..n) /\ m \in U
    BY <2>1
  <2>3. ASSUME NEW i \in U \ {n} PROVE \E l \in U : SchemaStep(p, i, l)
    <3>1. PICK j \in S : SchemaStep(q, i + d, j)
      BY <2>1
    <3>2. j - d \in U /\ j = (j - d) + d
      BY <3>1
    <3>3. QED
      BY <1>1, <3>1, <3>2
  <2> HIDE DEF U
  <2>4. QED
    BY <2>2, <2>3 DEF SchemaFrom
<1>4. QED
  BY <1>2, <1>3

LEMMA SchemaHere == ASSUME NEW p, NEW n \in Nat PROVE SchemaFrom(p, n, n)
<1>1. {n} \in SUBSET (n..n) /\ n \in {n} /\ \A i \in {n} \ {n} : \E j \in {n} : SchemaStep(p, i, j)
  OBVIOUS
<1>2. QED
  BY <1>1 DEF SchemaFrom

Description == Step("object", "description")

\* One step into a schema: guidance lies there, in the schema or the list of
\* schemas under a key, or under a name.
LEMMA GuidanceStep ==
  ASSUME NEW A, NEW s \in A, NEW q \in Seq(A)
  PROVE  IsGuidance(<<s>> \o q) <=>
           \/ Len(q) = 0 /\ s = Description
           \/ s.of = "object" /\ s.key \in SchemaKeys /\ IsGuidance(q)
           \/ /\ Len(q) > 0 /\ s.of = "object" /\ IsGuidance(Tail(q))
              /\ \/ s.key \in SchemaKeys /\ q[1].of = "array"
                 \/ s.key \in MapKeys /\ q[1].of = "object"
<1> DEFINE p == <<s>> \o q
           n == Len(q)
<1>1. n \in Nat /\ Len(p) = n + 1 /\ p[1] = s /\ \A i \in 1..n : p[i + 1] = q[i]
  OBVIOUS
<1>2. IsGuidance(p) <=> p[n + 1] = Description /\ SchemaFrom(p, 0, n)
  BY <1>1 DEF IsGuidance, Description
<1> HIDE DEF p
<1>3. CASE n = 0
  <2>1. SchemaFrom(p, 0, n)
    BY <1>3, SchemaHere
  <2>2. ~IsGuidance(q)
    BY <1>3 DEF IsGuidance
  <2>3. QED
    BY <1>1, <1>2, <1>3, <2>1, <2>2 DEF p
<1>4. CASE n > 0
  <2>1. p[n + 1] = q[n]
    BY <1>1, <1>4
  <2>2. SchemaFrom(p, 0, n) <=> \E j \in 1..n : SchemaStep(p, 0, j) /\ SchemaFrom(p, j, n)
    BY <1>1, <1>4, SchemaOnwards
  <2>3. IsGuidance(q) <=> q[n] = Description /\ SchemaFrom(p, 1, n)
    <3>1. SchemaFrom(q, 0, n - 1) <=> SchemaFrom(p, 0 + 1, n - 1 + 1)
      <4>1. n - 1 \in Nat /\ \A i \in 0 + 1..n - 1 : q[i] = p[i + 1]
        BY <1>1, <1>4
      <4> HIDE DEF n
      <4>2. QED
        BY <4>1, SchemaShift
    <3>2. IsGuidance(q) <=> q[n] = Description /\ SchemaFrom(q, 0, n - 1)
      BY <1>4 DEF IsGuidance, Description
    <3>3. 0 + 1 = 1 /\ n - 1 + 1 = n
      BY <1>1
    <3>4. QED
      BY <3>1, <3>2, <3>3
  <2>4. IsGuidance(Tail(q)) <=> n > 1 /\ q[n] = Description /\ SchemaFrom(p, 2, n)
    <3> DEFINE r == Tail(q)
    <3>1. Len(r) = n - 1 /\ \A i \in 1..n - 1 : r[i] = q[i + 1]
      BY <1>4
    <3> HIDE DEF r
    <3>2. CASE n = 1
      <4>1. Len(r) = 0
        BY <3>1, <3>2
      <4>2. ~IsGuidance(r)
        BY <4>1 DEF IsGuidance
      <4>3. QED
        BY <3>2, <4>2 DEF r
    <3>3. CASE n > 1
      <4>1. n - 2 \in Nat /\ \A i \in 0 + 1..n - 2 : r[i] = p[i + 2]
        <5>1. ASSUME NEW i \in 0 + 1..n - 2 PROVE r[i] = p[i + 2]
          <6>1. i \in 1..n - 1 /\ i + 1 \in 1..n /\ (i + 1) + 1 = i + 2
            BY <1>1
          <6>2. QED
            BY <1>1, <3>1, <6>1
        <5>2. QED
          BY <1>1, <3>3, <5>1
      <4>2. SchemaFrom(r, 0, n - 2) <=> SchemaFrom(p, 0 + 2, n - 2 + 2)
        <5> HIDE DEF n
        <5>1. QED
          BY <4>1, SchemaShift
      <4>3. 0 + 2 = 2 /\ n - 2 + 2 = n /\ r[n - 1] = q[n] /\ Len(r) - 1 = n - 2 /\ Len(r) > 0
        BY <1>1, <3>1, <3>3
      <4>4. IsGuidance(r) <=> r[n - 1] = Description /\ SchemaFrom(r, 0, n - 2)
        BY <3>1, <4>3 DEF IsGuidance, Description
      <4> HIDE DEF n
      <4>5. QED
        BY <3>3, <4>2, <4>3, <4>4 DEF r
    <3> HIDE DEF n
    <3>4. n = 1 \/ n > 1
      BY <1>1, <1>4
    <3>5. QED
      BY <3>2, <3>3, <3>4
  <2>5. SchemaStep(p, 0, 1) <=> s.of = "object" /\ s.key \in SchemaKeys
    BY <1>1 DEF SchemaStep
  <2>6. SchemaStep(p, 0, 2) <=>
          /\ s.of = "object"
          /\ \/ s.key \in SchemaKeys /\ q[1].of = "array"
             \/ s.key \in MapKeys /\ q[1].of = "object"
    <3>1. p[2] = q[1]
      BY <1>1, <1>4
    <3>2. QED
      BY <1>1, <3>1 DEF SchemaStep
  <2>7. \A j \in 1..n : SchemaStep(p, 0, j) => j = 1 \/ j = 2
    BY DEF SchemaStep
  <2> HIDE DEF n
  <2>8. IsGuidance(p) <=>
          q[n] = Description /\ ( \/ SchemaStep(p, 0, 1) /\ SchemaFrom(p, 1, n)
                                  \/ n > 1 /\ SchemaStep(p, 0, 2) /\ SchemaFrom(p, 2, n) )
    <3>1. 1 \in 1..n /\ (n > 1 <=> 2 \in 1..n)
      BY <1>1, <1>4
    <3>2. QED
      BY <1>2, <2>1, <2>2, <2>7, <3>1
  <2>9. QED
    BY <1>4, <2>3, <2>4, <2>5, <2>6, <2>8 DEF p, n
<1>5. QED
  BY <1>1, <1>3, <1>4 DEF p

-----------------------------------------------------------------------------
(* What the walk does to the texts.                                        *)

Guide(T) == {Guided(t) : t \in T}

\* Beneath a step that changes nothing of what is guidance.
LEMMA GuideBeneath ==
  ASSUME NEW s, NEW T,
         \A t \in T : IsGuidance(<<s>> \o t.path) <=> IsGuidance(t.path)
  PROVE  Beneath(s, Guide(T)) = Guide(Beneath(s, T))
<1> DEFINE L(t) == Entry(<<s>> \o t.path, t.text)
<1>1. \A t \in T : L(Guided(t)) = Guided(L(t))
  BY DEF Guided, Entry
<1>2. Beneath(s, Guide(T)) = {L(Guided(t)) : t \in T}
  <2> HIDE DEF L
  <2>1. {L(u) : u \in Guide(T)} = {L(Guided(t)) : t \in T}
    BY DEF Guide
  <2>2. QED
    BY <2>1 DEF Beneath, L
<1>3. Guide(Beneath(s, T)) = {Guided(L(t)) : t \in T}
  <2>1. Beneath(s, T) = {L(t) : t \in T}
    BY DEF Beneath
  <2> HIDE DEF L
  <2>2. QED
    BY <2>1 DEF Guide
<1> HIDE DEF L
<1>4. QED
  BY <1>1, <1>2, <1>3

LEMMA GuideBeneathTwo ==
  ASSUME NEW s, NEW r, NEW T,
         \A t \in T : IsGuidance(<<s>> \o (<<r>> \o t.path)) <=> IsGuidance(t.path)
  PROVE  Beneath(s, Beneath(r, Guide(T))) = Guide(Beneath(s, Beneath(r, T)))
<1> DEFINE L(t) == Entry(<<s>> \o t.path, t.text)
           M(t) == Entry(<<r>> \o t.path, t.text)
<1>1. \A t \in T : L(M(Guided(t))) = Guided(L(M(t)))
  BY DEF Guided, Entry
<1>2. \A U : Beneath(s, U) = {L(t) : t \in U} /\ Beneath(r, U) = {M(t) : t \in U}
  BY DEF Beneath
<1> HIDE DEF L, M
<1>3. Beneath(s, Beneath(r, Guide(T))) = {L(M(Guided(t))) : t \in T}
  BY <1>2 DEF Guide
<1>4. Guide(Beneath(s, Beneath(r, T))) = {Guided(L(M(t))) : t \in T}
  BY <1>2 DEF Guide
<1>5. QED
  BY <1>1, <1>3, <1>4

\* Where there is no guidance nothing changes.
LEMMA Unguided ==
  ASSUME NEW T, \A t \in T : t = Entry(t.path, t.text) /\ ~IsGuidance(t.path)
  PROVE  Guide(T) = T
<1>1. \A t \in T : Guided(t) = t
  BY DEF Guided
<1>2. QED
  BY <1>1 DEF Guide

LEMMA BeneathUnguided ==
  ASSUME NEW s, NEW T, \A t \in T : ~IsGuidance(<<s>> \o t.path)
  PROVE  Guide(Beneath(s, T)) = Beneath(s, T)
<1>1. ASSUME NEW u \in Beneath(s, T)
      PROVE  u = Entry(u.path, u.text) /\ ~IsGuidance(u.path)
  <2>1. PICK t \in T : u = Entry(<<s>> \o t.path, t.text)
    BY DEF Beneath
  <2>2. u.path = <<s>> \o t.path /\ u.text = t.text
    BY <2>1 DEF Entry
  <2>3. QED
    BY <2>1, <2>2
<1>2. QED
  BY <1>1, Unguided

\* U is the union of the B[k].
Covered(U, K, B) == \A t : t \in U <=> \E k \in K : t \in B[k]

LEMMA CoveredSteps ==
  ASSUME NEW U, NEW K, NEW B, Covered(U, K, B), NEW s
  PROVE  Covered(Beneath(s, U), K, [k \in K |-> Beneath(s, B[k])])
<1>1. \A V, u : u \in Beneath(s, V) <=> \E t \in V : u = Entry(<<s>> \o t.path, t.text)
  BY DEF Beneath
<1>2. \A u : u \in Beneath(s, U) <=> \E k \in K : u \in Beneath(s, B[k])
  BY <1>1 DEF Covered
<1>3. QED
  BY <1>2 DEF Covered

LEMMA CoveredGuide ==
  ASSUME NEW U, NEW K, NEW B, Covered(U, K, B)
  PROVE  Covered(Guide(U), K, [k \in K |-> Guide(B[k])])
<1>1. \A V, u : u \in Guide(V) <=> \E t \in V : u = Guided(t)
  BY DEF Guide
<1>2. \A u : u \in Guide(U) <=> \E k \in K : u \in Guide(B[k])
  BY <1>1 DEF Covered
<1>3. QED
  BY <1>2 DEF Covered

LEMMA CoveredEqual ==
  ASSUME NEW U, NEW V, NEW K, NEW B, NEW C, Covered(U, K, B), Covered(V, K, C),
         \A k \in K : B[k] = C[k]
  PROVE  U = V
BY DEF Covered

LEMMA TextsCovered ==
  ASSUME NEW v \in JSON, v.type # "text"
  PROVE  Covered(Texts[v], DOMAIN v.parts,
                 [k \in DOMAIN v.parts |-> Beneath(Step(v.type, k), Texts[v.parts[k]])])
<1> DEFINE B(k) == Beneath(Step(v.type, k), Texts[v.parts[k]])
<1>1. Texts[v] = UNION {B(k) : k \in DOMAIN v.parts}
  BY TextsOf DEF TextsIn
<1> HIDE DEF B
<1>2. \A t : t \in Texts[v] <=> \E k \in DOMAIN v.parts : t \in B(k)
  BY <1>1
<1>3. Covered(Texts[v], DOMAIN v.parts, [k \in DOMAIN v.parts |-> B(k)])
  BY <1>2 DEF Covered
<1>4. QED
  BY <1>3 DEF B

-----------------------------------------------------------------------------
(* The walk.                                                               *)

TextsGuided(v) == Texts[ShortenSchema[v]] = Guide(Texts[v])

LEMMA PathTyped ==
  ASSUME NEW v \in JSON, NEW t \in Texts[v]
  PROVE  t.path \in Seq(Steps) /\ t = Entry(t.path, t.text)
<1>1. t \in Entries
  BY TextsOf
<1>2. QED
  BY <1>1 DEF Entries, Entry

LEMMA NotFromArray ==
  ASSUME NEW v \in JSON, v.type # "object", NEW t \in Texts[v]
  PROVE  ~IsGuidance(t.path)
<1>1. SUFFICES ASSUME Len(t.path) > 0 PROVE ~IsGuidance(t.path)
  BY DEF IsGuidance
<1>2. t.path \in Seq(Steps) /\ t.path[1].of = v.type
  <2>1. Len(Empty) = 0
    BY DEF Empty
  <2>2. QED
    BY <1>1, <2>1, FirstStep
<1> DEFINE s == t.path[1]
           q == Tail(t.path)
<1>3. s \in Steps /\ q \in Seq(Steps) /\ t.path = <<s>> \o q
  BY <1>1, <1>2
<1>4. s.of # "object" /\ s # Description
  BY <1>2 DEF Description, Step
<1> HIDE DEF s, q
<1>5. QED
  BY <1>3, <1>4, GuidanceStep

\* Under a key with schemas by name, or with a list of schemas.
LEMMA EachGuided ==
  ASSUME NEW w \in JSON, \A u \in JSON : Within(u, w) => TextsGuided(u),
         NEW k, Step("object", k) \in Steps,
         \/ k \in MapKeys /\ w.type = "object"
         \/ k \in SchemaKeys /\ w.type = "array"
  PROVE  Beneath(Step("object", k), Texts[Each(ShortenSchema, w)])
           = Guide(Beneath(Step("object", k), Texts[w]))
<1> DEFINE s == Step("object", k)
           r(j) == Step(w.type, j)
           e == Each(ShortenSchema, w)
           K == DOMAIN w.parts
           A == [j \in K |-> Texts[w.parts[j]]]
           B == [j \in K |-> Beneath(r(j), A[j])]
           C == [j \in K |-> Beneath(r(j), Guide(A[j]))]
<1>1. \A j \in K : w.parts[j] \in JSON /\ Within(w.parts[j], w)
  BY JSONAssumption DEF Within
<1>2. e \in JSON
  <2>1. \A j \in K : Within(ShortenSchema[w.parts[j]], w)
    BY <1>1, Shortened, HeightNat DEF Within, Among
  <2>2. [j \in K |-> ShortenSchema[w.parts[j]]] \in Parts(w)
    BY <2>1 DEF Parts, Within
  <2>3. QED
    BY <2>2, JSONAssumption DEF Each, Among
<1>3. e.type = w.type /\ e.type # "text" /\ DOMAIN e.parts = K
      /\ \A j \in K : e.parts[j] = ShortenSchema[w.parts[j]]
  BY DEF Each, Value
<1>4. Covered(Texts[w], K, B)
  <2> DEFINE D == [j \in K |-> Beneath(r(j), Texts[w.parts[j]])]
  <2>1. Covered(Texts[w], K, D)
    BY <1>3, TextsCovered
  <2>2. \A j \in K : B[j] = D[j]
    OBVIOUS
  <2> HIDE DEF B, D, K
  <2>3. QED
    BY <2>1, <2>2 DEF Covered
<1>5. Covered(Texts[e], K, C)
  <2> DEFINE D == [j \in K |-> Beneath(r(j), Texts[e.parts[j]])]
  <2>1. Covered(Texts[e], K, D)
    <3>1. \A j : r(j) = Step(e.type, j)
      BY <1>3
    <3> HIDE DEF e, r, K
    <3>2. Covered(Texts[e], K, [j \in K |-> Beneath(Step(e.type, j), Texts[e.parts[j]])])
      BY <1>2, <1>3, TextsCovered
    <3>3. QED
      BY <3>1, <3>2
  <2>2. \A j \in K : Texts[e.parts[j]] = Guide(A[j])
    <3> HIDE DEF e
    <3>1. QED
      BY <1>1, <1>3 DEF TextsGuided
  <2>3. \A j \in K : C[j] = D[j]
    <3> HIDE DEF e, r
    <3>1. QED
      BY <2>2
  <2> HIDE DEF C, D, K, e
  <2>4. QED
    BY <2>1, <2>3 DEF Covered
<1>6. ASSUME NEW j \in K PROVE Beneath(s, C[j]) = Guide(Beneath(s, B[j]))
  <2>1. ASSUME NEW t \in A[j]
        PROVE  IsGuidance(<<s>> \o (<<r(j)>> \o t.path)) <=> IsGuidance(t.path)
    <3> DEFINE q == <<r(j)>> \o t.path
    <3>1. t.path \in Seq(Steps) /\ r(j) \in Steps
      BY <1>1, PathTyped, StepType
    <3> HIDE DEF r
    <3>2. q \in Seq(Steps) /\ Len(q) > 0 /\ q[1] = r(j) /\ Tail(q) = t.path
      BY <3>1
    <3>3. IsGuidance(q) => r(j) = Description \/ r(j).of = "object"
      BY <3>1, GuidanceStep DEF Description, Step
    <3>4. r(j).of = w.type
      BY DEF r, Step
    <3>5. s \in Steps /\ s.of = "object" /\ s.key = k
      BY DEF Step
    <3>6. k \in SchemaKeys => ~IsGuidance(q)
      BY <3>3, <3>4 DEF Description, Step, SchemaKeys, MapKeys
    <3> HIDE DEF q, s
    <3>10. IsGuidance(<<s>> \o q) <=>
            \/ Len(q) = 0 /\ s = Description
            \/ s.of = "object" /\ s.key \in SchemaKeys /\ IsGuidance(q)
            \/ /\ Len(q) > 0 /\ s.of = "object" /\ IsGuidance(Tail(q))
               /\ \/ s.key \in SchemaKeys /\ q[1].of = "array"
                  \/ s.key \in MapKeys /\ q[1].of = "object"
      BY <3>2, <3>5, GuidanceStep
    <3>7. IsGuidance(<<s>> \o q) <=>
            \/ k \in SchemaKeys /\ IsGuidance(q)
            \/ IsGuidance(t.path) /\ \/ k \in SchemaKeys /\ r(j).of = "array"
                                     \/ k \in MapKeys /\ r(j).of = "object"
      <4>1. Len(q) # 0 /\ q[1] = r(j) /\ Tail(q) = t.path
        BY <3>2
      <4>2. IsGuidance(Tail(q)) <=> IsGuidance(t.path)
        BY <4>1, Zenon
      <4>3. QED
        BY <3>2, <3>5, <3>10, <4>1, <4>2
    <3>8. QED
      BY <3>4, <3>6, <3>7 DEF q
  <2>2. C[j] = Beneath(r(j), Guide(A[j])) /\ B[j] = Beneath(r(j), A[j])
    OBVIOUS
  <2> HIDE DEF A, B, C, r, s
  <2>3. QED
    BY <2>1, <2>2, GuideBeneathTwo
<1> DEFINE L == [j \in K |-> Beneath(s, C[j])]
           M == [j \in K |-> Beneath(s, B[j])]
           N == [j \in K |-> Guide(M[j])]
<1>7. Covered(Beneath(s, Texts[e]), K, L)
  <2> HIDE DEF C, K, s, e
  <2>1. QED
    BY <1>5, CoveredSteps
<1>8. Covered(Guide(Beneath(s, Texts[w])), K, N)
  <2>1. Covered(Beneath(s, Texts[w]), K, M)
    <3> HIDE DEF B, K, s
    <3>1. QED
      BY <1>4, CoveredSteps
  <2> HIDE DEF M, K, s
  <2>2. QED
    BY <2>1, CoveredGuide
<1>10. \A j \in K : L[j] = N[j]
  <2> HIDE DEF B, C, K, s
  <2>1. \A j \in K : L[j] = Beneath(s, C[j]) /\ N[j] = Guide(Beneath(s, B[j]))
    OBVIOUS
  <2> HIDE DEF L, M, N
  <2>2. QED
    BY <1>6, <2>1
<1> HIDE DEF B, C, K, L, M, N, s, e
<1>9. QED
  BY <1>7, <1>8, <1>10, CoveredEqual DEF s, e

\* A member of a schema: its guidance is shortened, and nothing else.
LEMMA MemberGuided ==
  ASSUME NEW v \in JSON, v.type = "object", NEW k \in DOMAIN v.parts,
         \A u \in JSON : Within(u, v) => TextsGuided(u)
  PROVE  Beneath(Step("object", k), Texts[Member(ShortenSchema, k, v.parts[k])])
           = Guide(Beneath(Step("object", k), Texts[v.parts[k]]))
<1> DEFINE w == v.parts[k]
           s == Step("object", k)
<1>1. w \in JSON /\ Within(w, v) /\ s \in Steps /\ s.of = "object" /\ s.key = k
  BY JSONAssumption, StepType DEF Within, Step
<1>2. TextsGuided(w)
  BY <1>1
<1>3. \A u \in JSON : Within(u, w) => TextsGuided(u)
  BY <1>1, HeightNat DEF Within
<1>4. s = Description <=> k = "description"
  BY DEF Description, Step
<1>5. ~("description" \in MapKeys) /\ ~("description" \in SchemaKeys) /\ MapKeys \cap SchemaKeys = {}
  BY DEF MapKeys, SchemaKeys
<1> HIDE DEF w, s
<1>6. ASSUME NEW t \in Texts[w]
      PROVE  /\ IsGuidance(<<s>> \o t.path) =>
                  \/ k = "description" /\ w.type = "text"
                  \/ k \in SchemaKeys
                  \/ k \in MapKeys /\ w.type = "object"
             /\ k \in SchemaKeys /\ w.type # "array" =>
                  (IsGuidance(<<s>> \o t.path) <=> IsGuidance(t.path))
  <2>1. t.path \in Seq(Steps)
    BY <1>1, FirstStep
  <2>2. Len(t.path) = 0 <=> w.type = "text"
    BY <1>1, FirstStep DEF Empty
  <2>3. Len(t.path) > 0 => t.path[1].of = w.type
    BY <1>1, <2>2, FirstStep
  <2>4. IsGuidance(<<s>> \o t.path) <=>
           \/ Len(t.path) = 0 /\ s = Description
           \/ s.of = "object" /\ s.key \in SchemaKeys /\ IsGuidance(t.path)
           \/ /\ Len(t.path) > 0 /\ s.of = "object" /\ IsGuidance(Tail(t.path))
              /\ \/ s.key \in SchemaKeys /\ t.path[1].of = "array"
                 \/ s.key \in MapKeys /\ t.path[1].of = "object"
    BY <1>1, <2>1, GuidanceStep
  <2>5. QED
    BY <1>1, <1>4, <1>5, <2>2, <2>3, <2>4
<1>7. CASE k = "description" /\ w.type = "text"
  <2> DEFINE x == Text(Shorten(w.text))
  <2>1. x \in JSON /\ x.type = "text" /\ x.text = Shorten(w.text)
    BY <1>1, <1>7, JSONAssumption DEF Among, Text, Value
  <2>2. Member(ShortenSchema, k, w) = x
    BY <1>5, <1>7 DEF Member
  <2> HIDE DEF x
  <2>3. Texts[x] = {Entry(Empty, Shorten(w.text))} /\ Texts[w] = {Entry(Empty, w.text)}
    BY <1>1, <1>7, <2>1, TextsOf DEF TextsIn
  <2>4. IsGuidance(<<s>> \o Empty)
    <3>1. Empty \in Seq(Steps) /\ Len(Empty) = 0
      BY DEF Empty
    <3>2. QED
      BY <1>1, <1>4, <1>7, <3>1, GuidanceStep
  <2> DEFINE p == <<s>> \o Empty
  <2>5. Beneath(s, Texts[x]) = {Entry(p, Shorten(w.text))} /\ Beneath(s, Texts[w]) = {Entry(p, w.text)}
    BY <2>3 DEF Beneath, Entry
  <2> HIDE DEF p
  <2>6. Guided(Entry(p, w.text)) = Entry(p, Shorten(w.text))
    BY <2>4 DEF Guided, Entry, p
  <2>7. Guide({Entry(p, w.text)}) = {Guided(Entry(p, w.text))}
    BY DEF Guide
  <2>8. QED
    BY <2>2, <2>5, <2>6, <2>7 DEF w, s
<1>8. CASE (k \in MapKeys /\ w.type = "object") \/ (k \in SchemaKeys /\ w.type = "array")
  <2>1. Member(ShortenSchema, k, w) = Each(ShortenSchema, w)
    BY <1>5, <1>8 DEF Member
  <2>2. Beneath(s, Texts[Each(ShortenSchema, w)]) = Guide(Beneath(s, Texts[w]))
    BY <1>1, <1>3, <1>8, EachGuided DEF s
  <2>3. QED
    BY <2>1, <2>2 DEF w, s
<1>9. CASE k \in SchemaKeys /\ w.type # "array"
  <2>1. Member(ShortenSchema, k, w) = ShortenSchema[w]
    BY <1>5, <1>9 DEF Member
  <2>2. Beneath(s, Guide(Texts[w])) = Guide(Beneath(s, Texts[w]))
    BY <1>6, <1>9, GuideBeneath
  <2>3. QED
    BY <1>2, <2>1, <2>2 DEF TextsGuided, w, s
<1>10. CASE /\ ~(k = "description" /\ w.type = "text") /\ k \notin SchemaKeys
            /\ ~(k \in MapKeys /\ w.type = "object")
  <2>1. Member(ShortenSchema, k, w) = w
    BY <1>10 DEF Member
  <2>2. \A t \in Texts[w] : ~IsGuidance(<<s>> \o t.path)
    BY <1>6, <1>10
  <2>3. Guide(Beneath(s, Texts[w])) = Beneath(s, Texts[w])
    BY <2>2, BeneathUnguided
  <2>4. QED
    BY <2>1, <2>3 DEF w, s
<1>11. \/ k = "description" /\ w.type = "text"
       \/ (k \in MapKeys /\ w.type = "object") \/ (k \in SchemaKeys /\ w.type = "array")
       \/ k \in SchemaKeys /\ w.type # "array"
       \/ /\ ~(k = "description" /\ w.type = "text") /\ k \notin SchemaKeys
          /\ ~(k \in MapKeys /\ w.type = "object")
  OBVIOUS
<1>12. QED
  BY <1>7, <1>8, <1>9, <1>10, <1>11, Zenon

\* The walk shortens the descriptions at schema-valued locations and leaves
\* every other text of a value as it is, at the path where it is.
LEMMA WalkGuided == \A v \in JSON : TextsGuided(v)
<1> DEFINE G == {v \in JSON : TextsGuided(v)}
<1>1. ASSUME NEW v \in JSON, \A u \in JSON : Within(u, v) => u \in G PROVE v \in G
  <2>1. \A u \in JSON : Within(u, v) => TextsGuided(u)
    BY <1>1
  <2>2. CASE v.type # "object"
    <3>1. ShortenSchema[v] = v
      BY <2>2, Shortened DEF Walked
    <3>2. Guide(Texts[v]) = Texts[v]
      BY <2>2, PathTyped, NotFromArray, Unguided
    <3>3. QED
      BY <3>1, <3>2 DEF TextsGuided
  <2>3. CASE v.type = "object"
    <3> DEFINE K == DOMAIN v.parts
               x == ShortenSchema[v]
               B == [k \in K |-> Beneath(Step(v.type, k), Texts[v.parts[k]])]
               C == [k \in K |-> Beneath(Step(x.type, k), Texts[x.parts[k]])]
               D == [k \in K |-> Guide(B[k])]
    <3>1. x = Value(v.type, v.text, [k \in K |-> Member(ShortenSchema, k, v.parts[k])])
      BY <2>3, Shortened DEF Walked
    <3>2. x \in JSON
      BY Shortened DEF Among
    <3> HIDE DEF x
    <3>3. x.type = "object" /\ DOMAIN x.parts = K
          /\ \A k \in K : x.parts[k] = Member(ShortenSchema, k, v.parts[k])
      BY <2>3, <3>1 DEF Value
    <3>4. Covered(Texts[x], K, C)
      <4>1. Covered(Texts[x], DOMAIN x.parts,
                    [k \in DOMAIN x.parts |-> Beneath(Step(x.type, k), Texts[x.parts[k]])])
        BY <3>2, <3>3, TextsCovered
      <4>2. QED
        BY <3>3, <4>1
    <3>5. Covered(Texts[v], K, B)
      BY <2>3, TextsCovered
    <3>6. Covered(Guide(Texts[v]), K, D)
      <4> HIDE DEF B, K
      <4>1. QED
        BY <3>5, CoveredGuide
    <3>7. ASSUME NEW k \in K PROVE C[k] = D[k]
      <4>1. Beneath(Step("object", k), Texts[Member(ShortenSchema, k, v.parts[k])])
              = Guide(Beneath(Step("object", k), Texts[v.parts[k]]))
        BY <2>1, <2>3, MemberGuided
      <4>2. C[k] = Beneath(Step("object", k), Texts[Member(ShortenSchema, k, v.parts[k])])
        BY <3>3
      <4>3. D[k] = Guide(Beneath(Step("object", k), Texts[v.parts[k]]))
        BY <2>3
      <4>4. QED
        BY <4>1, <4>2, <4>3
    <3> HIDE DEF B, C, D, K
    <3>8. Texts[x] = Guide(Texts[v])
      BY <3>4, <3>6, <3>7, CoveredEqual
    <3>9. QED
      BY <3>8 DEF TextsGuided, x
  <2>4. QED
    BY <2>2, <2>3
<1>2. JSON \subseteq G
  <2> HIDE DEF G
  <2>1. QED
    BY <1>1, ByHeight
<1>3. QED
  BY <1>2

\* For a value of any depth: the walk shortens each text at a path on which
\* JSON Schema finds a description, and changes no other (metadata.go:42-68).
THEOREM CompactedOnce ==
  ASSUME NEW v \in JSON
  PROVE  ShortenSchema[v] \in JSON /\ WellCompacted(ShortenSchema[v], v)
BY WalkGuided, Shortened DEF TextsGuided, WellCompacted, Guide, Among

\* What is within the limit stays as it is.
LEMMA CompactedTwice ==
  ASSUME NEW v \in JSON
  PROVE  WellCompacted(ShortenSchema[ShortenSchema[v]], v)
<1> DEFINE T == Texts[v]
<1>1. Texts[ShortenSchema[ShortenSchema[v]]] = Guide(Guide(T))
  BY WalkGuided, Shortened DEF TextsGuided, Among
<1>2. \A t \in T : Guided(Guided(t)) = Guided(t)
  BY DEF Guided, Entry, Shorten
<1>3. Guide(Guide(T)) = Guide(T)
  <2>1. Guide(Guide(T)) = {Guided(Guided(t)) : t \in T}
    BY DEF Guide
  <2>2. QED
    BY <1>2, <2>1 DEF Guide
<1>4. QED
  BY <1>1, <1>3 DEF WellCompacted, Guide

-----------------------------------------------------------------------------
USE EndpointAssumption DEF EndpointAssumption

-----------------------------------------------------------------------------
(* What a gateway shows of a page.                                         *)

\* The policy that Validate accepts keeps the helper's name to the gateway.
PolicyTyped ==
  /\ relayed \in BOOLEAN /\ compact \in BOOLEAN
  /\ policy \in [Kinds -> SUBSET Offered]
  /\ compact => Helper \notin policy["tools"]

MayShow(n) == n \in policy[kind] \/ IsHelper(kind, n)

\* Only what is allowed, and the helper.
LEMMA ViewAllowed ==
  ASSUME NEW i \in View(kind, at)
  PROVE  MayShow(i.name)
BY DEF View, Forward, Kept, HelperItem, Item, MayShow, IsHelper

\* An allowed item of the page gets through, to the outermost gateway and to
\* its client.
LEMMA UpstreamShows ==
  ASSUME PolicyTyped, NEW k \in Kinds, NEW n \in policy[k], page[n] = at
  PROVE  \E i \in Upstream(k, at) : i.name = n
<1> n \in Offered
  BY DEF PolicyTyped
<1> DEFINE given == Item(n, guidance[n])
<1>1. given \in BackendPage(k, at) /\ given.name = n /\ given.guidance = guidance[n]
  BY DEF BackendPage, Item
<1>2. CASE relayed
  <2>1. given \in Kept(k, BackendPage(k, at))
    BY <1>1 DEF Kept
  <2> DEFINE passed == Item(given.name, IF k = "tools" /\ compact THEN CompactTool(given.guidance)
                                        ELSE given.guidance)
  <2>2. passed \in Forward(k, at, BackendPage(k, at))
    BY <2>1 DEF Forward
  <2>3. passed.name = n
    BY <1>1 DEF Item
  <2>4. QED
    BY <1>2, <2>2, <2>3 DEF Upstream
<1>3. CASE ~relayed
  BY <1>1, <1>3 DEF Upstream
<1>4. QED
  BY <1>2, <1>3

LEMMA ViewShows ==
  ASSUME PolicyTyped, NEW k \in Kinds, NEW n \in policy[k], page[n] = at
  PROVE  \E i \in View(k, at) : i.name = n
<1>1. PICK i \in Upstream(k, at) : i.name = n
  BY UpstreamShows
<1>2. i \in Kept(k, Upstream(k, at))
  BY <1>1 DEF Kept
<1> DEFINE passed == Item(i.name, IF k = "tools" /\ compact THEN CompactTool(i.guidance)
                                  ELSE i.guidance)
<1>3. passed \in View(k, at)
  BY <1>2 DEF View, Forward
<1>4. passed.name = n
  BY <1>1 DEF Item
<1>5. QED
  BY <1>3, <1>4

\* The helper is on the first page, and on no other.
LEMMA ViewHelper ==
  ASSUME PolicyTyped, compact
  PROVE  (\E i \in View("tools", at) : i.name = Helper) <=> at = First
<1>1. \A i \in Kept("tools", Upstream("tools", at)) : i.name # Helper
  BY DEF Kept, PolicyTyped
<1>2. HelperItem("tools", at) = IF at = First THEN {Item(Helper, HelperGuidance)} ELSE {}
  BY DEF HelperItem
<1>3. ASSUME at = First PROVE \E i \in View("tools", at) : i.name = Helper
  <2>1. Item(Helper, HelperGuidance) \in View("tools", at)
    BY <1>2, <1>3 DEF View, Forward
  <2>2. QED
    BY <2>1 DEF Item
<1>4. ASSUME at # First, NEW i \in View("tools", at), i.name = Helper PROVE FALSE
  <2>1. PICK j \in Kept("tools", Upstream("tools", at)) : i.name = j.name
    BY <1>2, <1>4 DEF View, Forward, Item
  <2>2. QED
    BY <1>1, <1>4, <2>1
<1>5. QED
  BY <1>3, <1>4

-----------------------------------------------------------------------------
(* Walks over the backend's pages.                                         *)

\* Who starts at the first page and leaves out none that follows has been on
\* every page that can be reached.
LEMMA PathInside ==
  ASSUME NEW S, First \in S, \A c \in S : next[c] \in S \cup {First},
         NEW k \in Nat, NEW p, Path(p, k)
  PROVE  p[k] \in S
<1> DEFINE Outside == {j \in 0..k : p[j] \notin S}
<1>1. SUFFICES ASSUME Outside # {} PROVE FALSE
  BY DEF Outside
<1>2. PICK m \in Outside : \A j \in Outside : m <= j
  <2>1. Outside \in SUBSET Nat
    OBVIOUS
  <2> HIDE DEF Outside
  <2>2. QED
    BY <1>1, <2>1, Least
<1>3. m \in 1..k
  BY <1>2 DEF Path
<1>4. m - 1 \in 0..k /\ m - 1 \notin Outside
  BY <1>2, <1>3
<1>5. p[m - 1] \in S
  BY <1>4
<1>6. p[m] = next[p[m - 1]] /\ p[m] # First
  BY <1>3 DEF Path
<1>7. QED
  BY <1>2, <1>5, <1>6

-----------------------------------------------------------------------------
(* The invariant.                                                          *)

Phases == {"start", "listing", "listed", "describing", "done"}
Answers == {"none", "executed", "refused", "described", "failed", "error"}

TypeOK ==
  /\ PolicyTyped
  /\ page \in [Offered -> Cursors \cup {NoPage}] /\ next \in [Cursors -> Cursors]
  /\ phase \in Phases /\ kind \in Kinds /\ name \in Offered /\ answer \in Answers
  /\ at \in Cursors /\ seen \in SUBSET Cursors
  /\ helpers \in Nat /\ pages \in Nat

\* Nothing has been asked for, or answered, yet.
Fresh ==
  /\ phase = "start" => at = First /\ seen = {} /\ helpers = 0 /\ pages = 0
  /\ phase # "done" => answer = "none"
  /\ phase \in {"start", "describing"} => listed = {}

\* The walk over the pages has started with the first one and has left out
\* none; at is where it goes on.
Walk ==
  /\ phase \in {"listing", "describing"} =>
       /\ First \in seen \cup {at}
       /\ \A c \in seen : next[c] # First /\ next[c] \in seen \cup {at}
  /\ phase = "listing" => at \notin seen
  /\ phase = "listed" =>
       First \in seen /\ \A c \in seen : next[c] \in seen \cup {First}

\* What has been shown.
ListInv ==
  /\ \A n \in Offered : Shown(n) => MayShow(n)
  /\ phase \in {"listing", "listed"} \/ answer = "executed" =>
       \A n \in policy[kind] : page[n] \in seen => Shown(n)
  /\ phase \in {"listing", "listed"} /\ compact /\ kind = "tools" =>
       helpers = IF First \in seen THEN 1 ELSE 0
  /\ answer = "executed" => name \in policy[kind]
  /\ answer = "refused" => ~Shown(name)

\* describeTool has seen the first pages, in their order, without the tool.
DescribeInv ==
  /\ phase = "describing" =>
       /\ compact /\ name \in policy["tools"]
       /\ \A c \in seen : page[name] # c
       /\ \A k \in 0..pages : \A p \in [0..k -> Cursors] :
            Path(p, k) => IF k = pages THEN p[k] = at ELSE p[k] \in seen
  /\ DescribeFinds
  /\ DaemonGuidance

EndpointInv == TypeOK /\ Fresh /\ Walk /\ ListInv /\ DescribeInv

-----------------------------------------------------------------------------
(* The steps.                                                              *)

LEMMA StartInv == Init => EndpointInv
<1> SUFFICES ASSUME Init PROVE EndpointInv
  OBVIOUS
<1>1. /\ phase = "start" /\ kind = "tools" /\ at = First /\ seen = {} /\ listed = {}
      /\ helpers = 0 /\ name = Helper /\ pages = 0 /\ answer = "none"
      /\ relayed \in BOOLEAN /\ compact \in BOOLEAN
      /\ policy \in [Kinds -> SUBSET Offered] /\ (compact => Helper \notin policy["tools"])
  BY DEF Init
<1>2. page \in [Offered -> Cursors \cup {NoPage}] /\ next \in [Cursors -> Cursors]
  BY DEF Init
<1>3. TypeOK
  BY <1>1, <1>2 DEF TypeOK, PolicyTyped, Phases, Answers, Offered
<1>4. Fresh /\ Walk /\ ListInv /\ DescribeInv
  BY <1>1 DEF Fresh, Walk, ListInv, DescribeInv, Shown, DescribeFinds, DaemonGuidance
<1>5. QED
  BY <1>3, <1>4 DEF EndpointInv

LEMMA ListStartStep ==
  ASSUME EndpointInv, NEW k \in Kinds, ListStart(k)
  PROVE  EndpointInv'
<1> USE DEF EndpointInv, ListStart, configVars
<1>1. TypeOK'
  BY DEF TypeOK, PolicyTyped, Phases
<1>2. Fresh' /\ Walk'
  BY DEF Fresh, Walk
<1>3. ListInv'
  BY DEF Fresh, ListInv, Shown
<1>4. DescribeInv'
  BY DEF Fresh, DescribeInv, DescribeFinds, DaemonGuidance
<1>5. QED
  BY <1>1, <1>2, <1>3, <1>4

LEMMA ListPageStep ==
  ASSUME EndpointInv, ListPage
  PROVE  EndpointInv'
<1> USE DEF configVars
<1>1. TypeOK /\ Fresh /\ Walk /\ ListInv /\ DescribeInv
  BY DEF EndpointInv
<1>2. /\ phase = "listing" /\ answer = "none"
      /\ seen' = seen \cup {at} /\ at' = next[at] /\ listed' = listed \cup View(kind, at)
      /\ UNCHANGED <<relayed, policy, compact, page, next, guidance, kind, name, pages, answer, told>>
  BY <1>1 DEF ListPage, Fresh
<1>3. /\ phase' \in {"listing", "listed", "done"}
      /\ phase' = "listed" => next[at] = First
      /\ phase' = "listing" => next[at] # First /\ next[at] \notin seen'
  BY <1>2 DEF ListPage
<1>4. TypeOK'
  <2>1. next[at] \in Cursors
    BY <1>1 DEF TypeOK
  <2>2. helpers' \in Nat
    BY <1>1 DEF TypeOK, ListPage
  <2>3. QED
    BY <1>1, <1>2, <1>3, <2>1, <2>2 DEF TypeOK, PolicyTyped, Phases
<1>5. Fresh' /\ Walk'
  BY <1>1, <1>2, <1>3 DEF Fresh, Walk, ListPage
<1>6. \A n \in Offered : Shown(n)' => MayShow(n)'
  BY <1>1, <1>2, ViewAllowed DEF ListInv, Shown, MayShow, IsHelper
<1>7. ASSUME NEW n \in policy[kind], page[n] \in seen' PROVE Shown(n)'
  <2>1. n \in Offered /\ kind \in Kinds /\ PolicyTyped
    BY <1>1 DEF TypeOK, PolicyTyped
  <2>2. CASE page[n] \in seen
    <3>1. Shown(n)
      BY <1>1, <2>2 DEF ListInv, ListPage
    <3>2. QED
      BY <1>2, <3>1 DEF Shown
  <2>3. CASE page[n] = at
    BY <1>2, <2>1, <2>3, ViewShows DEF Shown
  <2>4. QED
    BY <1>2, <1>7, <2>2, <2>3
<1>8. ASSUME compact, kind = "tools" PROVE helpers' = IF First \in seen' THEN 1 ELSE 0
  <2>1. helpers = IF First \in seen THEN 1 ELSE 0
    BY <1>1, <1>8 DEF ListInv, ListPage
  <2>2. helpers' = helpers + IF at = First THEN 1 ELSE 0
    BY <1>1, <1>8, ViewHelper DEF ListPage, TypeOK
  <2>3. at \notin seen
    BY <1>1 DEF Walk, ListPage
  <2>4. QED
    BY <1>2, <2>1, <2>2, <2>3
<1>9. ListInv'
  BY <1>1, <1>2, <1>6, <1>7, <1>8 DEF ListInv, ListPage
<1>10. DescribeInv'
  BY <1>1, <1>2, <1>3 DEF DescribeInv, DescribeFinds, DaemonGuidance, Findable, Path, ListPage
<1>11. QED
  BY <1>4, <1>5, <1>9, <1>10 DEF EndpointInv

LEMMA CallStep ==
  ASSUME EndpointInv, NEW n \in Offered, Call(n)
  PROVE  EndpointInv'
<1> USE DEF configVars, listVars
<1>1. TypeOK /\ Fresh /\ Walk /\ ListInv /\ DescribeInv
  BY DEF EndpointInv
<1>2. /\ phase = "listed" /\ ~IsHelper(kind, n) /\ phase' = "done" /\ name' = n
      /\ answer' = IF n \in policy[kind] THEN "executed" ELSE "refused"
      /\ UNCHANGED <<relayed, policy, compact, page, next, guidance, kind, listed, helpers,
                     at, seen, pages, told>>
  BY DEF Call, Answer, Allowed
<1>3. TypeOK'
  BY <1>1, <1>2 DEF TypeOK, PolicyTyped, Phases, Answers
<1>4. Fresh' /\ Walk'
  BY <1>2 DEF Fresh, Walk
<1>5. ListInv'
  BY <1>1, <1>2 DEF ListInv, Shown, MayShow, IsHelper
<1>6. DescribeInv'
  BY <1>2 DEF DescribeInv, DescribeFinds, DaemonGuidance
<1>7. QED
  BY <1>3, <1>4, <1>5, <1>6 DEF EndpointInv

LEMMA DescribeStartStep ==
  ASSUME EndpointInv, NEW n \in Offered, DescribeStart(n)
  PROVE  EndpointInv'
<1> USE DEF configVars, listVars
<1>1. TypeOK /\ Fresh /\ Walk /\ ListInv /\ DescribeInv
  BY DEF EndpointInv
<1>2. /\ phase = "start" /\ compact /\ name' = n /\ listed = {} /\ seen = {} /\ at = First
      /\ pages = 0 /\ answer = "none"
      /\ \/ n \in policy["tools"] /\ phase' = "describing" /\ answer' = "none"
         \/ phase' = "done" /\ answer' = "refused"
      /\ UNCHANGED <<relayed, policy, compact, page, next, guidance, kind, listed, helpers,
                     at, seen, pages, told>>
  BY <1>1 DEF DescribeStart, Answer, Allowed, Fresh
<1>3. TypeOK'
  BY <1>1, <1>2 DEF TypeOK, PolicyTyped, Phases, Answers
<1>4. Fresh' /\ Walk'
  BY <1>2 DEF Fresh, Walk
<1>5. ListInv'
  BY <1>1, <1>2 DEF ListInv, Shown, MayShow
<1>6. DescribeInv'
  BY <1>2 DEF DescribeInv, DescribeFinds, DaemonGuidance, Path
<1>7. QED
  BY <1>3, <1>4, <1>5, <1>6 DEF EndpointInv

\* An answer of describeTool that is true of the backend is the last word.
LEMMA AnswerStep ==
  ASSUME EndpointInv, phase = "describing", NEW a \in Answers, Answer(a), a # "refused",
         a # "executed", UNCHANGED <<configVars, listVars, name, at, seen, pages>>,
         a = "failed" => ~Findable(name, MaxPages),
         a = "error" => page[name] \notin seen,
         a = "described" /\ ~relayed => told' = guidance[name]
  PROVE  EndpointInv'
<1> USE DEF configVars, listVars, Answer
<1>1. TypeOK /\ Fresh /\ Walk /\ ListInv
  BY DEF EndpointInv
<1>2. TypeOK'
  BY <1>1 DEF TypeOK, PolicyTyped, Phases, Answers
<1>3. Fresh' /\ Walk'
  BY DEF Fresh, Walk
<1>4. ListInv'
  BY <1>1 DEF ListInv, Shown, MayShow, IsHelper
<1>5. DescribeInv'
  BY DEF DescribeInv, DescribeFinds, DaemonGuidance, Findable, Path
<1>6. QED
  BY <1>2, <1>3, <1>4, <1>5 DEF EndpointInv

\* Where the walk has been and goes nowhere else, the tool is nowhere.
LEMMA NotFindable ==
  ASSUME NEW S, First \in S, \A c \in S : next[c] \in S \cup {First},
         \A c \in S : page[name] # c
  PROVE  ~Findable(name, MaxPages)
<1>1. SUFFICES ASSUME NEW k \in 0..MaxPages - 1, NEW p \in [0..k -> Cursors],
                      Path(p, k), page[name] = p[k]
               PROVE  FALSE
  BY DEF Findable
<1>2. k \in Nat
  OBVIOUS
<1>3. p[k] \in S
  BY <1>1, <1>2, PathInside
<1>4. QED
  BY <1>1, <1>3

LEMMA DescribeStopsStep ==
  ASSUME EndpointInv, DescribeStops
  PROVE  EndpointInv'
<1>1. phase = "describing" /\ Answer("failed")
      /\ UNCHANGED <<configVars, listVars, name, at, seen, pages>>
  BY DEF DescribeStops
<1>2. ~Findable(name, MaxPages)
  <2>1. CASE pages = MaxPages
    <3>1. SUFFICES ASSUME NEW k \in 0..MaxPages - 1, NEW p \in [0..k -> Cursors],
                          Path(p, k), page[name] = p[k]
                   PROVE  FALSE
      BY DEF Findable
    <3>2. k \in 0..pages /\ k # pages
      BY <2>1
    <3>3. p[k] \in seen
      BY <1>1, <3>1, <3>2 DEF EndpointInv, DescribeInv
    <3>4. QED
      BY <1>1, <3>1, <3>3 DEF EndpointInv, DescribeInv
  <2>2. CASE at \in seen
    <3>1. First \in seen /\ \A c \in seen : next[c] \in seen \cup {First}
      BY <1>1, <2>2 DEF EndpointInv, Walk
    <3>2. \A c \in seen : page[name] # c
      BY <1>1 DEF EndpointInv, DescribeInv
    <3>3. QED
      BY <3>1, <3>2, NotFindable
  <2>3. QED
    BY <2>1, <2>2 DEF DescribeStops
<1>3. QED
  BY <1>1, <1>2, AnswerStep DEF Answers

LEMMA DescribeErrorStep ==
  ASSUME EndpointInv, DescribeError
  PROVE  EndpointInv'
<1>1. phase = "describing" /\ Answer("error")
      /\ UNCHANGED <<configVars, listVars, name, at, seen, pages>>
  BY DEF DescribeError, Reading
<1>2. page[name] \notin seen
  BY <1>1 DEF EndpointInv, DescribeInv
<1>3. QED
  BY <1>1, <1>2, AnswerStep DEF Answers

LEMMA DescribeFoundStep ==
  ASSUME EndpointInv, DescribeFound
  PROVE  EndpointInv'
<1>1. phase = "describing" /\ Answer("described")
      /\ UNCHANGED <<configVars, listVars, name, at, seen, pages>>
  BY DEF DescribeFound, Reading
<1>2. PICK i \in Upstream("tools", at) : i.name = name /\ told' = i.guidance
  BY DEF DescribeFound, Original
<1>3. ASSUME ~relayed PROVE told' = guidance[name]
  <2>1. i \in BackendPage("tools", at)
    BY <1>2, <1>3 DEF Upstream
  <2>2. i.guidance = guidance[i.name]
    BY <2>1 DEF BackendPage, Item
  <2>3. QED
    BY <1>2, <2>2
<1>4. QED
  BY <1>1, <1>3, AnswerStep DEF Answers

LEMMA AbsentHere ==
  ASSUME EndpointInv, phase = "describing", Absent
  PROVE  page[name] # at
<1>1. "tools" \in Kinds /\ name \in policy["tools"] /\ PolicyTyped
  BY DEF EndpointInv, DescribeInv, TypeOK
<1>2. QED
  BY <1>1, UpstreamShows DEF Absent, Original

\* A further page: the walk goes where the backend's cursors lead.
LEMMA DescribeOnStep ==
  ASSUME EndpointInv, phase = "describing", Absent, next[at] # First,
         at' = next[at], Counters,
         UNCHANGED <<configVars, listVars, phase, answer, name, told>>
  PROVE  EndpointInv'
<1> USE DEF configVars, listVars, Counters
<1>1. TypeOK /\ Fresh /\ Walk /\ ListInv /\ DescribeInv
  BY DEF EndpointInv
<1>2. TypeOK'
  <2>1. next[at] \in Cursors
    BY <1>1 DEF TypeOK
  <2>2. QED
    BY <1>1, <2>1 DEF TypeOK, PolicyTyped
<1>3. Fresh' /\ Walk'
  BY <1>1 DEF Fresh, Walk
<1>4. ListInv'
  BY <1>1 DEF Fresh, ListInv, Shown, MayShow, IsHelper
<1>5. ASSUME NEW k \in 0..pages + 1, NEW p \in [0..k -> Cursors], Path(p, k)
      PROVE  IF k = pages + 1 THEN p[k] = next[at] ELSE p[k] \in seen \cup {at}
  <2>1. pages \in Nat
    BY <1>1 DEF TypeOK
  <2>2. CASE k \in 0..pages
    BY <1>1, <1>5, <2>1, <2>2 DEF DescribeInv
  <2>3. CASE k = pages + 1
    <3> DEFINE q == [j \in 0..pages |-> p[j]]
    <3>1. q \in [0..pages -> Cursors] /\ pages \in 0..pages
      BY <2>1, <2>3
    <3>2. Path(q, pages)
      BY <1>5, <2>1, <2>3 DEF Path
    <3>3. q[pages] = at
      BY <1>1, <3>1, <3>2 DEF DescribeInv
    <3>4. p[pages + 1] = next[p[pages]]
      BY <1>5, <2>1, <2>3 DEF Path
    <3>5. QED
      BY <2>1, <2>3, <3>3, <3>4
  <2>4. QED
    BY <2>1, <2>2, <2>3
<1>6. \A c \in seen \cup {at} : page[name] # c
  BY <1>1, AbsentHere DEF DescribeInv
<1>7. DescribeInv'
  <2>1. answer = "none"
    BY <1>1 DEF Fresh
  <2>2. \A k \in 0..pages' : \A p \in [0..k -> Cursors] :
          Path(p, k)' => IF k = pages' THEN p[k] = at' ELSE p[k] \in seen'
    BY <1>5 DEF Path
  <2>3. QED
    BY <1>1, <1>6, <2>1, <2>2 DEF DescribeInv, DescribeFinds, DaemonGuidance
<1>8. QED
  BY <1>2, <1>3, <1>4, <1>7 DEF EndpointInv

LEMMA DescribeNextStep ==
  ASSUME EndpointInv, DescribeNext
  PROVE  EndpointInv'
<1>1. phase = "describing" /\ Absent /\ UNCHANGED <<configVars, listVars, name, told>>
  BY DEF DescribeNext, Reading
<1>2. CASE next[at] # First
  BY <1>1, <1>2, DescribeOnStep DEF DescribeNext
<1>3. CASE next[at] = First
  <2>1. Answer("failed") /\ UNCHANGED <<at, seen, pages>>
    BY <1>3 DEF DescribeNext
  <2> DEFINE S == seen \cup {at}
  <2>2. First \in S /\ \A c \in S : next[c] \in S \cup {First}
    BY <1>1, <1>3 DEF EndpointInv, Walk
  <2>3. \A c \in S : page[name] # c
    BY <1>1, AbsentHere DEF EndpointInv, DescribeInv
  <2> HIDE DEF S
  <2>4. ~Findable(name, MaxPages)
    BY <2>2, <2>3, NotFindable
  <2>5. QED
    BY <1>1, <2>1, <2>4, AnswerStep DEF Answers
<1>4. QED
  BY <1>2, <1>3

LEMMA StutterStep ==
  ASSUME EndpointInv, UNCHANGED vars
  PROVE  EndpointInv'
<1> USE DEF EndpointInv, vars, configVars, listVars
<1>1. TypeOK' /\ Fresh' /\ Walk'
  BY DEF TypeOK, PolicyTyped, Fresh, Walk
<1>2. ListInv'
  BY DEF ListInv, Shown, MayShow, IsHelper
<1>3. DescribeInv'
  BY DEF DescribeInv, DescribeFinds, DaemonGuidance, Findable, Path
<1>4. QED
  BY <1>1, <1>2, <1>3

LEMMA EndpointInvariant == Spec => []EndpointInv
<1>1. EndpointInv /\ [Next]_vars => EndpointInv'
  BY ListStartStep, ListPageStep, CallStep, DescribeStartStep, DescribeStopsStep,
     DescribeErrorStep, DescribeFoundStep, DescribeNextStep, StutterStep DEF Next
<1>2. QED
  BY <1>1, StartInv, PTL DEF Spec

-----------------------------------------------------------------------------
\* No call of a listed item is refused and none of an item that the listing
\* left out is executed, for every policy and backend, with a relay or
\* without (bridge.go:139-181, 242-303).
THEOREM ListedMayBeCalled == Spec => []ListedIsCallable
<1>1. EndpointInv => ListedIsCallable
  BY DEF EndpointInv, ListInv, ListedIsCallable
<1>2. QED
  BY <1>1, EndpointInvariant, PTL

\* A listing that comes to its end has all allowed items that the backend
\* offers on pages that its cursors lead to, and the helper once
\* (bridge.go:244-269).
THEOREM NothingLeftOut == Spec => []ListingComplete
<1>1. EndpointInv => ListingComplete
  <2> SUFFICES ASSUME EndpointInv, phase = "listed"
               PROVE  /\ \A n \in Offered :
                           n \in policy[kind] /\ Findable(n, Cardinality(Cursors)) => Shown(n)
                      /\ compact /\ kind = "tools" => helpers = 1
    BY DEF ListingComplete
  <2>1. First \in seen /\ \A c \in seen : next[c] \in seen \cup {First}
    BY DEF EndpointInv, Walk
  <2>2. ASSUME NEW n \in Offered, n \in policy[kind], Findable(n, Cardinality(Cursors))
        PROVE  Shown(n)
    <3>1. PICK k \in 0..Cardinality(Cursors) - 1 :
            \E p \in [0..k -> Cursors] : Path(p, k) /\ page[n] = p[k]
      BY <2>2 DEF Findable
    <3>2. k \in Nat
      BY <3>1, FS_CardinalityType
    <3>3. page[n] \in seen
      BY <2>1, <3>1, <3>2, PathInside
    <3>4. QED
      BY <2>2, <3>3 DEF EndpointInv, ListInv
  <2>3. QED
    BY <2>1, <2>2 DEF EndpointInv, ListInv
<1>2. QED
  BY <1>1, EndpointInvariant, PTL

\* The helper calls a tool unavailable only if none of the first pages has it,
\* however the backend's cursors go, and gives the error of a list request for
\* an answer only if none of the pages before it has it (metadata.go:116-140).
THEOREM DescribeSearchesAll == Spec => []DescribeFinds
<1>1. EndpointInv => DescribeFinds
  BY DEF EndpointInv, DescribeInv
<1>2. QED
  BY <1>1, EndpointInvariant, PTL

\* Without a relay the helper's answer is the backend's own description,
\* whatever compactTool makes of it in listings (metadata.go:122-132).
THEOREM GuidanceIsOriginal == Spec => []DaemonGuidance
<1>1. EndpointInv => DaemonGuidance
  BY DEF EndpointInv, DescribeInv
<1>2. QED
  BY <1>1, EndpointInvariant, PTL

-----------------------------------------------------------------------------
\* What a gateway passes on of an item's guidance, and what the client gets.
Passed(k, g) == IF k = "tools" /\ compact THEN CompactTool(g) ELSE g
Shows(n) ==
  IF relayed THEN Passed(kind, Passed(kind, guidance[n])) ELSE Passed(kind, guidance[n])

\* Each item but the helper is shown as the backend gave it, compacted once
\* per gateway if it is a tool of a compacted endpoint, and not otherwise.
AsGiven(i) ==
  \/ IsHelper(kind, i.name)
  \/ i.name \in policy[kind] /\ i.guidance = Shows(i.name)
ShownAsGiven == \A i \in listed : AsGiven(i)

LEMMA ForwardPasses ==
  ASSUME PolicyTyped, NEW k \in Kinds, NEW c, NEW items,
         NEW i \in Forward(k, c, items), i.name \in policy[k]
  PROVE  \E j \in items : j.name = i.name /\ i.guidance = Passed(k, j.guidance)
<1>1. i \notin HelperItem(k, c)
  BY DEF HelperItem, Item, PolicyTyped
<1>2. PICK j \in Kept(k, items) :
        i = Item(j.name, IF k = "tools" /\ compact THEN CompactTool(j.guidance) ELSE j.guidance)
  BY <1>1 DEF Forward
<1>3. j \in items
  BY DEF Kept
<1>4. QED
  BY <1>2, <1>3 DEF Item, Passed

LEMMA ViewPasses ==
  ASSUME TypeOK, NEW i \in View(kind, at)
  PROVE  AsGiven(i)
<1> SUFFICES ASSUME i.name \in policy[kind] PROVE i.guidance = Shows(i.name)
  BY ViewAllowed DEF AsGiven, MayShow
<1>1. PolicyTyped /\ kind \in Kinds
  BY DEF TypeOK
<1>2. \A b \in BackendPage(kind, at) : b.guidance = guidance[b.name]
  BY DEF BackendPage, Item
<1>3. PICK j \in Upstream(kind, at) : j.name = i.name /\ i.guidance = Passed(kind, j.guidance)
  <2>1. i \in Forward(kind, at, Upstream(kind, at))
    BY DEF View
  <2>2. QED
    BY <1>1, <2>1, ForwardPasses
<1>4. CASE relayed
  <2>1. j \in Forward(kind, at, BackendPage(kind, at)) /\ j.name \in policy[kind]
    BY <1>3, <1>4 DEF Upstream
  <2>2. PICK b \in BackendPage(kind, at) : b.name = j.name /\ j.guidance = Passed(kind, b.guidance)
    BY <1>1, <2>1, ForwardPasses
  <2>3. QED
    BY <1>2, <1>3, <1>4, <2>2 DEF Shows
<1>5. CASE ~relayed
  BY <1>2, <1>3, <1>5 DEF Shows, Upstream
<1>6. QED
  BY <1>4, <1>5

\* What a listing says of an allowed item is what the backend said, shortened
\* by every gateway on the way if it is a tool of a compacted endpoint
\* (bridge.go:249-262): nothing is shortened on another path, or of another
\* item.
THEOREM ListedAsGiven == Spec => []ShownAsGiven
<1>1. Init => ShownAsGiven
  BY DEF Init, ShownAsGiven
<1>2. EndpointInv /\ ShownAsGiven /\ [Next]_vars => ShownAsGiven'
  <2> SUFFICES ASSUME EndpointInv, ShownAsGiven, [Next]_vars PROVE ShownAsGiven'
    OBVIOUS
  <2> USE DEF configVars, listVars, ShownAsGiven, AsGiven, IsHelper, Shows, Passed
  <2>1. CASE \E k \in Kinds : ListStart(k)
    BY <2>1 DEF EndpointInv, Fresh, ListStart
  <2>2. CASE ListPage
    <3>1. TypeOK /\ listed' = listed \cup View(kind, at)
          /\ UNCHANGED <<relayed, policy, compact, guidance, kind>>
      BY <2>2 DEF ListPage, EndpointInv
    <3>2. \A i \in View(kind, at) : AsGiven(i)
      BY <3>1, ViewPasses
    <3>3. QED
      BY <3>1, <3>2
  <2>3. CASE UNCHANGED <<configVars, listVars>>
    BY <2>3
  <2>4. CASE \E n \in Offered : Call(n) \/ DescribeStart(n)
    BY <2>3, <2>4 DEF Call, DescribeStart
  <2>5. CASE DescribeStops \/ DescribeError \/ DescribeFound \/ DescribeNext
    BY <2>3, <2>5 DEF DescribeStops, DescribeError, DescribeFound, DescribeNext
  <2>6. CASE UNCHANGED vars
    BY <2>3, <2>6 DEF vars
  <2>7. QED
    BY <2>1, <2>2, <2>4, <2>5, <2>6 DEF Next
<1>3. QED
  BY <1>1, <1>2, EndpointInvariant, PTL DEF Spec

-----------------------------------------------------------------------------
(* What a listing says of a tool.                                          *)

\* compactTool shortens a tool's guidance, however often it is applied.
LEMMA CompactToolShortens ==
  ASSUME NEW g, g.input \in JSON, g.output \in JSON,
         NEW h \in {CompactTool(g), CompactTool(CompactTool(g))}
  PROVE  /\ h.text = Shorten(g.text)
         /\ WellCompacted(h.input, g.input) /\ WellCompacted(h.output, g.output)
<1>1. CASE h = CompactTool(g)
  BY <1>1, CompactedOnce DEF CompactTool
<1>2. CASE h = CompactTool(CompactTool(g))
  <2>1. h.text = Shorten(Shorten(g.text)) /\ h.input = ShortenSchema[ShortenSchema[g.input]]
        /\ h.output = ShortenSchema[ShortenSchema[g.output]]
    BY <1>2 DEF CompactTool
  <2>2. QED
    BY <2>1, CompactedTwice DEF Shorten
<1>3. QED
  BY <1>1, <1>2

\* A backend's tools have schemas that encoding/json decodes.
GivenSchemas == \A n \in Offered : guidance[n].input \in JSON /\ guidance[n].output \in JSON

LEMMA SchemasGiven == Spec => []GivenSchemas
<1>1. Init => GivenSchemas
  BY DEF Init, GivenSchemas
<1>2. GivenSchemas /\ [Next]_vars => GivenSchemas'
  <2>1. [Next]_vars => guidance' = guidance
    BY DEF Next, vars, configVars, ListStart, ListPage, Call, DescribeStart, DescribeStops,
           DescribeError, DescribeFound, DescribeNext
  <2>2. QED
    BY <2>1 DEF GivenSchemas
<1>3. QED
  BY <1>1, <1>2, PTL DEF Spec

\* In a compacted listing exactly the descriptions of a tool and of its
\* schemas are within the limit, at any depth and behind one gateway or two,
\* and nothing else has changed; no other listing is changed at all
\* (bridge.go:249-262, metadata.go:19-105).
THEOREM ListingIsCompacted == Spec => []ListingCompacted
<1>1. EndpointInv /\ ShownAsGiven /\ GivenSchemas => ListingCompacted
  <2> SUFFICES ASSUME EndpointInv, ShownAsGiven, GivenSchemas, NEW i \in listed
               PROVE  LET given == guidance[i.name]
                      IN CASE kind # "tools" \/ ~compact -> i.guidance = given
                           [] kind = "tools" /\ compact /\ i.name # Helper ->
                                /\ i.guidance.text = Shorten(given.text)
                                /\ WellCompacted(i.guidance.input, given.input)
                                /\ WellCompacted(i.guidance.output, given.output)
                           [] OTHER -> TRUE
    BY DEF ListingCompacted
  <2> DEFINE given == guidance[i.name]
  <2>1. ~IsHelper(kind, i.name) => i.name \in policy[kind] /\ i.guidance = Shows(i.name)
    BY DEF ShownAsGiven, AsGiven
  <2>2. CASE kind # "tools" \/ ~compact
    BY <2>1, <2>2 DEF IsHelper, Shows, Passed
  <2>3. CASE kind = "tools" /\ compact /\ i.name # Helper
    <3>1. i.name \in Offered
      BY <2>1, <2>3 DEF IsHelper, EndpointInv, TypeOK, PolicyTyped
    <3>2. given.input \in JSON /\ given.output \in JSON
      BY <3>1 DEF GivenSchemas
    <3>3. i.guidance \in {CompactTool(given), CompactTool(CompactTool(given))}
      BY <2>1, <2>3 DEF IsHelper, Shows, Passed
    <3> HIDE DEF given
    <3>4. /\ i.guidance.text = Shorten(given.text)
          /\ WellCompacted(i.guidance.input, given.input)
          /\ WellCompacted(i.guidance.output, given.output)
      BY <3>2, <3>3, CompactToolShortens
    <3>5. QED
      BY <2>3, <3>4 DEF given
  <2>4. CASE kind = "tools" /\ compact /\ i.name = Helper
    BY <2>4
  <2>5. QED
    BY <2>2, <2>3, <2>4
<1>2. QED
  BY <1>1, EndpointInvariant, ListedAsGiven, SchemasGiven, PTL
=============================================================================
