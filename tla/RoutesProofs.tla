----------------------------- MODULE RoutesProofs -----------------------------
(***************************************************************************)
(* Proofs about Routes, for every set of application routes, setters and   *)
(* requests, and any number of registrations and mounts.                   *)
(***************************************************************************)
EXTENDS Routes, FiniteSetTheorems, WellFoundedInduction, TLAPS

-----------------------------------------------------------------------------
(* Two patterns *)

\* The loop of ginRouteCovers ends at the first segment that decides, and two patterns
\* part at the first segment that differs.
LEMMA LeastNumber ==
    ASSUME NEW T, T \subseteq Nat, T # {}
    PROVE  \E n \in T : \A m \in T : n <= m
<1>1. PICK n \in T : \A m \in T : ~ (<<m, n>> \in OpToRel(<, Nat))
  BY NatLessThanWellFounded, WFMin
<1>2. \A m \in T : ~ (m < n)
  BY <1>1 DEF OpToRel
<1> QED
  BY <1>2

\* What is needed of sequences of segments.
LEMMA PathFacts ==
    ASSUME NEW p \in Path
    PROVE  /\ Len(p) \in Nat \ {0} /\ DOMAIN p = 1..Len(p)
           /\ Len(p) \in DOMAIN p /\ Last(p) = p[Len(p)]
BY DEF Path, Last

\* ginRouteCovers is gin's own matching: it finds a route exactly when gin would serve
\* the target by it.
LEMMA CoversMatches ==
    ASSUME NEW p \in Pattern, NEW q \in Path
    PROVE  ginRouteCovers(p, q) <=> Matches(p, q)
<1>1. /\ p \in Path /\ \A i \in DOMAIN p : p[i] \in CatchAlls => i = Len(p)
      /\ "" \notin Params /\ Params \cap CatchAlls = {}
  BY SegmentsAssumption DEF Pattern
<1>2. PICK lp, lq : /\ lp = Len(p) /\ lq = Len(q) /\ lp \in Nat \ {0} /\ lq \in Nat \ {0}
                    /\ DOMAIN p = 1..lp /\ DOMAIN q = 1..lq /\ Last(p) = p[lp]
  BY <1>1, PathFacts
<1> DEFINE covered(i) == IF i > Len(q) THEN "no"
                         ELSE IF p[i] \in CatchAlls THEN "yes"
                         ELSE IF p[i] \in Params THEN IF q[i] = "" THEN "no" ELSE "next"
                         ELSE IF p[i] = q[i] THEN "next" ELSE "no"
           ends == {i \in DOMAIN p : covered(i) # "next"}
<1>3. ginRouteCovers(p, q) <=>
        IF ends = {} THEN Len(p) = Len(q)
        ELSE covered(CHOOSE i \in ends : \A j \in ends : i <= j) = "yes"
  BY Zenon DEF ginRouteCovers
<1> DEFINE fits(i) == p[i] = q[i] \/ (p[i] \in Params /\ q[i] # "") \/ p[i] \in CatchAlls
<1>4. ASSUME NEW i \in 1..lp
      PROVE  /\ covered(i) = "yes" => i <= lq /\ p[i] \in CatchAlls
             /\ covered(i) = "next" => i <= lq /\ p[i] \notin CatchAlls /\ fits(i)
             /\ i <= lq /\ fits(i) => covered(i) \in {"yes", "next"}
  <2>1. i > Len(q) => covered(i) = "no" /\ ~ (i <= lq)
    BY <1>2
  <2>2. ~ (i > Len(q)) => i <= lq
    BY <1>2
  <2> QED
    BY <1>1, <2>1, <2>2, Zenon
<1>5. Matches(p, q) <=>
        /\ lp = lq \/ (p[lp] \in CatchAlls /\ lp < lq)
        /\ \A i \in 1..lp : fits(i)
  BY <1>2 DEF Matches
<1> HIDE DEF covered, fits
<1>6. CASE ends = {}
  <2>1. \A i \in 1..lp : covered(i) = "next"
    BY <1>2, <1>6
  <2>2. p[lp] \notin CatchAlls /\ \A i \in 1..lp : fits(i)
    BY <1>2, <1>4, <2>1
  <2> QED
    BY <1>2, <1>3, <1>5, <1>6, <2>2
<1>7. CASE ends # {}
  <2>1. PICK k : k = CHOOSE i \in ends : \A j \in ends : i <= j
    OBVIOUS
  <2>2. k \in ends /\ \A j \in ends : k <= j
    <3>1. ends \subseteq Nat
      BY <1>2
    <3> QED
      BY <1>7, <2>1, <3>1, LeastNumber
  <2>3. k \in 1..lp /\ covered(k) # "next" /\ \A i \in 1..(k - 1) : covered(i) = "next"
    BY <1>2, <2>2
  <2>4. ginRouteCovers(p, q) <=> covered(k) = "yes"
    BY <1>3, <1>7, <2>1
  <2>5. ASSUME covered(k) = "yes" PROVE Matches(p, q)
    <3>1. k <= lq /\ p[k] \in CatchAlls
      BY <1>4, <2>3, <2>5
    <3>2. k = lp
      BY <1>1, <1>2, <2>3, <3>1
    <3>3. lp = lq \/ (p[lp] \in CatchAlls /\ lp < lq)
      BY <1>2, <3>1, <3>2
    <3>4. \A i \in 1..lp : fits(i)
      <4> TAKE i \in 1..lp
      <4>1. CASE i = k
        BY <3>1, <4>1 DEF fits
      <4>2. CASE i # k
        <5>1. i \in 1..(k - 1)
          BY <1>2, <3>2, <4>2
        <5> QED
          BY <1>4, <2>3, <5>1
      <4> QED
        BY <4>1, <4>2
    <3> QED
      BY <1>5, <3>3, <3>4
  <2>6. ASSUME Matches(p, q) PROVE covered(k) = "yes"
    <3>1. lp <= lq /\ fits(k)
      BY <1>2, <1>5, <2>3, <2>6
    <3>2. k <= lq
      BY <1>2, <2>3, <3>1
    <3>3. covered(k) \in {"yes", "next"}
      BY <1>4, <2>3, <3>1, <3>2
    <3> QED
      BY <2>3, <3>3
  <2> QED
    BY <2>4, <2>5, <2>6
<1> QED
  BY <1>6, <1>7

\* addRoute: of two patterns the one with a static segment where they part comes first.
Before(p, o) == \E i \in DOMAIN p : PartAt(p, o, i) /\ ~ Wild(p[i])

\* Patterns that part at a segment, and no two of which are equal or have two wildcards
\* or a catch-all there.
Compatible(p, o) == ~ Conflicts(p, o) /\ ~ Conflicts(o, p)

\* Where addRoute found no conflict, patterns that serve the same request part somewhere.
LEMMA PatternsPart ==
    ASSUME NEW p \in Pattern, NEW o \in Pattern, NEW q \in Path,
           Matches(p, q), Matches(o, q), p # o
    PROVE  \E i \in Nat : PartAt(p, o, i)
<1>1. PICK lp, lo, lq :
        /\ lp = Len(p) /\ lo = Len(o) /\ lq = Len(q)
        /\ lp \in Nat \ {0} /\ lo \in Nat \ {0} /\ lq \in Nat \ {0}
        /\ DOMAIN p = 1..lp /\ DOMAIN o = 1..lo /\ Last(p) = p[lp] /\ Last(o) = o[lo]
  BY PathFacts DEF Pattern
<1> DEFINE D == {i \in 1..lp : i <= lo /\ p[i] # o[i]}
<1>2. D # {}
  <2> SUFFICES ASSUME \A i \in 1..lp : i <= lo => p[i] = o[i] PROVE FALSE
    OBVIOUS
  <2>1. lp # lo
    BY <1>1 DEF Pattern, Path
  <2>2. /\ lp = lq \/ (p[lp] \in CatchAlls /\ lp < lq)
        /\ lo = lq \/ (o[lo] \in CatchAlls /\ lo < lq)
    BY <1>1 DEF Matches
  <2>3. /\ \A i \in 1..lp : p[i] \in CatchAlls => i = lp
        /\ \A i \in 1..lo : o[i] \in CatchAlls => i = lo
    BY <1>1 DEF Pattern
  <2>4. CASE lp < lo
    BY <1>1, <2>2, <2>3, <2>4
  <2>5. CASE lo < lp
    BY <1>1, <2>2, <2>3, <2>5
  <2> QED
    BY <1>1, <2>1, <2>4, <2>5
<1>3. D \subseteq Nat
  BY <1>1
<1>4. PICK i \in D : \A j \in D : i <= j
  BY <1>2, <1>3, LeastNumber
<1>5. i \in 1..lp /\ i \in 1..lo /\ i \in Nat /\ p[i] # o[i]
  BY <1>1, <1>4
<1>6. \A j \in 1..(i - 1) : p[j] = o[j]
  BY <1>1, <1>4, <1>5
<1> QED
  BY <1>1, <1>5, <1>6 DEF PartAt

\* Of two compatible patterns that serve a request, one comes before the other.
LEMMA OneIsBefore ==
    ASSUME NEW p \in Pattern, NEW o \in Pattern, NEW q \in Path,
           Matches(p, q), Matches(o, q), Compatible(p, o)
    PROVE  Before(p, o) \/ Before(o, p)
<1>1. p # o
  BY DEF Compatible, Conflicts
<1>2. PICK i \in Nat : PartAt(p, o, i)
  BY <1>1, PatternsPart
<1>3. i \in DOMAIN p /\ i \in DOMAIN o /\ p[i] # o[i] /\ PartAt(o, p, i)
  BY <1>2 DEF PartAt
<1>4. ~ (Wild(p[i]) /\ Wild(o[i]))
  BY <1>2, <1>3 DEF Compatible, Conflicts
<1> QED
  BY <1>2, <1>3, <1>4 DEF Before

\* No two patterns come before each other, and coming before is transitive.
LEMMA BeforeIsOrder ==
    ASSUME NEW p \in Path, NEW o \in Path, NEW r \in Path, NEW q \in Path,
           Matches(p, q), Matches(o, q), Matches(r, q), Before(p, o)
    PROVE  /\ ~ Before(p, p)
           /\ Before(o, r) => Before(p, r)
<1>1. ~ Before(p, p)
  BY DEF Before, PartAt
<1>2. ASSUME Before(o, r) PROVE Before(p, r)
  <2>1. PICK i \in DOMAIN p : PartAt(p, o, i) /\ ~ Wild(p[i])
    BY DEF Before
  <2>2. PICK j \in DOMAIN o : PartAt(o, r, j) /\ ~ Wild(o[j])
    BY <1>2 DEF Before
  <2>3. /\ i \in Nat /\ j \in Nat /\ i \in DOMAIN o /\ j \in DOMAIN r
        /\ DOMAIN p = 1..Len(p) /\ DOMAIN o = 1..Len(o) /\ DOMAIN r = 1..Len(r)
        /\ Len(p) \in Nat /\ Len(o) \in Nat /\ Len(r) \in Nat
    BY <2>1, <2>2, PathFacts DEF PartAt
  <2>4. /\ p[i] # o[i] /\ \A k \in 1..(i - 1) : p[k] = o[k]
        /\ o[j] # r[j] /\ \A k \in 1..(j - 1) : o[k] = r[k]
    BY <2>1, <2>2 DEF PartAt
  <2>5. CASE i < j
    <3>1. i \in DOMAIN r /\ p[i] # r[i] /\ \A k \in 1..(i - 1) : p[k] = r[k]
      BY <2>3, <2>4, <2>5
    <3> QED
      BY <2>1, <3>1 DEF Before, PartAt
  <2>6. CASE j < i
    <3>1. j \in DOMAIN p /\ p[j] = o[j] /\ p[j] # r[j] /\ \A k \in 1..(j - 1) : p[k] = r[k]
      BY <2>3, <2>4, <2>6
    <3> QED
      BY <2>2, <2>3, <3>1 DEF Before, PartAt
  <2>7. CASE i = j
    <3>1. \A w \in {p, o} : ~ Wild(w[i]) => w[i] = q[i]
      BY <2>1, <2>2, <2>3, <2>7 DEF Matches, Wild
    <3> QED
      BY <2>1, <2>2, <2>4, <2>7, <3>1
  <2> QED
    BY <2>3, <2>5, <2>6, <2>7
<1> QED
  BY <1>1, <1>2

-----------------------------------------------------------------------------
(* A set of routes *)

\* The GET routes of a gin engine that has not panicked.
Tree(routes) ==
    /\ IsFiniteSet(routes)
    /\ \A r \in routes : /\ r.path \in Pattern
                         /\ r.owner \in {"app", "jwks", "discovery", "health", "ready"}
    /\ \A r, o \in routes : r # o => Compatible(r.path, o.path)

\* getValue finds a route whenever one of the tree matches: among those that do, one
\* comes before all others.
LEMMA SomethingServes ==
    ASSUME NEW T, Tree(T), NEW q \in Path, NEW r0 \in T, Matches(r0.path, q)
    PROVE  Serving(T, q) # {}
<1> DEFINE M == {r \in T : Matches(r.path, q)}
           Above(r) == {o \in M : Before(o.path, r.path)}
           Counts == {Cardinality(Above(r)) : r \in M}
<1>1. IsFiniteSet(M) /\ r0 \in M /\ \A r \in M : r.path \in Pattern /\ r.path \in Path
  <2>1. IsFiniteSet(T) /\ M \in SUBSET T
    BY DEF Tree
  <2>2. IsFiniteSet(M)
    BY <2>1, FS_Subset
  <2> QED
    BY <2>2 DEF Tree, Pattern
<1>2. \A r \in M : IsFiniteSet(Above(r))
  <2> TAKE r \in M
  <2>1. Above(r) \in SUBSET M
    OBVIOUS
  <2> QED
    BY <1>1, <2>1, FS_Subset
<1>3. \A r \in M : Cardinality(Above(r)) \in Nat
  BY <1>2, FS_CardinalityType
<1>4. Counts \subseteq Nat /\ Counts # {}
  BY <1>1, <1>3
<1>5. PICK n \in Counts : \A m \in Counts : n <= m
  BY <1>4, LeastNumber
<1>6. PICK r \in M : \A o \in M : Cardinality(Above(r)) <= Cardinality(Above(o))
  BY <1>5
<1>7. ASSUME NEW o \in Above(r) PROVE FALSE
  <2>1. o \in M /\ Before(o.path, r.path)
    OBVIOUS
  <2>2. ~ Before(o.path, o.path)
    BY <1>1, <2>1, BeforeIsOrder
  <2>3. \A x \in M : Before(x.path, o.path) => Before(x.path, r.path)
    <3> SUFFICES ASSUME NEW x \in M, Before(x.path, o.path) PROVE Before(x.path, r.path)
      OBVIOUS
    <3> QED
      BY <1>1, <2>1, BeforeIsOrder
  <2>4. Above(o) \in SUBSET Above(r) /\ o \notin Above(o) /\ o \in Above(r)
    BY <2>1, <2>2, <2>3
  <2>5. Cardinality(Above(o)) <= Cardinality(Above(r)) /\ Cardinality(Above(o)) # Cardinality(Above(r))
    <3>1. Above(o) # Above(r)
      BY <2>4
    <3> HIDE DEF Above
    <3> QED
      BY <1>2, <2>4, <3>1, FS_Subset
  <2>6. Cardinality(Above(r)) <= Cardinality(Above(o))
    BY <1>6, <2>1
  <2> HIDE DEF Above
  <2> QED
    BY <1>3, <2>1, <2>5, <2>6
<1>8. \A o \in M \ {r} : Before(r.path, o.path)
  <2> TAKE o \in M \ {r}
  <2>1. Compatible(r.path, o.path) /\ ~ Before(o.path, r.path)
    BY <1>7 DEF Tree
  <2> QED
    BY <1>1, <2>1, OneIsBefore
<1> QED
  BY <1>8 DEF Serving, Before

\* Which routes there are but for the middlewares that were in use when they were registered.
Project(routes) == {[path |-> r.path, owner |-> r.owner, uses |-> {}] : r \in routes}

\* addRoute looks at the paths alone.
LEMMA RegistrableProject ==
    ASSUME NEW T, NEW paths
    PROVE  Registrable(Project(T), paths) <=> Registrable(T, paths)
<1> DEFINE P(r) == [path |-> r.path, owner |-> r.owner, uses |-> {}]
<1>1. \A r \in T : P(r) \in Project(T) /\ P(r).path = r.path
  BY DEF Project
<1>2. \A x \in Project(T) : \E r \in T : x.path = r.path
  BY DEF Project
<1> HIDE DEF P
<1> QED
  BY <1>1, <1>2 DEF Registrable

\* So does getValue.
LEMMA ServingProject ==
    ASSUME NEW T, Tree(T), NEW q
    PROVE  Serving(Project(T), q) = Project(Serving(T, q))
<1> DEFINE P(r) == [path |-> r.path, owner |-> r.owner, uses |-> {}]
           M == {r \in T : Matches(r.path, q)}
           N == {x \in Project(T) : Matches(x.path, q)}
<1>1. \A r, o \in T : P(r) = P(o) => r = o
  <2> SUFFICES ASSUME NEW r \in T, NEW o \in T, P(r) = P(o), r # o PROVE FALSE
    OBVIOUS
  <2>1. Compatible(r.path, o.path) /\ r.path = o.path
    BY DEF Tree
  <2> QED
    BY <2>1 DEF Compatible, Conflicts
<1>2. N = {P(r) : r \in M}
  BY DEF Project
<1>3. \A r \in M : P(r) \in Serving(Project(T), q) <=> r \in Serving(T, q)
  <2> TAKE r \in M
  <2>1. r \in Serving(T, q) <=> \A o \in M \ {r} : Before(r.path, o.path)
    BY DEF Serving, Before
  <2>2. P(r) \in Serving(Project(T), q) <=> \A x \in N \ {P(r)} : Before(r.path, x.path)
    BY <1>2 DEF Serving, Before
  <2>3. \A o \in M : P(o) # P(r) <=> o # r
    BY <1>1
  <2> QED
    <3>1. \A o \in M : P(o).path = o.path
      OBVIOUS
    <3>2. \A x : x \in N \ {P(r)} <=> \E o \in M \ {r} : x = P(o)
      BY <1>2, <2>3
    <3> HIDE DEF P, M, N
    <3> QED
      BY <2>1, <2>2, <3>1, <3>2
<1>4. Serving(Project(T), q) \subseteq N /\ Serving(T, q) \subseteq M
  BY DEF Serving
<1> QED
  BY <1>2, <1>3, <1>4 DEF Project

\* It does not matter which of two conflicting routes was registered first.
LEMMA ConflictsSymmetric ==
    ASSUME NEW p, NEW o
    PROVE  Conflicts(p, o) => Conflicts(o, p)
<1>1. CASE p = o
  BY <1>1 DEF Conflicts
<1>2. CASE p # o
  <2> SUFFICES ASSUME Conflicts(p, o) PROVE Conflicts(o, p)
    OBVIOUS
  <2>1. PICK i \in DOMAIN p :
            /\ PartAt(p, o, i)
            /\ (Wild(p[i]) /\ Wild(o[i])) \/ {p[i], o[i]} \cap CatchAlls # {}
    BY <1>2 DEF Conflicts
  <2>2. i \in DOMAIN o /\ PartAt(o, p, i)
    BY <2>1 DEF PartAt
  <2>3. (Wild(o[i]) /\ Wild(p[i])) \/ {o[i], p[i]} \cap CatchAlls # {}
    BY <2>1
  <2> QED
    BY <2>2, <2>3 DEF Conflicts
<1> QED
  BY <1>1, <1>2

\* addRoute adds a route to the tree that conflicts with none that is there.
LEMMA TreeGrows ==
    ASSUME NEW T, Tree(T), NEW r, r.path \in Pattern,
           r.owner \in {"app", "jwks", "discovery", "health", "ready"},
           \A o \in T : ~ Conflicts(o.path, r.path)
    PROVE  Tree(T \cup {r})
<1>1. IsFiniteSet(T \cup {r})
  BY FS_AddElement DEF Tree
<1>2. \A o \in T : Compatible(o.path, r.path) /\ Compatible(r.path, o.path)
  BY ConflictsSymmetric DEF Compatible
<1> QED
  BY <1>1, <1>2 DEF Tree

\* The endpoints of one mount.
LEMMA TreeMounts ==
    ASSUME NEW T, Tree(T), NEW uses, NEW paths, paths \in Pattern \X Pattern \X Pattern,
           Registrable(T, paths)
    PROVE  /\ Tree(T \cup Routes(paths, uses))
           /\ \A r \in Routes(paths, uses) : r.owner # "ready"
<1> DEFINE R(i) == [path |-> paths[i], owner |-> Owners[i], uses |-> uses]
<1>1. /\ DOMAIN paths = {1, 2, 3} /\ \A i \in {1, 2, 3} : paths[i] \in Pattern
      /\ Owners[1] = "jwks" /\ Owners[2] = "discovery" /\ Owners[3] = "health"
  BY DEF Owners
<1>2. /\ \A r \in T, i \in {1, 2, 3} : ~ Conflicts(r.path, paths[i])
      /\ ~ Conflicts(paths[1], paths[2]) /\ ~ Conflicts(paths[1], paths[3])
      /\ ~ Conflicts(paths[2], paths[3])
  BY <1>1 DEF Registrable
<1>3. \A i \in {1, 2, 3} : /\ R(i).path = paths[i] /\ R(i).path \in Pattern /\ R(i).owner # "ready"
                           /\ R(i).owner \in {"app", "jwks", "discovery", "health", "ready"}
  BY <1>1
<1>4. Routes(paths, uses) = {R(1), R(2), R(3)}
  BY <1>1 DEF Routes
<1> HIDE DEF R
<1>5. Tree(T \cup {R(1)})
  BY <1>2, <1>3, TreeGrows
<1>6. Tree((T \cup {R(1)}) \cup {R(2)})
  BY <1>2, <1>3, <1>5, TreeGrows
<1>7. Tree(((T \cup {R(1)}) \cup {R(2)}) \cup {R(3)})
  BY <1>2, <1>3, <1>6, TreeGrows
<1>8. ((T \cup {R(1)}) \cup {R(2)}) \cup {R(3)} = T \cup Routes(paths, uses)
  BY <1>4
<1> QED
  BY <1>3, <1>4, <1>7, <1>8

\* Paths of the endpoints, whether they were set or not, on an engine and in a group.
LEMMA EndpointPatterns ==
    ASSUME NEW set \in Setters, NEW base \in {<<>>, Prefix}
    PROVE  /\ AuthRoutes(set).ready \in Pattern
           /\ base \o AuthRoutes(set).ready \in Pattern
           /\ Legacy(AuthRoutes(set), base) \in Pattern \X Pattern \X Pattern
           /\ <<>> \o AuthRoutes(set).ready = AuthRoutes(set).ready
<1>1. \A s \in {"jwks.json", "openid-configuration", "healthz", "readyz"} : <<s>> \in Pattern
  <2> TAKE s \in {"jwks.json", "openid-configuration", "healthz", "readyz"}
  <2>1. s \in Segments
    BY SegmentsAssumption
  <2> QED
    BY <2>1 DEF Pattern, Path
<1>2. PICK a : a = AuthRoutes(set)
  OBVIOUS
<1>3. /\ a.jwks \in Pattern /\ a.discovery \in Pattern /\ a.health \in Pattern
      /\ a.ready \in Pattern
  BY <1>1, <1>2, PathsAssumption DEF AuthRoutes
<1>4. ASSUME NEW p \in Pattern PROVE base \o p \in Pattern /\ <<>> \o p = p
  <2>1. p \in Seq(Segments) /\ p # <<>> /\ \A i \in DOMAIN p : p[i] \in CatchAlls => i = Len(p)
    BY DEF Pattern, Path
  <2>2. base \in Seq(Segments) /\ \A i \in DOMAIN base : base[i] \notin CatchAlls
    <3>1. CASE base = <<>>
      BY <3>1
    <3>2. CASE base = Prefix
      <4>1. base \in Seq(Segments \ CatchAlls)
        BY <3>2, PathsAssumption
      <4>2. \A i \in DOMAIN base : base[i] \in Segments \ CatchAlls
        BY <4>1
      <4>3. base \in Seq(Segments)
        BY <4>1
      <4> QED
        BY <4>2, <4>3
    <3> QED
      BY <3>1, <3>2
  <2>3. base \o p \in Seq(Segments) /\ Len(base \o p) = Len(base) + Len(p) /\ base \o p # <<>>
    BY <2>1, <2>2
  <2>4. \A i \in DOMAIN (base \o p) : (base \o p)[i] \in CatchAlls => i = Len(base \o p)
    <3> SUFFICES ASSUME NEW i \in DOMAIN (base \o p), (base \o p)[i] \in CatchAlls
                 PROVE  i = Len(base) + Len(p)
      BY <2>3
    <3>1. i \in 1..(Len(base) + Len(p)) /\ Len(base) \in Nat /\ Len(p) \in Nat
      BY <2>1, <2>2, <2>3
    <3>2. CASE i <= Len(base)
      <4>1. (base \o p)[i] = base[i] /\ i \in DOMAIN base
        BY <2>1, <2>2, <3>1, <3>2
      <4> QED
        BY <2>2, <4>1
    <3>3. CASE i > Len(base)
      <4>1. (base \o p)[i] = p[i - Len(base)] /\ i - Len(base) \in DOMAIN p
        BY <2>1, <2>2, <3>1, <3>3
      <4>2. i - Len(base) = Len(p)
        BY <2>1, <4>1
      <4> QED
        BY <3>1, <4>2
    <3> QED
      BY <3>1, <3>2, <3>3
  <2>5. <<>> \o p = p
    BY <2>1
  <2> QED
    BY <2>3, <2>4, <2>5 DEF Pattern, Path
<1>5. Legacy(a, base) \in Pattern \X Pattern \X Pattern
  BY <1>3, <1>4 DEF Legacy
<1> QED
  BY <1>2, <1>3, <1>4, <1>5

\* A static path serves itself and nothing else.
LEMMA StaticMatches ==
    ASSUME NEW p \in Path, \A i \in DOMAIN p : ~ Wild(p[i]), NEW q \in Path
    PROVE  Matches(p, q) <=> p = q
<1>1. PICK lp, lq : /\ lp = Len(p) /\ lq = Len(q) /\ lp \in Nat \ {0} /\ lq \in Nat \ {0}
                    /\ DOMAIN p = 1..lp /\ DOMAIN q = 1..lq /\ Last(p) = p[lp]
  BY PathFacts
<1>2. Matches(p, q) <=> lp = lq /\ \A i \in 1..lp : p[i] = q[i]
  <2>1. \A i \in 1..lp : p[i] \notin Params /\ p[i] \notin CatchAlls
    BY <1>1 DEF Wild
  <2>2. lp \in 1..lp
    BY <1>1
  <2> DEFINE fits(i) == p[i] = q[i] \/ (p[i] \in Params /\ q[i] # "") \/ p[i] \in CatchAlls
  <2>3. Matches(p, q) <=>
          /\ lp = lq \/ (p[lp] \in CatchAlls /\ lp < lq)
          /\ \A i \in 1..lp : fits(i)
    BY <1>1 DEF Matches
  <2>4. \A i \in 1..lp : fits(i) <=> p[i] = q[i]
    BY <2>1
  <2> HIDE DEF fits
  <2> QED
    BY <2>1, <2>2, <2>3, <2>4
<1>3. p \in Seq(Segments) /\ q \in Seq(Segments)
  BY DEF Path
<1> QED
  BY <1>1, <1>2, <1>3

\* mountCompatibleGET on an engine: a static path that no route covers has no conflict,
\* so that the readiness route is not given up without a route that answers in its place.
LEMMA StaticRegistrable ==
    ASSUME NEW T, Tree(T), NEW p \in Path, \A i \in DOMAIN p : ~ Wild(p[i]),
           \A r \in T : ~ Matches(r.path, p)
    PROVE  Registrable(T, <<p>>)
<1>1. ASSUME NEW r \in T, Conflicts(r.path, p) PROVE FALSE
  <2>1. r.path \in Pattern /\ r.path \in Path /\ ~ Matches(r.path, p)
    BY DEF Tree, Pattern
  <2>2. r.path # p
    BY <2>1, StaticMatches
  <2>3. PICK i \in DOMAIN r.path :
            /\ PartAt(r.path, p, i)
            /\ (Wild(r.path[i]) /\ Wild(p[i])) \/ {r.path[i], p[i]} \cap CatchAlls # {}
    BY <1>1, <2>2 DEF Conflicts
  <2>4. i \in DOMAIN p /\ r.path[i] \in CatchAlls /\ \A j \in 1..(i - 1) : r.path[j] = p[j]
    BY <2>3 DEF PartAt, Wild
  <2>5. PICK lr, lp : /\ lr = Len(r.path) /\ lp = Len(p) /\ lr \in Nat \ {0} /\ lp \in Nat \ {0}
                      /\ DOMAIN r.path = 1..lr /\ DOMAIN p = 1..lp /\ Last(r.path) = r.path[lr]
    BY <2>1, PathFacts
  <2>6. i = lr /\ lr <= lp
    BY <2>1, <2>4, <2>5 DEF Pattern
  <2> QED
    <3>1. lr = lp \/ (r.path[lr] \in CatchAlls /\ lr < lp)
      BY <2>4, <2>5, <2>6
    <3>2. \A j \in 1..lr : r.path[j] = p[j] \/ r.path[j] \in CatchAlls
      BY <2>4, <2>5, <2>6
    <3>3. Matches(r.path, p)
      BY <2>5, <3>1, <3>2 DEF Matches
    <3> QED
      BY <2>1, <3>3
<1> QED
  BY <1>1 DEF Registrable

-----------------------------------------------------------------------------
(* The inductive invariant *)

\* Readiness was only ever mounted by default.
DefaultOnly == \A i \in DOMAIN mounts : ~ mounts[i].explicit

\* The readiness route that an engine was asked for, or the route that it yielded to.
ReadyServed ==
    \A i \in DOMAIN mounts : mounts[i].on = "engine" =>
        IF mounts[i].explicit
        THEN \E r \in tree : Matches(r.path, mounts[i].ready)
        ELSE mounts[i].ready \in fallbacks

RoutesInv ==
    /\ Tree(tree)
    /\ mounts \in Seq([on : {"engine", "group"}, ready : Path, explicit : BOOLEAN])
    /\ ~ panicked => ReadyServed
    /\ DefaultOnly => IF panicked THEN plainPanicked ELSE plain = Project(tree)

\* mountCompatibleGET leaves the other routes in place, and after it the path is served
\* on an engine: by the new route or by the one that it yielded to.
LEMMA ReadyMounted ==
    ASSUME NEW T, Tree(T), NEW on \in {"engine", "group"}, NEW p \in Pattern,
           on = "engine" => \A i \in DOMAIN p : ~ Wild(p[i])
    PROVE  /\ Tree(WithReady(on, T, p)) /\ T \subseteq WithReady(on, T, p)
           /\ on = "engine" => \E r \in WithReady(on, T, p) : Matches(r.path, p)
<1> DEFINE new == [path |-> p, owner |-> "ready", uses |-> fallbacks]
           covered == hasExistingGETRoute(on, T, p)
<1>1. p \in Path
  BY DEF Pattern
<1>2. \A r \in T : r.path \in Pattern
  BY DEF Tree
<1>3. covered <=> on = "engine" /\ \E r \in T : Matches(r.path, p)
  BY <1>1, <1>2, CoversMatches DEF hasExistingGETRoute
<1>4. CASE Registrable(T, <<p>>) /\ ~ covered
  <2>1. WithReady(on, T, p) = T \cup {new}
    BY <1>4 DEF WithReady
  <2>2. \A r \in T : ~ Conflicts(r.path, p)
    <3>1. 1 \in DOMAIN <<p>> /\ <<p>>[1] = p
      OBVIOUS
    <3> QED
      BY <1>4, <3>1 DEF Registrable
  <2>3. new.path = p /\ new.owner = "ready"
    OBVIOUS
  <2> HIDE DEF new
  <2>4. Tree(T \cup {new})
    BY <2>2, <2>3, TreeGrows
  <2>5. on = "engine" => Matches(new.path, p)
    BY <1>1, <2>3, StaticMatches
  <2> QED
    BY <2>1, <2>4, <2>5
<1>5. CASE covered
  BY <1>3, <1>5 DEF WithReady
<1>6. CASE ~ Registrable(T, <<p>>) /\ ~ covered
  <2>1. on # "engine"
    BY <1>1, <1>3, <1>6, StaticRegistrable
  <2> QED
    BY <1>6, <2>1 DEF WithReady
<1> QED
  BY <1>4, <1>5, <1>6

\* A new engine has no routes.
LEMMA RoutesInvInit == Init => RoutesInv
<1> SUFFICES ASSUME Init PROVE RoutesInv
  OBVIOUS
<1>1. Tree(tree)
  BY FS_EmptySet DEF Init, Tree
<1>2. plain = Project(tree)
  BY DEF Init, Project
<1>3. mounts = <<>> /\ ~ panicked
  BY DEF Init
<1> QED
  BY <1>1, <1>2, <1>3 DEF RoutesInv, ReadyServed

\* Registering a route in the tree and in what would be the tree without readiness
\* keeps the two alike.
LEMMA ProjectGrows ==
    ASSUME NEW T, NEW r
    PROVE  Project(T \cup {r})
             = Project(T) \cup {[path |-> r.path, owner |-> r.owner, uses |-> {}]}
BY DEF Project

\* The same of the endpoints of a mount.
LEMMA ProjectMounts ==
    ASSUME NEW T, NEW paths, NEW uses
    PROVE  Project(T \cup Routes(paths, uses)) = Project(T) \cup Routes(paths, {})
<1> DEFINE R(i) == [path |-> paths[i], owner |-> Owners[i], uses |-> uses]
           E(i) == [path |-> paths[i], owner |-> Owners[i], uses |-> {}]
<1>1. Routes(paths, uses) = {R(i) : i \in DOMAIN paths} /\ Routes(paths, {}) = {E(i) : i \in DOMAIN paths}
  BY DEF Routes
<1>2. \A i : R(i).path = paths[i] /\ R(i).owner = Owners[i]
  OBVIOUS
<1>3. Project(T \cup Routes(paths, uses)) = Project(T) \cup Project(Routes(paths, uses))
  BY DEF Project
<1>4. Project(Routes(paths, uses)) = {E(i) : i \in DOMAIN paths}
  <2>1. \A i \in DOMAIN paths : R(i) \in Routes(paths, uses)
    BY <1>1
  <2>2. \A r \in Routes(paths, uses) : \E i \in DOMAIN paths : r = R(i)
    BY <1>1
  <2>3. \A i : E(i) = [path |-> R(i).path, owner |-> R(i).owner, uses |-> {}]
    BY <1>2
  <2> HIDE DEF R, E
  <2> QED
    BY <2>1, <2>2, <2>3 DEF Project
<1> QED
  BY <1>1, <1>3, <1>4

\* A route that the application registers.
LEMMA RoutesInvApp ==
    ASSUME RoutesInv, NEW p \in AppPatterns, AppRegister(p)
    PROVE  RoutesInv'
<1> DEFINE new == [path |-> p, owner |-> "app", uses |-> fallbacks]
<1>1. /\ ~ panicked /\ mounts' = mounts /\ fallbacks' = fallbacks /\ p \in Pattern
      /\ Tree(tree) /\ ReadyServed
  BY PathsAssumption DEF AppRegister, RoutesInv
<1>2. CASE Registrable(tree, <<p>>)
  <2>1. tree' = tree \cup {new} /\ panicked' = panicked
    BY <1>2 DEF AppRegister
  <2>2. \A r \in tree : ~ Conflicts(r.path, p)
    <3>1. 1 \in DOMAIN <<p>> /\ <<p>>[1] = p
      OBVIOUS
    <3> QED
      BY <1>2, <3>1 DEF Registrable
  <2>3. new.path = p /\ new.owner = "app"
    OBVIOUS
  <2> HIDE DEF new
  <2>4. Tree(tree')
    <3>1. PICK T, n : T = tree /\ n = new
      OBVIOUS
    <3>2. Tree(T \cup {n})
      BY <1>1, <2>2, <2>3, <3>1, TreeGrows
    <3> QED
      BY <2>1, <3>1, <3>2
  <2>5. ReadyServed'
    BY <1>1, <2>1 DEF ReadyServed
  <2>6. DefaultOnly' => plain' = Project(tree')
    <3> SUFFICES ASSUME DefaultOnly' PROVE plain' = Project(tree')
      OBVIOUS
    <3>1. plain = Project(tree)
      BY <1>1 DEF RoutesInv, DefaultOnly
    <3>2. Registrable(plain, <<p>>)
      BY <1>2, <3>1, RegistrableProject
    <3>3. plain' = plain \cup {[path |-> p, owner |-> "app", uses |-> {}]}
      BY <3>2 DEF AppRegister
    <3>4. PICK T, n : T = tree /\ n = new
      OBVIOUS
    <3>5. Project(T \cup {n}) = Project(T) \cup {[path |-> n.path, owner |-> n.owner, uses |-> {}]}
      BY ProjectGrows
    <3> QED
      BY <2>1, <2>3, <3>1, <3>3, <3>4, <3>5
  <2> QED
    BY <1>1, <2>1, <2>4, <2>5, <2>6 DEF RoutesInv
<1>3. CASE ~ Registrable(tree, <<p>>)
  <2>1. tree' = tree /\ panicked'
    BY <1>3 DEF AppRegister
  <2>2. DefaultOnly' => plainPanicked'
    <3> SUFFICES ASSUME DefaultOnly' PROVE plainPanicked'
      OBVIOUS
    <3>1. plain = Project(tree)
      BY <1>1 DEF RoutesInv, DefaultOnly
    <3>2. ~ Registrable(plain, <<p>>)
      BY <1>3, <3>1, RegistrableProject
    <3> QED
      BY <3>2 DEF AppRegister
  <2> QED
    BY <1>1, <2>1, <2>2 DEF RoutesInv
<1> QED
  BY <1>2, <1>3

\* A call of Mount, without what it makes of its arguments.
LEMMA RoutesInvMount ==
    ASSUME RoutesInv, NEW on \in {"engine", "group"}, NEW set \in Setters, Mount(on, set)
    PROVE  RoutesInv'
<1>1. PICK r, base, legacy :
        /\ r = AuthRoutes(set) /\ base = IF on = "engine" THEN <<>> ELSE Prefix
        /\ legacy = Legacy(r, base)
  OBVIOUS
<1>2. PICK T, uses, m : T = tree /\ uses = fallbacks /\ m = mounts
  OBVIOUS
<1> DEFINE call == [on |-> on, ready |-> base \o r.ready, explicit |-> r.readyExplicit]
<1>3. /\ ~ panicked /\ mounts' = Append(mounts, call)
      /\ Tree(T) /\ ReadyServed
      /\ mounts \in Seq([on : {"engine", "group"}, ready : Path, explicit : BOOLEAN])
  BY <1>1, <1>2 DEF Mount, RoutesInv
<1>4. /\ r.ready \in Pattern /\ base \o r.ready \in Pattern /\ base \o r.ready \in Path
      /\ legacy \in Pattern \X Pattern \X Pattern
      /\ on = "engine" => base \o r.ready = r.ready
  <2>1. base \in {<<>>, Prefix}
    BY <1>1
  <2> QED
    BY <1>1, <2>1, EndpointPatterns DEF Pattern
<1>5. call \in [on : {"engine", "group"}, ready : Path, explicit : BOOLEAN]
  <2>1. r.readyExplicit \in BOOLEAN
    BY <1>1 DEF AuthRoutes
  <2> QED
    BY <1>4, <2>1
<1>6. call.on = on /\ call.ready = base \o r.ready /\ call.explicit = r.readyExplicit
  OBVIOUS
<1> HIDE DEF call
<1>7. /\ mounts' \in Seq([on : {"engine", "group"}, ready : Path, explicit : BOOLEAN])
      /\ \A i \in DOMAIN mounts' : (i \in DOMAIN mounts /\ mounts'[i] = mounts[i]) \/ mounts'[i] = call
      /\ \A i \in DOMAIN mounts : i \in DOMAIN mounts' /\ mounts'[i] = mounts[i]
      /\ Len(mounts') \in DOMAIN mounts' /\ mounts'[Len(mounts')] = call
  BY <1>3, <1>5
<1>8. ASSUME DefaultOnly'
      PROVE  /\ ~ r.readyExplicit /\ plain = Project(T)
             /\ \A i \in DOMAIN r.ready : ~ Wild(r.ready[i])
             /\ Registrable(plain, legacy) <=> Registrable(T, legacy)
  <2>1. ~ call.explicit /\ DefaultOnly
    BY <1>7, <1>8 DEF DefaultOnly
  <2>2. plain = Project(T)
    BY <1>2, <1>3, <2>1 DEF RoutesInv
  <2>3. set.ready = Unset /\ r.ready = <<"readyz">>
    BY <1>1, <1>6, <2>1 DEF AuthRoutes
  <2>4. \A i \in DOMAIN r.ready : ~ Wild(r.ready[i])
    <3>1. "readyz" \notin Params /\ "readyz" \notin CatchAlls
      BY SegmentsAssumption
    <3>2. DOMAIN r.ready = {1} /\ r.ready[1] = "readyz"
      BY <2>3
    <3> QED
      BY <3>1, <3>2 DEF Wild
  <2> QED
    BY <1>6, <2>1, <2>2, <2>4, RegistrableProject
<1> DEFINE panics == \/ base \o r.token \in posts
                     \/ ~ Registrable(tree, legacy)
                     \/ (r.readyExplicit \/ on = "engine") /\ ~ validateReadyPath(r.ready)
<1>9. CASE panics
  <2>1. tree' = tree /\ panicked'
    BY <1>1, <1>9 DEF Mount
  <2>2. DefaultOnly' => plainPanicked'
    <3> SUFFICES ASSUME DefaultOnly' PROVE plainPanicked'
      OBVIOUS
    <3>1. base \o r.token \in posts \/ ~ Registrable(plain, legacy)
      BY <1>2, <1>8, <1>9 DEF validateReadyPath
    <3> QED
      BY <1>1, <3>1 DEF Mount
  <2> QED
    BY <1>2, <1>3, <1>7, <2>1, <2>2 DEF RoutesInv
<1>10. CASE ~ panics
  <2> DEFINE added == T \cup Routes(legacy, uses)
  <2>1. /\ tree' = IF r.readyExplicit THEN WithReady(on, added, base \o r.ready) ELSE added
        /\ fallbacks' = IF ~ r.readyExplicit /\ on = "engine"
                        THEN fallbacks \cup {r.ready} ELSE fallbacks
        /\ panicked' = panicked
    BY <1>1, <1>2, <1>10 DEF Mount
  <2>2. /\ base \o r.token \notin posts /\ Registrable(T, legacy)
        /\ r.readyExplicit \/ on = "engine" => \A i \in DOMAIN r.ready : ~ Wild(r.ready[i])
    BY <1>2, <1>10 DEF validateReadyPath
  <2>3. Tree(added)
    BY <1>3, <1>4, <2>2, TreeMounts
  <2>4. r.readyExplicit =>
          LET after == WithReady(on, added, base \o r.ready)
          IN  /\ Tree(after) /\ added \subseteq after
              /\ on = "engine" => \E x \in after : Matches(x.path, base \o r.ready)
    <3> SUFFICES ASSUME r.readyExplicit
                 PROVE  LET after == WithReady(on, added, base \o r.ready)
                        IN  /\ Tree(after) /\ added \subseteq after
                            /\ on = "engine" => \E x \in after : Matches(x.path, base \o r.ready)
      OBVIOUS
    <3>1. PICK S, p : S = added /\ p = base \o r.ready
      OBVIOUS
    <3>2. /\ Tree(S) /\ p \in Pattern
          /\ on = "engine" => \A i \in DOMAIN p : ~ Wild(p[i])
      BY <1>4, <2>2, <2>3, <3>1
    <3>3. /\ Tree(WithReady(on, S, p)) /\ S \subseteq WithReady(on, S, p)
          /\ on = "engine" => \E x \in WithReady(on, S, p) : Matches(x.path, p)
      BY <3>2, ReadyMounted
    <3> QED
      BY <3>1, <3>3
  <2>5. Tree(tree') /\ T \subseteq tree'
    BY <2>1, <2>3, <2>4
  <2>6. ReadyServed'
    <3> SUFFICES ASSUME NEW i \in DOMAIN mounts', mounts'[i].on = "engine"
                 PROVE  IF mounts'[i].explicit
                        THEN \E x \in tree' : Matches(x.path, mounts'[i].ready)
                        ELSE mounts'[i].ready \in fallbacks'
      BY DEF ReadyServed
    <3>1. CASE i \in DOMAIN mounts /\ mounts'[i] = mounts[i]
      <4>1. fallbacks \subseteq fallbacks'
        BY <2>1
      <4> QED
        BY <1>2, <1>3, <2>5, <3>1, <4>1 DEF ReadyServed
    <3>2. CASE mounts'[i] = call
      <4>1. on = "engine"
        BY <1>6, <3>2
      <4>2. CASE r.readyExplicit
        BY <1>6, <2>1, <2>4, <3>2, <4>1, <4>2
      <4>3. CASE ~ r.readyExplicit
        BY <1>4, <1>6, <2>1, <3>2, <4>1, <4>3
      <4> QED
        BY <4>2, <4>3
    <3> QED
      BY <1>7, <3>1, <3>2
  <2>7. DefaultOnly' => plain' = Project(tree')
    <3> SUFFICES ASSUME DefaultOnly' PROVE plain' = Project(tree')
      OBVIOUS
    <3>1. Registrable(plain, legacy)
      BY <1>8, <2>2
    <3>2. plain' = plain \cup Routes(legacy, {})
      BY <1>1, <2>2, <3>1 DEF Mount
    <3>3. Project(added) = Project(T) \cup Routes(legacy, {})
      BY ProjectMounts
    <3> QED
      BY <1>8, <2>1, <3>2, <3>3
  <2> QED
    BY <1>3, <1>7, <2>1, <2>5, <2>6, <2>7 DEF RoutesInv
<1> QED
  BY <1>9, <1>10

\* The invariant of every sequence of registrations and mounts.
THEOREM RoutesInvariant == Spec => []RoutesInv
<1>1. RoutesInv /\ [Next]_vars => RoutesInv'
  <2> SUFFICES ASSUME RoutesInv, [Next]_vars PROVE RoutesInv'
    OBVIOUS
  <2>1. CASE UNCHANGED vars
    BY <2>1 DEF vars, RoutesInv, Tree, ReadyServed, DefaultOnly, Project
  <2> QED
    BY <2>1, RoutesInvApp, RoutesInvMount DEF Next
<1> QED
  BY <1>1, RoutesInvInit, PTL DEF Spec-----------------------------------------------------------------------------
(* The properties *)

\* What a route answers a request that it serves.
LEMMA FoundAnswers ==
    ASSUME NEW T, NEW used, NEW q, Serving(T, q) # {}
    PROVE  Answer(T, used, q) = {<<r.owner, r.path>> : r \in Serving(T, q)}
BY DEF Answer, Intercepts

\* What is answered where no route is found: the redirection before the readiness
\* middleware.
LEMMA NotFoundAnswers ==
    ASSUME NEW T, NEW used, NEW q, Serving(T, q) = {}
    PROVE  Answer(T, used, q) = IF q # <<"">> /\ Serving(T, Toggled(q)) # {}
                                THEN {<<"redirect", Toggled(q)>>}
                                ELSE IF q \in used THEN {<<"ready", q>>} ELSE {}
BY DEF Answer, Intercepts

\* ReadinessAnswered in every sequence of registrations: the middleware of a default
\* mount answers if nothing else does, and an explicit mount leaves a route in the tree
\* that serves the path, so that no redirection is tried.
THEOREM ReadinessIsAnswered == Spec => []ReadinessAnswered
<1>1. RoutesInv => ReadinessAnswered
  <2> SUFFICES ASSUME RoutesInv, ~ panicked, NEW i \in DOMAIN mounts, mounts[i].on = "engine"
               PROVE  LET answer == Answer(tree, fallbacks, mounts[i].ready)
                      IN  /\ answer # {}
                          /\ mounts[i].explicit => \A a \in answer : a[1] # "redirect"
    BY DEF ReadinessAnswered
  <2>1. PICK q : q = mounts[i].ready
    OBVIOUS
  <2>2. /\ q \in Path /\ Tree(tree)
        /\ IF mounts[i].explicit THEN \E r \in tree : Matches(r.path, q) ELSE q \in fallbacks
    <3> DEFINE Calling == [on : {"engine", "group"}, ready : Path, explicit : BOOLEAN]
    <3>1. mounts \in Seq(Calling)
      BY DEF RoutesInv
    <3>2. mounts[i].ready \in Path
      <4> HIDE DEF Calling
      <4>1. mounts[i] \in Calling
        BY <3>1
      <4> USE DEF Calling
      <4> QED
        BY <4>1
    <3>3. Tree(tree) /\ ReadyServed
      BY DEF RoutesInv
    <3> QED
      BY <2>1, <3>2, <3>3 DEF ReadyServed
  <2>3. mounts[i].explicit => Serving(tree, q) # {}
    <3>1. PICK T : T = tree
      OBVIOUS
    <3> QED
      BY <2>2, <3>1, SomethingServes
  <2>4. CASE Serving(tree, q) # {}
    <3>1. Answer(tree, fallbacks, q) = {<<r.owner, r.path>> : r \in Serving(tree, q)}
      BY <2>4, FoundAnswers
    <3>2. \A r \in Serving(tree, q) : r.owner # "redirect"
      BY <2>2 DEF Serving, Tree
    <3>3. \A a \in Answer(tree, fallbacks, q) : a[1] # "redirect"
      BY <3>1, <3>2
    <3>4. Answer(tree, fallbacks, q) # {}
      BY <2>4, <3>1
    <3> QED
      BY <2>1, <3>3, <3>4
  <2>5. CASE Serving(tree, q) = {}
    <3>1. ~ mounts[i].explicit /\ q \in fallbacks
      BY <2>2, <2>3, <2>5
    <3>2. Answer(tree, fallbacks, q) = IF q # <<"">> /\ Serving(tree, Toggled(q)) # {}
                                       THEN {<<"redirect", Toggled(q)>>}
                                       ELSE IF q \in fallbacks THEN {<<"ready", q>>} ELSE {}
      BY <2>5, NotFoundAnswers
    <3>3. Answer(tree, fallbacks, q) # {}
      BY <3>1, <3>2
    <3> QED
      BY <2>1, <3>1, <3>3
  <2> QED
    BY <2>4, <2>5
<1> QED
  BY <1>1, RoutesInvariant, PTL

\* DefaultReadinessYields in every order of registration: without an explicit mount the
\* tree has the routes it would have had without readiness, which answer first.
THEOREM DefaultYields == Spec => []DefaultReadinessYields
<1>1. RoutesInv => DefaultReadinessYields
  <2> SUFFICES ASSUME RoutesInv, DefaultOnly
               PROVE  /\ panicked => plainPanicked
                      /\ ~ panicked => \A q \in Requests :
                            Answer(tree, fallbacks, q) =
                                IF Answer(plain, {}, q) = {} /\ q \in fallbacks
                                THEN {<<"ready", q>>} ELSE Answer(plain, {}, q)
    BY DEF DefaultReadinessYields, DefaultOnly
  <2>1. panicked => plainPanicked
    BY DEF RoutesInv
  <2>2. ASSUME ~ panicked, NEW q \in Requests
        PROVE  Answer(tree, fallbacks, q) =
                   IF Answer(plain, {}, q) = {} /\ q \in fallbacks
                   THEN {<<"ready", q>>} ELSE Answer(plain, {}, q)
    <3>1. PICK T, t, F : T = tree /\ t = Toggled(q) /\ F = Serving(T, q)
      OBVIOUS
    <3>2. Tree(T) /\ plain = Project(T)
      BY <2>2, <3>1 DEF RoutesInv
    <3>3. Serving(plain, q) = Project(F) /\ Serving(plain, t) = Project(Serving(T, t))
      BY <3>1, <3>2, ServingProject
    <3>4. \A S : Project(S) = {} <=> S = {}
      BY DEF Project
    <3>5. CASE F # {}
      <4>1. Answer(tree, fallbacks, q) = {<<r.owner, r.path>> : r \in F}
        BY <3>1, <3>5, FoundAnswers
      <4>2. Answer(plain, {}, q) = {<<r.owner, r.path>> : r \in Project(F)}
        BY <3>3, <3>4, <3>5, FoundAnswers
      <4>3. {<<r.owner, r.path>> : r \in Project(F)} = {<<r.owner, r.path>> : r \in F}
        <5> DEFINE P(r) == [path |-> r.path, owner |-> r.owner, uses |-> {}]
        <5>1. /\ \A r : P(r).owner = r.owner /\ P(r).path = r.path
              /\ \A r \in F : P(r) \in Project(F)
              /\ \A x \in Project(F) : \E r \in F : x = P(r)
          BY DEF Project
        <5> HIDE DEF P
        <5> QED
          BY <5>1
      <4> QED
        BY <3>5, <4>1, <4>2, <4>3
    <3>6. CASE F = {}
      <4>1. Serving(plain, q) = {} /\ (Serving(plain, t) = {} <=> Serving(T, t) = {})
        BY <3>3, <3>4, <3>6
      <4>2. Answer(tree, fallbacks, q) = IF q # <<"">> /\ Serving(T, t) # {}
                                         THEN {<<"redirect", t>>}
                                         ELSE IF q \in fallbacks THEN {<<"ready", q>>} ELSE {}
        BY <3>1, <3>6, NotFoundAnswers
      <4>3. Answer(plain, {}, q) = IF q # <<"">> /\ Serving(plain, t) # {}
                                   THEN {<<"redirect", t>>} ELSE {}
        BY <3>1, <4>1, NotFoundAnswers
      <4> QED
        BY <4>1, <4>2, <4>3
    <3> QED
      BY <3>5, <3>6
  <2> QED
    BY <2>1, <2>2
<1> QED
  BY <1>1, RoutesInvariant, PTL

\* A route takes no request that it does not match.
LEMMA ServingWithout ==
    ASSUME NEW T, NEW n, NEW q, ~ Matches(n.path, q)
    PROVE  Serving(T \cup {n}, q) = Serving(T, q)
<1>1. {r \in T \cup {n} : Matches(r.path, q)} = {r \in T : Matches(r.path, q)}
  OBVIOUS
<1> QED
  BY <1>1 DEF Serving

\* The step of EngineRoutesKept: of the calls only an explicit mount registers a readiness
\* route, whose static path no other route of the tree covers.
LEMMA EngineMountTakesNothing ==
    ASSUME RoutesInv, [Next]_vars, NEW r \in tree', MountsReady("engine", r)
    PROVE  TakesNothing(r)
<1>1. r \notin tree /\ r.owner = "ready" /\ Last(mounts').on = "engine"
  BY DEF MountsReady
<1>2. PICK on \in {"engine", "group"}, set \in Setters : Mount(on, set)
  <2>1. CASE UNCHANGED vars
    BY <1>1, <2>1 DEF vars
  <2>2. ASSUME NEW p \in AppPatterns, AppRegister(p) PROVE FALSE
    <3>1. r.owner = "app"
      BY <1>1, <2>2 DEF AppRegister
    <3> QED
      BY <1>1, <3>1
  <2> QED
    BY <2>1, <2>2 DEF Next
<1>3. PICK a, base, legacy, uses, T :
        /\ a = AuthRoutes(set) /\ base = IF on = "engine" THEN <<>> ELSE Prefix
        /\ legacy = Legacy(a, base) /\ uses = fallbacks /\ T = tree
  OBVIOUS
<1>4. on = "engine"
  <2> DEFINE call == [on |-> on, ready |-> base \o a.ready, explicit |-> a.readyExplicit]
  <2>1. mounts' = Append(mounts, call) /\ call.on = on
    BY <1>2, <1>3 DEF Mount
  <2> HIDE DEF call
  <2>2. PICK n : n \in Nat /\ Len(mounts) = n
    BY DEF RoutesInv
  <2>3. mounts \in Seq([on : {"engine", "group"}, ready : Path, explicit : BOOLEAN])
    BY DEF RoutesInv
  <2>4. Len(mounts') = n + 1 /\ mounts'[n + 1] = call
    BY <2>1, <2>2, <2>3
  <2> QED
    BY <1>1, <2>1, <2>4 DEF Last
<1> DEFINE added == T \cup Routes(legacy, uses)
           p == base \o a.ready
           new == [path |-> p, owner |-> "ready", uses |-> uses]
<1>5. /\ Registrable(T, legacy) /\ \A i \in DOMAIN a.ready : ~ Wild(a.ready[i])
      /\ tree' = IF a.readyExplicit THEN WithReady(on, added, p) ELSE added
  <2>1. ~ (\/ base \o a.token \in posts
           \/ ~ Registrable(tree, legacy)
           \/ (a.readyExplicit \/ on = "engine") /\ ~ validateReadyPath(a.ready))
    BY <1>1, <1>2, <1>3 DEF Mount
  <2> QED
    BY <1>2, <1>3, <1>4, <2>1 DEF Mount, validateReadyPath
<1>6. p \in Path /\ p = a.ready /\ legacy \in Pattern \X Pattern \X Pattern
  <2>1. base = <<>> /\ base \in {<<>>, Prefix}
    BY <1>3, <1>4
  <2>2. a.ready \in Pattern /\ Legacy(a, base) \in Pattern \X Pattern \X Pattern
        /\ <<>> \o a.ready = a.ready
    BY <1>3, <2>1, EndpointPatterns
  <2> QED
    BY <1>3, <2>1, <2>2 DEF Pattern
<1>7. Tree(added) /\ r \notin added
  <2>1. Tree(T)
    BY <1>3 DEF RoutesInv
  <2> QED
    BY <1>1, <1>3, <1>5, <1>6, <2>1, TreeMounts
<1>8. ~ hasExistingGETRoute(on, added, p) /\ r = new /\ tree' = added \cup {r}
  <2>1. tree' = added \/ (~ hasExistingGETRoute(on, added, p) /\ tree' = added \cup {new})
    BY <1>3, <1>5 DEF WithReady
  <2> QED
    BY <1>7, <2>1
<1>9. \A o \in added : ~ Matches(o.path, p)
  <2>1. \A o \in added : o.path \in Pattern
    BY <1>7 DEF Tree
  <2> QED
    BY <1>4, <1>6, <1>8, <2>1, CoversMatches DEF hasExistingGETRoute
<1>10. r.path = p /\ tree' \ {r} = added
  BY <1>7, <1>8
<1> HIDE DEF added, new
<1>11. ASSUME NEW q \in Requests, Serving(added, q) # {}
       PROVE  Serving(tree', q) = Serving(added, q)
  <2>1. q \in Path
    BY PathsAssumption
  <2>2. q # p
    BY <1>9, <1>11 DEF Serving
  <2>3. ~ Matches(r.path, q)
    BY <1>5, <1>6, <1>10, <2>1, <2>2, StaticMatches
  <2> QED
    BY <1>8, <2>3, ServingWithout
<1> QED
  BY <1>10, <1>11 DEF TakesNothing

\* EngineRoutesKept, an action property, from the same invariant.
THEOREM EngineKeepsRoutes == Spec => EngineRoutesKept
<1>1. RoutesInv /\ [Next]_vars
        => [\A r \in tree' : MountsReady("engine", r) => TakesNothing(r)]_vars
  BY EngineMountTakesNothing
<1> QED
  BY <1>1, RoutesInvariant, PTL DEF Spec, EngineRoutesKept
=============================================================================
