------------------------ MODULE ConnectedChangeProofs ------------------------
(***************************************************************************)
(* What is matched is the same project, and what is accepted is kept, for  *)
(* every set of folders, plans and receivers.                              *)
(*                                                                         *)
(* MatchesAreExact: a pairing under which two projects are the same        *)
(* respects every round of the colouring (TwinsStayTogether), so a tally   *)
(* that differs refutes all of them; a round only tells more apart         *)
(* (RoundsRefine), so within as many rounds as there are roles one changes *)
(* nothing; and classes of one role and one file each that a round leaves  *)
(* alone are such a pairing (StableIsSame), the only one (MappingPairs).   *)
(*                                                                         *)
(* AcceptancesAreKept: a plan whose names and folders differ after folding *)
(* can be written to either disk (PlansAreWritable); what a package gives  *)
(* back is its source, and it verifies (PackageRecovers, PackageVerifies); *)
(* and a receiver that is the same project, placed where its roles went,   *)
(* has the same tree (FollowersLand).                                      *)
(*                                                                         *)
(* PlansAreDerivable: the destinations a plan gives its links lead to      *)
(* where the plan puts their targets, because the canonical destination    *)
(* between any two files leads from the one to the other                   *)
(* (RelativePathsLead).                                                    *)
(***************************************************************************)
EXTENDS ConnectedChange, FiniteSetTheorems, FunctionTheorems, SequenceTheorems,
        WellFoundedInduction, TLAPS

\* How often each value of g occurs on S.
Occurs(S, g, t) == Cardinality({x \in S : g[x] = t})
TallyOf(S, g) == [t \in {g[x] : x \in S} |-> Occurs(S, g, t)]

LEMMA PairedCounts ==
    ASSUME NEW S, NEW T, NEW g, NEW h, IsFiniteSet(S), NEW f \in Bijection(S, T),
           \A x \in S : h[f[x]] = g[x], NEW t
    PROVE  Occurs(S, g, t) = Occurs(T, h, t)
<1> DEFINE A == {x \in S : g[x] = t}
           B == {y \in T : h[y] = t}
           k == [x \in A |-> f[x]]
<1>1. /\ f \in [S -> T]
      /\ \A a, b \in S : f[a] = f[b] => a = b
      /\ \A y \in T : \E x \in S : f[x] = y
  BY Fun_BijectionProperties
<1>2. k \in [A -> B]
  BY <1>1
<1>3. \A a, b \in A : k[a] = k[b] => a = b
  BY <1>1
<1>4. \A y \in B : \E x \in A : k[x] = y
  BY <1>1
<1>5. IsFiniteSet(A)
  BY FS_Subset
<1> HIDE DEF k
<1>6. k \in Bijection(A, B)
  <2> HIDE DEF A, B
  <2> QED  BY <1>2, <1>3, <1>4, Fun_IsBij
<1>7. ExistsBijection(A, B)
  BY <1>6 DEF ExistsBijection
<1> HIDE DEF A, B
<1>8. Cardinality(B) = Cardinality(A)
  BY <1>5, <1>7, FS_Bijection
<1> QED  BY <1>8 DEF A, B, Occurs

LEMMA PairedTallies ==
    ASSUME NEW S, NEW T, NEW g, NEW h, IsFiniteSet(S), NEW f \in Bijection(S, T),
           \A x \in S : h[f[x]] = g[x]
    PROVE  TallyOf(S, g) = TallyOf(T, h)
<1>1. /\ f \in [S -> T]
      /\ \A y \in T : \E x \in S : f[x] = y
  BY Fun_BijectionProperties
<1>2. {g[x] : x \in S} = {h[y] : y \in T}
  BY <1>1
<1>3. \A t : Occurs(S, g, t) = Occurs(T, h, t)
  BY PairedCounts
<1> QED  BY <1>2, <1>3 DEF TallyOf

\* Sets on which every value occurs equally often can be paired value by value.
LEMMA TalliesPair ==
    ASSUME NEW S, NEW T, NEW g, NEW h, IsFiniteSet(S), IsFiniteSet(T),
           TallyOf(S, g) = TallyOf(T, h)
    PROVE  \E f \in Bijection(S, T) : \A x \in S : h[f[x]] = g[x]
<1> DEFINE A(t) == {x \in S : g[x] = t}
           B(t) == {y \in T : h[y] = t}
           Values == {g[x] : x \in S}
<1>1. Values = {h[y] : y \in T}
  <2>1. DOMAIN TallyOf(S, g) = Values /\ DOMAIN TallyOf(T, h) = {h[y] : y \in T}
    BY DEF TallyOf
  <2> QED  BY <2>1
<1>2. ASSUME NEW t \in Values  PROVE  ExistsBijection(A(t), B(t))
  <2>1. TallyOf(S, g)[t] = Cardinality(A(t)) /\ TallyOf(T, h)[t] = Cardinality(B(t))
    BY <1>1 DEF TallyOf, Occurs
  <2>2. IsFiniteSet(A(t)) /\ IsFiniteSet(B(t))
    BY FS_Subset
  <2>3. Cardinality(A(t)) = Cardinality(B(t))
    BY <2>1
  <2> HIDE DEF A, B
  <2> QED  BY <2>2, <2>3, FS_SameCardinalityBij
<1> DEFINE pick == [t \in Values |-> CHOOSE k \in Bijection(A(t), B(t)) : TRUE]
           f == [x \in S |-> pick[g[x]][x]]
<1>3. ASSUME NEW t \in Values
      PROVE  /\ pick[t] \in [A(t) -> B(t)]
             /\ \A a, b \in A(t) : pick[t][a] = pick[t][b] => a = b
             /\ \A y \in B(t) : \E x \in A(t) : pick[t][x] = y
  <2> HIDE DEF A, B, Values
  <2>1. pick[t] \in Bijection(A(t), B(t))
    BY <1>2 DEF ExistsBijection
  <2> HIDE DEF pick
  <2> QED  BY <2>1, Fun_BijectionProperties
<1> HIDE DEF pick
<1>4. \A x \in S : f[x] \in B(g[x])
  <2> TAKE x \in S
  <2>1. g[x] \in Values /\ x \in A(g[x]) /\ f[x] = pick[g[x]][x]
    OBVIOUS
  <2> HIDE DEF A, B, Values, f
  <2> QED  BY <2>1, <1>3
<1>5. f \in [S -> T]
  BY <1>4
<1>6. \A x \in S : h[f[x]] = g[x]
  BY <1>4
<1>7. \A a, b \in S : f[a] = f[b] => a = b
  <2> TAKE a, b \in S
  <2> HAVE f[a] = f[b]
  <2>1. g[a] = g[b]
    BY <1>6
  <2>2. a \in A(g[a]) /\ b \in A(g[a]) /\ g[a] \in Values
    BY <2>1
  <2>3. pick[g[a]][a] = pick[g[a]][b]
    BY <2>1
  <2> HIDE DEF A, Values, f
  <2> QED  BY <2>2, <2>3, <1>3
<1>8. \A y \in T : \E x \in S : f[x] = y
  <2> TAKE y \in T
  <2>1. h[y] \in Values /\ y \in B(h[y])
    BY <1>1
  <2>2. PICK x \in A(h[y]) : pick[h[y]][x] = y
    <3> HIDE DEF A, B, Values
    <3> QED  BY <2>1, <1>3
  <2> QED  BY <2>2
<1> HIDE DEF f
<1>9. f \in Bijection(S, T)
  BY <1>5, <1>7, <1>8, Fun_IsBij
<1> QED  BY <1>6, <1>9
-----------------------------------------------------------------------------
\* The links that lead to a member, and what a round tells of each.
Incoming(d, m) ==
    {l \in UNION {{n} \X DOMAIN d[n].target : n \in On(m[1], DOMAIN d)} :
       d[l[1]].target[l[2]] = m}
Told(d, c, m) == [l \in Incoming(d, m) |-> <<c[l[1]], l[2], d[l[1]].shape[l[2]]>>]
Outgoing(d, c, m) ==
    [i \in DOMAIN d[m].target |-> <<d[m].shape[i], c[d[m].target[i]]>>]

LEMMA SignatureParts ==
    ASSUME NEW d, NEW c, NEW m
    PROVE  Signature(d, c, m) =
             [base |-> Base(d[m]), outgoing |-> Outgoing(d, c, m),
              incoming |-> TallyOf(Incoming(d, m), Told(d, c, m))]
<1> DEFINE I == Incoming(d, m)
           L(l) == <<c[l[1]], l[2], d[l[1]].shape[l[2]]>>
           tally == [t \in {L(l) : l \in I} |-> Cardinality({l \in I : L(l) = t})]
<1>1. Signature(d, c, m) =
        [base |-> Base(d[m]), outgoing |-> Outgoing(d, c, m), incoming |-> tally]
  BY DEF Signature, Incoming, Outgoing
<1>2. \A l \in I : Told(d, c, m)[l] = L(l)
  BY DEF Told
<1>3. {L(l) : l \in I} = {Told(d, c, m)[l] : l \in I}
  BY <1>2
<1>4. ASSUME NEW t
      PROVE  {l \in I : L(l) = t} = {l \in I : Told(d, c, m)[l] = t}
  BY <1>2
<1>5. tally = TallyOf(I, Told(d, c, m))
  BY <1>3, <1>4 DEF TallyOf, Occurs
<1> QED  BY <1>1, <1>5

LEMMA SignaturesAgree ==
    ASSUME NEW d, NEW c, NEW e, NEW m, NEW n
    PROVE  Signature(d, c, m) = Signature(d, e, n) <=>
             /\ Base(d[m]) = Base(d[n])
             /\ Outgoing(d, c, m) = Outgoing(d, e, n)
             /\ TallyOf(Incoming(d, m), Told(d, c, m)) = TallyOf(Incoming(d, n), Told(d, e, n))
BY SignatureParts

IsDescriptor(e) ==
    /\ e = [kind |-> e.kind, protected |-> e.protected, suffix |-> e.suffix,
            place |-> e.place, bytes |-> e.bytes, text |-> e.text,
            shape |-> e.shape, target |-> e.target]
    /\ e.target = [i \in DOMAIN e.shape |-> e.target[i]]
    /\ IsFiniteSet(DOMAIN e.shape)

\* Two projects as the matcher sees them: the files O and Q, each link within its side.
Comparable(d, O, Q) ==
    /\ DOMAIN d = ({"origin"} \X O) \cup ({"receiver"} \X Q)
    /\ IsFiniteSet(O) /\ IsFiniteSet(Q)
    /\ \A m \in DOMAIN d :
         /\ IsDescriptor(d[m])
         /\ \A i \in DOMAIN d[m].shape : d[m].target[i] \in On(m[1], DOMAIN d)

LEMMA BasesAgree ==
    ASSUME NEW e, NEW g, IsDescriptor(e), IsDescriptor(g)
    PROVE  Base(e) = Base(g) <=>
             /\ e.kind = g.kind /\ e.protected = g.protected /\ e.suffix = g.suffix
             /\ e.place = g.place /\ e.bytes = g.bytes /\ e.text = g.text
             /\ e.shape = g.shape
<1> DEFINE B(x) == [kind |-> x.kind, protected |-> x.protected, suffix |-> x.suffix,
                    place |-> x.place, bytes |-> x.bytes, text |-> x.text,
                    shape |-> x.shape, target |-> <<>>]
<1>1. ASSUME NEW x, IsDescriptor(x)  PROVE  Base(x) = B(x)
  <2>1. ASSUME NEW k, NEW p, NEW s, NEW a, NEW b, NEW t, NEW h, NEW r,
               x = [kind |-> k, protected |-> p, suffix |-> s, place |-> a,
                    bytes |-> b, text |-> t, shape |-> h, target |-> r]
        PROVE  Base(x) = [kind |-> k, protected |-> p, suffix |-> s, place |-> a,
                    bytes |-> b, text |-> t, shape |-> h, target |-> <<>>]
    BY <2>1 DEF Base
  <2> QED  BY <1>1, <2>1 DEF IsDescriptor
<1>2. Base(e) = B(e) /\ Base(g) = B(g)
  BY <1>1
<1> QED  BY <1>2

LEMMA SideMembers ==
    ASSUME NEW d, NEW O, NEW Q, Comparable(d, O, Q)
    PROVE  /\ On("origin", DOMAIN d) = {"origin"} \X O
           /\ On("receiver", DOMAIN d) = {"receiver"} \X Q
           /\ \A m \in DOMAIN d : /\ m = <<m[1], m[2]>> /\ m[1] \in Sides
                                  /\ m \in On(m[1], DOMAIN d)
           /\ {m[2] : m \in On("origin", DOMAIN d)} = O
           /\ {m[2] : m \in On("receiver", DOMAIN d)} = Q
<1>1. On("origin", DOMAIN d) = {"origin"} \X O
  BY DEF Comparable, On
<1>2. On("receiver", DOMAIN d) = {"receiver"} \X Q
  BY DEF Comparable, On
<1>3. \A m \in DOMAIN d : m = <<m[1], m[2]>> /\ m[1] \in Sides /\ m \in On(m[1], DOMAIN d)
  BY DEF Comparable, On, Sides
<1>4. ASSUME NEW s, NEW P  PROVE  {m[2] : m \in {s} \X P} = P
  <2>1. ASSUME NEW p \in P  PROVE  p \in {m[2] : m \in {s} \X P}
    <3>1. <<s, p>> \in {s} \X P /\ <<s, p>>[2] = p
      OBVIOUS
    <3> QED  BY <3>1
  <2>2. ASSUME NEW p \in {m[2] : m \in {s} \X P}  PROVE  p \in P
    BY <2>2
  <2> QED  BY <2>1, <2>2
<1> QED  BY <1>1, <1>2, <1>3, <1>4

LEMMA IncomingLinks ==
    ASSUME NEW d, NEW O, NEW Q, Comparable(d, O, Q), NEW m \in DOMAIN d
    PROVE  /\ IsFiniteSet(Incoming(d, m))
           /\ \A l \in Incoming(d, m) :
                /\ l = <<l[1], l[2]>> /\ l[1] \in On(m[1], DOMAIN d)
                /\ l[2] \in DOMAIN d[l[1]].shape /\ d[l[1]].target[l[2]] = m
           /\ \A n \in On(m[1], DOMAIN d) : \A i \in DOMAIN d[n].shape :
                d[n].target[i] = m => <<n, i>> \in Incoming(d, m)
<1> DEFINE side == On(m[1], DOMAIN d)
           L(n) == {n} \X DOMAIN d[n].target
           all == {L(n) : n \in side}
<1>1. \A n \in DOMAIN d : DOMAIN d[n].target = DOMAIN d[n].shape
  <2> TAKE n \in DOMAIN d
  <2>1. d[n].target = [i \in DOMAIN d[n].shape |-> d[n].target[i]]
    BY DEF Comparable, IsDescriptor
  <2> QED  BY <2>1
<1>2. side \subseteq DOMAIN d
  BY DEF On
<1>3. IsFiniteSet(side)
  <2>1. IsFiniteSet({"origin"}) /\ IsFiniteSet({"receiver"}) /\ IsFiniteSet(O) /\ IsFiniteSet(Q)
    BY FS_Singleton DEF Comparable
  <2>2. IsFiniteSet({"origin"} \X O) /\ IsFiniteSet({"receiver"} \X Q)
    BY <2>1, FS_Product
  <2> QED  BY <2>2, SideMembers DEF Sides
<1>4. IsFiniteSet(all)
  <2> DEFINE k == [n \in side |-> L(n)]
  <2>1. k \in Surjection(side, all)
    <3>1. k \in [side -> all] /\ \A t \in all : \E n \in side : k[n] = t
      OBVIOUS
    <3> HIDE DEF k, all
    <3> QED  BY <3>1, Fun_IsSurj
  <2> HIDE DEF k, all, side
  <2> QED  BY <2>1, <1>3, FS_Surjection
<1>5. \A t \in all : IsFiniteSet(t)
  <2>1. ASSUME NEW n \in side  PROVE  IsFiniteSet(L(n))
    <3>1. IsFiniteSet({n}) /\ IsFiniteSet(DOMAIN d[n].target)
      BY FS_Singleton, <1>1, <1>2 DEF Comparable, IsDescriptor
    <3> QED  BY <3>1, FS_Product
  <2> QED  BY <2>1
<1>6. IsFiniteSet(UNION all)
  <2> HIDE DEF all
  <2> QED  BY <1>4, <1>5, FS_UNION
<1>7. Incoming(d, m) \in SUBSET UNION all
  BY DEF Incoming
<1>8. IsFiniteSet(Incoming(d, m))
  <2> HIDE DEF all
  <2> QED  BY <1>6, <1>7, FS_Subset
<1>9. \A l \in Incoming(d, m) :
        /\ l = <<l[1], l[2]>> /\ l[1] \in side
        /\ l[2] \in DOMAIN d[l[1]].shape /\ d[l[1]].target[l[2]] = m
  <2> TAKE l \in Incoming(d, m)
  <2>1. PICK n \in side : l \in {n} \X DOMAIN d[n].target
    BY DEF Incoming
  <2>2. l = <<l[1], l[2]>> /\ l[1] = n /\ l[2] \in DOMAIN d[n].target
    BY <2>1
  <2>3. d[l[1]].target[l[2]] = m
    BY DEF Incoming
  <2> HIDE DEF side
  <2> QED  BY <2>2, <2>3, <1>1, <1>2
<1>10. ASSUME NEW n \in side, NEW i \in DOMAIN d[n].shape, d[n].target[i] = m
       PROVE  <<n, i>> \in Incoming(d, m)
  <2>1. <<n, i>> \in {n} \X DOMAIN d[n].target
    BY <1>1, <1>2
  <2>2. <<n, i>>[1] = n /\ <<n, i>>[2] = i
    OBVIOUS
  <2> QED  BY <2>1, <2>2, <1>10 DEF Incoming
<1> QED  BY <1>8, <1>9, <1>10

\* What a finer colouring does not tell apart, a coarser one does not either.
LEMMA CoarserSignatures ==
    ASSUME NEW d, NEW O, NEW Q, Comparable(d, O, Q), NEW c, NEW e,
           \A x, y \in DOMAIN d : c[x] = c[y] => e[x] = e[y],
           NEW m \in DOMAIN d, NEW n \in DOMAIN d,
           Signature(d, c, m) = Signature(d, c, n)
    PROVE  Signature(d, e, m) = Signature(d, e, n)
<1> DEFINE S == Incoming(d, m)
           T == Incoming(d, n)
<1>1. /\ Base(d[m]) = Base(d[n])
      /\ Outgoing(d, c, m) = Outgoing(d, c, n)
      /\ TallyOf(S, Told(d, c, m)) = TallyOf(T, Told(d, c, n))
  BY SignaturesAgree
<1>2. Outgoing(d, e, m) = Outgoing(d, e, n)
  <2>1. DOMAIN d[m].target = DOMAIN d[n].target
    <3>1. DOMAIN Outgoing(d, c, m) = DOMAIN d[m].target /\ DOMAIN Outgoing(d, c, n) = DOMAIN d[n].target
      BY DEF Outgoing
    <3> QED  BY <3>1, <1>1
  <2>2. ASSUME NEW i \in DOMAIN d[m].target
        PROVE  /\ d[m].shape[i] = d[n].shape[i]
               /\ e[d[m].target[i]] = e[d[n].target[i]]
    <3>1. Outgoing(d, c, m)[i] = Outgoing(d, c, n)[i]
      BY <1>1
    <3>2. d[m].shape[i] = d[n].shape[i] /\ c[d[m].target[i]] = c[d[n].target[i]]
      BY <2>1, <3>1 DEF Outgoing
    <3>3. d[m].target[i] \in DOMAIN d /\ d[n].target[i] \in DOMAIN d
      <4>1. d[m].target = [j \in DOMAIN d[m].shape |-> d[m].target[j]]
        BY DEF Comparable, IsDescriptor
      <4>2. d[n].target = [j \in DOMAIN d[n].shape |-> d[n].target[j]]
        BY DEF Comparable, IsDescriptor
      <4> QED  BY <4>1, <4>2, <2>1 DEF Comparable, On
    <3> QED  BY <3>2, <3>3
  <2> QED  BY <2>1, <2>2 DEF Outgoing
<1>3. TallyOf(S, Told(d, e, m)) = TallyOf(T, Told(d, e, n))
  <2>1. /\ IsFiniteSet(S) /\ IsFiniteSet(T)
        /\ \A l \in S : l[1] \in DOMAIN d
        /\ \A l \in T : l[1] \in DOMAIN d
    BY IncomingLinks DEF On
  <2>2. PICK k \in Bijection(S, T) : \A l \in S : Told(d, c, n)[k[l]] = Told(d, c, m)[l]
    <3> HIDE DEF S, T
    <3> QED  BY <1>1, <2>1, TalliesPair
  <2>3. k \in [S -> T]
    BY <2>2, Fun_BijectionProperties
  <2>4. \A l \in S : Told(d, e, n)[k[l]] = Told(d, e, m)[l]
    <3> TAKE l \in S
    <3>1. /\ Told(d, c, n)[k[l]] = <<c[k[l][1]], k[l][2], d[k[l][1]].shape[k[l][2]]>>
          /\ Told(d, c, m)[l] = <<c[l[1]], l[2], d[l[1]].shape[l[2]]>>
          /\ Told(d, e, n)[k[l]] = <<e[k[l][1]], k[l][2], d[k[l][1]].shape[k[l][2]]>>
          /\ Told(d, e, m)[l] = <<e[l[1]], l[2], d[l[1]].shape[l[2]]>>
      BY <2>3 DEF Told
    <3>2. c[k[l][1]] = c[l[1]]
      BY <3>1, <2>2
    <3>3. e[k[l][1]] = e[l[1]]
      BY <3>2, <2>1, <2>3
    <3> QED  BY <3>1, <3>3, <2>2
  <2> HIDE DEF S, T
  <2> QED  BY <2>1, <2>2, <2>4, PairedTallies
<1> QED  BY <1>1, <1>2, <1>3, SignaturesAgree

\* The file a pairing puts with a role.
Twin(f, m) == <<"receiver", f[m[2]]>>
Respects(O, f, c) == \A m \in {"origin"} \X O : c[m] = c[Twin(f, m)]

LEMMA TwinFields ==
    ASSUME NEW d, NEW O, NEW Q, Comparable(d, O, Q), NEW f \in Bijection(O, Q),
           SameProject(d, f), NEW m \in {"origin"} \X O
    PROVE  LET n == Twin(f, m)
           IN /\ m \in DOMAIN d /\ n \in DOMAIN d /\ Base(d[m]) = Base(d[n])
              /\ d[m].kind = d[n].kind /\ d[m].protected = d[n].protected
              /\ d[m].suffix = d[n].suffix /\ d[m].place = d[n].place
              /\ d[m].bytes = d[n].bytes /\ d[m].text = d[n].text
              /\ d[m].shape = d[n].shape
              /\ DOMAIN d[m].target = DOMAIN d[m].shape
              /\ DOMAIN d[n].target = DOMAIN d[m].shape
              /\ \A i \in DOMAIN d[m].shape :
                   /\ d[m].target[i] \in {"origin"} \X O
                   /\ d[n].target[i] = Twin(f, d[m].target[i])
<1> DEFINE n == Twin(f, m)
<1>1. f[m[2]] \in Q /\ m[1] = "origin"
  BY Fun_BijectionProperties
<1>2. m \in DOMAIN d /\ n \in DOMAIN d
  BY <1>1 DEF Comparable, Twin
<1>3. m \in On("origin", DOMAIN d)
  BY SideMembers
<1>4. /\ Base(d[m]) = Base(d[n])
      /\ \A i \in DOMAIN d[m].target : d[n].target[i] = Twin(f, d[m].target[i])
  BY <1>3 DEF SameProject, Twin
<1>5. IsDescriptor(d[m]) /\ IsDescriptor(d[n])
  BY <1>2 DEF Comparable
<1>6. DOMAIN d[m].target = DOMAIN d[m].shape /\ DOMAIN d[n].target = DOMAIN d[n].shape
  <2> HIDE DEF n
  <2>1. /\ d[m].target = [i \in DOMAIN d[m].shape |-> d[m].target[i]]
        /\ d[n].target = [i \in DOMAIN d[n].shape |-> d[n].target[i]]
    BY <1>5 DEF IsDescriptor
  <2> QED  BY <2>1
<1>7. /\ d[m].kind = d[n].kind /\ d[m].protected = d[n].protected
      /\ d[m].suffix = d[n].suffix /\ d[m].place = d[n].place
      /\ d[m].bytes = d[n].bytes /\ d[m].text = d[n].text
      /\ d[m].shape = d[n].shape
  BY <1>4, <1>5, BasesAgree
<1>8. \A i \in DOMAIN d[m].shape : d[m].target[i] \in {"origin"} \X O
  BY <1>1, <1>2, SideMembers DEF Comparable
<1> HIDE DEF n
<1>9. \A i \in DOMAIN d[m].shape : d[n].target[i] = Twin(f, d[m].target[i])
  BY <1>4, <1>6
<1> QED  BY <1>2, <1>4, <1>6, <1>7, <1>8, <1>9 DEF n

\* A pairing that the colours respect, the signatures respect.
LEMMA TwinSignatures ==
    ASSUME NEW d, NEW O, NEW Q, Comparable(d, O, Q), NEW f \in Bijection(O, Q),
           SameProject(d, f), NEW c, Respects(O, f, c),
           NEW m \in {"origin"} \X O
    PROVE  Signature(d, c, m) = Signature(d, c, Twin(f, m))
<1> DEFINE n == Twin(f, m)
           S == Incoming(d, m)
           T == Incoming(d, n)
           k == [l \in S |-> <<Twin(f, l[1]), l[2]>>]
<1>1. /\ f \in [O -> Q]
      /\ \A a, b \in O : f[a] = f[b] => a = b
      /\ \A y \in Q : \E x \in O : f[x] = y
  BY Fun_BijectionProperties
<1>2. /\ m \in DOMAIN d /\ n \in DOMAIN d /\ Base(d[m]) = Base(d[n])
      /\ d[m].shape = d[n].shape
      /\ DOMAIN d[m].target = DOMAIN d[m].shape
      /\ DOMAIN d[n].target = DOMAIN d[m].shape
      /\ \A i \in DOMAIN d[m].shape :
           /\ d[m].target[i] \in {"origin"} \X O
           /\ d[n].target[i] = Twin(f, d[m].target[i])
  BY TwinFields
<1>3. \A x \in {"origin"} \X O : /\ x = <<"origin", x[2]>> /\ x[2] \in O
                                 /\ c[x] = c[Twin(f, x)]
  BY DEF Respects
<1>4. ASSUME NEW x \in {"origin"} \X O
      PROVE  /\ Twin(f, x) \in DOMAIN d /\ Twin(f, x) \in {"receiver"} \X Q
             /\ d[Twin(f, x)].shape = d[x].shape
             /\ \A i \in DOMAIN d[x].shape :
                  /\ d[x].target[i] \in {"origin"} \X O
                  /\ d[Twin(f, x)].target[i] = Twin(f, d[x].target[i])
  <2>1. Twin(f, x) \in {"receiver"} \X Q
    BY <1>1, <1>3 DEF Twin
  <2> QED  BY <2>1, TwinFields
<1>5. /\ On(m[1], DOMAIN d) = {"origin"} \X O
      /\ On(n[1], DOMAIN d) = {"receiver"} \X Q
  BY SideMembers DEF Twin
<1>6. \A l \in S : /\ l = <<l[1], l[2]>> /\ l[1] \in {"origin"} \X O
                   /\ l[2] \in DOMAIN d[l[1]].shape /\ d[l[1]].target[l[2]] = m
  BY <1>2, <1>5, IncomingLinks
<1>7. \A l \in T : /\ l = <<l[1], l[2]>> /\ l[1] \in {"receiver"} \X Q
                   /\ l[2] \in DOMAIN d[l[1]].shape /\ d[l[1]].target[l[2]] = n
  BY <1>2, <1>5, IncomingLinks
<1>8. IsFiniteSet(S)
  BY <1>2, IncomingLinks
<1>9. k \in [S -> T]
  <2>1. ASSUME NEW l \in S  PROVE  <<Twin(f, l[1]), l[2]>> \in T
    <3>1. l[1] \in {"origin"} \X O /\ l[2] \in DOMAIN d[l[1]].shape /\ d[l[1]].target[l[2]] = m
      BY <1>6
    <3>2. /\ Twin(f, l[1]) \in On(n[1], DOMAIN d)
          /\ l[2] \in DOMAIN d[Twin(f, l[1])].shape
          /\ d[Twin(f, l[1])].target[l[2]] = Twin(f, m)
      BY <3>1, <1>4, <1>5
    <3> HIDE DEF n
    <3>3. d[Twin(f, l[1])].target[l[2]] = n
      BY <3>2 DEF n
    <3> QED  BY <3>2, <3>3, <1>2, IncomingLinks
  <2> QED  BY <2>1
<1>10. \A a, b \in S : k[a] = k[b] => a = b
  <2> TAKE a, b \in S
  <2> HAVE k[a] = k[b]
  <2>1. f[a[1][2]] = f[b[1][2]] /\ a[2] = b[2]
    BY DEF Twin
  <2>2. a[1][2] = b[1][2]
    BY <2>1, <1>1, <1>3, <1>6
  <2>3. a[1] = b[1]
    BY <2>2, <1>3, <1>6
  <2> QED  BY <2>1, <2>3, <1>6
<1>11. \A y \in T : \E l \in S : k[l] = y
  <2> TAKE y \in T
  <2>1. /\ y = <<y[1], y[2]>> /\ y[1] \in {"receiver"} \X Q
        /\ y[2] \in DOMAIN d[y[1]].shape /\ d[y[1]].target[y[2]] = n
    BY <1>7
  <2>2. PICK o \in O : f[o] = y[1][2]
    BY <2>1, <1>1
  <2> DEFINE x == <<"origin", o>>
  <2>3. x \in {"origin"} \X O /\ Twin(f, x) = y[1]
    BY <2>1, <2>2 DEF Twin
  <2>4. y[2] \in DOMAIN d[x].shape /\ d[x].target[y[2]] \in {"origin"} \X O
        /\ Twin(f, d[x].target[y[2]]) = n
    BY <2>1, <2>3, <1>4
  <2>5. f[d[x].target[y[2]][2]] = f[m[2]]
    BY <2>4 DEF Twin
  <2>6. d[x].target[y[2]] = m
    BY <2>4, <2>5, <1>1, <1>3
  <2>7. <<x, y[2]>> \in S
    BY <2>3, <2>4, <2>6, <1>2, <1>5, IncomingLinks
  <2>8. k[<<x, y[2]>>] = y
    BY <2>7, <2>3, <2>1
  <2> QED  BY <2>7, <2>8
<1>12. k \in Bijection(S, T)
  <2> HIDE DEF k, S, T
  <2> QED  BY <1>9, <1>10, <1>11, Fun_IsBij
<1>13. \A l \in S : Told(d, c, n)[k[l]] = Told(d, c, m)[l]
  <2> TAKE l \in S
  <2>1. /\ Told(d, c, m)[l] = <<c[l[1]], l[2], d[l[1]].shape[l[2]]>>
        /\ Told(d, c, n)[k[l]] = <<c[k[l][1]], k[l][2], d[k[l][1]].shape[k[l][2]]>>
    BY <1>9 DEF Told
  <2>2. k[l][1] = Twin(f, l[1]) /\ k[l][2] = l[2]
    OBVIOUS
  <2>3. c[Twin(f, l[1])] = c[l[1]] /\ d[Twin(f, l[1])].shape = d[l[1]].shape
    BY <1>3, <1>4, <1>6
  <2> QED  BY <2>1, <2>2, <2>3
<1>14. TallyOf(S, Told(d, c, m)) = TallyOf(T, Told(d, c, n))
  <2> HIDE DEF k, S, T, n
  <2> QED  BY <1>8, <1>12, <1>13, PairedTallies
<1>15. Outgoing(d, c, m) = Outgoing(d, c, n)
  <2>1. \A i \in DOMAIN d[m].shape : c[d[m].target[i]] = c[d[n].target[i]]
    BY <1>2, <1>3
  <2> HIDE DEF n
  <2> QED  BY <2>1, <1>2 DEF Outgoing
<1> HIDE DEF n
<1> QED  BY <1>2, <1>14, <1>15, SignaturesAgree DEF n

\* What twins share occurs equally often on both sides.
LEMMA TwinTally ==
    ASSUME NEW O, NEW Q, IsFiniteSet(O), NEW f \in Bijection(O, Q), NEW g,
           DOMAIN g \subseteq ({"origin"} \X O) \cup ({"receiver"} \X Q),
           \A m \in {"origin"} \X O : /\ m \in DOMAIN g <=> Twin(f, m) \in DOMAIN g
                                      /\ m \in DOMAIN g => g[m] = g[Twin(f, m)]
    PROVE  SameTally(g)
<1> SUFFICES ASSUME NEW v
             PROVE  Cardinality({n \in On("origin", DOMAIN g) : g[n] = v})
                      = Cardinality({n \in On("receiver", DOMAIN g) : g[n] = v})
  BY DEF SameTally
<1> DEFINE A == {n \in On("origin", DOMAIN g) : g[n] = v}
           B == {n \in On("receiver", DOMAIN g) : g[n] = v}
           k == [n \in A |-> <<"receiver", f[n[2]]>>]
<1>1. /\ f \in [O -> Q]
      /\ \A a, b \in O : f[a] = f[b] => a = b
      /\ \A y \in Q : \E x \in O : f[x] = y
  BY Fun_BijectionProperties
<1>0. ASSUME NEW p \in O
      PROVE  /\ <<"origin", p>> \in DOMAIN g <=> <<"receiver", f[p]>> \in DOMAIN g
             /\ <<"origin", p>> \in DOMAIN g =>
                  g[<<"origin", p>>] = g[<<"receiver", f[p]>>]
  <2>1. <<"origin", p>> \in {"origin"} \X O /\ Twin(f, <<"origin", p>>) = <<"receiver", f[p]>>
    BY DEF Twin
  <2> QED  BY <2>1
<1>2. \A n \in A : n = <<"origin", n[2]>> /\ n[2] \in O /\ n \in DOMAIN g /\ g[n] = v
  BY DEF On
<1>3. \A n \in B : n = <<"receiver", n[2]>> /\ n[2] \in Q /\ n \in DOMAIN g /\ g[n] = v
  BY DEF On
<1>4. \A q \in Q : <<"receiver", q>> \in DOMAIN g /\ g[<<"receiver", q>>] = v => <<"receiver", q>> \in B
  BY DEF On
<1>5. \A q \in O : <<"origin", q>> \in DOMAIN g /\ g[<<"origin", q>>] = v => <<"origin", q>> \in A
  BY DEF On
<1>6. IsFiniteSet(A)
  <2>1. IsFiniteSet({"origin"} \X O)
    BY FS_Singleton, FS_Product
  <2>2. A \in SUBSET ({"origin"} \X O)
    BY <1>2
  <2> HIDE DEF A
  <2> QED  BY <2>1, <2>2, FS_Subset
<1> HIDE DEF A, B
<1>7. k \in [A -> B]
  <2>1. ASSUME NEW n \in A  PROVE  <<"receiver", f[n[2]]>> \in B
    BY <1>0, <1>1, <1>2, <1>4
  <2> QED  BY <2>1
<1>8. \A a, b \in A : k[a] = k[b] => a = b
  <2> TAKE a, b \in A
  <2> HAVE k[a] = k[b]
  <2>1. f[a[2]] = f[b[2]]
    OBVIOUS
  <2> QED  BY <2>1, <1>1, <1>2
<1>9. \A y \in B : \E n \in A : k[n] = y
  <2> TAKE y \in B
  <2>1. PICK o \in O : f[o] = y[2]
    BY <1>1, <1>3
  <2>2. y = <<"receiver", f[o]>> /\ y \in DOMAIN g /\ g[y] = v
    BY <2>1, <1>3
  <2>3. <<"origin", o>> \in A
    BY <2>2, <1>0, <1>5
  <2>4. k[<<"origin", o>>] = y
    BY <2>3, <2>2
  <2> QED  BY <2>3, <2>4
<1> HIDE DEF k
<1>10. ExistsBijection(A, B)
  BY <1>7, <1>8, <1>9, Fun_IsBij DEF ExistsBijection
<1>11. Cardinality(A) = Cardinality(B)
  BY <1>6, <1>10, FS_Bijection
<1> QED  BY <1>11 DEF A, B

LEMMA TwinBijection ==
    ASSUME NEW O, NEW Q, NEW f \in Bijection(O, Q)
    PROVE  [m \in {"origin"} \X O |-> Twin(f, m)] \in Bijection({"origin"} \X O, {"receiver"} \X Q)
<1> DEFINE k == [m \in {"origin"} \X O |-> Twin(f, m)]
<1>1. /\ f \in [O -> Q]
      /\ \A a, b \in O : f[a] = f[b] => a = b
      /\ \A y \in Q : \E x \in O : f[x] = y
  BY Fun_BijectionProperties
<1>2. k \in [{"origin"} \X O -> {"receiver"} \X Q]
  BY <1>1 DEF Twin
<1>3. \A a, b \in {"origin"} \X O : k[a] = k[b] => a = b
  BY <1>1 DEF Twin
<1>4. \A y \in {"receiver"} \X Q : \E x \in {"origin"} \X O : k[x] = y
  <2> TAKE y \in {"receiver"} \X Q
  <2>1. PICK o \in O : f[o] = y[2]
    BY <1>1
  <2>2. <<"origin", o>> \in {"origin"} \X O /\ k[<<"origin", o>>] = y
    BY <2>1 DEF Twin
  <2> QED  BY <2>2
<1> HIDE DEF k
<1>5. k \in Bijection({"origin"} \X O, {"receiver"} \X Q)
  BY <1>2, <1>3, <1>4, Fun_IsBij
<1> QED  BY <1>5 DEF k

\* The same project under other paths passes the preflight.
LEMMA SameProjectPasses ==
    ASSUME NEW d, NEW O, NEW Q, Comparable(d, O, Q), NEW f \in Bijection(O, Q),
           SameProject(d, f), NEW empty
    PROVE  Blocker(d, empty, empty) = "none"
<1> DEFINE Kept == {m \in DOMAIN d : d[m].protected}
<1>1. Cardinality(On("origin", DOMAIN d)) = Cardinality(On("receiver", DOMAIN d))
  <2> DEFINE S == {"origin"} \X O
             T == {"receiver"} \X Q
  <2>1. IsFiniteSet(S)
    BY FS_Singleton, FS_Product DEF Comparable
  <2>2. ExistsBijection(S, T)
    BY TwinBijection DEF ExistsBijection
  <2> HIDE DEF S, T
  <2>3. Cardinality(S) = Cardinality(T)
    BY <2>1, <2>2, FS_Bijection
  <2> QED  BY <2>3, SideMembers DEF S, T
<1>2. Cardinality(On("origin", DOMAIN d)) \in Nat
  <2>1. IsFiniteSet({"origin"} \X O)
    BY FS_Singleton, FS_Product DEF Comparable
  <2> QED  BY <2>1, FS_CardinalityType, SideMembers
<1>3. \A m \in {"origin"} \X O :
        /\ m \in DOMAIN d /\ Twin(f, m) \in DOMAIN d
        /\ d[m].kind = d[Twin(f, m)].kind /\ d[m].protected = d[Twin(f, m)].protected
        /\ d[m].suffix = d[Twin(f, m)].suffix /\ d[m].place = d[Twin(f, m)].place
        /\ d[m].bytes = d[Twin(f, m)].bytes /\ d[m].text = d[Twin(f, m)].text
        /\ d[m].shape = d[Twin(f, m)].shape
  BY TwinFields
<1>4. DOMAIN d = ({"origin"} \X O) \cup ({"receiver"} \X Q) /\ IsFiniteSet(O)
  BY DEF Comparable
<1>5. \A kind : Of(d, kind) \subseteq DOMAIN d /\ \A m \in DOMAIN d : m \in Of(d, kind) <=> d[m].kind = kind
  BY DEF Of
<1>6. SameTally([m \in Kept |-> <<d[m].place, d[m].bytes, d[m].suffix>>])
  <2> DEFINE g == [m \in Kept |-> <<d[m].place, d[m].bytes, d[m].suffix>>]
  <2>1. /\ DOMAIN g \subseteq ({"origin"} \X O) \cup ({"receiver"} \X Q)
        /\ \A m \in {"origin"} \X O : /\ m \in DOMAIN g <=> Twin(f, m) \in DOMAIN g
                                      /\ m \in DOMAIN g => g[m] = g[Twin(f, m)]
    BY <1>3, <1>4
  <2> HIDE DEF g
  <2>2. SameTally(g)
    BY <2>1, <1>4, TwinTally
  <2> QED  BY <2>2 DEF g
<1>7. SameTally([m \in DOMAIN d |-> <<d[m].kind, d[m].protected>>])
  <2> DEFINE g == [m \in DOMAIN d |-> <<d[m].kind, d[m].protected>>]
  <2>1. /\ DOMAIN g \subseteq ({"origin"} \X O) \cup ({"receiver"} \X Q)
        /\ \A m \in {"origin"} \X O : /\ m \in DOMAIN g <=> Twin(f, m) \in DOMAIN g
                                      /\ m \in DOMAIN g => g[m] = g[Twin(f, m)]
    BY <1>3, <1>4
  <2> HIDE DEF g
  <2>2. SameTally(g)
    BY <2>1, <1>4, TwinTally
  <2> QED  BY <2>2 DEF g
<1>8. SameTally([m \in DOMAIN d |-> <<d[m].kind, d[m].protected, d[m].suffix>>])
  <2> DEFINE g == [m \in DOMAIN d |-> <<d[m].kind, d[m].protected, d[m].suffix>>]
  <2>1. /\ DOMAIN g \subseteq ({"origin"} \X O) \cup ({"receiver"} \X Q)
        /\ \A m \in {"origin"} \X O : /\ m \in DOMAIN g <=> Twin(f, m) \in DOMAIN g
                                      /\ m \in DOMAIN g => g[m] = g[Twin(f, m)]
    BY <1>3, <1>4
  <2> HIDE DEF g
  <2>2. SameTally(g)
    BY <2>1, <1>4, TwinTally
  <2> QED  BY <2>2 DEF g
<1>9. SameTally([m \in Of(d, "ordinary") |-> <<d[m].bytes, d[m].protected>>])
  <2> DEFINE g == [m \in Of(d, "ordinary") |-> <<d[m].bytes, d[m].protected>>]
  <2>1. /\ DOMAIN g \subseteq ({"origin"} \X O) \cup ({"receiver"} \X Q)
        /\ \A m \in {"origin"} \X O : /\ m \in DOMAIN g <=> Twin(f, m) \in DOMAIN g
                                      /\ m \in DOMAIN g => g[m] = g[Twin(f, m)]
    BY <1>3, <1>4, <1>5
  <2> HIDE DEF g
  <2>2. SameTally(g)
    BY <2>1, <1>4, TwinTally
  <2> QED  BY <2>2 DEF g
<1>10. SameTally([m \in Of(d, "markdown") |-> d[m].text])
  <2> DEFINE g == [m \in Of(d, "markdown") |-> d[m].text]
  <2>1. /\ DOMAIN g \subseteq ({"origin"} \X O) \cup ({"receiver"} \X Q)
        /\ \A m \in {"origin"} \X O : /\ m \in DOMAIN g <=> Twin(f, m) \in DOMAIN g
                                      /\ m \in DOMAIN g => g[m] = g[Twin(f, m)]
    BY <1>3, <1>4, <1>5
  <2> HIDE DEF g
  <2>2. SameTally(g)
    BY <2>1, <1>4, TwinTally
  <2> QED  BY <2>2 DEF g
<1>11. SameTally([m \in Of(d, "markdown") |-> <<d[m].text, d[m].shape>>])
  <2> DEFINE g == [m \in Of(d, "markdown") |-> <<d[m].text, d[m].shape>>]
  <2>1. /\ DOMAIN g \subseteq ({"origin"} \X O) \cup ({"receiver"} \X Q)
        /\ \A m \in {"origin"} \X O : /\ m \in DOMAIN g <=> Twin(f, m) \in DOMAIN g
                                      /\ m \in DOMAIN g => g[m] = g[Twin(f, m)]
    BY <1>3, <1>4, <1>5
  <2> HIDE DEF g
  <2>2. SameTally(g)
    BY <2>1, <1>4, TwinTally
  <2> QED  BY <2>2 DEF g
<1>12. ~(Cardinality(On("receiver", DOMAIN d)) < Cardinality(On("origin", DOMAIN d)))
       /\ ~(Cardinality(On("receiver", DOMAIN d)) > Cardinality(On("origin", DOMAIN d)))
  BY <1>1, <1>2
<1> QED  BY <1>6, <1>7, <1>8, <1>9, <1>10, <1>11, <1>12, Zenon DEF Blocker
-----------------------------------------------------------------------------
\* Colourings: the class of a member is the set of members of its colour.
Partition(d, c) ==
    DOMAIN c = DOMAIN d /\ \A m \in DOMAIN d : c[m] = {n \in DOMAIN d : c[n] = c[m]}
Finer(d, c, e) == \A x, y \in DOMAIN d : c[x] = c[y] => e[x] = e[y]

LEMMA ColoredClasses ==
    ASSUME NEW h
    PROVE  /\ Partition(h, Colored(h))
           /\ \A m, n \in DOMAIN h : Colored(h)[m] = Colored(h)[n] <=> h[m] = h[n]
<1>1. /\ DOMAIN Colored(h) = DOMAIN h
      /\ \A m \in DOMAIN h : Colored(h)[m] = {n \in DOMAIN h : h[n] = h[m]}
  BY DEF Colored
<1>2. \A m, n \in DOMAIN h : Colored(h)[m] = Colored(h)[n] <=> h[m] = h[n]
  <2> TAKE m, n \in DOMAIN h
  <2>1. m \in Colored(h)[m]
    BY <1>1
  <2>2. m \in Colored(h)[n] <=> h[m] = h[n]
    BY <1>1
  <2> QED  BY <2>1, <2>2, <1>1
<1>3. \A m \in DOMAIN h : Colored(h)[m] = {n \in DOMAIN h : Colored(h)[n] = Colored(h)[m]}
  BY <1>1, <1>2
<1> QED  BY <1>1, <1>2, <1>3 DEF Partition

LEMMA InitialClasses ==
    ASSUME NEW d
    PROVE  /\ Partition(d, Initial(d))
           /\ \A m, n \in DOMAIN d : Initial(d)[m] = Initial(d)[n] <=> Base(d[m]) = Base(d[n])
<1> DEFINE h == [m \in DOMAIN d |-> Base(d[m])]
<1>1. DOMAIN h = DOMAIN d /\ \A m \in DOMAIN d : h[m] = Base(d[m])
  OBVIOUS
<1> HIDE DEF h
<1>2. Partition(d, Colored(h)) /\ \A m, n \in DOMAIN d : Colored(h)[m] = Colored(h)[n] <=> h[m] = h[n]
  BY <1>1, ColoredClasses DEF Partition
<1>3. Initial(d) = Colored(h)
  BY DEF Initial, h
<1> QED  BY <1>1, <1>2, <1>3

LEMMA RefinedClasses ==
    ASSUME NEW d, NEW c
    PROVE  /\ Partition(d, Refined(d, c))
           /\ \A m, n \in DOMAIN d :
                Refined(d, c)[m] = Refined(d, c)[n] <=> Signature(d, c, m) = Signature(d, c, n)
<1> DEFINE h == [m \in DOMAIN d |-> Signature(d, c, m)]
<1>1. DOMAIN h = DOMAIN d /\ \A m \in DOMAIN d : h[m] = Signature(d, c, m)
  OBVIOUS
<1> HIDE DEF h
<1>2. Partition(d, Colored(h)) /\ \A m, n \in DOMAIN d : Colored(h)[m] = Colored(h)[n] <=> h[m] = h[n]
  BY <1>1, ColoredClasses DEF Partition
<1>3. Refined(d, c) = Colored(h)
  BY DEF Refined, h
<1> QED  BY <1>1, <1>2, <1>3

\* No round undoes a distinction.
LEMMA RoundsRefine ==
    ASSUME NEW d, NEW O, NEW Q, Comparable(d, O, Q)
    PROVE  /\ Finer(d, Refined(d, Initial(d)), Initial(d))
           /\ \A c : Finer(d, Refined(d, c), c)
                       => Finer(d, Refined(d, Refined(d, c)), Refined(d, c))
<1>1. Finer(d, Refined(d, Initial(d)), Initial(d))
  BY RefinedClasses, InitialClasses, SignaturesAgree DEF Finer
<1>2. ASSUME NEW c, Finer(d, Refined(d, c), c)
      PROVE  Finer(d, Refined(d, Refined(d, c)), Refined(d, c))
  <2> DEFINE e == Refined(d, c)
  <2>1. SUFFICES ASSUME NEW x \in DOMAIN d, NEW y \in DOMAIN d, Refined(d, e)[x] = Refined(d, e)[y]
                 PROVE  e[x] = e[y]
    BY DEF Finer
  <2>2. Signature(d, e, x) = Signature(d, e, y)
    BY <2>1, RefinedClasses
  <2>3. Signature(d, c, x) = Signature(d, c, y)
    BY <2>2, <1>2, CoarserSignatures DEF Finer
  <2> QED  BY <2>3, RefinedClasses
<1> QED  BY <1>1, <1>2

\* A pairing of the same project is respected from the first round to the last.
LEMMA TwinsStayTogether ==
    ASSUME NEW d, NEW O, NEW Q, Comparable(d, O, Q), NEW f \in Bijection(O, Q),
           SameProject(d, f)
    PROVE  /\ Respects(O, f, Initial(d)) /\ SameTally(Initial(d))
           /\ \A c : Respects(O, f, c) => Respects(O, f, Refined(d, c)) /\ SameTally(Refined(d, c))
<1>1. \A m \in {"origin"} \X O : m \in DOMAIN d /\ Twin(f, m) \in DOMAIN d
                                 /\ Base(d[m]) = Base(d[Twin(f, m)])
  BY TwinFields
<1>2. ASSUME NEW c, Partition(d, c), Respects(O, f, c)  PROVE  SameTally(c)
  <2>1. DOMAIN c = ({"origin"} \X O) \cup ({"receiver"} \X Q) /\ IsFiniteSet(O)
    BY <1>2 DEF Comparable, Partition
  <2>2. \A m \in {"origin"} \X O : /\ m \in DOMAIN c <=> Twin(f, m) \in DOMAIN c
                                   /\ m \in DOMAIN c => c[m] = c[Twin(f, m)]
    BY <1>1, <1>2 DEF Respects, Partition
  <2> QED  BY <2>1, <2>2, TwinTally
<1>3. Respects(O, f, Initial(d))
  BY <1>1, InitialClasses DEF Respects
<1>4. ASSUME NEW c, Respects(O, f, c)  PROVE  Respects(O, f, Refined(d, c))
  BY <1>1, <1>4, TwinSignatures, RefinedClasses DEF Respects
<1> QED  BY <1>2, <1>3, <1>4, InitialClasses, RefinedClasses

Colors(c) == {c[m] : m \in DOMAIN c}

\* On both sides, a colour of one side is a colour of the other.
LEMMA ColorsMeet ==
    ASSUME NEW d, NEW O, NEW Q, Comparable(d, O, Q), NEW c, DOMAIN c = DOMAIN d, SameTally(c)
    PROVE  /\ \A m \in {"origin"} \X O : \E n \in {"receiver"} \X Q : c[n] = c[m]
           /\ \A n \in {"receiver"} \X Q : \E m \in {"origin"} \X O : c[m] = c[n]
<1> DEFINE A(t) == {n \in {"origin"} \X O : c[n] = t}
           B(t) == {n \in {"receiver"} \X Q : c[n] = t}
<1>1. ASSUME NEW t  PROVE  IsFiniteSet(A(t)) /\ IsFiniteSet(B(t))
  <2>1. IsFiniteSet({"origin"} \X O) /\ IsFiniteSet({"receiver"} \X Q)
    BY FS_Singleton, FS_Product DEF Comparable
  <2>2. A(t) \in SUBSET ({"origin"} \X O) /\ B(t) \in SUBSET ({"receiver"} \X Q)
    OBVIOUS
  <2> HIDE DEF A, B
  <2> QED  BY <2>1, <2>2, FS_Subset
<1>2. \A m \in DOMAIN d : Cardinality(A(c[m])) = Cardinality(B(c[m]))
  BY SideMembers DEF SameTally
<1>3. \A t : (Cardinality(A(t)) = 0 <=> A(t) = {}) /\ (Cardinality(B(t)) = 0 <=> B(t) = {})
  <2> HIDE DEF A, B
  <2> QED  BY <1>1, FS_EmptySet
<1>4. DOMAIN d = ({"origin"} \X O) \cup ({"receiver"} \X Q)
  BY DEF Comparable
<1>5. ASSUME NEW m \in {"origin"} \X O  PROVE  \E n \in {"receiver"} \X Q : c[n] = c[m]
  <2>1. m \in A(c[m])
    OBVIOUS
  <2>2. Cardinality(A(c[m])) = Cardinality(B(c[m]))
    BY <1>2, <1>4
  <2>3. B(c[m]) # {}
    <3> HIDE DEF A, B
    <3> QED  BY <2>1, <2>2, <1>3
  <2> QED  BY <2>3
<1>6. ASSUME NEW n \in {"receiver"} \X Q  PROVE  \E m \in {"origin"} \X O : c[m] = c[n]
  <2>1. n \in B(c[n])
    OBVIOUS
  <2>2. Cardinality(A(c[n])) = Cardinality(B(c[n]))
    BY <1>2, <1>4
  <2>3. A(c[n]) # {}
    <3> HIDE DEF A, B
    <3> QED  BY <2>1, <2>2, <1>3
  <2> QED  BY <2>3
<1> QED  BY <1>5, <1>6

\* There are no more colours than roles, and a round that tells two members
\* of a class apart adds one.
LEMMA ColorsBounded ==
    ASSUME NEW d, NEW O, NEW Q, Comparable(d, O, Q), NEW c, DOMAIN c = DOMAIN d, SameTally(c)
    PROVE  /\ IsFiniteSet(Colors(c)) /\ Cardinality(Colors(c)) \in Nat
           /\ Cardinality(Colors(c)) <= Cardinality(O)
           /\ O # {} => Cardinality(Colors(c)) >= 1
<1> DEFINE k == [p \in O |-> c[<<"origin", p>>]]
<1>1. \A t \in Colors(c) : \E m \in {"origin"} \X O : c[m] = t
  BY ColorsMeet DEF Colors, Comparable
<1>2. \A p \in O : k[p] \in Colors(c)
  BY DEF Colors, Comparable
<1>3. \A t \in Colors(c) : \E p \in O : k[p] = t
  <2> TAKE t \in Colors(c)
  <2>1. PICK m \in {"origin"} \X O : c[m] = t
    BY <1>1
  <2>2. m[2] \in O /\ m = <<"origin", m[2]>>
    OBVIOUS
  <2> QED  BY <2>1, <2>2
<1>4. k \in [O -> Colors(c)]
  BY <1>2
<1> HIDE DEF k
<1>5. k \in Surjection(O, Colors(c))
  BY <1>3, <1>4, Fun_IsSurj
<1>6. IsFiniteSet(O)
  BY DEF Comparable
<1>7. IsFiniteSet(Colors(c)) /\ Cardinality(Colors(c)) <= Cardinality(O)
  BY <1>5, <1>6, FS_Surjection
<1>8. Cardinality(Colors(c)) \in Nat
  BY <1>7, FS_CardinalityType
<1>9. O # {} => Colors(c) # {}
  BY <1>2
<1>10. Colors(c) # {} => Cardinality(Colors(c)) # 0
  BY <1>7, FS_EmptySet
<1> QED  BY <1>7, <1>8, <1>9, <1>10

LEMMA ColorsGrow ==
    ASSUME NEW d, NEW c, NEW e, DOMAIN c = DOMAIN d, DOMAIN e = DOMAIN d, Finer(d, e, c),
           IsFiniteSet(Colors(e)),
           NEW x \in DOMAIN d, NEW y \in DOMAIN d, c[x] = c[y], e[x] # e[y]
    PROVE  Cardinality(Colors(c)) < Cardinality(Colors(e))
<1> DEFINE first(t) == CHOOSE m \in DOMAIN d : e[m] = t
           k == [t \in Colors(e) |-> c[first(t)]]
<1>1. \A t \in Colors(e) : first(t) \in DOMAIN d /\ e[first(t)] = t
  BY DEF Colors
<1> HIDE DEF first
<1>2. \A m \in DOMAIN d : e[m] \in Colors(e) /\ k[e[m]] = c[m]
  <2> TAKE m \in DOMAIN d
  <2>1. e[m] \in Colors(e)
    BY DEF Colors
  <2>2. first(e[m]) \in DOMAIN d /\ e[first(e[m])] = e[m]
    BY <1>1, <2>1
  <2>3. c[first(e[m])] = c[m]
    BY <2>2 DEF Finer
  <2> QED  BY <2>1, <2>3
<1>3. k \in [Colors(e) -> Colors(c)]
  <2>1. \A m \in DOMAIN d : c[m] \in Colors(c)
    BY DEF Colors
  <2>2. \A t \in Colors(e) : c[first(t)] \in Colors(c)
    BY Zenon, <1>1, <2>1
  <2> QED  BY Zenon, <2>2
<1> HIDE DEF k
<1>4. \A t \in Colors(c) : \E u \in Colors(e) : k[u] = t
  <2>1. \A t \in Colors(c) : \E m \in DOMAIN d : t = c[m]
    BY DEF Colors
  <2> QED  BY <1>2, <2>1
<1>5. k \in Surjection(Colors(e), Colors(c))
  BY <1>3, <1>4, Fun_IsSurj
<1>6. k \notin Injection(Colors(e), Colors(c))
  <2>1. k[e[x]] = k[e[y]] /\ e[x] \in Colors(e) /\ e[y] \in Colors(e)
    BY <1>2
  <2>2. SUFFICES ASSUME k \in Injection(Colors(e), Colors(c))  PROVE  FALSE
    OBVIOUS
  <2>3. \A a, b \in Colors(e) : k[a] = k[b] => a = b
    BY <2>2, Fun_InjectionProperties
  <2> QED  BY <2>1, <2>3
<1>7. /\ IsFiniteSet(Colors(c)) /\ Cardinality(Colors(c)) <= Cardinality(Colors(e))
      /\ Cardinality(Colors(c)) # Cardinality(Colors(e))
  BY <1>5, <1>6, FS_Surjection
<1>8. Cardinality(Colors(c)) \in Nat /\ Cardinality(Colors(e)) \in Nat
  BY <1>7, FS_CardinalityType
<1> QED  BY <1>7, <1>8

\* A colouring that leaves nothing ambiguous has one member of each side in a class.
LEMMA Unambiguous ==
    ASSUME NEW d, NEW O, NEW Q, Comparable(d, O, Q), NEW c, Partition(d, c), SameTally(c),
           ~Ambiguous(c)
    PROVE  /\ \A m, n \in {"origin"} \X O : c[m] = c[n] => m = n
           /\ \A m, n \in {"receiver"} \X Q : c[m] = c[n] => m = n
<1> DEFINE A(t) == {n \in {"origin"} \X O : c[n] = t}
           B(t) == {n \in {"receiver"} \X Q : c[n] = t}
<1>1. ASSUME NEW t  PROVE  IsFiniteSet(A(t)) /\ IsFiniteSet(B(t))
  <2>1. IsFiniteSet({"origin"} \X O) /\ IsFiniteSet({"receiver"} \X Q)
    BY FS_Singleton, FS_Product DEF Comparable
  <2>2. A(t) \in SUBSET ({"origin"} \X O) /\ B(t) \in SUBSET ({"receiver"} \X Q)
    OBVIOUS
  <2> HIDE DEF A, B
  <2> QED  BY <2>1, <2>2, FS_Subset
<1>2. \A m \in DOMAIN d : Cardinality(A(c[m])) = Cardinality(B(c[m]))
  BY SideMembers DEF SameTally, Partition
<1>3. ASSUME NEW m \in {"origin"} \X O
      PROVE  \A n \in {"origin"} \X O : c[n] = c[m] => n = m
  <2>1. m \in DOMAIN d /\ m \in On("origin", DOMAIN c)
    BY SideMembers DEF Partition, Comparable
  <2>2. On("origin", c[m]) = A(c[m])
    <3>1. c[m] = {n \in DOMAIN d : c[n] = c[m]}
      BY <2>1 DEF Partition
    <3>2. On("origin", c[m]) = {n \in On("origin", DOMAIN d) : c[n] = c[m]}
      BY <3>1 DEF On
    <3> QED  BY <3>2, SideMembers
  <2>3. ~(Cardinality(A(c[m])) > 1)
    BY <2>1, <2>2 DEF Ambiguous
  <2>4. m \in A(c[m])
    OBVIOUS
  <2> HIDE DEF A
  <2>5. Cardinality(A(c[m])) \in Nat /\ Cardinality(A(c[m])) # 0
    BY <1>1, <2>4, FS_CardinalityType, FS_EmptySet
  <2>6. Cardinality(A(c[m])) = 1
    BY <2>3, <2>5
  <2>7. PICK x : A(c[m]) = {x}
    BY <1>1, <2>6, FS_Singleton
  <2> QED  BY <2>4, <2>7 DEF A
<1>4. ASSUME NEW m \in {"receiver"} \X Q
      PROVE  \A n \in {"receiver"} \X Q : c[n] = c[m] => n = m
  <2>1. PICK o \in {"origin"} \X O : c[o] = c[m]
    BY ColorsMeet DEF Partition
  <2>2. A(c[m]) = {o}
    BY <1>3, <2>1
  <2>3. Cardinality(A(c[m])) = 1
    BY <2>2, FS_Singleton
  <2>4. Cardinality(B(c[m])) = 1
    BY <2>3, <1>2 DEF Comparable
  <2>5. PICK x : B(c[m]) = {x}
    <3> HIDE DEF A, B
    <3> QED  BY <1>1, <2>4, FS_Singleton
  <2> QED  BY <2>5
<1> QED  BY <1>3, <1>4

\* The report of an unambiguous colouring pairs roles and files one to one, by colour.
LEMMA MappingPairs ==
    ASSUME NEW d, NEW O, NEW Q, Comparable(d, O, Q), NEW c, Partition(d, c), SameTally(c),
           ~Ambiguous(c)
    PROVE  /\ Mapping(c) \in Bijection(O, Q) /\ Respects(O, Mapping(c), c)
           /\ \A f \in Bijection(O, Q) : Respects(O, f, c) => f = Mapping(c)
<1> DEFINE F == Mapping(c)
           pick(p) == CHOOSE n \in On("receiver", DOMAIN c) : n \in c[<<"origin", p>>]
<1>1. F = [p \in O |-> pick(p)[2]]
  BY SideMembers DEF Mapping, Partition
<1>2. ASSUME NEW p \in O
      PROVE  pick(p) \in {"receiver"} \X Q /\ c[pick(p)] = c[<<"origin", p>>]
  <2>1. <<"origin", p>> \in DOMAIN d /\ <<"origin", p>> \in {"origin"} \X O
    BY DEF Comparable
  <2>2. \A n \in {"receiver"} \X Q : n \in c[<<"origin", p>>] <=> c[n] = c[<<"origin", p>>]
    BY <2>1 DEF Partition, Comparable
  <2>3. On("receiver", DOMAIN c) = {"receiver"} \X Q /\ DOMAIN c = DOMAIN d
    BY SideMembers DEF Partition
  <2>4. \E n \in {"receiver"} \X Q : c[n] = c[<<"origin", p>>]
    BY <2>1, <2>3, ColorsMeet
  <2>5. \E n \in On("receiver", DOMAIN c) : n \in c[<<"origin", p>>]
    BY <2>2, <2>3, <2>4
  <2>6. pick(p) \in On("receiver", DOMAIN c) /\ pick(p) \in c[<<"origin", p>>]
    BY <2>5
  <2> HIDE DEF pick
  <2> QED  BY <2>2, <2>3, <2>6
<1> HIDE DEF pick
<1>3. \A p \in O : F[p] \in Q /\ Twin(F, <<"origin", p>>) = pick(p)
  <2> TAKE p \in O
  <2>1. F[p] = pick(p)[2]
    BY <1>1
  <2> HIDE DEF F
  <2>2. pick(p) = <<"receiver", pick(p)[2]>> /\ pick(p)[2] \in Q
    <3>1. pick(p) \in {"receiver"} \X Q
      BY <1>2
    <3>2. \A x \in {"receiver"} \X Q : x = <<"receiver", x[2]>> /\ x[2] \in Q
      OBVIOUS
    <3> QED  BY <3>1, <3>2
  <2> QED  BY <2>1, <2>2 DEF Twin
<1>4. F \in [O -> Q]
  BY <1>1, <1>3
<1> HIDE DEF F
<1>5. Respects(O, F, c)
  <2>1. ASSUME NEW m \in {"origin"} \X O  PROVE  c[m] = c[Twin(F, m)]
    <3>1. m[2] \in O /\ m = <<"origin", m[2]>>
      OBVIOUS
    <3> QED  BY <3>1, <1>2, <1>3
  <2> QED  BY <2>1 DEF Respects
<1>6. \A a, b \in O : F[a] = F[b] => a = b
  <2> TAKE a, b \in O
  <2> HAVE F[a] = F[b]
  <2>1. <<"origin", a>> \in {"origin"} \X O /\ <<"origin", b>> \in {"origin"} \X O
    OBVIOUS
  <2>2. Twin(F, <<"origin", a>>) = Twin(F, <<"origin", b>>)
    BY DEF Twin
  <2>3. c[<<"origin", a>>] = c[<<"origin", b>>]
    BY <1>5, <2>1, <2>2 DEF Respects
  <2>4. <<"origin", a>> = <<"origin", b>>
    BY <2>1, <2>3, Unambiguous
  <2> QED  BY <2>4
<1>7. \A q \in Q : \E p \in O : F[p] = q
  <2> TAKE q \in Q
  <2>1. <<"receiver", q>> \in {"receiver"} \X Q
    OBVIOUS
  <2>2. PICK m \in {"origin"} \X O : c[m] = c[<<"receiver", q>>]
    BY <2>1, ColorsMeet DEF Partition
  <2>3. m[2] \in O /\ m = <<"origin", m[2]>>
    OBVIOUS
  <2>4. pick(m[2]) = <<"receiver", q>>
    BY <2>1, <2>2, <2>3, <1>2, Unambiguous
  <2> QED  BY <2>3, <2>4, <1>1 DEF F
<1>8. F \in Bijection(O, Q)
  BY <1>4, <1>6, <1>7, Fun_IsBij
<1>9. ASSUME NEW f \in Bijection(O, Q), Respects(O, f, c)  PROVE  f = F
  <2>1. f \in [O -> Q]
    BY Fun_BijectionProperties
  <2>2. ASSUME NEW p \in O  PROVE  f[p] = F[p]
    <3> DEFINE m == <<"origin", p>>
    <3>1. m \in {"origin"} \X O
      OBVIOUS
    <3>2. Twin(f, m) \in {"receiver"} \X Q /\ Twin(F, m) \in {"receiver"} \X Q
      BY <2>1, <1>4 DEF Twin
    <3>3. c[Twin(f, m)] = c[Twin(F, m)]
      BY <3>1, <1>5, <1>9 DEF Respects
    <3>4. Twin(f, m) = Twin(F, m)
      BY <3>2, <3>3, Unambiguous
    <3> QED  BY <3>4 DEF Twin
  <2> QED  BY <2>1, <2>2, <1>4
<1> QED  BY <1>5, <1>8, <1>9 DEF F

\* Once a round changes no class, what it leaves unambiguous is the same project.
LEMMA StableIsSame ==
    ASSUME NEW d, NEW O, NEW Q, Comparable(d, O, Q), NEW c,
           Finer(d, Refined(d, c), c), SameTally(Refined(d, c)), ~Ambiguous(Refined(d, c)),
           DOMAIN c = DOMAIN d,
           SamePartition("receiver", c, Refined(d, c))
    PROVE  SameProject(d, Mapping(Refined(d, c)))
<1> DEFINE e == Refined(d, c)
           F == Mapping(e)
<1>1. Partition(d, e) /\ \A m, n \in DOMAIN d : e[m] = e[n] <=> Signature(d, c, m) = Signature(d, c, n)
  BY RefinedClasses
<1> HIDE DEF e
<1>2. F \in Bijection(O, Q) /\ Respects(O, F, e)
  BY <1>1, MappingPairs DEF e
<1>3. F \in [O -> Q]
  BY <1>2, Fun_BijectionProperties
<1> HIDE DEF F
<1>4. \A x, y \in {"receiver"} \X Q : c[x] = c[y] => x = y
  <2>1. \A x, y \in {"receiver"} \X Q : c[x] = c[y] <=> e[x] = e[y]
    BY SideMembers DEF SamePartition, e
  <2>2. \A x, y \in {"receiver"} \X Q : e[x] = e[y] => x = y
    BY <1>1, Unambiguous DEF e
  <2> QED  BY <2>1, <2>2
<1>5. ASSUME NEW m \in {"origin"} \X O
      PROVE  /\ Twin(F, m) \in {"receiver"} \X Q /\ Twin(F, m) \in DOMAIN d /\ m \in DOMAIN d
             /\ e[m] = e[Twin(F, m)] /\ c[m] = c[Twin(F, m)]
  <2>1. /\ Twin(F, m) \in {"receiver"} \X Q /\ Twin(F, m) \in DOMAIN d /\ m \in DOMAIN d
    BY <1>3 DEF Twin, Comparable
  <2>2. e[m] = e[Twin(F, m)]
    BY <1>2 DEF Respects
  <2> QED  BY <2>1, <2>2 DEF Finer, e
<1>6. ASSUME NEW m \in {"origin"} \X O
      PROVE  /\ Base(d[m]) = Base(d[Twin(F, m)])
             /\ \A i \in DOMAIN d[m].target : d[Twin(F, m)].target[i] = Twin(F, d[m].target[i])
  <2> DEFINE n == Twin(F, m)
  <2>1. /\ n \in {"receiver"} \X Q /\ n \in DOMAIN d /\ m \in DOMAIN d
        /\ Signature(d, c, m) = Signature(d, c, n)
    BY <1>1, <1>5
  <2> HIDE DEF n
  <2>2. Base(d[m]) = Base(d[n]) /\ Outgoing(d, c, m) = Outgoing(d, c, n)
    BY <2>1, SignaturesAgree
  <2>3. IsDescriptor(d[m]) /\ IsDescriptor(d[n])
    BY <2>1 DEF Comparable
  <2>4. /\ d[m].target = [i \in DOMAIN d[m].shape |-> d[m].target[i]]
        /\ d[n].target = [i \in DOMAIN d[n].shape |-> d[n].target[i]]
    BY <2>3 DEF IsDescriptor
  <2>5. DOMAIN d[m].target = DOMAIN d[m].shape /\ DOMAIN d[n].target = DOMAIN d[m].shape
        /\ DOMAIN d[n].shape = DOMAIN d[m].shape
    BY <2>2, <2>3, <2>4, BasesAgree
  <2>6. ASSUME NEW i \in DOMAIN d[m].shape
        PROVE  d[n].target[i] = Twin(F, d[m].target[i])
    <3>1. Outgoing(d, c, m)[i] = Outgoing(d, c, n)[i]
      BY <2>2
    <3>2. c[d[m].target[i]] = c[d[n].target[i]]
      BY <3>1, <2>5 DEF Outgoing
    <3>3. d[m].target[i] \in {"origin"} \X O
      <4>1. m[1] = "origin"
        OBVIOUS
      <4> QED  BY <2>1, <4>1, SideMembers DEF Comparable
    <3>4. d[n].target[i] \in {"receiver"} \X Q
      <4>1. n[1] = "receiver"
        BY <2>1
      <4> QED  BY <2>1, <2>5, <4>1, SideMembers DEF Comparable
    <3>5. c[d[m].target[i]] = c[Twin(F, d[m].target[i])] /\ Twin(F, d[m].target[i]) \in {"receiver"} \X Q
      BY <3>3, <1>5
    <3> QED  BY <3>2, <3>4, <3>5, <1>4
  <2> QED  BY <2>2, <2>5, <2>6 DEF n
<1>7. On("origin", DOMAIN d) = {"origin"} \X O
  BY SideMembers
<1>8. SameProject(d, F)
  BY <1>6, <1>7 DEF SameProject, Twin
<1> QED  BY <1>8 DEF F, e

LEMMA FolderFiles ==
    ASSUME NEW project, IsFolder(project), NEW p \in Paths(project)
    PROVE  /\ project.files[p] = [text |-> project.files[p].text, links |-> project.files[p].links]
           /\ project.files[p].links \in Seq([dest : Seq(Component), shape : Shape])
           /\ DOMAIN project.files[p].links = 1 .. Len(project.files[p].links)
           /\ Len(project.files[p].links) \in Nat
           /\ IsFiniteSet(DOMAIN project.files[p].links)
<1>1. project.files[p] \in FileContent
  BY DEF IsFolder
<1>2. /\ project.files[p] = [text |-> project.files[p].text, links |-> project.files[p].links]
      /\ project.files[p].links \in Seq([dest : Seq(Component), shape : Shape])
  BY <1>1 DEF FileContent
<1>3. /\ DOMAIN project.files[p].links = 1 .. Len(project.files[p].links)
      /\ Len(project.files[p].links) \in Nat
  BY <1>2, LenProperties
<1>4. IsFiniteSet(1 .. Len(project.files[p].links))
  BY <1>3, FS_Interval
<1> QED  BY <1>2, <1>3, <1>4

LEMMA ReferenceMembers ==
    ASSUME NEW files
    PROVE  /\ DOMAIN Graph(files) = References(files)
           /\ \A p, i : <<p, i>> \in References(files) <=>
                          p \in DOMAIN files /\ IsMarkdown(p) /\ i \in DOMAIN files[p].links
           /\ \A r \in References(files) : r = <<r[1], r[2]>>
           /\ \A r \in References(files) :
                Graph(files)[r] = Resolved(r[1], files[r[1]].links[r[2]].dest)
<1>1. /\ DOMAIN Graph(files) = References(files)
      /\ \A r \in References(files) :
           Graph(files)[r] = Resolved(r[1], files[r[1]].links[r[2]].dest)
  BY DEF Graph
<1>2. \A r \in References(files) : \E p \in DOMAIN files :
        IsMarkdown(p) /\ r \in {p} \X DOMAIN files[p].links
  BY DEF References
<1>3. ASSUME NEW p, NEW i
      PROVE  <<p, i>> \in References(files) <=>
               p \in DOMAIN files /\ IsMarkdown(p) /\ i \in DOMAIN files[p].links
  <2>1. ASSUME p \in DOMAIN files, IsMarkdown(p), i \in DOMAIN files[p].links
        PROVE  <<p, i>> \in References(files)
    BY <2>1 DEF References
  <2>2. ASSUME <<p, i>> \in References(files)
        PROVE  p \in DOMAIN files /\ IsMarkdown(p) /\ i \in DOMAIN files[p].links
    <3>1. PICK q \in DOMAIN files : IsMarkdown(q) /\ <<p, i>> \in {q} \X DOMAIN files[q].links
      BY <1>2, <2>2
    <3> QED  BY <3>1
  <2> QED  BY <2>1, <2>2
<1>4. \A r \in References(files) : r = <<r[1], r[2]>>
  BY <1>2
<1> QED  BY <1>1, <1>3, <1>4

Note(p) == IsMarkdown(p) /\ ~Protected(p)

\* What the descriptor of a file says, for a folder that can be read.
Describes(e, side, project, p) ==
    LET file == project.files[p]
    IN /\ IsDescriptor(e)
       /\ e.kind = (IF Note(p) THEN "markdown" ELSE "ordinary")
       /\ e.protected = Protected(p) /\ e.suffix = Suffix[Last(p)]
       /\ e.place = (IF Protected(p) THEN p ELSE <<>>)
       /\ e.bytes = (IF Note(p) THEN {} ELSE {file})
       /\ e.text = (IF Note(p) THEN {file.text} ELSE {})
       /\ Note(p) => DOMAIN e.shape = DOMAIN file.links
       /\ ~Note(p) => DOMAIN e.shape = {}
       /\ \A i \in DOMAIN e.shape :
            /\ Note(p) /\ i \in DOMAIN file.links /\ <<p, i>> \in References(project.files)
            /\ e.shape[i] = file.links[i].shape
            /\ e.target[i] = <<side, Graph(project.files)[<<p, i>>]>>
            /\ Graph(project.files)[<<p, i>>] \in Paths(project)

LEMMA DescriptorFields ==
    ASSUME NEW project, IsFolder(project), Readable(project), NEW side, NEW p \in Paths(project)
    PROVE  Describes(Descriptor(side, project.files, p), side, project, p)
<1> DEFINE note == Note(p)
           file == project.files[p]
           links == IF note THEN file.links ELSE <<>>
           kind == IF note THEN "markdown" ELSE "ordinary"
           shape == [i \in DOMAIN links |-> links[i].shape]
           target == [i \in DOMAIN links |-> <<side, Graph(project.files)[<<p, i>>]>>]
           e == Descriptor(side, project.files, p)
<1>1. /\ note => DOMAIN links = DOMAIN file.links /\ links = file.links
      /\ ~note => DOMAIN links = {}
  OBVIOUS
<1>2. IsFiniteSet(DOMAIN links)
  BY <1>1, FolderFiles, FS_EmptySet
<1>3. e = [kind |-> kind, protected |-> Protected(p), suffix |-> Suffix[Last(p)],
           place |-> IF Protected(p) THEN p ELSE <<>>,
           bytes |-> IF note THEN {} ELSE {file},
           text |-> IF note THEN {file.text} ELSE {},
           shape |-> shape, target |-> target]
  <2>1. "markdown" # "ordinary"
    OBVIOUS
  <2>2. CASE note
    BY <2>2, Zenon DEF Descriptor, Note
  <2>3. CASE ~note
    BY <2>3, Zenon DEF Descriptor, Note
  <2> QED  BY <2>2, <2>3
<1>4. \A i \in DOMAIN links : /\ note /\ i \in DOMAIN file.links
                              /\ <<p, i>> \in References(project.files)
                              /\ Graph(project.files)[<<p, i>>] \in Paths(project)
  <2> TAKE i \in DOMAIN links
  <2>1. note /\ i \in DOMAIN file.links
    BY <1>1
  <2>2. <<p, i>> \in References(project.files)
    BY <2>1, ReferenceMembers DEF Paths, Note
  <2>3. \A r \in References(project.files) : Graph(project.files)[r] \in Paths(project)
    BY ReferenceMembers DEF Readable, ReadableLinks
  <2> QED  BY <2>1, <2>2, <2>3
<1>5. DOMAIN shape = DOMAIN links /\ DOMAIN target = DOMAIN links
  OBVIOUS
<1>6. \A i \in DOMAIN links : shape[i] = links[i].shape /\ target[i] = <<side, Graph(project.files)[<<p, i>>]>>
  OBVIOUS
<1>7. target = [i \in DOMAIN shape |-> target[i]]
  BY <1>5
<1> HIDE DEF links, target, shape, note, e
<1>8. /\ e.kind = kind /\ e.protected = Protected(p) /\ e.suffix = Suffix[Last(p)]
      /\ e.place = (IF Protected(p) THEN p ELSE <<>>)
      /\ e.bytes = (IF note THEN {} ELSE {file})
      /\ e.text = (IF note THEN {file.text} ELSE {})
      /\ e.shape = shape /\ e.target = target
  BY <1>3
<1>9. IsDescriptor(e)
  <2>1. e = [kind |-> e.kind, protected |-> e.protected, suffix |-> e.suffix,
            place |-> e.place, bytes |-> e.bytes, text |-> e.text,
            shape |-> e.shape, target |-> e.target]
    BY <1>3, <1>8
  <2> QED  BY <2>1, <1>2, <1>5, <1>7, <1>8 DEF IsDescriptor
<1> QED  BY <1>1, <1>4, <1>5, <1>6, <1>8, <1>9 DEF e, note, Describes

LEMMA FoldersCompare ==
    ASSUME NEW o, NEW q, IsFolder(o), Readable(o), IsFolder(q), Readable(q), NEW d,
           d = Compared(Descriptors("origin", o.files), q.files)
    PROVE  /\ Comparable(d, Paths(o), Paths(q))
           /\ \A p \in Paths(o) : Describes(d[<<"origin", p>>], "origin", o, p)
           /\ \A p \in Paths(q) : Describes(d[<<"receiver", p>>], "receiver", q, p)
<1> DEFINE A == Descriptors("origin", o.files)
           B == {"receiver"} \X Paths(q)
<1>1. /\ DOMAIN A = {"origin"} \X Paths(o)
      /\ \A m \in {"origin"} \X Paths(o) : A[m] = Descriptor("origin", o.files, m[2])
  BY DEF Descriptors, Members, Paths
<1> HIDE DEF A
<1>3. /\ DOMAIN d = DOMAIN A \cup B
      /\ \A m \in DOMAIN A : d[m] = A[m]
      /\ \A m \in B : m \notin DOMAIN A => d[m] = Descriptor("receiver", q.files, m[2])
  BY DEF Compared, Members, Paths, A
<1>4. \A m \in {"receiver"} \X Paths(q) : m \notin {"origin"} \X Paths(o)
  OBVIOUS
<1>5. \A p \in Paths(o) : /\ <<"origin", p>> \in DOMAIN d
                           /\ Describes(d[<<"origin", p>>], "origin", o, p)
  <2> TAKE p \in Paths(o)
  <2>1. <<"origin", p>> \in {"origin"} \X Paths(o) /\ <<"origin", p>>[2] = p
    OBVIOUS
  <2>2. d[<<"origin", p>>] = Descriptor("origin", o.files, p)
    BY <2>1, <1>1, <1>3
  <2> QED  BY <2>1, <2>2, <1>1, <1>3, DescriptorFields
<1>6. \A p \in Paths(q) : /\ <<"receiver", p>> \in DOMAIN d
                           /\ Describes(d[<<"receiver", p>>], "receiver", q, p)
  <2> TAKE p \in Paths(q)
  <2>1. <<"receiver", p>> \in {"receiver"} \X Paths(q) /\ <<"receiver", p>>[2] = p
    OBVIOUS
  <2>2. d[<<"receiver", p>>] = Descriptor("receiver", q.files, p)
    BY <2>1, <1>1, <1>3, <1>4
  <2> QED  BY <2>1, <2>2, <1>3, DescriptorFields
<1>7. DOMAIN d = ({"origin"} \X Paths(o)) \cup ({"receiver"} \X Paths(q))
  BY <1>1, <1>3
<1>8. ASSUME NEW m \in DOMAIN d
      PROVE  IsDescriptor(d[m]) /\ \A i \in DOMAIN d[m].shape : d[m].target[i] \in On(m[1], DOMAIN d)
  <2>1. CASE m \in {"origin"} \X Paths(o)
    <3>1. m[2] \in Paths(o) /\ m = <<"origin", m[2]>> /\ m[1] = "origin"
      BY <2>1
    <3>2. Describes(d[m], "origin", o, m[2])
      BY <3>1, <1>5
    <3>3. /\ IsDescriptor(d[m])
          /\ \A i \in DOMAIN d[m].shape :
               \E p \in Paths(o) : d[m].target[i] = <<"origin", p>>
      BY <3>2 DEF Describes
    <3>4. \A p \in Paths(o) : <<"origin", p>> \in On("origin", DOMAIN d)
      BY <1>7 DEF On
    <3> QED  BY <3>1, <3>3, <3>4
  <2>2. CASE m \in {"receiver"} \X Paths(q)
    <3>1. m[2] \in Paths(q) /\ m = <<"receiver", m[2]>> /\ m[1] = "receiver"
      BY <2>2
    <3>2. Describes(d[m], "receiver", q, m[2])
      BY <3>1, <1>6
    <3>3. /\ IsDescriptor(d[m])
          /\ \A i \in DOMAIN d[m].shape :
               \E p \in Paths(q) : d[m].target[i] = <<"receiver", p>>
      BY <3>2 DEF Describes
    <3>4. \A p \in Paths(q) : <<"receiver", p>> \in On("receiver", DOMAIN d)
      BY <1>7 DEF On
    <3> QED  BY <3>1, <3>3, <3>4
  <2> QED  BY <2>1, <2>2, <1>7
<1>9. IsFiniteSet(Paths(o)) /\ IsFiniteSet(Paths(q))
  BY DEF IsFolder
<1>10. Comparable(d, Paths(o), Paths(q))
  BY <1>7, <1>8, <1>9 DEF Comparable
<1> QED  BY <1>5, <1>6, <1>10 

-----------------------------------------------------------------------------
(* How far a change is: what has been chosen, planned, produced, received,   *)
(* refined and matched.                                                      *)

Chosen == source \in Origins /\ Readable(source)

Planned ==
    /\ Chosen
    /\ ValidPlan(Paths(source), source.empty, plan)
    /\ Derivable(source.files, Graph(source.files), plan)
    /\ \A p \in Paths(source) : Protected(p) \/ plan[p] \in Seq(Component)

OwnCore == Core(source.files, source.empty, plan, Package(source, plan, None, <<>>).data)
Produced == Planned /\ result = Package(source, plan, OwnCore, <<>>)

Received ==
    /\ Produced /\ receiver \in Receivers(source) /\ Readable(receiver)
    /\ described = Compared(result.core.role, receiver.files)

SameFolders == receiver.empty = source.empty
SamePairings ==
    {f \in Bijection(Paths(source), Paths(receiver)) : SameProject(described, f)}

\* A colouring of this match: no distinction is undone, and every pairing of
\* the same project respects it.
Coloring(c) ==
    /\ Partition(described, c) /\ SameTally(c)
    /\ Finer(described, Refined(described, c), c)
    /\ \A f \in SamePairings : Respects(Paths(source), f, c)

Idle == described = <<>> /\ color = <<>> /\ round = 0 /\ mapping = <<>> /\ copy = None

\* While a match is refined, every round has told some class apart.
RoundsSpent == round \in Nat /\ round + 1 <= Cardinality(Colors(color))
RoundsLeft == round \in Nat /\ round <= Cardinality(Paths(source))

\* The last round changed no class.
Stable ==
    \E c : /\ Coloring(c) /\ color = Refined(described, c)
           /\ SamePartition("receiver", c, color)

Matched == Received /\ SameFolders /\ Coloring(color) /\ RoundsLeft /\ SamePairings = {mapping}

Phase ==
    \/ /\ step \in {"start", "refused"}
       /\ source = None /\ plan = <<>> /\ result = None /\ receiver = None /\ Idle
    \/ /\ step = "planning"
       /\ Chosen /\ plan = <<>> /\ result = None /\ receiver = None /\ Idle
    \/ /\ step \in {"reviewing", "failed"}
       /\ Planned /\ result = None /\ receiver = None /\ Idle
    \/ /\ step \in {"produced", "not_restored", "failed"}
       /\ Produced /\ receiver = None /\ Idle
    \/ /\ step = "refused"
       /\ Produced /\ Idle
    \/ /\ step = "described"
       /\ Received /\ color = <<>> /\ round = 0 /\ mapping = <<>> /\ copy = None
    \/ /\ step = "blocked"
       /\ Received /\ (color = <<>> \/ Coloring(color)) /\ RoundsLeft
       /\ mapping = <<>> /\ copy = None
       /\ code # "receiver_ambiguous_duplicate_group" => ~SameFolders \/ SamePairings = {}
    \/ /\ step = "refining"
       /\ Received /\ SameFolders /\ Coloring(color) /\ RoundsSpent
       /\ mapping = <<>> /\ copy = None
    \/ /\ step = "settled"
       /\ Received /\ SameFolders /\ Coloring(color) /\ Stable /\ RoundsLeft
       /\ mapping = <<>> /\ copy = None
    \/ /\ step \in {"matched", "receiver_review", "failed"}
       /\ Matched /\ copy = None
    \/ /\ step \in {"applied", "not_restored", "failed"}
       /\ Matched

Inv == Phase /\ restored \subseteq BOOLEAN
-----------------------------------------------------------------------------
LEMMA ProducedFolders ==
    ASSUME Chosen
    PROVE  /\ IsFolder(source) /\ Readable(source)
           /\ IsFiniteSet(Paths(source)) /\ Cardinality(Paths(source)) \in Nat
           /\ Paths(source) # {}
           /\ \A q \in Receivers(source) : IsFolder(q)
<1>1. IsFolder(source) /\ \A q \in Receivers(source) : IsFolder(q)
  BY FoldersAssumption DEF Chosen
<1>2. IsFiniteSet(Paths(source))
  BY <1>1 DEF IsFolder
<1>3. Cardinality(Paths(source)) \in Nat
  BY <1>2, FS_CardinalityType
<1>4. Paths(source) # {}
  BY DEF Chosen, Readable, ScannableTree
<1> QED  BY <1>1, <1>2, <1>3, <1>4 DEF Chosen

LEMMA ProducedCore ==
    ASSUME Produced
    PROVE  /\ result.core.role = Descriptors("origin", source.files)
           /\ result.core.place = plan /\ result.core.empty = source.empty
           /\ result.core.tree = Package(source, plan, None, <<>>).data
           /\ DOMAIN result.core.place = Paths(source)
<1>1. result.core = OwnCore
  BY DEF Produced, Package
<1>2. DOMAIN plan = Paths(source)
  BY DEF Produced, Planned, ValidPlan
<1> QED  BY <1>1, <1>2 DEF OwnCore, Core

LEMMA ReceivedCompares ==
    ASSUME Received
    PROVE  /\ IsFolder(receiver) /\ Readable(receiver)
           /\ Comparable(described, Paths(source), Paths(receiver))
           /\ \A p \in Paths(source) : Describes(described[<<"origin", p>>], "origin", source, p)
           /\ \A p \in Paths(receiver) : Describes(described[<<"receiver", p>>], "receiver", receiver, p)
           /\ Pairings(described) = Bijection(Paths(source), Paths(receiver))
<1>1. /\ IsFolder(source) /\ Readable(source) /\ IsFolder(receiver) /\ Readable(receiver)
      /\ described = Compared(Descriptors("origin", source.files), receiver.files)
  BY ProducedFolders, ProducedCore DEF Received, Produced, Planned
<1>2. /\ Comparable(described, Paths(source), Paths(receiver))
      /\ \A p \in Paths(source) : Describes(described[<<"origin", p>>], "origin", source, p)
      /\ \A p \in Paths(receiver) : Describes(described[<<"receiver", p>>], "receiver", receiver, p)
  BY <1>1, FoldersCompare
<1>3. Pairings(described) = Bijection(Paths(source), Paths(receiver))
  BY <1>2, SideMembers DEF Pairings
<1> QED  BY <1>1, <1>2, <1>3

LEMMA MatchedMapping ==
    ASSUME Matched
    PROVE  /\ mapping \in Bijection(Paths(source), Paths(receiver))
           /\ SameProject(described, mapping)
           /\ mapping # <<>>
<1>1. mapping \in SamePairings
  BY DEF Matched
<1>2. mapping \in Bijection(Paths(source), Paths(receiver)) /\ SameProject(described, mapping)
  BY <1>1 DEF SamePairings
<1>3. DOMAIN mapping = Paths(source) /\ Paths(source) # {}
  BY <1>2, Fun_BijectionProperties, ProducedFolders DEF Matched, Received, Produced, Planned
<1>4. DOMAIN <<>> = {}
  OBVIOUS
<1> QED  BY <1>2, <1>3, <1>4

(***************************************************************************)
(* The steps.                                                              *)
(***************************************************************************)
LEMMA InitInv == Init => Inv
BY DEF Init, Inv, Phase, Idle

LEMMA SelectInv ==
    ASSUME Inv, NEW p \in Origins, Select(p)
    PROVE  Phase'
<1>1. step = "start" /\ UNCHANGED <<plan, result, receiver, described, color, round, mapping, copy>>
  BY DEF Select, matching
<1>2. source = None /\ plan = <<>> /\ result = None /\ receiver = None /\ Idle
  BY <1>1 DEF Inv, Phase
<1>3. CASE Readable(p)
  <2>1. step' = "planning" /\ source' = p
    BY <1>3 DEF Select
  <2>2. Chosen' /\ (plan = <<>>)' /\ (result = None)' /\ (receiver = None)' /\ Idle'
    BY <2>1, <1>1, <1>2, <1>3 DEF Chosen, Idle
  <2> QED  BY <2>1, <2>2 DEF Phase
<1>4. CASE ~Readable(p)
  <2>1. step' = "refused" /\ source' = source
    BY <1>4 DEF Select
  <2>2. (source = None)' /\ (plan = <<>>)' /\ (result = None)' /\ (receiver = None)' /\ Idle'
    BY <2>1, <1>1, <1>2 DEF Idle
  <2> QED  BY <2>1, <2>2 DEF Phase
<1> QED  BY <1>3, <1>4

\* What compiles is a plan.
LEMMA CompiledPlan ==
    ASSUME Chosen, NEW entries, Compiles(entries),
           \A p \in Paths(source) : Protected(p) \/ entries[p] \in Seq(Component)
    PROVE  LET map == Completed(source, entries)
           IN /\ ValidPlan(Paths(source), source.empty, map)
              /\ Derivable(source.files, Graph(source.files), map)
              /\ \A p \in Paths(source) : Protected(p) \/ map[p] \in Seq(Component)
BY DEF Compiles, Completed

LEMMA SubmitInv ==
    ASSUME Inv, NEW entries \in Entries(source), Submit(entries)
    PROVE  Phase'
<1>1. step = "planning" /\ UNCHANGED <<source, result, receiver, described, color, round, mapping, copy>>
  BY DEF Submit, matching
<1>2. Chosen /\ plan = <<>> /\ result = None /\ receiver = None /\ Idle
  BY <1>1 DEF Inv, Phase
<1>3. CASE Compiles(entries)
  <2>1. step' = "reviewing" /\ plan' = Completed(source, entries)
    BY <1>3 DEF Submit
  <2>2. \A p \in Paths(source) : Protected(p) \/ entries[p] \in Seq(Component)
    <3>1. \A p \in DOMAIN entries : entries[p] \in Seq(Component)
      BY <1>2, FoldersAssumption DEF Chosen
    <3> QED  BY <3>1, <1>3 DEF Compiles, CompleteEntries
  <2>3. Planned'
    BY <1>1, <1>2, <1>3, <2>1, <2>2, CompiledPlan DEF Planned, Chosen
  <2>4. (result = None)' /\ (receiver = None)' /\ Idle'
    BY <1>1, <1>2 DEF Idle
  <2> QED  BY <2>1, <2>3, <2>4 DEF Phase
<1>4. CASE ~Compiles(entries)
  <2>1. step' = "planning" /\ plan' = plan
    BY <1>1, <1>4 DEF Submit
  <2>2. Chosen' /\ (plan = <<>>)' /\ (result = None)' /\ (receiver = None)' /\ Idle'
    BY <2>1, <1>1, <1>2 DEF Idle, Chosen
  <2> QED  BY <2>1, <2>2 DEF Phase
<1> QED  BY <1>3, <1>4

LEMMA ReviseInv ==
    ASSUME Inv, NEW entries \in Entries(source), NEW renames \in BOOLEAN, Revise(entries, renames)
    PROVE  Phase'
<1> DEFINE revised == [p \in {q \in Paths(source) : ~Protected(q)} |->
                         IF p \in DOMAIN entries THEN entries[p] ELSE plan[p]]
<1>1. step = "reviewing"
      /\ UNCHANGED <<step, source, result, receiver, described, color, round, mapping, copy>>
  BY DEF Revise, matching
<1>2. Planned /\ result = None /\ receiver = None /\ Idle
  BY <1>1 DEF Inv, Phase
<1>3. plan' = plan \/ (Compiles(revised) /\ plan' = Completed(source, revised))
  BY DEF Revise
<1>4. CASE plan' = plan
  <2>1. Planned' /\ (result = None)' /\ (receiver = None)' /\ Idle'
    BY <1>1, <1>2, <1>4 DEF Planned, Chosen, Idle
  <2> QED  BY <2>1, <1>1 DEF Phase
<1>5. CASE Compiles(revised) /\ plan' = Completed(source, revised)
  <2>1. \A p \in DOMAIN entries : entries[p] \in Seq(Component)
    BY <1>2, FoldersAssumption DEF Planned, Chosen
  <2>2. \A p \in Paths(source) : Protected(p) \/ revised[p] \in Seq(Component)
    BY <1>2, <2>1 DEF Planned
  <2> HIDE DEF revised
  <2>3. Planned'
    BY <1>1, <1>2, <1>5, <2>2, CompiledPlan DEF Planned, Chosen
  <2>4. (result = None)' /\ (receiver = None)' /\ Idle'
    BY <1>1, <1>2 DEF Idle
  <2> QED  BY <2>3, <2>4, <1>1 DEF Phase
<1> QED  BY <1>3, <1>4, <1>5

LEMMA ProduceInv ==
    ASSUME Inv, NEW disk \in Disks, Produce(disk)
    PROVE  Phase'
<1>1. step = "reviewing"
      /\ UNCHANGED <<source, plan, receiver, described, color, round, mapping, copy>>
  BY DEF Produce, matching
<1>2. Planned /\ result = None /\ receiver = None /\ Idle
  BY <1>1 DEF Inv, Phase
<1>3. Planned' /\ (receiver = None)' /\ Idle'
  BY <1>1, <1>2 DEF Planned, Chosen, Idle
<1>4. CASE step' = "produced" /\ result' = Package(source, plan, OwnCore, <<>>)
  <2>1. Produced'
    BY <1>1, <1>3, <1>4 DEF Produced, OwnCore
  <2> QED  BY <2>1, <1>3, <1>4 DEF Phase
<1>5. CASE step' = "failed" /\ result' = result
  BY <1>2, <1>3, <1>5 DEF Phase
<1> QED  BY <1>4, <1>5 DEF Produce, OwnCore

LEMMA ReceivedKept ==
    ASSUME Received, UNCHANGED <<source, plan, result, receiver, described>>
    PROVE  /\ Received' /\ SamePairings' = SamePairings /\ SameFolders' = SameFolders
           /\ \A c : Coloring(c)' <=> Coloring(c)
<1>1. Received'
  BY DEF Received, Produced, Planned, Chosen, OwnCore
<1>2. SamePairings' = SamePairings /\ SameFolders' = SameFolders
  BY DEF SamePairings, SameFolders
<1>3. ASSUME NEW c  PROVE  Coloring(c)' <=> Coloring(c)
  BY <1>2 DEF Coloring
<1> QED  BY <1>1, <1>2, <1>3

LEMMA MatchedKept ==
    ASSUME Matched, UNCHANGED <<source, plan, result, receiver, described, color, round, mapping>>
    PROVE  Matched'
<1>1. Received /\ SameFolders /\ Coloring(color) /\ RoundsLeft /\ SamePairings = {mapping}
  BY DEF Matched
<1>2. Received' /\ SamePairings' = SamePairings /\ SameFolders' = SameFolders /\ (Coloring(color)' <=> Coloring(color))
  BY <1>1, ReceivedKept DEF Coloring
<1> QED  BY <1>1, <1>2 DEF Matched, RoundsLeft

LEMMA ReceiveInv ==
    ASSUME Inv, NEW q \in Receivers(source), Receive(q)
    PROVE  Phase'
<1>1. step = "produced" /\ UNCHANGED <<source, plan, result, color, round, mapping, copy>>
      /\ receiver' = q
  BY DEF Receive
<1>2. Produced /\ Idle
  BY <1>1 DEF Inv, Phase
<1>3. Produced'
  BY <1>1, <1>2 DEF Produced, Planned, Chosen, OwnCore
<1>4. CASE Readable(q)
  <2>1. step' = "described" /\ described' = Compared(result.core.role, q.files)
    BY <1>4 DEF Receive
  <2>2. Received'
    BY <1>1, <1>3, <1>4, <2>1 DEF Received
  <2>3. (color = <<>>)' /\ (round = 0)' /\ (mapping = <<>>)' /\ (copy = None)'
    BY <1>1, <1>2 DEF Idle
  <2> QED  BY <2>1, <2>2, <2>3 DEF Phase
<1>5. CASE ~Readable(q)
  <2>1. step' = "refused" /\ described' = described
    BY <1>5 DEF Receive
  <2>2. Idle'
    BY <2>1, <1>1, <1>2 DEF Idle
  <2> QED  BY <2>1, <2>2, <1>3 DEF Phase
<1> QED  BY <1>4, <1>5

LEMMA InitialColoring ==
    ASSUME Received, SameTally(Initial(described))
    PROVE  Coloring(Initial(described))
<1>1. Comparable(described, Paths(source), Paths(receiver))
  BY ReceivedCompares
<1>2. Partition(described, Initial(described))
  BY InitialClasses
<1>3. Finer(described, Refined(described, Initial(described)), Initial(described))
  BY <1>1, RoundsRefine
<1>4. \A f \in SamePairings : Respects(Paths(source), f, Initial(described))
  BY <1>1, TwinsStayTogether DEF SamePairings
<1> QED  BY <1>2, <1>3, <1>4 DEF Coloring

LEMMA NextColoring ==
    ASSUME Received, NEW c, Coloring(c), SameTally(Refined(described, c))
    PROVE  Coloring(Refined(described, c))
<1>1. Comparable(described, Paths(source), Paths(receiver))
  BY ReceivedCompares
<1>2. Partition(described, Refined(described, c))
  BY RefinedClasses
<1>3. Finer(described, Refined(described, Refined(described, c)), Refined(described, c))
  BY <1>1, RoundsRefine DEF Coloring
<1>4. \A f \in SamePairings : Respects(Paths(source), f, Refined(described, c))
  <2> TAKE f \in SamePairings
  <2>1. f \in Bijection(Paths(source), Paths(receiver)) /\ SameProject(described, f)
    BY DEF SamePairings
  <2>2. Respects(Paths(source), f, c)
    BY DEF Coloring
  <2> QED  BY <1>1, <2>1, <2>2, TwinsStayTogether
<1> QED  BY <1>2, <1>3, <1>4 DEF Coloring

LEMMA PreflightInv ==
    ASSUME Inv, Preflight
    PROVE  Phase'
<1> DEFINE reason == Blocker(described, receiver.empty, result.core.empty)
<1>1. step = "described"
      /\ UNCHANGED <<source, plan, result, receiver, described, round, mapping, copy>>
  BY DEF Preflight
<1>2. Received /\ color = <<>> /\ round = 0 /\ mapping = <<>> /\ copy = None
  BY <1>1 DEF Inv, Phase
<1>3. /\ Comparable(described, Paths(source), Paths(receiver))
      /\ result.core.empty = source.empty
      /\ Cardinality(Paths(source)) \in Nat /\ Paths(source) # {}
  BY <1>2, ReceivedCompares, ProducedCore, ProducedFolders DEF Received, Produced, Planned
<1>4. /\ Received' /\ SamePairings' = SamePairings /\ SameFolders' = SameFolders
      /\ \A c : Coloring(c)' <=> Coloring(c)
  BY <1>1, <1>2, ReceivedKept
<1>5. /\ (round = 0)' /\ (mapping = <<>>)' /\ (copy = None)' /\ RoundsLeft'
  BY <1>1, <1>2, <1>3 DEF RoundsLeft
<1>6. SameFolders => (SamePairings # {} => reason = "none")
  <2>1. ASSUME SameFolders, NEW f \in SamePairings  PROVE  reason = "none"
    <3>1. f \in Bijection(Paths(source), Paths(receiver)) /\ SameProject(described, f)
      BY DEF SamePairings
    <3> QED  BY <2>1, <3>1, <1>3, SameProjectPasses DEF SameFolders
  <2> QED  BY <2>1
<1>7. reason = "none" => SameFolders
  BY <1>3, Zenon DEF Blocker, SameFolders
<1>8. SamePairings # {} => SameTally(Initial(described))
  BY <1>3, TwinsStayTogether DEF SamePairings
<1> HIDE DEF reason
<1>9. CASE step' = "blocked" /\ color' = color /\ (reason # "none" \/ ~SameTally(Initial(described)))
  <2>1. (~SameFolders \/ SamePairings = {})'
    BY <1>4, <1>6, <1>8, <1>9
  <2>2. (color = <<>>)'
    BY <1>2, <1>9
  <2> QED  BY <1>4, <1>5, <1>9, <2>1, <2>2 DEF Phase
<1>10. CASE /\ step' = "refining" /\ color' = Initial(described)
            /\ reason = "none" /\ SameTally(Initial(described))
  <2>1. Coloring(Initial(described))
    BY <1>2, <1>10, InitialColoring
  <2>2. Coloring(color)'
    BY <1>4, <1>10, <2>1 DEF Coloring
  <2>3. Cardinality(Colors(Initial(described))) \in Nat /\ Cardinality(Colors(Initial(described))) >= 1
    BY <1>3, <2>1, ColorsBounded DEF Coloring, Partition
  <2>4. RoundsSpent'
    BY <1>1, <1>2, <1>10, <2>3 DEF RoundsSpent
  <2>5. SameFolders'
    BY <1>4, <1>7, <1>10
  <2> QED  BY <1>4, <1>5, <1>10, <2>2, <2>4, <2>5 DEF Phase
<1> QED  BY <1>9, <1>10 DEF Preflight, Block, reason

LEMMA RefineInv ==
    ASSUME Inv, Refine
    PROVE  Phase'
<1> DEFINE next == Refined(described, color)
           stable == \A side \in Sides : SamePartition(side, color, next)
           N == Cardinality(Paths(source))
<1>1. step = "refining" /\ round' = round + 1
      /\ UNCHANGED <<source, plan, result, receiver, described, mapping, copy>>
  BY DEF Refine
<1>2. Received /\ SameFolders /\ Coloring(color) /\ RoundsSpent /\ mapping = <<>> /\ copy = None
  BY <1>1 DEF Inv, Phase
<1>3. /\ Comparable(described, Paths(source), Paths(receiver)) /\ N \in Nat
      /\ Cardinality(DOMAIN result.core.place) = N
  BY <1>2, ReceivedCompares, ProducedCore, ProducedFolders DEF Received, Produced, Planned
<1>4. /\ Received' /\ SamePairings' = SamePairings /\ SameFolders' = SameFolders
      /\ \A c : Coloring(c)' <=> Coloring(c)
  BY <1>1, <1>2, ReceivedKept
<1>5. /\ (mapping = <<>>)' /\ (copy = None)' /\ SameFolders'
  BY <1>1, <1>2, <1>4
<1>6. Cardinality(Colors(color)) \in Nat /\ Cardinality(Colors(color)) <= N
  BY <1>2, <1>3, ColorsBounded DEF Coloring, Partition
<1>7. round \in Nat /\ round + 1 <= Cardinality(Colors(color))
  BY <1>2 DEF RoundsSpent
<1>8. RoundsLeft'
  <2>1. round' \in Nat /\ round' <= N
    BY <1>1, <1>3, <1>6, <1>7
  <2>2. source' = source
    BY <1>1
  <2> QED  BY <2>1, <2>2 DEF RoundsLeft
<1> HIDE DEF next
<1>9. CASE ~SameTally(next)
  <2>1. step' = "blocked" /\ color' = color
    BY <1>9 DEF Refine, Block, next
  <2>2. SamePairings = {}
    <3>1. SUFFICES ASSUME NEW f \in SamePairings  PROVE  FALSE
      OBVIOUS
    <3>2. f \in Bijection(Paths(source), Paths(receiver)) /\ SameProject(described, f)
      BY DEF SamePairings
    <3>3. Respects(Paths(source), f, color)
      BY <1>2 DEF Coloring
    <3> QED  BY <1>3, <1>9, <3>2, <3>3, TwinsStayTogether DEF next
  <2>3. Coloring(color)'
    BY <1>2, <1>4, <2>1 DEF Coloring
  <2>4. (SamePairings = {})'
    BY <1>4, <2>2
  <2> QED  BY <1>4, <1>5, <1>8, <2>1, <2>3, <2>4 DEF Phase
<1>10. CASE SameTally(next)
  <2>1. color' = next /\ step' = (IF stable \/ round' = N THEN "settled" ELSE "refining")
    BY <1>10, <1>3 DEF Refine, next
  <2>2. Coloring(next)
    BY <1>2, <1>10, NextColoring DEF next
  <2>3. Coloring(color)'
    BY <1>4, <2>1, <2>2 DEF Coloring
  <2>4. Cardinality(Colors(next)) \in Nat /\ Cardinality(Colors(next)) <= N
    BY <1>3, <2>2, ColorsBounded DEF Coloring, Partition
  <2>5. DOMAIN color = DOMAIN described /\ DOMAIN next = DOMAIN described
        /\ Finer(described, next, color)
    BY <1>2, <2>2 DEF Coloring, Partition, next
  <2>6. ASSUME ~stable  PROVE  round' + 1 <= Cardinality(Colors(next))
    <3>1. PICK side \in Sides : ~SamePartition(side, color, next)
      BY <2>6
    <3>2. PICK x \in On(side, DOMAIN color), y \in On(side, DOMAIN color) :
            ~((color[x] = color[y]) <=> (next[x] = next[y]))
      BY <3>1 DEF SamePartition
    <3>3. x \in DOMAIN described /\ y \in DOMAIN described
      BY <3>2, <2>5 DEF On
    <3>4. color[x] = color[y] /\ next[x] # next[y]
      BY <3>2, <3>3, <2>5 DEF Finer
    <3>5. IsFiniteSet(Colors(next))
      BY <1>3, <2>2, ColorsBounded DEF Coloring, Partition
    <3>6. Cardinality(Colors(color)) < Cardinality(Colors(next))
      BY <2>5, <3>3, <3>4, <3>5, ColorsGrow
    <3> QED  BY <3>6, <1>1, <1>6, <1>7, <2>4
  <2>7. round' = N => stable
    BY <2>4, <2>6, <1>1, <1>3, <1>7
  <2>8. CASE stable
    <3>1. step' = "settled"
      BY <2>1, <2>8
    <3>2. SamePartition("receiver", color, next)
      BY <2>8 DEF Sides
    <3>3. Stable'
      <4>1. PICK c : c = color
        OBVIOUS
      <4>2. Coloring(c)'
        BY <1>2, <1>4, <4>1 DEF Coloring
      <4>3. color' = Refined(described', c) /\ SamePartition("receiver", c, color')
        BY <1>1, <2>1, <3>2, <4>1 DEF next
      <4> QED  BY <4>2, <4>3 DEF Stable
    <3> QED  BY <1>4, <1>5, <1>8, <2>3, <3>1, <3>3 DEF Phase
  <2>9. CASE ~stable
    <3>1. step' = "refining"
      BY <2>1, <2>7, <2>9
    <3>2. RoundsSpent'
      BY <1>1, <1>7, <2>1, <2>6, <2>9 DEF RoundsSpent
    <3> QED  BY <1>4, <1>5, <2>3, <3>1, <3>2 DEF Phase
  <2> QED  BY <2>8, <2>9
<1> QED  BY <1>9, <1>10

LEMMA ConcludeInv ==
    ASSUME Inv, Conclude
    PROVE  Phase'
<1>1. step = "settled"
      /\ UNCHANGED <<source, plan, result, receiver, described, color, round, copy>>
  BY DEF Conclude
<1>2. Received /\ SameFolders /\ Coloring(color) /\ Stable /\ RoundsLeft /\ mapping = <<>> /\ copy = None
  BY <1>1 DEF Inv, Phase
<1>3. Comparable(described, Paths(source), Paths(receiver))
  BY <1>2, ReceivedCompares
<1>4. /\ Received' /\ SamePairings' = SamePairings /\ SameFolders' = SameFolders
      /\ (Coloring(color)' <=> Coloring(color)) /\ RoundsLeft'
  BY <1>1, <1>2, ReceivedKept DEF Coloring, RoundsLeft
<1>5. CASE Ambiguous(color)
  <2>1. step' = "blocked" /\ code' = "receiver_ambiguous_duplicate_group" /\ mapping' = mapping
    BY <1>5 DEF Conclude, Block
  <2> QED  BY <1>1, <1>2, <1>4, <2>1 DEF Phase
<1>6. CASE ~Ambiguous(color)
  <2>1. step' = "matched" /\ mapping' = Mapping(color)
    BY <1>6 DEF Conclude
  <2>2. PICK c : /\ Coloring(c) /\ color = Refined(described, c)
                 /\ SamePartition("receiver", c, color)
    BY <1>2 DEF Stable
  <2>3. SameProject(described, Mapping(color))
    BY <1>2, <1>3, <1>6, <2>2, StableIsSame DEF Coloring, Partition
  <2>4. /\ Mapping(color) \in Bijection(Paths(source), Paths(receiver))
        /\ \A f \in Bijection(Paths(source), Paths(receiver)) :
             Respects(Paths(source), f, color) => f = Mapping(color)
    BY <1>2, <1>3, <1>6, MappingPairs DEF Coloring
  <2>5. SamePairings = {Mapping(color)}
    <3>1. Mapping(color) \in SamePairings
      BY <2>3, <2>4 DEF SamePairings
    <3>2. \A f \in SamePairings : f = Mapping(color)
      BY <1>2, <2>4 DEF SamePairings, Coloring
    <3> QED  BY <3>1, <3>2
  <2>6. Matched'
    BY <1>2, <1>4, <2>1, <2>5 DEF Matched
  <2> QED  BY <1>1, <1>2, <2>1, <2>6 DEF Phase
<1> QED  BY <1>5, <1>6

LEMMA ReviewInv ==
    ASSUME Inv, Review
    PROVE  Phase'
<1>1. step = "matched"
      /\ UNCHANGED <<source, plan, result, receiver, described, color, round, mapping, copy>>
  BY DEF Review, matching
<1>2. Matched /\ copy = None
  BY <1>1 DEF Inv, Phase
<1>3. Matched' /\ (copy = None)'
  BY <1>1, <1>2, MatchedKept
<1>4. step' \in {"receiver_review", "failed"}
  BY DEF Review
<1> QED  BY <1>3, <1>4 DEF Phase

LEMMA ApplyInv ==
    ASSUME Inv, NEW disk \in Disks, Apply(disk)
    PROVE  Phase'
<1>1. step = "receiver_review"
      /\ UNCHANGED <<source, plan, result, receiver, described, color, round, mapping>>
  BY DEF Apply
<1>2. Matched
  BY <1>1 DEF Inv, Phase
<1>3. Matched'
  BY <1>1, <1>2, MatchedKept
<1>4. step' \in {"applied", "failed"}
  BY DEF Apply
<1> QED  BY <1>3, <1>4 DEF Phase

LEMMA RestoreInv ==
    ASSUME Inv, NEW disk \in Disks, NEW package \in Packages, Restore(disk, package)
    PROVE  Phase'
<1>1. step \in {"produced", "applied"}
      /\ UNCHANGED <<source, plan, result, receiver, described, color, round, mapping, copy>>
  BY DEF Restore, matching
<1>2. step' \in {step, "failed", "not_restored"}
  BY DEF Restore
<1>3. CASE step = "produced"
  <2>1. Produced /\ receiver = None /\ Idle
    BY <1>3 DEF Inv, Phase
  <2>2. Produced' /\ (receiver = None)' /\ Idle'
    BY <1>1, <2>1 DEF Produced, Planned, Chosen, OwnCore, Idle
  <2>3. step' \in {"produced", "not_restored", "failed"}
    BY <1>2, <1>3
  <2> QED  BY <2>2, <2>3 DEF Phase
<1>4. CASE step = "applied"
  <2>1. Matched
    BY <1>4 DEF Inv, Phase
  <2>2. Matched'
    BY <1>1, <2>1, MatchedKept
  <2>3. step' \in {"applied", "not_restored", "failed"}
    BY <1>2, <1>4
  <2> QED  BY <2>2, <2>3 DEF Phase
<1> QED  BY <1>1, <1>3, <1>4

LEMMA StutterInv ==
    ASSUME Inv, UNCHANGED vars
    PROVE  Phase'
BY DEF Inv, Phase, vars, Chosen, Planned, Produced, Received, OwnCore, SameFolders, SamePairings,
       Coloring, Idle, RoundsSpent, RoundsLeft, Stable, Matched

LEMMA RestoredTyped ==
    ASSUME Inv, [Next]_vars
    PROVE  (restored \subseteq BOOLEAN)'
<1>1. restored \subseteq BOOLEAN
  BY DEF Inv
<1>2. restored' = restored \/ \E package \in Packages : restored' = restored \cup {package.mapping # <<>>}
  BY DEF Next, vars, Select, Submit, Revise, Produce, Receive, Preflight, Refine, Conclude,
         Review, Apply, Restore
<1> QED  BY <1>1, <1>2

LEMMA NextInv == Inv /\ [Next]_vars => Inv'
<1> SUFFICES ASSUME Inv, [Next]_vars  PROVE  Inv'
  OBVIOUS
<1>1. Phase'
  <2>1. ASSUME NEW p \in Origins, Select(p)  PROVE  Phase'
    BY <2>1, SelectInv
  <2>2. ASSUME NEW e \in Entries(source), Submit(e)  PROVE  Phase'
    BY <2>2, SubmitInv
  <2>3. ASSUME NEW e \in Entries(source), NEW renames \in BOOLEAN, Revise(e, renames)  PROVE  Phase'
    BY <2>3, ReviseInv
  <2>4. ASSUME NEW disk \in Disks, Produce(disk) \/ Apply(disk)  PROVE  Phase'
    BY <2>4, ProduceInv, ApplyInv
  <2>5. ASSUME NEW q \in Receivers(source), Receive(q)  PROVE  Phase'
    BY <2>5, ReceiveInv
  <2>6. ASSUME NEW disk \in Disks, NEW package \in Packages, Restore(disk, package)  PROVE  Phase'
    BY <2>6, RestoreInv
  <2>7. Preflight \/ Refine \/ Conclude \/ Review => Phase'
    BY PreflightInv, RefineInv, ConcludeInv, ReviewInv
  <2>8. UNCHANGED vars => Phase'
    BY StutterInv
  <2> QED  BY <2>1, <2>2, <2>3, <2>4, <2>5, <2>6, <2>7, <2>8 DEF Next
<1>2. (restored \subseteq BOOLEAN)'
  BY RestoredTyped
<1> QED  BY <1>1, <1>2 DEF Inv
-----------------------------------------------------------------------------
\* What compiles is an injective map of the source that leaves protected files alone.
LEMMA PlannedMap ==
    ASSUME Planned
    PROVE  /\ DOMAIN plan = Paths(source)
           /\ \A p \in Paths(source) : Protected(p) => plan[p] = p
           /\ IsInjective(plan)
BY DEF Planned, ValidPlan, ValidTarget, ValidTree, IsInjective

LEMMA ColoringHolds ==
    ASSUME NEW c, Coloring(c)
    PROVE  \A m \in DOMAIN c : m \in c[m]
BY DEF Coloring, Partition

LEMMA InvTyped == Inv => TypeOK
<1> SUFFICES ASSUME Inv  PROVE  TypeOK
  OBVIOUS
<1>1. restored \subseteq BOOLEAN
  BY DEF Inv
<1>2. step \in {"start", "planning", "reviewing", "produced", "described",
                "refining", "settled", "matched", "receiver_review", "applied", "blocked",
                "refused", "not_restored", "failed"}
  BY DEF Inv, Phase
<1>3. source = None \/ Chosen
  BY DEF Inv, Phase, Planned, Produced, Received, Matched
<1>4. plan = <<>> \/ Planned
  BY DEF Inv, Phase, Produced, Received, Matched
<1>5. receiver = None \/ step = "refused" \/ Received
  BY DEF Inv, Phase, Matched
<1>6. mapping = <<>> \/ Matched
  BY DEF Inv, Phase, Idle
<1>7. source # None => round <= Cardinality(Paths(source))
  <2>1. SUFFICES ASSUME source # None, Chosen  PROVE  round <= Cardinality(Paths(source))
    BY <1>3
  <2>2. Cardinality(Paths(source)) \in Nat
    BY <2>1, ProducedFolders
  <2>3. CASE round = 0
    BY <2>2, <2>3
  <2>4. CASE RoundsLeft
    BY <2>4 DEF RoundsLeft
  <2>5. CASE Received /\ Coloring(color) /\ RoundsSpent
    <3>1. /\ Cardinality(Colors(color)) \in Nat
          /\ Cardinality(Colors(color)) <= Cardinality(Paths(source))
      BY <2>5, ReceivedCompares, ColorsBounded DEF Coloring, Partition
    <3> QED  BY <2>2, <2>5, <3>1 DEF RoundsSpent
  <2> QED  BY <2>1, <2>3, <2>4, <2>5 DEF Inv, Phase, Idle, Matched
<1>8. \A m \in DOMAIN color : m \in color[m]
  <2>1. color = <<>> \/ Coloring(color)
    BY DEF Inv, Phase, Idle, Matched
  <2> QED  BY <2>1, ColoringHolds
<1>9. plan # <<>> => /\ DOMAIN plan = Paths(source)
                     /\ \A p \in Paths(source) : Protected(p) => plan[p] = p
                     /\ IsInjective(plan)
  BY <1>4, PlannedMap
<1>10. mapping # <<>> => mapping \in Bijection(Paths(source), Paths(receiver))
  BY <1>6, MatchedMapping
<1>11. (source # None => Readable(source)) /\ (receiver # None /\ step # "refused" => Readable(receiver))
  BY <1>3, <1>5 DEF Chosen, Received
<1> QED  BY <1>1, <1>2, <1>7, <1>8, <1>9, <1>10, <1>11 DEF TypeOK

LEMMA InvExact == Inv => MatchIsExact
<1> SUFFICES ASSUME Inv  PROVE  MatchIsExact
  OBVIOUS
<1> DEFINE same == {f \in Pairings(described) : SameProject(described, f)}
<1>1. ASSUME Received  PROVE  same = SamePairings
  BY <1>1, ReceivedCompares DEF SamePairings
<1>2. ASSUME step \in {"matched", "receiver_review", "applied"}
      PROVE  receiver.empty = source.empty /\ same = {mapping}
  <2>1. Matched
    BY <1>2 DEF Inv, Phase
  <2> QED  BY <2>1, <1>1 DEF Matched, SameFolders
<1>3. ASSUME step = "blocked", code # "receiver_ambiguous_duplicate_group"
      PROVE  receiver.empty # source.empty \/ same = {}
  <2>1. Received /\ (~SameFolders \/ SamePairings = {})
    BY <1>3 DEF Inv, Phase
  <2> QED  BY <2>1, <1>1 DEF SameFolders
<1>4. TypeOK
  BY InvTyped
<1> HIDE DEF same
<1> QED  BY <1>2, <1>3, <1>4 DEF MatchIsExact, same

(***************************************************************************)
(* A receiver is matched only if it is the origin's project under other    *)
(* paths, and in the one way it can be; it is told to have changed only if *)
(* it cannot be: the preflight refuses nothing that can be paired, and     *)
(* when the rounds end, each class has one member of each side or the      *)
(* receiver is refused as ambiguous (matcher.py).                          *)
(***************************************************************************)
THEOREM MatchesAreExact == Spec => []MatchIsExact
<1>1. Init => Inv
  BY InitInv
<1>2. Inv /\ [Next]_vars => Inv'
  BY NextInv
<1>3. Inv => MatchIsExact
  BY InvExact
<1> QED  BY <1>1, <1>2, <1>3, PTL DEF Spec

-----------------------------------------------------------------------------
(* Trees that a plan leads to.                                               *)

LEMMA TreeFacts ==
    ASSUME NEW map, NEW empty, ValidTree(map, empty)
    PROVE  LET files == {map[f] : f \in DOMAIN map}
               directories == Directories(files, empty)
           IN /\ \A f, g \in DOMAIN map : Key(map[f]) = Key(map[g]) => f = g
              /\ \A e, d \in empty : Key(e) = Key(d) => e = d
              /\ \A p \in files, d \in directories : Key(p) # Key(d)
              /\ \A p \in files, e \in empty : \A d \in Ancestors(p) : Key(d) # Key(e)
              /\ \A d, e \in directories : Key(d) = Key(e) => d = e
<1> DEFINE files == {map[f] : f \in DOMAIN map}
           directories == Directories(files, empty)
           FolderKeys == {Key(d) : d \in directories}
           EmptyKeys == {Key(e) : e \in empty}
<1>1. /\ \A f, g \in DOMAIN map : Key(map[f]) = Key(map[g]) => f = g
      /\ \A e, d \in empty : Key(e) = Key(d) => e = d
      /\ \A p \in files : Key(p) \notin FolderKeys
      /\ \A p \in files : \A d \in Ancestors(p) : Key(d) \notin EmptyKeys
      /\ \A d, e \in directories : Key(d) = Key(e) => d = e
  BY Zenon DEF ValidTree
<1> HIDE DEF files, directories
<1>2. \A p \in files, d \in directories : Key(p) # Key(d)
  BY <1>1
<1>3. \A p \in files, e \in empty : \A d \in Ancestors(p) : Key(d) # Key(e)
  BY <1>1
<1> QED  BY <1>1, <1>2, <1>3 DEF files, directories

LEMMA DirectoryMembers ==
    ASSUME NEW files, NEW empty
    PROVE  /\ empty \subseteq Directories(files, empty)
           /\ \A p \in files : Ancestors(p) \subseteq Directories(files, empty)
           /\ \A e \in empty : Ancestors(e) \subseteq Directories(files, empty)
           /\ \A d \in Directories(files, empty) :
                d \in empty \/ \E p \in files \cup empty : d \in Ancestors(p)
BY DEF Directories

LEMMA SameSpot ==
    ASSUME NEW disk \in Disks, NEW p, NEW q, At(disk, p) = At(disk, q)
    PROVE  Key(p) = Key(q)
BY DEF Disks, At, Key

\* Every accepted plan can be written, to a disk that tells case apart and to one that does not.
LEMMA PlansAreWritable ==
    ASSUME NEW project, IsFolder(project), NEW map, NEW disk \in Disks,
           ValidPlan(Paths(project), project.empty, map)
    PROVE  Writable(disk, map, project.empty)
<1> DEFINE empty == project.empty
           files == {map[f] : f \in DOMAIN map}
           needed == UNION {Ancestors(p) : p \in files}
           dirs == Directories(files, empty)
<1>1. ValidTree(map, empty)
  BY DEF ValidPlan
<1>2. /\ \A f, g \in DOMAIN map : Key(map[f]) = Key(map[g]) => f = g
      /\ \A p \in files, d \in dirs : Key(p) # Key(d)
      /\ \A p \in files, e \in empty : \A d \in Ancestors(p) : Key(d) # Key(e)
      /\ \A d, e \in dirs : Key(d) = Key(e) => d = e
  BY <1>1, TreeFacts
<1>3. /\ empty \subseteq dirs /\ needed \subseteq dirs
      /\ \A e \in empty : Ancestors(e) \subseteq dirs
  BY DirectoryMembers
<1>4. \A d, e \in empty : e \notin Ancestors(d)
  BY DEF IsFolder
<1>5. \A d \in needed : \E p \in files : d \in Ancestors(p)
  OBVIOUS
<1> HIDE DEF files, needed, dirs
<1>6. \A p \in files, d \in needed : At(disk, p) # At(disk, d)
  BY <1>2, <1>3, SameSpot
<1>7. \A d, e \in dirs : At(disk, d) = At(disk, e) => d = e
  BY <1>2, SameSpot
<1>8. ASSUME NEW e \in empty
      PROVE  /\ At(disk, e) \notin {At(disk, q) : q \in files \cup needed}
             /\ \A d \in empty : \A a \in Ancestors(d) : At(disk, a) # At(disk, e)
             /\ \A a \in Ancestors(e), p \in files : At(disk, a) # At(disk, p)
  <2>1. \A q \in files : At(disk, e) # At(disk, q)
    BY <1>2, <1>3, SameSpot
  <2>2. \A q \in needed : At(disk, e) # At(disk, q)
    BY <1>2, <1>5, SameSpot
  <2>3. \A d \in empty : \A a \in Ancestors(d) : At(disk, a) # At(disk, e)
    BY <1>3, <1>4, <1>7
  <2>4. \A a \in Ancestors(e), p \in files : At(disk, a) # At(disk, p)
    BY <1>2, <1>3, SameSpot
  <2> QED  BY <2>1, <2>2, <2>3, <2>4
<1>9. \A f, g \in DOMAIN map : f # g => At(disk, map[f]) # At(disk, map[g])
  BY <1>2, SameSpot
<1> QED  BY <1>6, <1>7, <1>8, <1>9 DEF Writable, files, needed, dirs

\* A folder can be written where it was.
LEMMA OriginalsAreWritable ==
    ASSUME NEW project, IsFolder(project)
    PROVE  Writable("exact", Original(project), project.empty)
<1> DEFINE map == Original(project)
           empty == project.empty
           files == {map[f] : f \in DOMAIN map}
           needed == UNION {Ancestors(p) : p \in files}
           dirs == Directories(files, empty)
<1>1. DOMAIN map = Paths(project) /\ \A p \in Paths(project) : map[p] = p
  BY DEF Original
<1>2. files = Paths(project)
  BY <1>1
<1>3. \A p : At("exact", p) = p
  BY DEF At
<1>4. /\ Paths(project) \cap dirs = {}
      /\ \A e \in empty : \A p \in Paths(project) \cup empty : e \notin Ancestors(p)
  BY <1>2 DEF IsFolder
<1>5. /\ empty \subseteq dirs /\ needed \subseteq dirs
      /\ \A e \in empty : Ancestors(e) \subseteq dirs
  BY DirectoryMembers
<1>6. \A d \in needed : \E p \in files : d \in Ancestors(p)
  OBVIOUS
<1> HIDE DEF map, files, needed, dirs
<1>7. ASSUME NEW e \in empty
      PROVE  /\ At("exact", e) \notin {At("exact", q) : q \in files \cup needed}
             /\ \A d \in empty : \A a \in Ancestors(d) : At("exact", a) # At("exact", e)
             /\ \A a \in Ancestors(e), p \in files : At("exact", a) # At("exact", p)
  BY <1>2, <1>3, <1>4, <1>5, <1>6
<1>8. \A f, g \in DOMAIN map : f # g => At("exact", map[f]) # At("exact", map[g])
  BY <1>1, <1>3
<1>9. \A p \in files, d \in needed : At("exact", p) # At("exact", d)
  BY <1>2, <1>3, <1>4, <1>5
<1>10. \A d, e \in dirs : At("exact", d) = At("exact", e) => d = e
  BY <1>3
<1>11. Writable("exact", map, empty)
  BY <1>7, <1>8, <1>9, <1>10 DEF Writable, files, needed, dirs
<1> QED  BY <1>11 DEF map
-----------------------------------------------------------------------------
(* The files of a result.                                                    *)

Rowed(files, map) == Rows(DerivedGraph(files, map), map)
Landed(project, map) == Data(project, map, Rowed(project.files, map))

\* A link of the file has to be spelled differently where the map puts things.
Differs(files, map, p) ==
    \E r \in References(files) :
      r[1] = p /\ files[p].links[r[2]].dest # RelativePath(map[Graph(files)[r]], map[p])

\* A note as it is written to where a plan puts it.
Spelled(file, p, graph, map) ==
    [text |-> file.text,
     links |-> [i \in DOMAIN file.links |->
                  [dest |-> RelativePath(map[graph[<<p, i>>]], map[p]),
                   shape |-> file.links[i].shape]]]

LEMMA RewritesSpell ==
    ASSUME NEW project, IsFolder(project), NEW p \in Paths(project), IsMarkdown(p), NEW map
    PROVE  ApplyRewrites(project.files[p], p, Graph(project.files), map)
             = Spelled(project.files[p], p, Graph(project.files), map)
<1> DEFINE file == project.files[p]
           graph == Graph(project.files)
           new == [i \in DOMAIN file.links |->
                     [file.links[i] EXCEPT !.dest = Proposed(graph, map)[<<p, i>>]]]
           spelled == [i \in DOMAIN file.links |->
                  [dest |-> RelativePath(map[graph[<<p, i>>]], map[p]),
                   shape |-> file.links[i].shape]]
<1>1. /\ file = [text |-> file.text, links |-> file.links]
      /\ file.links \in Seq([dest : Seq(Component), shape : Shape])
      /\ DOMAIN file.links = 1 .. Len(file.links)
  BY FolderFiles
<1>2. ASSUME NEW i \in DOMAIN file.links
      PROVE  [file.links[i] EXCEPT !.dest = Proposed(graph, map)[<<p, i>>]]
               = [dest |-> RelativePath(map[graph[<<p, i>>]], map[p]), shape |-> file.links[i].shape]
  <2>1. file.links[i] \in [dest : Seq(Component), shape : Shape]
    BY <1>1, ElementOfSeq
  <2>2. \A l \in [dest : Seq(Component), shape : Shape] : \A v :
          [l EXCEPT !.dest = v] = [dest |-> v, shape |-> l.shape]
    OBVIOUS
  <2>3. <<p, i>> \in DOMAIN graph
    BY ReferenceMembers DEF Paths
  <2>4. Proposed(graph, map)[<<p, i>>] = RelativePath(map[graph[<<p, i>>]], map[p])
    BY <2>3 DEF Proposed
  <2> QED  BY <2>1, <2>2, <2>4
<1>3. new = spelled
  BY <1>2
<1>4. [file EXCEPT !.links = new] = [text |-> file.text, links |-> new]
  <2> HIDE DEF new
  <2>1. \A t, l, v : [[text |-> t, links |-> l] EXCEPT !.links = v] = [text |-> t, links |-> v]
    OBVIOUS
  <2> QED  BY <1>1, <2>1
<1>5. ApplyRewrites(file, p, graph, map) = [file EXCEPT !.links = new]
  BY DEF ApplyRewrites
<1> QED  BY <1>3, <1>4, <1>5 DEF Spelled

LEMMA RowFields ==
    ASSUME NEW files, NEW map
    PROVE  /\ DOMAIN Rowed(files, map) = DOMAIN map
           /\ \A p \in DOMAIN map :
                /\ Rowed(files, map)[p].to = map[p]
                /\ Rowed(files, map)[p].rewritten <=> Differs(files, map, p)
<1> DEFINE derived == DerivedGraph(files, map)
           graph == Graph(files)
<1>1. DOMAIN graph = References(files) /\ DOMAIN derived = References(files)
  BY ReferenceMembers DEF DerivedGraph
<1>2. \A r \in References(files) : derived[r].rewritten = (r \in Rewritten(files, graph, map))
  BY <1>1 DEF DerivedGraph
<1>3. \A r \in References(files) :
        r \in Rewritten(files, graph, map)
          <=> files[r[1]].links[r[2]].dest # RelativePath(map[graph[r]], map[r[1]])
  BY <1>1 DEF Rewritten, Proposed
<1> HIDE DEF derived, graph
<1>4. \A p \in DOMAIN map :
         (\E r \in DOMAIN derived : r[1] = p /\ derived[r].rewritten)
           <=> Differs(files, map, p)
  BY <1>1, <1>2, <1>3 DEF Differs, graph
<1>5. /\ DOMAIN Rows(derived, map) = DOMAIN map
      /\ \A p \in DOMAIN map :
           /\ Rows(derived, map)[p].to = map[p]
           /\ Rows(derived, map)[p].rewritten
                = \E r \in DOMAIN derived : r[1] = p /\ derived[r].rewritten
  BY DEF Rows
<1>6. Rows(derived, map) = Rowed(files, map)
  BY DEF Rowed, derived
<1> HIDE DEF derived
<1> QED  BY <1>4, <1>5, <1>6

LEMMA PlanFacts ==
    ASSUME NEW files, NEW empty, NEW map, ValidPlan(files, empty, map)
    PROVE  /\ DOMAIN map = files
           /\ \A p, q \in files : map[p] = map[q] => p = q
           /\ \A p \in files : ValidTarget(map[p], p, Protected(p))
           /\ \A e \in empty : ValidTarget(e, e, TRUE)
           /\ ValidTree(map, empty)
           /\ \A p \in files : Protected(p) => map[p] = p
BY TreeFacts DEF ValidPlan, ValidTarget

LEMMA NotesHaveLinks ==
    ASSUME NEW project, IsFolder(project), Readable(project), NEW p \in Paths(project)
    PROVE  /\ \A i : <<p, i>> \in References(project.files) <=>
                       Note(p) /\ i \in DOMAIN project.files[p].links
           /\ \A r \in References(project.files) :
                r[1] \in Paths(project) /\ Note(r[1]) /\ r[2] \in DOMAIN project.files[r[1]].links
                /\ Graph(project.files)[r] \in Paths(project)
                /\ r = <<r[1], r[2]>>
<1>1. \A r \in References(project.files) : ~Protected(r[1]) /\ Graph(project.files)[r] \in Paths(project)
  BY ReferenceMembers DEF Readable, ReadableLinks
<1>2. \A r \in References(project.files) :
        /\ r = <<r[1], r[2]>> /\ r[1] \in Paths(project) /\ IsMarkdown(r[1])
        /\ r[2] \in DOMAIN project.files[r[1]].links
  <2> TAKE r \in References(project.files)
  <2>1. r = <<r[1], r[2]>>
    BY ReferenceMembers
  <2>2. <<r[1], r[2]>> \in References(project.files)
    BY <2>1
  <2> QED  BY <2>1, <2>2, ReferenceMembers DEF Paths
<1>3. ASSUME NEW i
      PROVE  <<p, i>> \in References(project.files) <=>
                Note(p) /\ i \in DOMAIN project.files[p].links
  <2>1. <<p, i>> \in References(project.files) <=>
          p \in Paths(project) /\ IsMarkdown(p) /\ i \in DOMAIN project.files[p].links
    BY ReferenceMembers DEF Paths
  <2>2. <<p, i>> \in References(project.files) => ~Protected(p)
    BY <1>1
  <2> QED  BY <2>1, <2>2 DEF Note
<1> QED  BY <1>1, <1>2, <1>3 DEF Note

LEMMA UnchangedNotes ==
    ASSUME NEW project, IsFolder(project), NEW p \in Paths(project), NEW map,
           \A i \in DOMAIN project.files[p].links :
             project.files[p].links[i].dest
               = RelativePath(map[Graph(project.files)[<<p, i>>]], map[p])
    PROVE  Spelled(project.files[p], p, Graph(project.files), map) = project.files[p]
<1> DEFINE file == project.files[p]
           graph == Graph(project.files)
           D == DOMAIN file.links
<1>1. /\ file = [text |-> file.text, links |-> file.links]
      /\ file.links \in Seq([dest : Seq(Component), shape : Shape])
      /\ D = 1 .. Len(file.links)
  BY FolderFiles
<1>2. file.links = [i \in D |-> file.links[i]]
  <2>1. \A s \in Seq([dest : Seq(Component), shape : Shape]) : s = [i \in DOMAIN s |-> s[i]]
    OBVIOUS
  <2> QED  BY <1>1, <2>1
<1>3. ASSUME NEW i \in D
      PROVE  file.links[i] = [dest |-> RelativePath(map[graph[<<p, i>>]], map[p]),
                              shape |-> file.links[i].shape]
  <2>1. file.links[i] \in [dest : Seq(Component), shape : Shape]
    BY <1>1, ElementOfSeq
  <2>2. file.links[i].dest = RelativePath(map[graph[<<p, i>>]], map[p])
    OBVIOUS
  <2>3. \A l \in [dest : Seq(Component), shape : Shape] : l = [dest |-> l.dest, shape |-> l.shape]
    OBVIOUS
  <2> QED  BY <2>1, <2>2, <2>3
<1>4. file.links = [i \in D |-> [dest |-> RelativePath(map[graph[<<p, i>>]], map[p]),
                                 shape |-> file.links[i].shape]]
  BY <1>2, <1>3
<1> QED  BY <1>1, <1>4 DEF Spelled

LEMMA RewrittenNotes ==
    ASSUME NEW project, IsFolder(project), Readable(project), NEW map, DOMAIN map = Paths(project),
           NEW p \in Paths(project)
    PROVE  /\ Rowed(project.files, map)[p].to = map[p]
           /\ Rowed(project.files, map)[p].rewritten => Note(p)
           /\ ~Rowed(project.files, map)[p].rewritten /\ Note(p) =>
                Spelled(project.files[p], p, Graph(project.files), map) = project.files[p]
<1> DEFINE row == Rowed(project.files, map)[p]
           files == project.files
<1>1. row.to = map[p] /\ (row.rewritten <=> Differs(files, map, p))
  BY RowFields
<1> HIDE DEF row
<1>2. row.rewritten => Note(p)
  BY <1>1, NotesHaveLinks DEF Differs
<1>3. ASSUME ~row.rewritten, Note(p)
      PROVE  Spelled(files[p], p, Graph(files), map) = files[p]
  <2>1. ASSUME NEW i \in DOMAIN files[p].links
        PROVE  files[p].links[i].dest = RelativePath(map[Graph(files)[<<p, i>>]], map[p])
    <3>1. <<p, i>> \in References(files) /\ <<p, i>>[1] = p /\ <<p, i>>[2] = i
      BY <1>3, NotesHaveLinks
    <3> QED  BY <3>1, <1>1, <1>3 DEF Differs
  <2> QED  BY <2>1, UnchangedNotes
<1> QED  BY <1>1, <1>2, <1>3 DEF row

\* What a plan leads to: every file where the plan puts it, notes spelled for it.
LEMMA LandedShape ==
    ASSUME NEW project, NEW map, DOMAIN map = Paths(project)
    PROVE  /\ Landed(project, map) = [files |-> Landed(project, map).files, empty |-> project.empty]
           /\ Landed(project, map).empty = project.empty
           /\ Landed(project, map).files =
                [t \in {map[p] : p \in Paths(project)} |-> Landed(project, map).files[t]]
           /\ Paths(Landed(project, map)) = {map[p] : p \in Paths(project)}
<1> DEFINE rows == Rowed(project.files, map)
           O == Paths(project)
           L == Landed(project, map)
           first(t) == CHOOSE q \in O : map[q] = t
           files == [t \in {map[p] : p \in O} |->
                       IF rows[first(t)].rewritten
                         THEN ApplyRewrites(project.files[first(t)], first(t), Graph(project.files), map)
                         ELSE project.files[first(t)]]
<1>1. L = [files |-> files, empty |-> project.empty]
  BY DEF Landed, Data
<1>2. files = [t \in {map[p] : p \in O} |-> files[t]] /\ DOMAIN files = {map[p] : p \in O}
  OBVIOUS
<1> HIDE DEF files
<1>3. L.files = files /\ L.empty = project.empty
  BY <1>1
<1> HIDE DEF L
<1>4. Paths(L) = {map[p] : p \in O}
  BY <1>2, <1>3 DEF Paths
<1> QED  BY <1>1, <1>2, <1>3, <1>4 DEF L

LEMMA LandedAt ==
    ASSUME NEW project, IsFolder(project), Readable(project), NEW map,
           ValidPlan(Paths(project), project.empty, map), NEW p \in Paths(project)
    PROVE  /\ Note(p) => Landed(project, map).files[map[p]]
                            = Spelled(project.files[p], p, Graph(project.files), map)
           /\ ~Note(p) => Landed(project, map).files[map[p]] = project.files[p]
           /\ ~Rowed(project.files, map)[p].rewritten
                => Landed(project, map).files[map[p]] = project.files[p]
<1> DEFINE rows == Rowed(project.files, map)
           O == Paths(project)
           L == Landed(project, map)
           first(t) == CHOOSE q \in O : map[q] = t
           files == [t \in {map[q] : q \in O} |->
                       IF rows[first(t)].rewritten
                         THEN ApplyRewrites(project.files[first(t)], first(t), Graph(project.files), map)
                         ELSE project.files[first(t)]]
<1>1. DOMAIN map = O /\ \A q, s \in O : map[q] = map[s] => q = s
  BY PlanFacts
<1>2. L = [files |-> files, empty |-> project.empty]
  BY <1>1 DEF Landed, Data
<1>3. first(map[p]) = p
  BY <1>1
<1> HIDE DEF first
<1>4. files[map[p]] = IF rows[p].rewritten
                        THEN ApplyRewrites(project.files[p], p, Graph(project.files), map)
                        ELSE project.files[p]
  BY <1>3
<1> HIDE DEF files
<1>5. L.files = files
  BY <1>2
<1>6. L.files[map[p]] = IF rows[p].rewritten
                          THEN ApplyRewrites(project.files[p], p, Graph(project.files), map)
                          ELSE project.files[p]
  BY <1>4, <1>5
<1>7. /\ rows[p].rewritten => Note(p)
      /\ ~rows[p].rewritten /\ Note(p) =>
           Spelled(project.files[p], p, Graph(project.files), map) = project.files[p]
  BY <1>1, RewrittenNotes
<1>8. Note(p) => ApplyRewrites(project.files[p], p, Graph(project.files), map)
                   = Spelled(project.files[p], p, Graph(project.files), map)
  BY RewritesSpell DEF Note
<1> HIDE DEF rows, L
<1>9. /\ Note(p) => L.files[map[p]] = Spelled(project.files[p], p, Graph(project.files), map)
      /\ ~Note(p) => L.files[map[p]] = project.files[p]
      /\ ~rows[p].rewritten => L.files[map[p]] = project.files[p]
  BY <1>6, <1>7, <1>8
<1> QED  BY <1>9 DEF rows, L

\* Each link of a result leads to where its target went.
LEMMA LandedLinks ==
    ASSUME NEW project, IsFolder(project), Readable(project), NEW map,
           ValidPlan(Paths(project), project.empty, map),
           Derivable(project.files, Graph(project.files), map),
           NEW r \in References(project.files)
    PROVE  Resolved(map[r[1]], Landed(project, map).files[map[r[1]]].links[r[2]].dest)
             = map[Graph(project.files)[r]]
<1> DEFINE p == r[1]
           i == r[2]
           graph == Graph(project.files)
<1>1. p \in Paths(project) /\ Note(p) /\ i \in DOMAIN project.files[p].links /\ r = <<p, i>>
  <2>1. Paths(project) # {}
    BY DEF Readable, ScannableTree
  <2> QED  BY <2>1, NotesHaveLinks
<1>2. Landed(project, map).files[map[p]] = Spelled(project.files[p], p, graph, map)
  BY <1>1, LandedAt
<1>3. Spelled(project.files[p], p, graph, map).links[i].dest = RelativePath(map[graph[r]], map[p])
  BY <1>1 DEF Spelled
<1>4. r \in DOMAIN graph
  BY ReferenceMembers
<1>5. Resolved(map[p], Proposed(graph, map)[r]) = map[graph[r]]
  BY <1>4 DEF Derivable
<1>6. Proposed(graph, map)[r] = RelativePath(map[graph[r]], map[p])
  BY <1>4 DEF Proposed
<1> QED  BY <1>2, <1>3, <1>5, <1>6

\* What a proof gives back is the source, and the result verifies.
LEMMA PackageFields ==
    ASSUME NEW project, NEW map, NEW core, NEW matched, NEW package,
           package = Package(project, map, core, matched)
    PROVE  /\ package.snapshot = project /\ package.plan = map
           /\ package.graph = DerivedGraph(project.files, map)
           /\ package.rows = Rowed(project.files, map)
           /\ \A p : p \in DOMAIN package.original
                       <=> p \in DOMAIN map /\ Rowed(project.files, map)[p].rewritten
           /\ \A p \in DOMAIN package.original : package.original[p] = project.files[p]
           /\ package.data = Landed(project, map)
           /\ package.core = core /\ package.mapping = matched
<1> DEFINE rows == Rowed(project.files, map)
<1>1. package =
        [snapshot |-> project, plan |-> map, graph |-> DerivedGraph(project.files, map), rows |-> rows,
         original |-> [p \in {q \in DOMAIN map : rows[q].rewritten} |-> project.files[p]],
         data |-> Landed(project, map), core |-> core, mapping |-> matched]
  BY Zenon DEF Package, Landed, Rowed
<1>2. package.original = [p \in {q \in DOMAIN map : rows[q].rewritten} |-> project.files[p]]
  BY <1>1
<1>3. /\ \A p : p \in DOMAIN package.original <=> p \in DOMAIN map /\ rows[p].rewritten
      /\ \A p \in DOMAIN package.original : package.original[p] = project.files[p]
  BY <1>2
<1> QED  BY <1>1, <1>3

LEMMA PackageRecovers ==
    ASSUME NEW project, IsFolder(project), Readable(project), NEW map,
           ValidPlan(Paths(project), project.empty, map),
           NEW core, NEW matched, NEW package, package = Package(project, map, core, matched)
    PROVE  Recovered(package) = project.files
<1> DEFINE rows == Rowed(project.files, map)
           O == Paths(project)
<1>1. DOMAIN map = O
  BY PlanFacts
<1>2. DOMAIN rows = O /\ \A p \in O : rows[p].to = map[p]
  BY <1>1, RowFields
<1>3. /\ package.rows = rows /\ package.data = Landed(project, map)
      /\ \A p \in O : rows[p].rewritten => package.original[p] = project.files[p]
  BY <1>1, PackageFields
<1>4. \A p \in O : ~rows[p].rewritten => Landed(project, map).files[map[p]] = project.files[p]
  BY LandedAt
<1> HIDE DEF rows
<1>5. Recovered(package) =
        [p \in O |-> IF rows[p].rewritten THEN package.original[p]
                     ELSE package.data.files[rows[p].to]]
  BY <1>2, <1>3 DEF Recovered
<1>6. \A p \in O : rows[p].rewritten => package.original[p] = project.files[p]
  BY <1>3
<1>7. Recovered(package) = [p \in O |-> project.files[p]]
  BY <1>2, <1>3, <1>4, <1>5, <1>6
<1>8. project.files = [p \in O |-> project.files[p]]
  BY DEF IsFolder
<1> QED  BY <1>7, <1>8

LEMMA PackageVerifies ==
    ASSUME NEW project, IsFolder(project), Readable(project), NEW map,
           ValidPlan(Paths(project), project.empty, map),
           NEW core, NEW matched, NEW package, package = Package(project, map, core, matched),
           IF matched = <<>>
             THEN core = Core(project.files, project.empty, map, Landed(project, map))
             ELSE /\ Landed(project, map) = core.tree
                  /\ map = [p \in Paths(project) |->
                              core.place[CHOOSE o \in DOMAIN core.place : matched[o] = p]]
    PROVE  Verified(package)
<1> DEFINE O == Paths(project)
           rows == Rowed(project.files, map)
<1>1. Recovered(package) = project.files
  BY PackageRecovers
<1>2. /\ package.snapshot = project /\ package.plan = map
      /\ package.graph = DerivedGraph(project.files, map)
      /\ package.rows = rows
      /\ \A p : p \in DOMAIN package.original <=> p \in DOMAIN map /\ rows[p].rewritten
      /\ \A p \in DOMAIN package.original : package.original[p] = project.files[p]
      /\ package.data = Landed(project, map)
      /\ package.core = core /\ package.mapping = matched
  BY PackageFields
<1>3. DOMAIN map = O
  BY PlanFacts
<1>4. ASSUME NEW p \in DOMAIN package.original
      PROVE  package.data.files[package.plan[p]]
               = ApplyRewrites(package.original[p], p, Graph(project.files), package.plan)
  <2>1. p \in O /\ rows[p].rewritten /\ package.original[p] = project.files[p]
    BY <1>2, <1>3
  <2>2. Note(p)
    BY <2>1, <1>3, RewrittenNotes
  <2>3. Landed(project, map).files[map[p]] = Spelled(project.files[p], p, Graph(project.files), map)
    BY <2>1, <2>2, LandedAt
  <2>4. ApplyRewrites(project.files[p], p, Graph(project.files), map)
          = Spelled(project.files[p], p, Graph(project.files), map)
    BY <2>1, <2>2, RewritesSpell DEF Note
  <2> QED  BY <1>2, <2>1, <2>3, <2>4
<1> HIDE DEF rows
<1>5. SamePayloads(package)
  BY <1>1, <1>2, <1>4 DEF SamePayloads
<1>6. IF package.mapping = <<>> THEN OriginVerified(package) ELSE ReceiverVerified(package)
  BY <1>1, <1>2 DEF OriginVerified, ReceiverVerified, Paths
<1>7. ValidPlan(DOMAIN project.files, package.snapshot.empty, package.plan)
  BY <1>2 DEF Paths
<1>8. package.rows = Rows(package.graph, package.plan)
  BY <1>2 DEF Rowed, rows
<1> QED  BY <1>1, <1>2, <1>5, <1>6, <1>7, <1>8 DEF Verified

\* Fewer files need fewer folders and meet in fewer places.
LEMMA SmallerTree ==
    ASSUME NEW map, NEW empty, ValidTree(map, empty), NEW few,
           \A g \in DOMAIN few : few[g] \in {map[f] : f \in DOMAIN map},
           \A g, h \in DOMAIN few : few[g] = few[h] => g = h
    PROVE  ValidTree(few, empty)
<1> DEFINE files == {map[f] : f \in DOMAIN map}
           kept == {few[f] : f \in DOMAIN few}
           dirs == Directories(files, empty)
           fewer == Directories(kept, empty)
           FolderKeys == {Key(d) : d \in fewer}
           EmptyKeys == {Key(e) : e \in empty}
<1>1. /\ \A f, g \in DOMAIN map : Key(map[f]) = Key(map[g]) => f = g
      /\ \A e, d \in empty : Key(e) = Key(d) => e = d
      /\ \A p \in files, d \in dirs : Key(p) # Key(d)
      /\ \A p \in files, e \in empty : \A d \in Ancestors(p) : Key(d) # Key(e)
      /\ \A d, e \in dirs : Key(d) = Key(e) => d = e
  BY TreeFacts
<1>2. kept \subseteq files
  OBVIOUS
<1>3. \A f, g \in DOMAIN few : Key(few[f]) = Key(few[g]) => f = g
  BY <1>1
<1> HIDE DEF files, kept
<1>4. fewer \subseteq dirs
  BY <1>2 DEF Directories
<1> HIDE DEF dirs, fewer
<1>5. \A p \in kept : Key(p) \notin FolderKeys
  BY <1>1, <1>2, <1>4
<1>6. \A p \in kept : \A d \in Ancestors(p) : Key(d) \notin EmptyKeys
  BY <1>1, <1>2
<1>7. \A d, e \in fewer : Key(d) = Key(e) => d = e
  BY <1>1, <1>4
<1> QED  BY <1>1, <1>3, <1>5, <1>6, <1>7 DEF ValidTree, fewer, kept

LEMMA LandedScannable ==
    ASSUME NEW project, IsFolder(project), Readable(project), NEW map,
           ValidPlan(Paths(project), project.empty, map),
           \A p \in Paths(project) : map[p] \in Seq(Component)
    PROVE  ScannableTree(Landed(project, map))
<1> DEFINE L == Landed(project, map)
           kept == {t \in Paths(L) : Protected(t)}
<1>1. /\ DOMAIN map = Paths(project) /\ ValidTree(map, project.empty)
      /\ \A p \in Paths(project) : ValidTarget(map[p], p, Protected(p))
      /\ \A p \in Paths(project) : Protected(p) => map[p] = p
      /\ \A e \in project.empty : ValidTarget(e, e, TRUE)
  BY PlanFacts
<1>2. Paths(L) = {map[p] : p \in Paths(project)} /\ L.empty = project.empty
  BY <1>1, LandedShape
<1> HIDE DEF L
<1>3. Paths(L) # {}
  BY <1>2 DEF Readable, ScannableTree
<1>4. \A p \in kept \cup L.empty : ValidTarget(p, p, TRUE)
  <2>1. \A p \in Paths(project) : ValidTarget(map[p], map[p], TRUE)
    BY <1>1 DEF ValidTarget
  <2>2. \A t \in Paths(L) : ValidTarget(t, t, TRUE)
    BY <1>2, <2>1
  <2>3. \A e \in L.empty : ValidTarget(e, e, TRUE)
    BY <1>1, <1>2
  <2> QED  BY <2>2, <2>3
<1>5. ASSUME NEW t \in Paths(L) \ kept
      PROVE  \E n \in Name \ (Unusable \cup Hidden) : Suffix[n] = Suffix[Last(t)]
  <2>1. PICK p \in Paths(project) : t = map[p]
    BY <1>2
  <2>2. ~Protected(t)
    OBVIOUS
  <2>3. ~Protected(p)
    BY <1>1, <2>1, <2>2
  <2>4. /\ t # <<>> /\ \A i \in DOMAIN t : t[i] \in Name \ Unusable /\ t[i] \notin Hidden
    BY <1>1, <2>1, <2>3 DEF ValidTarget
  <2>5. t \in Seq(Component)
    BY <2>1
  <2>6. Len(t) \in DOMAIN t
    BY <2>4, <2>5
  <2>7. Last(t) = t[Len(t)]
    BY DEF Last
  <2> QED  BY <2>4, <2>6, <2>7
<1>6. ValidTree([p \in kept |-> p], L.empty)
  <2> DEFINE few == [p \in kept |-> p]
  <2>1. kept \subseteq {map[f] : f \in DOMAIN map}
    BY <1>1, <1>2
  <2> HIDE DEF kept
  <2>2. DOMAIN few = kept /\ \A p \in kept : few[p] = p
    OBVIOUS
  <2>3. \A g \in DOMAIN few : few[g] \in {map[f] : f \in DOMAIN map}
    BY <2>1, <2>2
  <2>4. \A g, h \in DOMAIN few : few[g] = few[h] => g = h
    BY <2>2
  <2> HIDE DEF few
  <2>5. ValidTree(few, project.empty)
    BY <1>1, <2>3, <2>4, SmallerTree
  <2> QED  BY <2>5, <1>2 DEF few
<1> QED  BY <1>3, <1>4, <1>5, <1>6 DEF ScannableTree, L

LEMMA LandedReadable ==
    ASSUME NEW project, IsFolder(project), Readable(project), NEW map,
           ValidPlan(Paths(project), project.empty, map),
           Derivable(project.files, Graph(project.files), map),
           \A p \in Paths(project) : map[p] \in Seq(Component),
           \A r \in References(project.files) : ~Protected(map[r[1]])
    PROVE  Readable(Landed(project, map))
<1> DEFINE L == Landed(project, map)
           O == Paths(project)
           graph == Graph(project.files)
           there == Graph(L.files)
<1>1. /\ DOMAIN map = O /\ ValidTree(map, project.empty)
      /\ \A p \in O : ValidTarget(map[p], p, Protected(p))
      /\ \A p \in O : Protected(p) => map[p] = p
  BY PlanFacts
<1>2. Paths(L) = {map[p] : p \in O} /\ L.empty = project.empty
  BY <1>1, LandedShape
<1>3. \A p \in {map[f] : f \in DOMAIN map}, d \in Directories({map[f] : f \in DOMAIN map}, project.empty) :
         Key(p) # Key(d)
  BY <1>1, TreeFacts
<1>4. \A t \in Paths(L) : t \notin Directories(Paths(L), L.empty)
  BY <1>1, <1>2, <1>3
<1>5. ASSUME NEW s \in References(L.files)
      PROVE  there[s] \in Paths(L) /\ ~Protected(s[1])
  <2> DEFINE t == s[1]
             i == s[2]
  <2>1. s = <<t, i>> /\ there[s] = Resolved(t, L.files[t].links[i].dest)
    BY ReferenceMembers
  <2>2. t \in Paths(L) /\ IsMarkdown(t) /\ i \in DOMAIN L.files[t].links
    <3>1. <<t, i>> \in References(L.files)
      BY <2>1
    <3> QED  BY <3>1, ReferenceMembers DEF Paths
  <2>3. PICK p \in O : t = map[p]
    BY <1>2, <2>2
  <2>4. /\ Note(p) => L.files[t] = Spelled(project.files[p], p, graph, map)
        /\ ~Note(p) => L.files[t] = project.files[p]
    BY <2>3, LandedAt
  <2>5. Note(p)
    <3>1. Protected(p) => t = p
      BY <1>1, <2>3
    <3>2. ~Protected(p) => IsMarkdown(p)
      BY <1>1, <2>2, <2>3 DEF ValidTarget, IsMarkdown
    <3>3. ASSUME Protected(p) PROVE FALSE
      <4>1. ~Note(p) /\ IsMarkdown(p)
        BY <3>1, <3>3, <2>2 DEF Note
      <4>2. i \in DOMAIN project.files[p].links
        BY <4>1, <2>2, <2>4
      <4>3. <<p, i>> \in References(project.files)
        BY <4>1, <4>2, ReferenceMembers DEF Paths
      <4> QED  BY <4>3, <4>1, NotesHaveLinks
    <3> QED  BY <3>2, <3>3 DEF Note
  <2>6. i \in DOMAIN project.files[p].links
    BY <2>2, <2>4, <2>5 DEF Spelled
  <2>7. <<p, i>> \in References(project.files) /\ graph[<<p, i>>] \in O
    BY <2>5, <2>6, NotesHaveLinks
  <2> DEFINE r == <<p, i>>
  <2>8. r[1] = p /\ r[2] = i /\ r \in References(project.files)
    BY <2>7
  <2>9. Resolved(t, L.files[t].links[i].dest) = map[graph[r]]
    <3> HIDE DEF r
    <3>1. Resolved(map[r[1]], L.files[map[r[1]]].links[r[2]].dest) = map[graph[r]]
      BY <2>8, LandedLinks
    <3> QED  BY <3>1, <2>3, <2>8
  <2>10. map[graph[r]] \in Paths(L)
    BY <2>7, <1>2
  <2>11. ~Protected(t)
    BY <2>8, <2>3
  <2> QED  BY <2>1, <2>9, <2>10, <2>11
<1>6. DOMAIN there = References(L.files)
  BY ReferenceMembers
<1>7. ReadableLinks(L)
  <2> HIDE DEF L
  <2>1. \A s \in DOMAIN there : there[s] \in Paths(L) /\ ~Protected(s[1])
    BY <1>5, <1>6
  <2> QED  BY <2>1, <1>4 DEF ReadableLinks
<1>8. ScannableTree(L)
  BY LandedScannable
<1> QED  BY <1>7, <1>8 DEF Readable

-----------------------------------------------------------------------------
(* A receiver that is the same project arrives at the same tree.             *)

\* What a pairing of the same project pairs.
Paired(o, q, f) ==
    \A p \in Paths(o) :
      /\ f[p] \in Paths(q)
      /\ (Note(f[p]) <=> Note(p)) /\ (Protected(f[p]) <=> Protected(p))
      /\ Suffix[Last(f[p])] = Suffix[Last(p)]
      /\ Protected(p) => f[p] = p
      /\ ~Note(p) => q.files[f[p]] = o.files[p]
      /\ Note(p) =>
           /\ q.files[f[p]].text = o.files[p].text
           /\ DOMAIN q.files[f[p]].links = DOMAIN o.files[p].links
           /\ \A i \in DOMAIN o.files[p].links :
                /\ q.files[f[p]].links[i].shape = o.files[p].links[i].shape
                /\ Graph(o.files)[<<p, i>>] \in Paths(o)
                /\ Graph(q.files)[<<f[p], i>>] = f[Graph(o.files)[<<p, i>>]]

LEMMA SameProjectPairs ==
    ASSUME NEW o, NEW q, IsFolder(o), Readable(o), IsFolder(q), Readable(q), NEW d,
           d = Compared(Descriptors("origin", o.files), q.files),
           NEW f \in Bijection(Paths(o), Paths(q)), SameProject(d, f)
    PROVE  Paired(o, q, f)
<1>1. /\ Comparable(d, Paths(o), Paths(q))
      /\ \A p \in Paths(o) : Describes(d[<<"origin", p>>], "origin", o, p)
      /\ \A p \in Paths(q) : Describes(d[<<"receiver", p>>], "receiver", q, p)
  BY FoldersCompare
<1>2. SUFFICES ASSUME NEW p \in Paths(o)
               PROVE  /\ f[p] \in Paths(q)
                      /\ (Note(f[p]) <=> Note(p)) /\ (Protected(f[p]) <=> Protected(p))
                      /\ Suffix[Last(f[p])] = Suffix[Last(p)]
                      /\ Protected(p) => f[p] = p
                      /\ ~Note(p) => q.files[f[p]] = o.files[p]
                      /\ Note(p) =>
                           /\ q.files[f[p]].text = o.files[p].text
                           /\ DOMAIN q.files[f[p]].links = DOMAIN o.files[p].links
                           /\ \A i \in DOMAIN o.files[p].links :
                                /\ q.files[f[p]].links[i].shape = o.files[p].links[i].shape
                                /\ Graph(o.files)[<<p, i>>] \in Paths(o)
                                /\ Graph(q.files)[<<f[p], i>>] = f[Graph(o.files)[<<p, i>>]]
  BY DEF Paired
<1> DEFINE m == <<"origin", p>>
           n == <<"receiver", f[p]>>
<1>3. f[p] \in Paths(q)
  BY Fun_BijectionProperties
<1>4. Describes(d[m], "origin", o, p) /\ Describes(d[n], "receiver", q, f[p])
  BY <1>1, <1>3
<1>5. m \in {"origin"} \X Paths(o) /\ Twin(f, m) = n
  BY DEF Twin
<1>6. /\ d[m].kind = d[n].kind /\ d[m].protected = d[n].protected
      /\ d[m].suffix = d[n].suffix /\ d[m].place = d[n].place
      /\ d[m].bytes = d[n].bytes /\ d[m].text = d[n].text
      /\ d[m].shape = d[n].shape
      /\ \A i \in DOMAIN d[m].shape : d[n].target[i] = Twin(f, d[m].target[i])
  BY <1>1, <1>5, TwinFields
<1> HIDE DEF m, n
<1>7. d[m].kind = (IF Note(p) THEN "markdown" ELSE "ordinary")
      /\ d[n].kind = (IF Note(f[p]) THEN "markdown" ELSE "ordinary")
      /\ d[m].protected = Protected(p) /\ d[n].protected = Protected(f[p])
      /\ d[m].suffix = Suffix[Last(p)] /\ d[n].suffix = Suffix[Last(f[p])]
  BY <1>4 DEF Describes
<1>8. (Note(f[p]) <=> Note(p)) /\ (Protected(f[p]) <=> Protected(p))
      /\ Suffix[Last(f[p])] = Suffix[Last(p)]
  <2>1. "markdown" # "ordinary"
    OBVIOUS
  <2> QED  BY <1>6, <1>7, <2>1
<1>9. Protected(p) => f[p] = p
  <2>1. d[m].place = (IF Protected(p) THEN p ELSE <<>>)
        /\ d[n].place = (IF Protected(f[p]) THEN f[p] ELSE <<>>)
    BY <1>4 DEF Describes
  <2> QED  BY <2>1, <1>6, <1>8
<1>10. ~Note(p) => q.files[f[p]] = o.files[p]
  <2>1. d[m].bytes = (IF Note(p) THEN {} ELSE {o.files[p]})
        /\ d[n].bytes = (IF Note(f[p]) THEN {} ELSE {q.files[f[p]]})
    BY <1>4 DEF Describes
  <2> QED  BY <2>1, <1>6, <1>8
<1>11. ASSUME Note(p)
       PROVE  /\ q.files[f[p]].text = o.files[p].text
              /\ DOMAIN q.files[f[p]].links = DOMAIN o.files[p].links
              /\ \A i \in DOMAIN o.files[p].links :
                   /\ q.files[f[p]].links[i].shape = o.files[p].links[i].shape
                   /\ Graph(o.files)[<<p, i>>] \in Paths(o)
                   /\ Graph(q.files)[<<f[p], i>>] = f[Graph(o.files)[<<p, i>>]]
  <2>1. d[m].text = {o.files[p].text} /\ d[n].text = {q.files[f[p]].text}
        /\ DOMAIN d[m].shape = DOMAIN o.files[p].links
        /\ DOMAIN d[n].shape = DOMAIN q.files[f[p]].links
    BY <1>4, <1>8, <1>11 DEF Describes
  <2>2. ASSUME NEW i \in DOMAIN o.files[p].links
        PROVE  /\ q.files[f[p]].links[i].shape = o.files[p].links[i].shape
               /\ Graph(o.files)[<<p, i>>] \in Paths(o)
               /\ Graph(q.files)[<<f[p], i>>] = f[Graph(o.files)[<<p, i>>]]
    <3>1. i \in DOMAIN d[m].shape /\ i \in DOMAIN d[n].shape
      BY <2>1, <1>6
    <3>2. /\ d[m].shape[i] = o.files[p].links[i].shape
          /\ d[m].target[i] = <<"origin", Graph(o.files)[<<p, i>>]>>
          /\ Graph(o.files)[<<p, i>>] \in Paths(o)
      BY <1>4, <3>1 DEF Describes
    <3>3. /\ d[n].shape[i] = q.files[f[p]].links[i].shape
          /\ d[n].target[i] = <<"receiver", Graph(q.files)[<<f[p], i>>]>>
      BY <1>4, <3>1 DEF Describes
    <3>4. d[n].target[i] = <<"receiver", f[Graph(o.files)[<<p, i>>]]>>
      <4>1. \A x : Twin(f, <<"origin", x>>) = <<"receiver", f[x]>>
        BY Zenon DEF Twin
      <4>2. d[n].target[i] = Twin(f, d[m].target[i])
        BY <1>6, <3>1
      <4> QED  BY <4>1, <4>2, <3>2
    <3>5. Graph(q.files)[<<f[p], i>>] = f[Graph(o.files)[<<p, i>>]]
      BY <3>3, <3>4
    <3>6. d[m].shape[i] = d[n].shape[i]
      BY <1>6
    <3> QED  BY <3>2, <3>3, <3>5, <3>6
  <2> QED  BY <1>6, <2>1, <2>2
<1> QED  BY <1>3, <1>8, <1>9, <1>10, <1>11

\* Where a plan puts the files of the one, placed puts those of the other.
Follows(o, q, f, plans, placed) ==
    /\ DOMAIN placed = Paths(q)
    /\ \A p \in Paths(o) : placed[f[p]] = plans[p]

LEMMA FollowersAreValid ==
    ASSUME NEW o, NEW q, q.empty = o.empty, NEW f \in Bijection(Paths(o), Paths(q)), Paired(o, q, f),
           NEW plans, ValidPlan(Paths(o), o.empty, plans),
           NEW placed, Follows(o, q, f, plans, placed)
    PROVE  ValidPlan(Paths(q), q.empty, placed)
<1>1. /\ DOMAIN plans = Paths(o) /\ ValidTree(plans, o.empty)
      /\ \A p \in Paths(o) : ValidTarget(plans[p], p, Protected(p))
      /\ \A p, r \in Paths(o) : plans[p] = plans[r] => p = r
  BY PlanFacts
<1>2. \A e \in o.empty : ValidTarget(e, e, TRUE)
  BY Zenon, PlanFacts
<1>3. DOMAIN placed = Paths(q) /\ \A p \in Paths(o) : placed[f[p]] = plans[p]
  BY DEF Follows
<1>4. \A t \in Paths(q) : \E p \in Paths(o) : f[p] = t
  BY Fun_BijectionProperties
<1>5. \A t \in Paths(q) : ValidTarget(placed[t], t, Protected(t))
  <2> TAKE t \in Paths(q)
  <2>1. PICK p \in Paths(o) : f[p] = t
    BY <1>4
  <2>2. (Protected(t) <=> Protected(p)) /\ Suffix[Last(t)] = Suffix[Last(p)] /\ (Protected(p) => t = p)
    BY <2>1 DEF Paired
  <2>3. placed[t] = plans[p]
    BY <1>3, <2>1
  <2>4. ValidTarget(plans[p], p, Protected(p))
    BY <1>1
  <2> QED  BY <2>2, <2>3, <2>4 DEF ValidTarget
<1>6. \A t \in DOMAIN placed : placed[t] \in {plans[p] : p \in DOMAIN plans}
  BY <1>1, <1>3, <1>4
<1>7. \A t, s \in DOMAIN placed : placed[t] = placed[s] => t = s
  BY <1>1, <1>3, <1>4
<1>8. ValidTree(placed, o.empty)
  BY <1>1, <1>6, <1>7, SmallerTree
<1>9. \A e \in q.empty : ValidTarget(e, e, TRUE)
  BY Zenon, <1>2
<1>10. DOMAIN placed = Paths(q) /\ ValidTree(placed, q.empty)
  BY <1>3, <1>8
<1> QED  BY Zenon, <1>5, <1>9, <1>10 DEF ValidPlan

LEMMA SpelledAlike ==
    ASSUME NEW o, NEW q, NEW f, Paired(o, q, f), NEW plans, NEW placed, Follows(o, q, f, plans, placed),
           NEW p \in Paths(o), Note(p)
    PROVE  Spelled(q.files[f[p]], f[p], Graph(q.files), placed)
             = Spelled(o.files[p], p, Graph(o.files), plans)
<1> DEFINE here == Graph(o.files)
           there == Graph(q.files)
           D == DOMAIN o.files[p].links
           A == [i \in D |-> [dest |-> RelativePath(plans[here[<<p, i>>]], plans[p]),
                              shape |-> o.files[p].links[i].shape]]
           B == [i \in DOMAIN q.files[f[p]].links |->
                   [dest |-> RelativePath(placed[there[<<f[p], i>>]], placed[f[p]]),
                    shape |-> q.files[f[p]].links[i].shape]]
<1>1. /\ q.files[f[p]].text = o.files[p].text
      /\ DOMAIN q.files[f[p]].links = D
      /\ \A i \in D : /\ q.files[f[p]].links[i].shape = o.files[p].links[i].shape
                      /\ here[<<p, i>>] \in Paths(o)
                      /\ there[<<f[p], i>>] = f[here[<<p, i>>]]
  BY DEF Paired
<1>2. \A x \in Paths(o) : placed[f[x]] = plans[x]
  BY DEF Follows
<1>3. ASSUME NEW i \in D
      PROVE  /\ placed[there[<<f[p], i>>]] = plans[here[<<p, i>>]] /\ placed[f[p]] = plans[p]
             /\ q.files[f[p]].links[i].shape = o.files[p].links[i].shape
  BY <1>1, <1>2
<1>4. A = B
  BY <1>1, <1>3
<1> QED  BY <1>1, <1>4 DEF Spelled

LEMMA FollowersLand ==
    ASSUME NEW o, NEW q, IsFolder(o), IsFolder(q), Readable(o), Readable(q), q.empty = o.empty,
           NEW f \in Bijection(Paths(o), Paths(q)), Paired(o, q, f),
           NEW plans, ValidPlan(Paths(o), o.empty, plans),
           NEW placed, Follows(o, q, f, plans, placed)
    PROVE  Landed(q, placed) = Landed(o, plans)
<1> DEFINE A == Landed(o, plans)
           B == Landed(q, placed)
           T == {plans[p] : p \in Paths(o)}
<1>1. DOMAIN plans = Paths(o) /\ DOMAIN placed = Paths(q)
      /\ \A p \in Paths(o) : placed[f[p]] = plans[p]
  BY PlanFacts DEF Follows
<1>2. ValidPlan(Paths(q), q.empty, placed)
  BY FollowersAreValid
<1>3. /\ A = [files |-> A.files, empty |-> o.empty]
      /\ A.files = [t \in T |-> A.files[t]]
  BY <1>1, LandedShape
<1>4. /\ B = [files |-> B.files, empty |-> q.empty]
      /\ B.files = [t \in {placed[p] : p \in Paths(q)} |-> B.files[t]]
  BY <1>1, LandedShape
<1>5. {placed[p] : p \in Paths(q)} = T
  <2>1. \A t \in Paths(q) : \E p \in Paths(o) : f[p] = t
    BY Fun_BijectionProperties
  <2>2. \A p \in Paths(o) : f[p] \in Paths(q)
    BY DEF Paired
  <2> QED  BY <1>1, <2>1, <2>2
<1>6. ASSUME NEW p \in Paths(o)
      PROVE  B.files[plans[p]] = A.files[plans[p]]
  <2>1. f[p] \in Paths(q) /\ placed[f[p]] = plans[p] /\ (Note(f[p]) <=> Note(p))
    BY <1>1 DEF Paired
  <2>2. CASE Note(p)
    <3>1. A.files[plans[p]] = Spelled(o.files[p], p, Graph(o.files), plans)
      BY <2>2, LandedAt
    <3>2. B.files[placed[f[p]]] = Spelled(q.files[f[p]], f[p], Graph(q.files), placed)
      BY <1>2, <2>1, <2>2, LandedAt
    <3>3. Spelled(q.files[f[p]], f[p], Graph(q.files), placed)
            = Spelled(o.files[p], p, Graph(o.files), plans)
      BY <2>2, SpelledAlike
    <3> QED  BY <2>1, <3>1, <3>2, <3>3
  <2>3. CASE ~Note(p)
    <3>1. A.files[plans[p]] = o.files[p]
      BY <2>3, LandedAt
    <3>2. B.files[placed[f[p]]] = q.files[f[p]]
      BY <1>2, <2>1, <2>3, LandedAt
    <3>3. q.files[f[p]] = o.files[p]
      BY <2>3 DEF Paired
    <3> QED  BY <2>1, <3>1, <3>2, <3>3
  <2> QED  BY <2>2, <2>3
<1> HIDE DEF A, B
<1>7. \A t \in T : B.files[t] = A.files[t]
  BY <1>6
<1> HIDE DEF T
<1>8. A.files = B.files
  BY <1>3, <1>4, <1>5, <1>7
<1>9. A = B
  BY <1>3, <1>4, <1>8
<1> QED  BY <1>9 DEF A, B

-----------------------------------------------------------------------------
(* Links: from any file to any other there is a destination that leads there. *)

\* Where a component leads to from a folder.
Enter(here, name) ==
    IF here = Outside \/ (name = ".." /\ here = <<>>) THEN Outside
    ELSE CASE name = "." -> here
           [] name = ".." -> Front(here)
           [] OTHER -> Append(here, name)
Walks(w, from, dest) ==
    w = [i \in 0 .. Len(dest) |-> IF i = 0 THEN Front(from) ELSE Enter(w[i - 1], dest[i])]

LEMMA ResolvedByWalk ==
    ASSUME NEW from, NEW dest
    PROVE  Resolved(from, dest) = (CHOOSE w : Walks(w, from, dest))[Len(dest)]
BY DEF Resolved, Walks, Enter

LEMMA LeastNumber ==
    ASSUME NEW S \in SUBSET Nat, S # {}
    PROVE  \E m \in S : \A k \in S : m <= k
<1> DEFINE T == {0 .. k : k \in S}
<1>1. T \subseteq FiniteSubsetsOf(Nat)
  <2> SUFFICES ASSUME NEW k \in S PROVE 0 .. k \in FiniteSubsetsOf(Nat)
    OBVIOUS
  <2>1. IsFiniteSet(0 .. k) /\ 0 .. k \in SUBSET Nat
    BY FS_Interval
  <2> QED
    BY <2>1 DEF FiniteSubsetsOf
<1>2. T # {}
  OBVIOUS
<1>3. \E x \in T : \A y \in T : ~(<<y, x>> \in StrictSubsetOrdering(Nat))
  <2> HIDE DEF T
  <2> QED
    BY <1>1, <1>2, FS_StrictSubsetOrderingWellFounded, WFMin
<1>4. PICK m \in S : \A k \in S : ~(<<0 .. k, 0 .. m>> \in StrictSubsetOrdering(Nat))
  BY <1>3
<1>5. ASSUME NEW k \in S, k < m PROVE FALSE
  <2>1. 0 .. k \subseteq 0 .. m /\ m \in 0 .. m /\ m \notin 0 .. k
    BY <1>5
  <2>2. 0 .. k \in SUBSET Nat /\ 0 .. m \in SUBSET Nat /\ 0 .. k # 0 .. m
    BY <2>1
  <2>3. <<0 .. k, 0 .. m>> \in StrictSubsetOrdering(Nat)
    BY <2>1, <2>2 DEF StrictSubsetOrdering
  <2> QED
    BY <1>4, <2>3
<1> QED
  BY <1>5

\* There is one walk.
LEMMA WalksAgree ==
    ASSUME NEW from, NEW dest, Len(dest) \in Nat,
           NEW v, Walks(v, from, dest), NEW w, Walks(w, from, dest)
    PROVE  v = w
<1> DEFINE N == 0 .. Len(dest)
           B(u) == [i \in N |-> IF i = 0 THEN Front(from) ELSE Enter(u[i - 1], dest[i])]
           S == {i \in N : v[i] # w[i]}
<1>1. v = B(v) /\ w = B(w)
  BY DEF Walks
<1>2. /\ DOMAIN v = N /\ DOMAIN w = N
      /\ v = [i \in N |-> v[i]] /\ w = [i \in N |-> w[i]]
  BY <1>1
<1>3. v[0] = w[0]
  <2>1. B(v)[0] = Front(from) /\ B(w)[0] = Front(from)
    OBVIOUS
  <2> QED  BY <1>1, <2>1
<1>4. ASSUME NEW i \in N, i # 0, v[i - 1] = w[i - 1]  PROVE  v[i] = w[i]
  <2>1. B(v)[i] = Enter(v[i - 1], dest[i]) /\ B(w)[i] = Enter(w[i - 1], dest[i])
    BY <1>4
  <2> QED  BY <1>1, <1>4, <2>1
<1>5. ASSUME S # {}  PROVE  FALSE
  <2>1. S \in SUBSET Nat
    OBVIOUS
  <2>2. PICK m \in S : \A k \in S : m <= k
    BY <1>5, <2>1, LeastNumber
  <2>3. m \in N /\ v[m] # w[m]
    OBVIOUS
  <2>4. m # 0
    BY <1>3, <2>3
  <2>5. m - 1 \in N /\ m - 1 < m /\ m \in Nat
    BY <2>3, <2>4
  <2>6. m - 1 \notin S
    <3>1. \A k \in S : k \in Nat /\ m <= k
      BY <2>1, <2>2
    <3> HIDE DEF S
    <3> QED  BY <2>5, <3>1
  <2>7. v[m - 1] = w[m - 1]
    BY <2>5, <2>6
  <2> QED  BY <1>4, <2>3, <2>4, <2>7
<1>6. \A i \in N : v[i] = w[i]
  BY <1>5
<1> HIDE DEF N
<1> QED  BY <1>2, <1>6

\* A walk ends where its destination leads to.
LEMMA WalkEnds ==
    ASSUME NEW from, NEW dest, Len(dest) \in Nat, NEW w, Walks(w, from, dest)
    PROVE  Resolved(from, dest) = w[Len(dest)]
<1> DEFINE v == CHOOSE u : Walks(u, from, dest)
<1>1. Walks(v, from, dest)
  OBVIOUS
<1>2. v = w
  BY <1>1, WalksAgree
<1> QED  BY <1>2, ResolvedByWalk

\* How far two paths agree, and the destination they make.
Shared(start, target) ==
    {k \in 0 .. Len(start) : k <= Len(target) /\ SubSeq(start, 1, k) = SubSeq(target, 1, k)}
UpAndDown(start, target, c) ==
    [i \in 1 .. (Len(start) - c) |-> ".."] \o SubSeq(target, c + 1, Len(target))

LEMMA RelativePathParts ==
    ASSUME NEW target \in Seq(Name), NEW from \in Seq(Name), from # <<>>
    PROVE  /\ Front(from) \in Seq(Name)
           /\ \E c \in Shared(Front(from), target) :
                RelativePath(target, from) = UpAndDown(Front(from), target, c)
<1> DEFINE start == Front(from)
           K == Shared(start, target)
           R == {Len(start) - k : k \in K}
           c == CHOOSE k \in K : \A j \in K : j <= k
<1>1. start \in Seq(Name)
  <2>1. Len(from) \in Nat /\ \A i \in 1 .. Len(from) - 1 : from[i] \in Name
    BY ElementOfSeq, LenProperties
  <2> QED  BY <2>1, SubSeqProperties DEF Front
<1>2. Len(start) \in Nat /\ Len(target) \in Nat
  BY <1>1, LenProperties
<1> HIDE DEF start
<1>3. 0 \in K
  <2>1. SubSeq(start, 1, 0) = <<>> /\ SubSeq(target, 1, 0) = <<>>
    BY SubSeqEmpty
  <2> QED  BY <1>2, <2>1 DEF Shared
<1>4. K \subseteq 0 .. Len(start)
  BY DEF Shared
<1>5. \E k \in K : \A j \in K : j <= k
  <2>1. R \in SUBSET Nat /\ R # {}
    BY <1>2, <1>3, <1>4
  <2>2. PICK m \in R : \A r \in R : m <= r
    BY <2>1, LeastNumber
  <2>3. PICK k \in K : m = Len(start) - k
    OBVIOUS
  <2>4. \A j \in K : Len(start) - k <= Len(start) - j
    BY <2>2, <2>3
  <2> QED  BY <1>2, <1>4, <2>4
<1>6. c \in K
  BY <1>5
<1>7. RelativePath(target, from) = UpAndDown(start, target, c)
  BY DEF RelativePath, UpAndDown, Shared, start
<1> QED  BY <1>1, <1>6, <1>7 DEF start

\* The folders it leads through: up to where the paths part, and down again.
Through(start, target, c) ==
    [i \in 0 .. (Len(start) - c + Len(target) - c) |->
       IF i <= Len(start) - c THEN SubSeq(start, 1, Len(start) - i)
       ELSE SubSeq(target, 1, c + i - (Len(start) - c))]

LEMMA PartsWalk ==
    ASSUME NEW target \in Seq(Name), NEW start \in Seq(Name), NEW c \in Shared(start, target)
    PROVE  /\ Len(UpAndDown(start, target, c)) = Len(start) - c + Len(target) - c
           /\ \A i \in 1 .. Len(start) - c : UpAndDown(start, target, c)[i] = ".."
           /\ \A i \in 1 .. Len(target) - c :
                UpAndDown(start, target, c)[Len(start) - c + i] = target[c + i]
<1> DEFINE up == [i \in 1 .. (Len(start) - c) |-> ".."]
           down == SubSeq(target, c + 1, Len(target))
<1>1. /\ Len(start) \in Nat /\ Len(target) \in Nat /\ c \in Nat
      /\ c <= Len(start) /\ c <= Len(target)
  BY LenProperties DEF Shared
<1>2. up \in Seq({".."}) /\ Len(up) = Len(start) - c
  <2>1. Len(start) - c \in Nat
    BY <1>1
  <2> QED  BY <2>1
<1>3. /\ down \in Seq(Name) /\ Len(down) = Len(target) - c
      /\ \A i \in 1 .. Len(target) - c : down[i] = target[c + i]
  <2>1. \A i \in c + 1 .. Len(target) : target[i] \in Name
    BY <1>1, ElementOfSeq
  <2>2. /\ down \in Seq(Name)
        /\ Len(down) = IF c + 1 <= Len(target) THEN Len(target) - (c + 1) + 1 ELSE 0
        /\ \A i \in 1 .. Len(target) - (c + 1) + 1 : down[i] = target[(c + 1) + i - 1]
    BY <1>1, <2>1, SubSeqProperties
  <2> QED  BY <1>1, <2>2
<1>4. UpAndDown(start, target, c) = up \o down
  BY DEF UpAndDown
<1>5. \A i \in 1 .. Len(start) - c : up[i] = ".."
  OBVIOUS
<1> HIDE DEF up, down
<1>6. /\ Len(up \o down) = Len(up) + Len(down)
      /\ \A i \in 1 .. Len(up) + Len(down) :
           (up \o down)[i] = IF i <= Len(up) THEN up[i] ELSE down[i - Len(up)]
  <2>1. up \in Seq(Name \cup {".."}) /\ down \in Seq(Name \cup {".."})
    BY <1>2, <1>3
  <2> QED  BY <2>1, ConcatProperties
<1>7. Len(up \o down) = Len(start) - c + Len(target) - c
  BY <1>1, <1>2, <1>3, <1>6
<1>8. ASSUME NEW i \in 1 .. Len(start) - c  PROVE  (up \o down)[i] = ".."
  BY <1>1, <1>2, <1>3, <1>5, <1>6
<1>9. ASSUME NEW i \in 1 .. Len(target) - c
      PROVE  (up \o down)[Len(start) - c + i] = target[c + i]
  <2> DEFINE j == Len(start) - c + i
  <2>1. j \in 1 .. Len(up) + Len(down) /\ ~(j <= Len(up)) /\ j - Len(up) = i
    BY <1>1, <1>2, <1>3
  <2> HIDE DEF j
  <2>2. (up \o down)[j] = down[i]
    BY <1>6, <2>1
  <2> QED  BY <1>3, <2>2 DEF j
<1> QED  BY <1>4, <1>7, <1>8, <1>9

\* The beginning of a path: one name longer, one shorter.
LEMMA Beginnings ==
    ASSUME NEW s \in Seq(Name), NEW n \in 1 .. Len(s)
    PROVE  /\ SubSeq(s, 1, n) # <<>> /\ SubSeq(s, 1, n) # Outside
           /\ SubSeq(s, 1, n - 1) # Outside
           /\ Front(SubSeq(s, 1, n)) = SubSeq(s, 1, n - 1)
           /\ Append(SubSeq(s, 1, n - 1), s[n]) = SubSeq(s, 1, n)
<1>1. n \in Nat /\ Len(s) \in Nat /\ \A i \in 1 .. n : s[i] \in Name
  BY ElementOfSeq, LenProperties
<1> DEFINE long == SubSeq(s, 1, n)
           short == SubSeq(s, 1, n - 1)
<1>2. long \in Seq(Name) /\ Len(long) = n /\ \A i \in 1 .. n : long[i] = s[i]
  BY <1>1, SubSeqProperties
<1>3. short \in Seq(Name) /\ Len(short) = n - 1 /\ \A i \in 1 .. n - 1 : short[i] = s[i]
  <2>1. \A i \in 1 .. n - 1 : s[i] \in Name
    BY <1>1
  <2>2. /\ short \in Seq(Name) /\ Len(short) = IF 1 <= n - 1 THEN n - 1 - 1 + 1 ELSE 0
        /\ \A i \in 1 .. n - 1 - 1 + 1 : short[i] = s[1 + i - 1]
    BY <1>1, <2>1, SubSeqProperties
  <2> QED  BY <1>1, <2>2
<1>4. \A t \in Seq(Name) : t # Outside
  BY NameAssumption, ElementOfSeq DEF Outside
<1>5. Front(long) = short
  <2>1. \A i \in 1 .. n - 1 : long[i] \in Name
    BY <1>1, <1>2
  <2>2. /\ Front(long) = SubSeq(long, 1, n - 1)
        /\ SubSeq(long, 1, n - 1) \in Seq(Name)
        /\ Len(SubSeq(long, 1, n - 1)) = IF 1 <= n - 1 THEN n - 1 - 1 + 1 ELSE 0
        /\ \A i \in 1 .. n - 1 - 1 + 1 : SubSeq(long, 1, n - 1)[i] = long[1 + i - 1]
    BY <1>1, <1>2, <2>1, SubSeqProperties DEF Front
  <2>3. Len(Front(long)) = n - 1 /\ \A i \in 1 .. n - 1 : Front(long)[i] = s[i]
    BY <1>1, <1>2, <2>2
  <2> QED  BY <1>1, <1>3, <2>2, <2>3, SeqEqual
<1>6. Append(short, s[n]) = long
  <2>1. s[n] \in Name
    BY <1>1
  <2>2. /\ Append(short, s[n]) \in Seq(Name) /\ Len(Append(short, s[n])) = Len(short) + 1
        /\ \A i \in 1 .. Len(short) : Append(short, s[n])[i] = short[i]
        /\ Append(short, s[n])[Len(short) + 1] = s[n]
    BY <1>3, <2>1, AppendProperties
  <2>3. \A i \in 1 .. n : Append(short, s[n])[i] = s[i]
    BY <1>1, <1>3, <2>2
  <2>4. Len(Append(short, s[n])) = Len(long)
    BY <1>1, <1>2, <1>3, <2>2
  <2> QED  BY <1>2, <2>2, <2>3, <2>4, SeqEqual
<1>7. long # <<>>
  BY <1>1, <1>2, EmptySeq
<1>8. long # Outside /\ short # Outside
  BY <1>2, <1>3, <1>4
<1> HIDE DEF long, short
<1>9. /\ SubSeq(s, 1, n) = long /\ SubSeq(s, 1, n - 1) = short
  BY DEF long, short
<1> QED  BY <1>5, <1>6, <1>7, <1>8, <1>9

\* Led that way, one comes from the first file to the second.
LEMMA PathsLead ==
    ASSUME NEW target \in Seq(Name), NEW from \in Seq(Name), from # <<>>,
           NEW c \in Shared(Front(from), target), Front(from) \in Seq(Name)
    PROVE  Resolved(from, UpAndDown(Front(from), target, c)) = target
<1> DEFINE start == Front(from)
           up == Len(start) - c
           dest == UpAndDown(start, target, c)
           w == Through(start, target, c)
           N == up + Len(target) - c
<1>1. /\ Len(start) \in Nat /\ Len(target) \in Nat /\ c \in Nat
      /\ c <= Len(start) /\ c <= Len(target)
      /\ SubSeq(start, 1, c) = SubSeq(target, 1, c)
  BY LenProperties DEF Shared
<1>2. /\ up \in Nat /\ N \in Nat /\ up <= N /\ N - up = Len(target) - c
      /\ Len(start) - up = c
  BY <1>1
<1>3. Len(dest) = N
  BY PartsWalk
<1>4. /\ \A i \in 1 .. up : dest[i] = ".."
      /\ \A i \in 1 .. Len(target) - c : dest[up + i] = target[c + i]
  BY PartsWalk
<1>5. w = [i \in 0 .. N |-> IF i <= up THEN SubSeq(start, 1, Len(start) - i)
                            ELSE SubSeq(target, 1, c + i - up)]
  BY DEF Through
<1>6. start \in Seq(Name)
  OBVIOUS
<1> HIDE DEF start, up, dest, w, N
<1>7. ASSUME NEW i \in 0 .. up  PROVE  w[i] = SubSeq(start, 1, Len(start) - i)
  <2>1. i \in 0 .. N /\ i <= up
    BY <1>2
  <2> QED  BY <1>5, <2>1
<1>8. \A i \in up .. N : w[i] = SubSeq(target, 1, c + i - up)
  <2>1. w[up] = SubSeq(target, 1, c + up - up)
    BY <1>1, <1>2, <1>7
  <2>2. ASSUME NEW i \in up .. N, i # up  PROVE  w[i] = SubSeq(target, 1, c + i - up)
    BY <1>2, <1>5, <2>2
  <2> QED  BY <2>1, <2>2
<1>9. w[0] = start
  <2>1. w[0] = SubSeq(start, 1, Len(start))
    BY <1>1, <1>2, <1>7
  <2> QED  BY <1>6, <2>1, SubSeqFull
<1>10. w[N] = target
  <2>1. w[N] = SubSeq(target, 1, Len(target))
    BY <1>1, <1>2, <1>8
  <2> QED  BY <2>1, SubSeqFull
<1>11. ASSUME NEW i \in 1 .. up  PROVE  w[i] = Enter(w[i - 1], dest[i])
  <2> DEFINE n == Len(start) - i + 1
  <2>1. n \in 1 .. Len(start) /\ n - 1 = Len(start) - i /\ n = Len(start) - (i - 1)
    BY <1>1, <1>2
  <2>2. w[i] = SubSeq(start, 1, n - 1) /\ w[i - 1] = SubSeq(start, 1, n)
    <3>1. i \in 0 .. up /\ i - 1 \in 0 .. up
      BY <1>2
    <3>2. w[i] = SubSeq(start, 1, Len(start) - i)
      BY <1>7, <3>1
    <3>3. w[i - 1] = SubSeq(start, 1, Len(start) - (i - 1))
      BY <1>7, <3>1
    <3> QED  BY <2>1, <3>2, <3>3
  <2> HIDE DEF n
  <2>3. /\ w[i - 1] # <<>> /\ w[i - 1] # Outside /\ Front(w[i - 1]) = w[i]
    <3>1. /\ SubSeq(start, 1, n) # <<>> /\ SubSeq(start, 1, n) # Outside
          /\ Front(SubSeq(start, 1, n)) = SubSeq(start, 1, n - 1)
      BY <1>6, <2>1, Beginnings
    <3> QED  BY <2>2, <3>1
  <2> QED  BY <1>4, <2>3 DEF Enter
<1>12. ASSUME NEW i \in up + 1 .. N  PROVE  w[i] = Enter(w[i - 1], dest[i])
  <2> DEFINE n == c + i - up
  <2>1. /\ n \in 1 .. Len(target) /\ n - 1 = c + (i - 1) - up
        /\ i - up \in 1 .. Len(target) - c /\ up + (i - up) = i /\ c + (i - up) = n
    BY <1>1, <1>2
  <2>2. w[i] = SubSeq(target, 1, n) /\ w[i - 1] = SubSeq(target, 1, n - 1)
    <3>1. i \in up .. N /\ i - 1 \in up .. N
      BY <1>2
    <3> QED  BY <1>8, <2>1, <3>1
  <2>3. dest[i] = target[n]
    BY <1>4, <2>1
  <2>4. target[n] \in Name
    BY <2>1, ElementOfSeq
  <2>5. target[n] # "." /\ target[n] # ".."
    BY <2>4, NameAssumption
  <2> HIDE DEF n
  <2>6. w[i - 1] # Outside /\ Append(w[i - 1], target[n]) = w[i]
    <3>1. /\ SubSeq(target, 1, n - 1) # Outside
          /\ Append(SubSeq(target, 1, n - 1), target[n]) = SubSeq(target, 1, n)
      BY <2>1, Beginnings
    <3> QED  BY <2>2, <3>1
  <2> QED  BY <2>3, <2>5, <2>6 DEF Enter
<1>13. \A i \in 1 .. N : w[i] = Enter(w[i - 1], dest[i])
  BY <1>2, <1>11, <1>12
<1>14. Walks(w, from, dest)
  <2>1. w = [i \in 0 .. N |-> w[i]]
    BY <1>5
  <2>2. \A i \in 0 .. N : w[i] = IF i = 0 THEN Front(from) ELSE Enter(w[i - 1], dest[i])
    BY <1>2, <1>9, <1>13 DEF start
  <2> DEFINE F == [i \in 0 .. N |-> IF i = 0 THEN Front(from) ELSE Enter(w[i - 1], dest[i])]
  <2>3. w = F
    BY <2>1, <2>2
  <2> QED  BY <1>3, <2>3 DEF Walks
<1>15. Resolved(from, dest) = w[Len(dest)]
  BY <1>2, <1>3, <1>14, WalkEnds
<1> QED  BY <1>3, <1>10, <1>15 DEF dest, start

\* RelativePath is right: from a file, its destination leads to the target.
THEOREM RelativePathsLead ==
    ASSUME NEW target \in Seq(Name), NEW from \in Seq(Name), from # <<>>
    PROVE  Resolved(from, RelativePath(target, from)) = target
BY RelativePathParts, PathsLead

\* derive_reference_rewrites refuses no plan that the map's own checks admit.
THEOREM PlansAreDerivable ==
    ASSUME NEW project, IsFolder(project), Readable(project),
           NEW map, ValidPlan(Paths(project), project.empty, map),
           \A p \in Paths(project) : map[p] \in Seq(Component)
    PROVE  Derivable(project.files, Graph(project.files), map)
<1> DEFINE graph == Graph(project.files)
<1>1. /\ DOMAIN map = Paths(project)
      /\ \A p \in Paths(project) : map[p] # <<>> /\ \A i \in DOMAIN map[p] : map[p][i] \in Name
  BY DEF ValidPlan, ValidTarget
<1>2. ASSUME NEW p \in Paths(project)  PROVE  map[p] \in Seq(Name) /\ map[p] # <<>>
  <2>1. \A i \in 1 .. Len(map[p]) : map[p][i] \in Name
    BY <1>1, LenProperties
  <2>2. Len(map[p]) \in Nat /\ map[p] = [i \in 1 .. Len(map[p]) |-> map[p][i]]
    BY LenProperties
  <2> QED  BY <1>1, <2>1, <2>2, IsASeq
<1>3. ASSUME NEW r \in DOMAIN graph
      PROVE  /\ {r[1], graph[r]} \subseteq DOMAIN map
             /\ Resolved(map[r[1]], Proposed(graph, map)[r]) = map[graph[r]]
             /\ ~Protected(r[1])
  <2>1. graph[r] \in Paths(project) /\ ~Protected(r[1])
    BY DEF Readable, ReadableLinks
  <2>2. r[1] \in Paths(project)
    BY ReferenceMembers DEF Paths
  <2>3. Proposed(graph, map)[r] = RelativePath(map[graph[r]], map[r[1]])
    BY DEF Proposed
  <2> QED  BY <1>1, <1>2, <2>1, <2>2, <2>3, RelativePathsLead
<1> QED  BY <1>3 DEF Derivable

-----------------------------------------------------------------------------
(* Results: what is accepted can be copied, verified and restored.           *)

\* The package is a faithful result of a folder under a plan.
Sound(package, project, map) ==
    /\ IsFolder(project) /\ Readable(project)
    /\ ValidPlan(Paths(project), project.empty, map)
    /\ Derivable(project.files, Graph(project.files), map)
    /\ \A p \in Paths(project) : map[p] \in Seq(Component)
    /\ package.snapshot = project /\ package.plan = map
    /\ package.data = Landed(project, map)
    /\ Recovered(package) = project.files
    /\ Verified(package)

LEMMA TargetsAreSequences ==
    ASSUME NEW project, IsFolder(project), NEW map, ValidPlan(Paths(project), project.empty, map),
           \A p \in Paths(project) : Protected(p) \/ map[p] \in Seq(Component)
    PROVE  \A p \in Paths(project) : map[p] \in Seq(Component)
<1> TAKE p \in Paths(project)
<1>1. CASE Protected(p)
  <2>1. map[p] = p /\ p \in Seq(Name)
    BY <1>1, PlanFacts DEF IsFolder
  <2>2. Name \subseteq Component
    BY DEF Component
  <2> QED  BY <2>1, <2>2
<1> QED  BY <1>1

LEMMA ProducedSound ==
    ASSUME Planned
    PROVE  /\ Sound(Package(source, plan, OwnCore, <<>>), source, plan)
           /\ Package(source, plan, None, <<>>).data = Landed(source, plan)
<1>1. /\ IsFolder(source) /\ Readable(source)
      /\ ValidPlan(Paths(source), source.empty, plan)
      /\ Derivable(source.files, Graph(source.files), plan)
      /\ \A p \in Paths(source) : Protected(p) \/ plan[p] \in Seq(Component)
  BY ProducedFolders DEF Planned
<1>2. \A p \in Paths(source) : plan[p] \in Seq(Component)
  BY <1>1, TargetsAreSequences
<1>3. Package(source, plan, None, <<>>).data = Landed(source, plan)
  BY PackageFields
<1>4. OwnCore = Core(source.files, source.empty, plan, Landed(source, plan))
  BY <1>3 DEF OwnCore
<1> DEFINE package == Package(source, plan, OwnCore, <<>>)
<1>5. package.snapshot = source /\ package.plan = plan /\ package.data = Landed(source, plan)
  BY PackageFields
<1>6. Recovered(package) = source.files
  BY <1>1, PackageRecovers
<1>7. Verified(package)
  BY <1>1, <1>4, PackageVerifies
<1> HIDE DEF package
<1>8. Sound(package, source, plan)
  BY <1>1, <1>2, <1>5, <1>6, <1>7 DEF Sound
<1> QED  BY <1>3, <1>8 DEF package

LEMMA MatchedFolders ==
    ASSUME Matched
    PROVE  /\ IsFolder(source) /\ Readable(source) /\ IsFolder(receiver) /\ Readable(receiver)
           /\ receiver.empty = source.empty
           /\ mapping \in Bijection(Paths(source), Paths(receiver)) /\ mapping # <<>>
           /\ Paired(source, receiver, mapping)
           /\ Planned /\ DOMAIN plan = Paths(source)
           /\ result.core.place = plan /\ result.core.tree = Landed(source, plan)
<1>1. Received /\ Produced /\ Planned /\ receiver.empty = source.empty
  BY DEF Matched, Received, Produced, SameFolders
<1>2. /\ IsFolder(source) /\ Readable(source) /\ IsFolder(receiver) /\ Readable(receiver)
      /\ described = Compared(Descriptors("origin", source.files), receiver.files)
  BY <1>1, ReceivedCompares, ProducedFolders, ProducedCore DEF Received, Planned
<1>3. /\ mapping \in Bijection(Paths(source), Paths(receiver))
      /\ SameProject(described, mapping) /\ mapping # <<>>
  BY MatchedMapping
<1>4. Paired(source, receiver, mapping)
  BY <1>2, <1>3, SameProjectPairs
<1>5. /\ result.core.place = plan /\ DOMAIN plan = Paths(source)
      /\ result.core.tree = Landed(source, plan)
  BY <1>1, ProducedCore, ProducedSound
<1> QED  BY <1>1, <1>2, <1>3, <1>4, <1>5

LEMMA PlacedFollows ==
    ASSUME Matched
    PROVE  /\ Follows(source, receiver, mapping, plan, Placed)
           /\ Placed = [p \in Paths(receiver) |->
                          result.core.place[CHOOSE o \in DOMAIN result.core.place : mapping[o] = p]]
           /\ \A p \in Paths(receiver) : \E o \in Paths(source) : Placed[p] = plan[o]
<1> DEFINE first(t) == CHOOSE o \in Paths(source) : mapping[o] = t
<1>1. /\ mapping \in Bijection(Paths(source), Paths(receiver))
      /\ Paired(source, receiver, mapping)
      /\ DOMAIN plan = Paths(source) /\ result.core.place = plan
      /\ \A p \in Paths(source) : Protected(p) => plan[p] = p
  BY MatchedFolders, PlanFacts DEF Planned
<1>2. /\ DOMAIN mapping = Paths(source)
      /\ \A p \in Paths(source) : mapping[p] \in Paths(receiver)
      /\ \A p, r \in Paths(source) : mapping[p] = mapping[r] => p = r
      /\ \A t \in Paths(receiver) : \E p \in Paths(source) : mapping[p] = t
  BY <1>1, Fun_BijectionProperties
<1>3. \A p \in Paths(source) : first(mapping[p]) = p
  BY <1>2
<1>4. Placed = [p \in Paths(receiver) |-> IF Protected(p) THEN p ELSE plan[first(p)]]
  BY <1>1, <1>2 DEF Placed
<1> HIDE DEF first
<1>5. ASSUME NEW p \in Paths(source)
      PROVE  Placed[mapping[p]] = plan[p] /\ plan[first(mapping[p])] = plan[p]
  <2>1. (Protected(mapping[p]) <=> Protected(p)) /\ (Protected(p) => mapping[p] = p)
    BY <1>1 DEF Paired
  <2> QED  BY <2>1, <1>1, <1>2, <1>3, <1>4
<1>6. DOMAIN Placed = Paths(receiver)
  BY <1>4
<1>7. Follows(source, receiver, mapping, plan, Placed)
  BY <1>5, <1>6 DEF Follows
<1>8. \A t \in Paths(receiver) : Placed[t] = plan[first(t)]
  BY <1>2, <1>5
<1>9. Placed = [p \in Paths(receiver) |-> plan[first(p)]]
  BY <1>4, <1>8
<1>10. \A t \in Paths(receiver) : \E o \in Paths(source) : Placed[t] = plan[o]
  BY <1>2, <1>5
<1> QED  BY <1>1, <1>7, <1>9, <1>10 DEF first

LEMMA CopySound ==
    ASSUME Matched
    PROVE  /\ Sound(Package(receiver, Placed, result.core, mapping), receiver, Placed)
           /\ Package(receiver, Placed, result.core, mapping).data = result.core.tree
<1> DEFINE package == Package(receiver, Placed, result.core, mapping)
<1>1. /\ IsFolder(source) /\ Readable(source) /\ IsFolder(receiver) /\ Readable(receiver)
      /\ receiver.empty = source.empty
      /\ mapping \in Bijection(Paths(source), Paths(receiver)) /\ mapping # <<>>
      /\ Paired(source, receiver, mapping)
      /\ DOMAIN plan = Paths(source) /\ result.core.tree = Landed(source, plan)
      /\ ValidPlan(Paths(source), source.empty, plan)
      /\ Derivable(source.files, Graph(source.files), plan)
      /\ \A p \in Paths(source) : Protected(p) \/ plan[p] \in Seq(Component)
  BY MatchedFolders DEF Planned
<1>2. /\ Follows(source, receiver, mapping, plan, Placed)
      /\ Placed = [p \in Paths(receiver) |->
                     result.core.place[CHOOSE o \in DOMAIN result.core.place : mapping[o] = p]]
      /\ \A p \in Paths(receiver) : \E o \in Paths(source) : Placed[p] = plan[o]
  BY PlacedFollows
<1>3. ValidPlan(Paths(receiver), receiver.empty, Placed)
  BY <1>1, <1>2, FollowersAreValid
<1>4. Landed(receiver, Placed) = result.core.tree
  BY <1>1, <1>2, FollowersLand
<1>5. \A p \in Paths(receiver) : Placed[p] \in Seq(Component)
  <2>1. \A p \in Paths(source) : plan[p] \in Seq(Component)
    BY <1>1, TargetsAreSequences
  <2> QED  BY <2>1, <1>2
<1>6. Derivable(receiver.files, Graph(receiver.files), Placed)
  BY <1>1, <1>3, <1>5, PlansAreDerivable
<1>7. package.snapshot = receiver /\ package.plan = Placed /\ package.data = Landed(receiver, Placed)
  BY PackageFields
<1>8. Recovered(package) = receiver.files
  BY <1>1, <1>3, PackageRecovers
<1>9. Verified(package)
  BY <1>1, <1>2, <1>3, <1>4, PackageVerifies
<1> HIDE DEF package
<1>10. Sound(package, receiver, Placed)
  BY <1>1, <1>3, <1>6, <1>5, <1>7, <1>8, <1>9 DEF Sound
<1> QED  BY <1>4, <1>7, <1>10 DEF package

-----------------------------------------------------------------------------
(* Nothing that was accepted fails later.                                    *)

Copied == Package(receiver, Placed, result.core, mapping)

\* Whatever there is has been produced or applied, and only names that a disk
\* takes for one another keep it from being restored.
Kept ==
    /\ step # "failed"
    /\ step = "not_restored" =>
         \E package \in Packages :
           ~Writable("folding", Original(package.snapshot), package.snapshot.empty)
    /\ copy = None \/ (Matched /\ copy = Copied)

LEMMA ResultsProduced ==
    ASSUME Inv
    PROVE  result = None \/ Produced
BY DEF Inv, Phase, Received, Matched

LEMMA PackagesSound ==
    ASSUME Inv, Kept, NEW package \in Packages
    PROVE  \E project, map : Sound(package, project, map)
<1>1. CASE package = result
  <2>1. Produced
    BY <1>1, ResultsProduced DEF Packages
  <2>2. Sound(Package(source, plan, OwnCore, <<>>), source, plan)
    BY <2>1, ProducedSound DEF Produced
  <2> QED  BY <1>1, <2>1, <2>2 DEF Produced
<1>2. CASE package = copy
  <2>1. Matched /\ copy = Copied
    BY <1>2 DEF Packages, Kept
  <2>2. Sound(Copied, receiver, Placed)
    BY <2>1, CopySound DEF Copied
  <2> QED  BY <1>2, <2>1, <2>2
<1> QED  BY <1>1, <1>2 DEF Packages

LEMMA ProduceKept ==
    ASSUME Inv, Kept, NEW disk \in Disks, Produce(disk)
    PROVE  Kept'
<1> DEFINE package == Package(source, plan, OwnCore, <<>>)
<1>1. step = "reviewing" /\ copy' = copy
  BY DEF Produce, matching
<1>2. Planned /\ copy = None
  BY <1>1 DEF Inv, Phase, Idle
<1>3. Sound(package, source, plan)
  BY <1>2, ProducedSound
<1>4. Verified(package) /\ ValidPlan(Paths(source), source.empty, plan)
      /\ Derivable(source.files, Graph(source.files), plan) /\ IsFolder(source)
  BY <1>3 DEF Sound
<1>5. Executable(source, plan, disk)
  BY <1>4, PlansAreWritable DEF Executable
<1>6. step' = "produced"
  BY <1>4, <1>5 DEF Produce, OwnCore
<1> QED  BY <1>1, <1>2, <1>6 DEF Kept

LEMMA ReviewKept ==
    ASSUME Inv, Kept, Review
    PROVE  Kept'
<1>1. step = "matched" /\ copy' = copy
  BY DEF Review, matching
<1>2. Matched /\ copy = None
  BY <1>1 DEF Inv, Phase
<1>3. Sound(Package(receiver, Placed, result.core, mapping), receiver, Placed)
  BY <1>2, CopySound
<1>4. step' = "receiver_review"
  BY <1>3 DEF Sound, Review
<1> QED  BY <1>1, <1>2, <1>4 DEF Kept

LEMMA ApplyKept ==
    ASSUME Inv, Kept, NEW disk \in Disks, Apply(disk)
    PROVE  Kept'
<1>1. /\ step = "receiver_review"
      /\ UNCHANGED <<source, plan, result, receiver, described, color, round, mapping>>
  BY DEF Apply
<1>2. Matched
  BY <1>1 DEF Inv, Phase
<1>3. /\ Sound(Copied, receiver, Placed) /\ Copied.data = result.core.tree
  BY <1>2, CopySound DEF Copied
<1>4. /\ Verified(Copied) /\ ValidPlan(Paths(receiver), receiver.empty, Placed)
      /\ Derivable(receiver.files, Graph(receiver.files), Placed) /\ IsFolder(receiver)
  BY <1>3 DEF Sound
<1>5. Executable(receiver, Placed, disk)
  BY <1>4, PlansAreWritable DEF Executable
<1>6. step' = "applied" /\ copy' = Copied
  BY <1>3, <1>4, <1>5 DEF Apply, Copied
<1>7. Copied' = Copied
  BY <1>1 DEF Copied, Placed
<1>8. Matched'
  BY <1>1, <1>2, MatchedKept
<1> QED  BY <1>6, <1>7, <1>8 DEF Kept

LEMMA RestoreKept ==
    ASSUME Inv, Kept, NEW disk \in Disks, NEW package \in Packages, Restore(disk, package)
    PROVE  Kept'
<1>1. /\ step \in {"produced", "applied"}
      /\ UNCHANGED <<source, plan, result, receiver, described, color, round, mapping, copy>>
  BY DEF Restore, matching
<1>2. PICK project, map : Sound(package, project, map)
  BY PackagesSound
<1>3. /\ Verified(package) /\ package.snapshot = project /\ IsFolder(project)
      /\ Recovered(package) = package.snapshot.files /\ ScannableTree(package.snapshot)
  BY <1>2 DEF Sound, Readable
<1>4. Writable("exact", Original(project), project.empty)
  BY <1>3, OriginalsAreWritable
<1>5. \/ step' = step
      \/ /\ disk = "folding" /\ step' = "not_restored"
         /\ ~Writable("folding", Original(package.snapshot), package.snapshot.empty)
  BY <1>3, <1>4 DEF Restore, Disks
<1>6. Packages' = Packages
  BY <1>1 DEF Packages
<1>7. \A p : (~Writable("folding", Original(p.snapshot), p.snapshot.empty))'
               <=> ~Writable("folding", Original(p.snapshot), p.snapshot.empty)
  OBVIOUS
<1>8. (copy = None \/ (Matched /\ copy = Copied))'
  <2>1. CASE copy = None
    BY <1>1, <2>1
  <2>2. CASE Matched /\ copy = Copied
    <3>1. Matched'
      BY <1>1, <2>2, MatchedKept
    <3>2. Copied' = Copied
      BY <1>1 DEF Copied, Placed
    <3> QED  BY <1>1, <2>2, <3>1, <3>2
  <2> QED  BY <2>1, <2>2 DEF Kept
<1> QED  BY <1>1, <1>5, <1>6, <1>8 DEF Kept

\* The other steps neither fail nor touch a copy, and there is none before them.
LEMMA OthersKept ==
    ASSUME Inv, Kept,
           \/ \E p \in Origins : Select(p)
           \/ \E e \in Entries(source) : Submit(e)
           \/ \E e \in Entries(source), renames \in BOOLEAN : Revise(e, renames)
           \/ \E q \in Receivers(source) : Receive(q)
           \/ Preflight \/ Refine \/ Conclude
    PROVE  Kept'
<1>1. /\ step \in {"start", "planning", "reviewing", "produced", "described", "refining", "settled"}
      /\ copy' = copy
  BY DEF Select, Submit, Revise, Receive, Preflight, Refine, Conclude, matching
<1>2. copy = None
  BY <1>1 DEF Inv, Phase, Idle
<1>3. step' \notin {"failed", "not_restored"}
  BY <1>1 DEF Select, Submit, Revise, Receive, Preflight, Refine, Conclude, Block
<1> QED  BY <1>1, <1>2, <1>3 DEF Kept

LEMMA StutterKept ==
    ASSUME Inv, Kept, UNCHANGED vars
    PROVE  Kept'
<1>1. UNCHANGED <<step, source, plan, result, receiver, described, color, round, mapping, copy>>
  BY DEF vars
<1>2. Packages' = Packages /\ Copied' = Copied
  BY <1>1 DEF Packages, Copied, Placed
<1>3. Matched => Matched'
  BY <1>1, MatchedKept
<1> QED  BY <1>1, <1>2, <1>3 DEF Kept

LEMMA NextKept == Inv /\ Kept /\ [Next]_vars => Kept'
<1> SUFFICES ASSUME Inv, Kept, [Next]_vars  PROVE  Kept'
  OBVIOUS
<1>1. ASSUME NEW disk \in Disks, Produce(disk) \/ Apply(disk)  PROVE  Kept'
  BY <1>1, ProduceKept, ApplyKept
<1>2. ASSUME NEW disk \in Disks, NEW package \in Packages, Restore(disk, package)  PROVE  Kept'
  BY <1>2, RestoreKept
<1>3. CASE Review
  BY <1>3, ReviewKept
<1>4. CASE \/ \E p \in Origins : Select(p)
           \/ \E e \in Entries(source) : Submit(e)
           \/ \E e \in Entries(source), renames \in BOOLEAN : Revise(e, renames)
           \/ \E q \in Receivers(source) : Receive(q)
           \/ Preflight \/ Refine \/ Conclude
  BY <1>4, OthersKept
<1>5. CASE UNCHANGED vars
  BY <1>5, StutterKept
<1> QED  BY <1>1, <1>2, <1>3, <1>4, <1>5 DEF Next

LEMMA KeptAccepts ==
    ASSUME Inv, Kept
    PROVE  AcceptanceIsKept
<1>1. ASSUME NEW package \in Packages
      PROVE  LET graph == Graph(package.snapshot.files)
                 Target(p) == package.plan[p]
             IN /\ \A r \in DOMAIN graph :
                     Resolved(Target(r[1]),
                              package.data.files[Target(r[1])].links[r[2]].dest)
                       = Target(graph[r])
                /\ (\A r \in DOMAIN graph : ~Protected(Target(r[1])))
                     => Readable(package.data)
  <2>1. PICK project, map : Sound(package, project, map)
    BY PackagesSound
  <2>2. /\ IsFolder(project) /\ Readable(project)
        /\ ValidPlan(Paths(project), project.empty, map)
        /\ Derivable(project.files, Graph(project.files), map)
        /\ \A p \in Paths(project) : map[p] \in Seq(Component)
        /\ package.snapshot = project /\ package.plan = map
        /\ package.data = Landed(project, map)
    BY <2>1 DEF Sound
  <2>3. DOMAIN Graph(project.files) = References(project.files)
    BY ReferenceMembers
  <2>4. ASSUME NEW r \in DOMAIN Graph(project.files)
        PROVE  Resolved(map[r[1]], Landed(project, map).files[map[r[1]]].links[r[2]].dest)
                 = map[Graph(project.files)[r]]
    BY <2>2, <2>3, LandedLinks
  <2>5. (\A r \in DOMAIN Graph(project.files) : ~Protected(map[r[1]])) => Readable(Landed(project, map))
    BY <2>2, <2>3, LandedReadable
  <2> QED  BY <2>2, <2>4, <2>5
<1> QED  BY <1>1 DEF AcceptanceIsKept, Kept

(***************************************************************************)
(* What was accepted is never refused later.  Every accepted map can be    *)
(* written to a disk that tells case apart and to one that does not, and   *)
(* the result passes its own verification; a matched receiver arrives at   *)
(* the tree the Change File commits to, by links that lead where those of  *)
(* the origin lead; every result is restored wherever its source's names   *)
(* can be told apart; and a result whose notes were not given sensitive    *)
(* names can be selected as a source again (transaction.py,                *)
(* verification.py, service.py, reconstruction.py).                        *)
(***************************************************************************)
THEOREM AcceptancesAreKept == Spec => []AcceptanceIsKept
<1>1. Init => Inv /\ Kept
  <2>1. Init => Kept
    BY DEF Init, Kept
  <2> QED  BY <2>1, InitInv
<1>2. Inv /\ Kept /\ [Next]_vars => (Inv /\ Kept)'
  BY NextInv, NextKept
<1>3. Inv /\ Kept => AcceptanceIsKept
  BY KeptAccepts
<1> QED  BY <1>1, <1>2, <1>3, PTL DEF Spec
=============================================================================
