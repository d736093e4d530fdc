----------------------- MODULE UnsignedPaymentProofs -----------------------
(***************************************************************************)
(* Theorems about UnsignedPayment, for every set of calls, endpoints,      *)
(* wallets and offered transactions: what the verification passes pays the *)
(* payee; what two servers agree on is so; a server is only called behind  *)
(* after it told of a higher slot; and, when nothing is evicted from       *)
(* _slot_seen, a name pays no owner who was gone long ago.                 *)
(***************************************************************************)
EXTENDS UnsignedPayment, Sums, SequenceTheorems

-----------------------------------------------------------------------------
(***************************************************************************)
(* What alias_rpc_endpoints leaves.                                        *)
(***************************************************************************)
\* A set of places in a sequence has a last one.
LEMMA HighestOf ==
    ASSUME NEW n \in Nat, NEW s \in SUBSET (1 .. n), s # {}
    PROVE  Max(s) \in s /\ \A y \in s : y <= Max(s)
<1> DEFINE B == {n - y : y \in s}
<1>1. \A y \in s : y \in Int /\ n - y \in Nat
  OBVIOUS
<1>2. B \in SUBSET Nat /\ B # {}
  BY <1>1
<1>3. PICK m \in B : \A b \in B : m <= b
  <2> HIDE DEF B
  <2>1. QED
    BY <1>2, LeastNumber
<1>4. PICK x \in s : m = n - x
  BY <1>3
<1>5. ASSUME NEW y \in s
      PROVE  x >= y
  <2>1. n - x <= n - y
    BY <1>3, <1>4
  <2>2. x \in Int /\ y \in Int
    BY <1>1
  <2>3. QED
    BY <2>1, <2>2
<1>6. \E z \in s : \A y \in s : z >= y
  BY <1>5
<1>7. Max(s) \in s /\ \A y \in s : Max(s) >= y
  BY <1>6 DEF Max
<1>8. QED
  BY <1>1, <1>7

\* The step of the fold, and the functions that take it over the subsets of 1 .. n.
Kept(urls, u) ==
    IF \E i \in DOMAIN urls : Server[urls[i]] = Server[u] THEN urls ELSE Append(urls, u)
Keeps(f, n) ==
    f = [s \in SUBSET (1 .. n) |-> IF s = {} THEN <<>>
                                   ELSE Kept(f[s \ {Max(s)}], Configured[Max(s)])]

\* There is such a function, for each length of the list.
LEMMA KeepsExists ==
    ASSUME NEW n \in Nat
    PROVE  \E f : Keeps(f, n)
<1> DEFINE B == {k \in Nat : ~ \E f : Keeps(f, k)}
<1>1. SUFFICES ASSUME B # {}
               PROVE  FALSE
  OBVIOUS
<1>2. PICK k \in B : \A j \in B : k <= j
  <2>1. B \in SUBSET Nat
    OBVIOUS
  <2> HIDE DEF B
  <2>2. QED
    BY <1>1, <2>1, LeastNumber
<1>3. k # 0
  <2>1. SUBSET (1 .. 0) = {{}}
    OBVIOUS
  <2>2. Keeps([s \in SUBSET (1 .. 0) |-> <<>>], 0)
    BY <2>1 DEF Keeps
  <2>3. QED
    BY <2>2
<1>4. k - 1 \in Nat /\ ~(k <= k - 1)
  BY <1>2, <1>3
<1>5. PICK f : Keeps(f, k - 1)
  BY <1>2, <1>4
<1> DEFINE
      g == [s \in SUBSET (1 .. k) |-> IF s = {} THEN <<>>
                                      ELSE Kept(f[s \ {Max(s)}], Configured[Max(s)])]
      h == [s \in SUBSET (1 .. k) |-> IF s = {} THEN <<>>
                                      ELSE Kept(g[s \ {Max(s)}], Configured[Max(s)])]
<1>6. ASSUME NEW s \in SUBSET (1 .. k - 1)
      PROVE  s \in SUBSET (1 .. k) /\ g[s] = f[s]
  <2>1. s \in SUBSET (1 .. k)
    BY <1>4
  <2>2. g[s] = IF s = {} THEN <<>> ELSE Kept(f[s \ {Max(s)}], Configured[Max(s)])
    BY <2>1
  <2>3. f[s] = IF s = {} THEN <<>> ELSE Kept(f[s \ {Max(s)}], Configured[Max(s)])
    BY <1>5 DEF Keeps
  <2>4. QED
    BY <2>1, <2>2, <2>3
<1>7. ASSUME NEW s \in SUBSET (1 .. k)
      PROVE  g[s] = h[s]
  <2>1. CASE s = {}
    BY <2>1
  <2>2. CASE s # {}
    <3>1. s \ {Max(s)} \in SUBSET (1 .. k - 1)
      <4>1. Max(s) \in s /\ \A y \in s : y <= Max(s)
        BY <1>2, <2>2, HighestOf
      <4>2. ASSUME NEW y \in s \ {Max(s)}
            PROVE  y \in 1 .. k - 1
        <5> DEFINE m == Max(s)
        <5>1. y \in 1 .. k /\ m \in 1 .. k /\ y <= m /\ y # m
          BY <4>1
        <5> HIDE DEF m
        <5>2. QED
          BY <5>1
      <4>3. QED
        BY <4>2
    <3>2. g[s] = Kept(f[s \ {Max(s)}], Configured[Max(s)])
      BY <2>2
    <3>3. h[s] = Kept(g[s \ {Max(s)}], Configured[Max(s)])
      BY <2>2
    <3>4. QED
      BY <1>6, <3>1, <3>2, <3>3
  <2>3. QED
    BY <2>1, <2>2
<1>8. g = h
  BY <1>7
<1>9. Keeps(g, k)
  BY <1>8 DEF Keeps
<1>10. QED
  BY <1>2, <1>9

\* No two of these URLs are of one server.
Distinct(urls) ==
    /\ urls \in Seq(DOMAIN Server)
    /\ \A i, j \in 1 .. Len(urls) : Server[urls[i]] = Server[urls[j]] => i = j

\* Keeping a URL only when its server is new leaves no server twice.
LEMMA KeptIsDistinct ==
    ASSUME NEW urls, Distinct(urls), NEW u \in DOMAIN Server
    PROVE  Distinct(Kept(urls, u))
<1>1. CASE \E i \in DOMAIN urls : Server[urls[i]] = Server[u]
  BY <1>1 DEF Kept
<1>2. CASE ~ \E i \in DOMAIN urls : Server[urls[i]] = Server[u]
  <2> DEFINE q == Append(urls, u)
  <2>1. urls \in Seq(DOMAIN Server) /\ Len(urls) \in Nat /\ DOMAIN urls = 1 .. Len(urls)
    BY DEF Distinct
  <2>2. /\ q \in Seq(DOMAIN Server) /\ Len(q) = Len(urls) + 1 /\ q[Len(urls) + 1] = u
        /\ \A i \in 1 .. Len(urls) : q[i] = urls[i]
    BY <2>1, AppendProperties
  <2> HIDE DEF q
  <2>3. ASSUME NEW i \in 1 .. Len(q), NEW j \in 1 .. Len(q), Server[q[i]] = Server[q[j]]
        PROVE  i = j
    <3> DEFINE n == Len(urls)
    <3>1. n \in Nat /\ i \in 1 .. n + 1 /\ j \in 1 .. n + 1
      BY <2>1, <2>2
    <3>a. (i \in 1 .. n \/ i = n + 1) /\ (j \in 1 .. n \/ j = n + 1)
      <4> HIDE DEF n
      <4>1. QED
        BY <3>1
    <3>2. CASE i \in 1 .. n /\ j \in 1 .. n
      BY <2>2, <2>3, <3>2 DEF Distinct
    <3>3. CASE i \in 1 .. n /\ j = n + 1
      BY <1>2, <2>1, <2>2, <2>3, <3>3
    <3>4. CASE i = n + 1 /\ j \in 1 .. n
      BY <1>2, <2>1, <2>2, <2>3, <3>4
    <3>5. QED
      BY <3>a, <3>2, <3>3, <3>4
  <2>4. Kept(urls, u) = q
    BY <1>2 DEF Kept, q
  <2>5. QED
    BY <2>2, <2>3, <2>4 DEF Distinct
<1>3. QED
  BY <1>1, <1>2

\* However the configured URLs are spelled, Endpoints names every server once.
LEMMA EndpointsAreDistinct == Distinct(Endpoints)
<1> DEFINE n == Len(Configured)
<1>1. n \in Nat /\ DOMAIN Configured = 1 .. n
      /\ \A i \in 1 .. n : Configured[i] \in DOMAIN Server
  BY EndpointsAssumption
<1> DEFINE f == CHOOSE f : Keeps(f, n)
<1> HIDE DEF n
<1>2. Keeps(f, n)
  BY <1>1, KeepsExists
<1>3. Endpoints = f[1 .. n]
  BY <1>1 DEF Endpoints, FoldLeft, MapThenFoldSet, Keeps, Kept
<1> HIDE DEF f
<1>4. ASSUME NEW s \in SUBSET (1 .. n)
      PROVE  f[s] = IF s = {} THEN <<>> ELSE Kept(f[s \ {Max(s)}], Configured[Max(s)])
  BY <1>2 DEF Keeps
<1>5. IsFiniteSet(1 .. n)
  BY <1>1, FS_Interval
<1> DEFINE B == {s \in SUBSET (1 .. n) : ~ Distinct(f[s])}
<1>6. B = {}
  <2>1. SUFFICES ASSUME B # {}
                 PROVE  FALSE
    OBVIOUS
  <2>2. PICK s \in B : \A t \in B : t \subseteq s => t = s
    <3>1. B \in SUBSET SUBSET (1 .. n)
      OBVIOUS
    <3> DEFINE D == 1 .. n
    <3>2. IsFiniteSet(D) /\ B \in SUBSET SUBSET D
      BY <1>5, <3>1
    <3> HIDE DEF B, D
    <3>3. QED
      BY <2>1, <3>2, SmallestSubset
  <2>3. s # {}
    <3>1. Distinct(<<>>)
      BY DEF Distinct
    <3>2. QED
      BY <1>4, <2>2, <3>1
  <2>4. Max(s) \in s
    BY <1>1, <2>2, <2>3, HighestOf
  <2>5. Distinct(f[s \ {Max(s)}])
    BY <2>2, <2>4
  <2>6. Configured[Max(s)] \in DOMAIN Server
    BY <1>1, <2>2, <2>4
  <2>7. f[s] = Kept(f[s \ {Max(s)}], Configured[Max(s)])
    BY <1>4, <2>2, <2>3
  <2>8. QED
    BY <2>2, <2>5, <2>6, <2>7, KeptIsDistinct
<1>7. QED
  BY <1>3, <1>6

\* The two endpoints that are asked are two servers.
LEMMA TwoEndpoints ==
    Len(Endpoints) < 2
    \/ /\ Server[Endpoints[1]] # Server[Endpoints[2]]
       /\ {Server[Endpoints[1]], Server[Endpoints[2]]} \subseteq Servers
<1>1. Distinct(Endpoints)
  BY EndpointsAreDistinct
<1>2. CASE ~(Len(Endpoints) < 2)
  <2>1. Endpoints \in Seq(DOMAIN Server) /\ Len(Endpoints) \in Nat
    BY <1>1 DEF Distinct
  <2> DEFINE n == Len(Endpoints)
  <2>2. 1 \in 1 .. n /\ 2 \in 1 .. n
    <3>1. n \in Nat /\ ~(n < 2)
      BY <1>2, <2>1
    <3> HIDE DEF n
    <3>2. QED
      BY <3>1
  <2>3. Endpoints[1] \in DOMAIN Server /\ Endpoints[2] \in DOMAIN Server
    BY <2>1, <2>2, ElementOfSeq
  <2>4. Server[Endpoints[1]] # Server[Endpoints[2]]
    BY <1>1, <2>2 DEF Distinct
  <2>5. QED
    BY <2>3, <2>4 DEF Servers, Range
<1>3. QED
  BY <1>2

-----------------------------------------------------------------------------
(***************************************************************************)
(* What the checks of verify_draft amount to.                              *)
(***************************************************************************)
\* Shape puts the nonce before the three that are always there.
LEMMA OneAndThree ==
    ASSUME NEW S, NEW w \in S, NEW x \in S, NEW y \in S, NEW z \in S
    PROVE  LET s == <<w>> \o <<x, y, z>>
           IN DOMAIN s = 1 .. 4 /\ s[1] = w /\ s[2] = x /\ s[3] = y /\ s[4] = z
<1> DEFINE head == <<w>>
           rest == <<x, y, z>>
<1>1. head \in Seq(S) /\ rest \in Seq(S) /\ Len(head) = 1 /\ Len(rest) = 3
  OBVIOUS
<1>2. head[1] = w /\ rest[1] = x /\ rest[2] = y /\ rest[3] = z
  OBVIOUS
<1> HIDE DEF head, rest
<1>3. /\ head \o rest \in Seq(S) /\ Len(head \o rest) = 4
      /\ \A i \in 1 .. 4 : (head \o rest)[i] = IF i <= 1 THEN head[i] ELSE rest[i - 1]
  <2>1. /\ head \o rest \in Seq(S) /\ Len(head \o rest) = Len(head) + Len(rest)
        /\ \A i \in 1 .. Len(head) + Len(rest) :
              (head \o rest)[i] = IF i <= Len(head) THEN head[i] ELSE rest[i - Len(head)]
    BY <1>1, ConcatProperties, Zenon
  <2>2. QED
    BY <1>1, <2>1
<1>4. DOMAIN (head \o rest) = 1 .. 4
  BY <1>3
<1>5. QED
  BY <1>2, <1>3, <1>4 DEF head, rest

\* A draft of the right shape moves nothing through the system program, and
\* has its deposit at one place.
LEMMA ShapePlaces ==
    /\ IsFiniteSet(DOMAIN Shape)
    /\ \A i \in DOMAIN Shape : /\ Shape[i][1] = "system" => i = 1 /\ Shape[i][2] = "advance" /\ Nonce # NoNonce
                              /\ Shape[i][1] \in {"system", "budget", "settlement"}
    /\ \A kind \in {<<"budget", "limit">>, <<"settlement", "deposit">>} :
          \E k \in DOMAIN Shape : Shape[k] = kind /\ \A i \in DOMAIN Shape : Shape[i] = kind => i = k
<1> DEFINE u == <<"budget", "limit">>
           p == <<"budget", "price">>
           d == <<"settlement", "deposit">>
           a == <<"system", "advance">>
<1>1. /\ u[1] = "budget" /\ p[1] = "budget" /\ d[1] = "settlement" /\ a[1] = "system" /\ a[2] = "advance"
      /\ u # p /\ u # d /\ p # d /\ a # u /\ a # d
  OBVIOUS
<1>2. CASE Nonce = NoNonce
  <2>1. Shape = <<u, p, d>>
    BY <1>2 DEF Shape
  <2> HIDE DEF u, p, d, a
  <2>2. DOMAIN Shape = 1 .. 3 /\ Shape[1] = u /\ Shape[2] = p /\ Shape[3] = d
    BY <2>1
  <2>3. \A i \in 1 .. 3 : /\ Shape[i][1] \in {"budget", "settlement"}
                          /\ (Shape[i] = d => i = 3) /\ (Shape[i] = u => i = 1)
    BY <1>1, <2>2
  <2>4. IsFiniteSet(1 .. 3) /\ 1 \in 1 .. 3 /\ 3 \in 1 .. 3
    <3>1. 1 \in Int /\ 3 \in Int /\ 1 \in 1 .. 3 /\ 3 \in 1 .. 3
      OBVIOUS
    <3>2. QED
      BY <3>1, FS_Interval, Zenon
  <2>5. \A kind \in {u, d} :
           \E k \in DOMAIN Shape : Shape[k] = kind /\ \A i \in DOMAIN Shape : Shape[i] = kind => i = k
    BY <2>2, <2>3, <2>4
  <2>6. QED
    BY <2>2, <2>3, <2>4, <2>5 DEF u, d
<1>3. CASE Nonce # NoNonce
  <2>1. Shape = <<a>> \o <<u, p, d>>
    BY <1>3 DEF Shape
  <2> HIDE DEF u, p, d, a
  <2>2. DOMAIN Shape = 1 .. 4 /\ Shape[1] = a /\ Shape[2] = u /\ Shape[3] = p /\ Shape[4] = d
    BY <2>1, OneAndThree, {a, u, p, d} = {a, u, p, d}
  <2>3. \A i \in 1 .. 4 : /\ Shape[i][1] = "system" => i = 1 /\ Shape[i][2] = "advance"
                          /\ Shape[i][1] \in {"system", "budget", "settlement"}
                          /\ (Shape[i] = d => i = 4) /\ (Shape[i] = u => i = 2)
    BY <1>1, <2>2
  <2>4. IsFiniteSet(1 .. 4) /\ 2 \in 1 .. 4 /\ 4 \in 1 .. 4
    <3>1. 1 \in Int /\ 4 \in Int /\ 2 \in 1 .. 4 /\ 4 \in 1 .. 4
      OBVIOUS
    <3>2. QED
      BY <3>1, FS_Interval, Zenon
  <2>5. \A kind \in {u, d} :
           \E k \in DOMAIN Shape : Shape[k] = kind /\ \A i \in DOMAIN Shape : Shape[i] = kind => i = k
    BY <2>2, <2>3, <2>4
  <2>6. QED
    BY <1>3, <2>2, <2>3, <2>4, <2>5 DEF u, d
<1>4. QED
  BY <1>2, <1>3

\* So a verified draft has one deposit, creates nothing, and advances a nonce
\* first if at all: what the reference asks of a transaction that executes.
LEMMA ShapeOfVerified ==
    ASSUME NEW t, ShapeRight(t)
    PROVE  /\ \E k : Tagged(t, "settlement", "deposit") = {k}
           /\ \E k : Tagged(t, "budget", "limit") = {k}
           /\ Tagged(t, "system", "create") = {}
           /\ IsFiniteSet(DOMAIN t.ixs)
           /\ \A i \in Of(t, "system") : i = 1 /\ Nonce # NoNonce
<1>1. DOMAIN t.ixs = DOMAIN Shape
  BY DEF ShapeRight, Kinds
<1>2. \A i \in DOMAIN t.ixs : Shape[i] = <<t.ixs[i].prog, t.ixs[i].tag>>
  BY DEF ShapeRight, Kinds
<1>3. \A i \in DOMAIN t.ixs : Shape[i][1] = t.ixs[i].prog /\ Shape[i][2] = t.ixs[i].tag
  BY <1>2
<1>4. ASSUME NEW p, NEW tag, (p = "budget" /\ tag = "limit") \/ (p = "settlement" /\ tag = "deposit")
      PROVE  \E k : Tagged(t, p, tag) = {k}
  <2>1. PICK k \in DOMAIN Shape : /\ Shape[k] = <<p, tag>>
                                  /\ \A i \in DOMAIN Shape : Shape[i] = <<p, tag>> => i = k
    BY <1>4, ShapePlaces
  <2>2. Shape[k][1] = p /\ Shape[k][2] = tag
    BY <2>1
  <2>3. Tagged(t, p, tag) = {k}
    BY <1>1, <1>2, <1>3, <2>1, <2>2 DEF Tagged, Of
  <2>4. QED
    BY <2>3
<1>5. \A i \in Of(t, "system") : i = 1 /\ t.ixs[i].tag = "advance" /\ Nonce # NoNonce
  BY <1>1, <1>3, ShapePlaces DEF Of
<1>6. \E k : Tagged(t, "settlement", "deposit") = {k}
  BY <1>4
<1>7. \E k : Tagged(t, "budget", "limit") = {k}
  BY <1>4
<1>8. Tagged(t, "system", "create") = {}
  BY <1>5 DEF Tagged
<1>9. QED
  BY <1>1, <1>5, <1>6, <1>7, <1>8, ShapePlaces

\* A draft that passes opens one escrow, that of its one deposit, and runs.
LEMMA VerifiedOpensOne ==
    ASSUME NEW t, NEW wallet, NEW n, NEW id, Verified(t, wallet, Salt, n, id)
    PROVE  /\ {[commitment |-> e.commitment, amount |-> e.amount] : e \in Opens(t)}
                 = {[commitment |-> <<wallet, Salt>>, amount |-> n]}
           /\ id # NoId => \A e \in Opens(t) : e.id = id
           /\ Executes(t)
<1> DEFINE d == The(Tagged(t, "settlement", "deposit"))
           ix == t.ixs[d]
<1>1. Tagged(t, "settlement", "deposit") = {d}
  <2>1. PICK x : Tagged(t, "settlement", "deposit") = {x}
    BY ShapeOfVerified DEF Verified
  <2>2. QED
    BY <2>1 DEF The
<1>2. DepositRight(ix, wallet, Salt, n, id) /\ FrameRight(t) /\ ShapeRight(t)
  BY DEF Verified
<1>3. Opens(t) = {[id |-> ix.id, commitment |-> ix.commitment, amount |-> ix.amount]}
  BY <1>1 DEF Opens
<1>4. Executes(t)
  <2>1. \A i \in DOMAIN t.ixs : t.ixs[i].prog \in {"settlement", "budget", "system"}
    BY DEF Verified, Understood
  <2>2. ix.amount >= MinEscrow /\ ix.escrow = ix.id /\ ix.depositor = t.payer /\ ix.system
    BY <1>2 DEF DepositRight, FrameRight
  <2>3. Tagged(t, "system", "create") = {} /\ \A i \in Tagged(t, "system", "advance") : i = 1
    BY <1>2, ShapeOfVerified DEF Tagged
  <2>4. QED
    BY <1>1, <2>1, <2>2, <2>3 DEF Executes
<1>5. QED
  BY <1>2, <1>3, <1>4 DEF DepositRight

\* What leaves the depositor is the amount: the lamports of all instructions add
\* up to it, and the deposit alone moves that much.
LEMMA VerifiedMoves ==
    ASSUME NEW t, Unsigned(t), NEW wallet, NEW n \in Nat, NEW id, Verified(t, wallet, Salt, n, id)
    PROVE  Leaves(t) = n
<1> DEFINE D == DOMAIN t.ixs
           w == [e \in Movements(t) |-> e.lamports]
           taken == [i \in D |->
                       CASE t.ixs[i].prog = "system" -> t.ixs[i].lamports
                         [] t.ixs[i].prog = "settlement" /\ t.ixs[i].tag = "deposit" -> t.ixs[i].amount
                         [] OTHER -> 0]
<1>1. /\ ShapeRight(t) /\ IsFiniteSet(D)
      /\ \A i \in Of(t, "system") : i = 1 /\ t.ixs[i].lamports \in Nat
  BY ShapeOfVerified DEF Verified, Unsigned, Of
<1>2. PICK k : Tagged(t, "settlement", "deposit") = {k}
  BY <1>1, ShapeOfVerified
<1>3. k \in D /\ t.ixs[k].prog = "settlement" /\ t.ixs[k].tag = "deposit"
  BY <1>2 DEF Tagged, Of
<1>4. t.ixs[k].amount = n
  BY <1>2 DEF Verified, DepositRight, The
<1> DEFINE mk == [ix |-> k, to |-> t.ixs[k].id, lamports |-> t.ixs[k].amount]
<1>5. \A i \in D \ {k} : t.ixs[i].prog \in {"budget", "system"}
  BY <1>2 DEF Verified, Understood, Tagged, Of
<1>6. \A i \in Of(t, "system") : t.ixs[i].lamports = 0
  <2>1. SUFFICES ASSUME NEW s \in Of(t, "system")
                 PROVE  t.ixs[s].lamports = 0
    OBVIOUS
  <2> DEFINE ms == [ix |-> s, to |-> t.ixs[s].to, lamports |-> t.ixs[s].lamports]
  <2>2. s # k /\ Of(t, "system") = {s} /\ t.ixs[s].lamports \in Nat
    BY <1>1, <1>3, <2>1 DEF Of
  <2>3. Movements(t) = {mk} \cup {ms}
    BY <1>2, <2>2 DEF Movements
  <2>4. ms # mk /\ ms.lamports = t.ixs[s].lamports /\ mk.lamports = n
    <3>1. ms.ix = s /\ mk.ix = k
      OBVIOUS
    <3>2. QED
      BY <1>4, <2>2, <3>1
  <2> HIDE DEF mk, ms
  <2>5. w[ms] = t.ixs[s].lamports /\ w[mk] = n
    BY <2>3, <2>4
  <2>6. IsFiniteSet({mk}) /\ ms \notin {mk} /\ \A x \in {mk} \cup {ms} : w[x] \in Int
    <3>1. IsFiniteSet({mk})
      BY FS_Singleton
    <3>2. w[ms] \in Int /\ w[mk] \in Int
      BY <2>2, <2>5
    <3> HIDE DEF w
    <3>3. QED
      BY <2>4, <3>1, <3>2
  <2>7. IsFiniteSet(Movements(t))
    BY <2>3, <2>6, FS_AddElement
  <2>8. SumOver(w, Movements(t)) = n
    <3>1. MapThenSumSet(LAMBDA e : e.lamports, Movements(t)) = SumOver(w, Movements(t))
      BY <2>7, SumOfLamports
    <3>2. MapThenSumSet(LAMBDA m : m.lamports, Movements(t)) = n
      BY DEF Verified, MovementsRight
    <3>3. QED
      BY <3>1, <3>2
  <2> HIDE DEF w
  <2>9. SumOver(w, {mk} \cup {ms}) = w[ms] + SumOver(w, {mk})
    BY <2>6, SumWithOneMore
  <2>10. SumOver(w, {mk}) = w[mk]
    BY <2>6, SumOfOne
  <2>11. QED
    BY <2>2, <2>3, <2>5, <2>8, <2>9, <2>10
<1>7. taken[k] = n
  BY <1>3, <1>4
<1>8. \A i \in D \ {k} : taken[i] = 0
  BY <1>5, <1>6 DEF Of
<1>9. Leaves(t) = SumOver(taken, D)
  BY DEF Leaves, SumOver
<1> HIDE DEF taken
<1>10. \A i \in D : taken[i] \in Int
  BY <1>7, <1>8
<1>11. SumOver(taken, D) = taken[k] + SumOver(taken, D \ {k})
  BY <1>1, <1>3, <1>10, SumOfAny
<1>12. SumOver(taken, D \ {k}) = 0
  <2>1. IsFiniteSet(D \ {k})
    BY <1>1, FS_Subset
  <2>2. QED
    BY <1>8, <2>1, SumOfZeros
<1>13. QED
  BY <1>7, <1>9, <1>11, <1>12

\* The fee the checks bound is the fee the runtime charges: the shape leaves
\* one unit limit.
LEMMA VerifiedFee ==
    ASSUME NEW t, Unsigned(t), NEW wallet, NEW n, NEW id, Verified(t, wallet, Salt, n, id)
    PROVE  Charges(t) <= MaxFee
<1>1. PICK k : Tagged(t, "budget", "limit") = {k}
  BY ShapeOfVerified DEF Verified
<1> DEFINE v == t.ixs[k].value
<1>2. Values(t, "limit") = {v} /\ v \in Nat
  BY <1>1 DEF Values, Tagged, Of, Unsigned
<1>3. v \in Int /\ MaxUnits \in Int
  BY <1>2, DraftAssumption
<1> HIDE DEF v
<1>4. {MaxUnits} \cup Values(t, "limit") \cup {} = {v, MaxUnits} /\ Values(t, "limit") = {v, v}
  BY <1>2
<1>5. Max({v, v}) = v
  BY <1>3, MaxOfTwo, Zenon
<1>6. Charges(t) = Fee(t)
  BY <1>2, <1>4, <1>5 DEF Charges, Fee
<1>7. QED
  BY <1>6 DEF Verified

\* And the only nonce it advances is the one that was configured.
LEMMA VerifiedAdvances ==
    ASSUME NEW t, NEW wallet, NEW n, NEW id, Verified(t, wallet, Salt, n, id)
    PROVE  Advances(t) \subseteq {Nonce} \ {NoNonce}
<1>1. \A i \in Of(t, "system") : Nonce # NoNonce
  BY ShapeOfVerified DEF Verified
<1>2. QED
  BY <1>1 DEF Verified, NonceRight, Advances, Tagged

-----------------------------------------------------------------------------
(***************************************************************************)
(* What the human approves.                                                *)
(***************************************************************************)
\* Only VerifyDraft approves, and with the wallet the payee was resolved to.
LEMMA ApprovedStep ==
    ASSUME ApprovedPaysThePayee, [Next]_vars
    PROVE  ApprovedPaysThePayee'
<1>1. CASE UNCHANGED approved
  BY <1>1 DEF ApprovedPaysThePayee
<1>2. ASSUME NEW c \in Calls, VerifyDraft(c) PROVE ApprovedPaysThePayee'
  <2>1. PICK id \in {Id, NoId}, n \in Amounts, t \in Offers(PayTo(c)) \cup ({draft} \ {None}) :
           /\ Verified(t, PayTo(c), Salt, n, id)
           /\ approved' = [tx |-> t, wallet |-> PayTo(c), id |-> id, amount |-> n]
    BY <1>2 DEF VerifyDraft
  <2>2. /\ approved'.tx = t /\ approved'.wallet = PayTo(c)
        /\ approved'.id = id /\ approved'.amount = n
    BY <2>1
  <2>3. /\ {[commitment |-> e.commitment, amount |-> e.amount] : e \in Opens(t)}
              = {[commitment |-> <<PayTo(c), Salt>>, amount |-> n]}
        /\ id # NoId => \A e \in Opens(t) : e.id = id
        /\ Executes(t)
    BY <2>1, VerifiedOpensOne
  <2>4. QED
    BY <2>2, <2>3 DEF ApprovedPaysThePayee
<1>3. QED
  BY <1>1, <1>2 DEF Next, Step, vars, human, DraftDeposit, DraftFails, RefuseDraft, Status, Land, Squat, Close

\* verify_draft and xete_verify_settlement_tx: whatever transaction was offered,
\* one that passes opens one escrow, for the payee, with the amount meant.
THEOREM ApprovedPaysTheRightWallet == Spec => []ApprovedPaysThePayee
<1>1. Init => ApprovedPaysThePayee
  BY DEF Init, ApprovedPaysThePayee
<1>2. ApprovedPaysThePayee /\ [Next]_vars => ApprovedPaysThePayee'
  BY ApprovedStep
<1>3. QED
  BY <1>1, <1>2, PTL DEF Spec

-----------------------------------------------------------------------------
(***************************************************************************)
(* What two servers agree on.                                              *)
(***************************************************************************)
OneLiar == \A s, t \in liar : s = t
ReportInv ==
    /\ OneLiar
    /\ CorroboratedReportIsTrue

\* The honest one of two servers that agree answered what the address holds or
\* has held, and that is never forgotten.
LEMMA ReportStep ==
    ASSUME ReportInv, [Next]_vars
    PROVE  ReportInv'
<1>1. UNCHANGED liar
  BY DEF Next, Step, vars, human, resolving, registry, Resolve, Begin, Ask, Reply, Behind, Unusable,
         DraftDeposit, DraftFails, VerifyDraft, RefuseDraft, Status, Done, Land, Squat, Close, Slot
<1>2. OneLiar'
  BY <1>1 DEF ReportInv, OneLiar
<1>3. CASE UNCHANGED report /\ held \subseteq held'
  BY <1>2, <1>3 DEF ReportInv, CorroboratedReportIsTrue
<1>4. ASSUME NEW c \in Calls, Status(c) PROVE ReportInv'
  <2> DEFINE w == IF Ready(c) THEN PayTo(c) ELSE None
  <2>1. PICK first \in Servers, second \in Servers :
           /\ first # second
           /\ \E a \in Reads(first), b \in Reads(second), answered \in BOOLEAN :
                 report' = Report(a, b, answered, w)
    BY <1>4 DEF Status
  <2>2. PICK a \in Reads(first), b \in Reads(second), answered \in BOOLEAN :
           report' = Report(a, b, answered, w)
    BY <2>1
  <2>3. SUFFICES ASSUME report'.corroborated, report'.open = "yes"
                 PROVE  \E e \in held \ {None} :
                           /\ report'.shown = e
                           /\ report'.beneficiary # "unknown" =>
                                 (report'.beneficiary = "yes" <=> e.commitment = <<report'.wallet, Salt>>)
    BY <1>2, <1>4 DEF ReportInv, CorroboratedReportIsTrue, Status, chain
  <2>4. answered /\ a = b
    BY <2>2, <2>3 DEF Report
  <2>5. /\ report'.open = Open(a) /\ report'.shown = Shown(a)
        /\ report'.beneficiary = Beneficiary(a, w) /\ report'.wallet = w
    BY <2>2, <2>4 DEF Report
  <2>6. ~Lies(first) \/ ~Lies(second)
    BY <2>1 DEF ReportInv, OneLiar, Lies
  <2>7. a \in held
    BY <2>2, <2>4, <2>6 DEF Reads
  <2>8. a # None /\ report'.shown = a
    BY <2>3, <2>5 DEF Open, Shown
  <2>9. report'.beneficiary # "unknown" =>
           (report'.beneficiary = "yes" <=> a.commitment = <<report'.wallet, Salt>>)
    BY <2>5 DEF Beneficiary
  <2>10. QED
    BY <2>7, <2>8, <2>9
<1>5. QED
  BY <1>3, <1>4 DEF Next, Step, vars, human, chain, DraftDeposit, DraftFails, VerifyDraft, RefuseDraft,
                    Land, Squat, Close, Becomes

\* xete_settle_status: the escrow that an agreed report shows was opened on the
\* chain as shown, and pays the wallet or not as reported, whichever single
\* server lies and however far the other is behind.
THEOREM CorroboratedIsTrue == Spec => []CorroboratedReportIsTrue
<1>1. Init => ReportInv
  BY DEF Init, ResolutionInit, ReportInv, OneLiar, CorroboratedReportIsTrue
<1>2. ReportInv /\ [Next]_vars => ReportInv'
  BY ReportStep
<1>3. ReportInv => CorroboratedReportIsTrue
  BY DEF ReportInv
<1>4. QED
  BY <1>1, <1>2, <1>3, PTL DEF Spec

-----------------------------------------------------------------------------
(***************************************************************************)
(* What a process knows of the servers.                                    *)
(***************************************************************************)
Holders == Owners \cup {Nobody}
Places == {"idle", "ask", "wait", "resolved", "refused", "behind"}
Answer == [owner : Holders, due : Int]

ResolvingTyped ==
    /\ history \in Seq(Holders)
    /\ pc \in [Calls -> Places]
    /\ floor \in [Calls -> Nat]
    /\ answers \in [Calls -> Seq(Answer)]

\* No slot is remembered that was not told.
SeenIsTold ==
    /\ \A s \in DOMAIN seen : seen[s].slot \in Nat
    /\ \A s \in DOMAIN told : told[s] \in Nat
    /\ \A s \in DOMAIN seen : s \in DOMAIN told /\ seen[s].slot <= told[s]

\* Nor, when nothing is evicted, the other way round.
ToldIsSeen ==
    /\ DOMAIN told = DOMAIN seen /\ DOMAIN seen \subseteq Servers
    /\ \A s \in DOMAIN seen : seen[s].slot = told[s]

\* _record_slot: the new slot, and what is kept of the others.
LEMMA RecordedMap ==
    ASSUME NEW s, NEW slot, NEW now, ~(slot <= Best(s)), seen' \in Recorded(s, slot, now)
    PROVE  \E K \in SUBSET DOMAIN seen :
              /\ ~(Cardinality(DOMAIN seen) >= SeenMax /\ s \notin DOMAIN seen) => K = DOMAIN seen
              /\ DOMAIN seen' = K \cup {s} /\ seen'[s].slot = slot /\ seen'[s].when = now
              /\ \A t \in K : t # s => seen'[t] = seen[t]
<1> DEFINE full == Cardinality(DOMAIN seen) >= SeenMax /\ s \notin DOMAIN seen
           kept == IF full THEN {Restrict(seen, DOMAIN seen \ {t}) : t \in DOMAIN seen} ELSE {seen}
<1>1. PICK k \in kept : seen' = [t \in DOMAIN k \cup {s} |->
                                    IF t = s THEN [slot |-> slot, when |-> now] ELSE k[t]]
  BY DEF Recorded
<1>2. CASE full
  <2>1. PICK u \in DOMAIN seen : k = Restrict(seen, DOMAIN seen \ {u})
    BY <1>1, <1>2
  <2>2. DOMAIN k \subseteq DOMAIN seen /\ \A t \in DOMAIN k : k[t] = seen[t]
    BY <2>1 DEF Restrict
  <2>3. DOMAIN seen' = DOMAIN k \cup {s} /\ seen'[s].slot = slot /\ seen'[s].when = now
        /\ \A t \in DOMAIN k : t # s => seen'[t] = seen[t]
    BY <1>1, <2>2
  <2>4. QED
    BY <1>2, <2>2, <2>3
<1>3. CASE ~full
  <2>1. k = seen
    BY <1>1, <1>3
  <2>2. DOMAIN seen' = DOMAIN seen \cup {s} /\ seen'[s].slot = slot /\ seen'[s].when = now
        /\ \A t \in DOMAIN seen : t # s => seen'[t] = seen[t]
    BY <1>1, <2>1
  <2>3. QED
    BY <2>2
<1>4. QED
  BY <1>2, <1>3

\* What a slot that is not too high for its time leaves in told.
LEMMA RememberTold ==
    ASSUME SeenIsTold, NEW s, NEW owner, NEW slot \in Nat, NEW now, ~(slot > Ceiling(s, now)),
           Remember(s, owner, slot, now)
    PROVE  /\ DOMAIN told' = DOMAIN told \cup {s}
           /\ told'[s] \in {slot, Told(s)} /\ told'[s] >= slot /\ told'[s] >= Told(s) /\ told'[s] \in Nat
           /\ \A t \in DOMAIN told : t # s => told'[t] = told[t]
           /\ Told(s) \in Int /\ Best(s) \in Int /\ Best(s) <= Told(s)
           /\ seen' \in Recorded(s, slot, now)
<1>1. Told(s) \in Int /\ Best(s) \in Int /\ Best(s) <= Told(s)
  BY DEF Told, Best, NoSlot, SeenIsTold
<1>3. /\ seen' \in Recorded(s, slot, now)
      /\ told' = [t \in DOMAIN told \cup {s} |-> IF t = s THEN Max({slot, Told(s)}) ELSE told[t]]
  BY DEF Remember
<1>4. /\ Max({slot, Told(s)}) \in {slot, Told(s)} /\ Max({slot, Told(s)}) >= slot
      /\ Max({slot, Told(s)}) >= Told(s)
  BY <1>1, MaxOfTwo
<1>5. told'[s] = Max({slot, Told(s)})
  BY <1>3
<1>6. QED
  BY <1>1, <1>3, <1>4, <1>5

\* An eviction only forgets, so it cannot make a floor too high.
LEMMA RememberKeepsSeen ==
    ASSUME SeenIsTold, NEW s, NEW owner, NEW slot \in Nat, NEW now, Remember(s, owner, slot, now)
    PROVE  SeenIsTold'
<1>1. CASE slot > Ceiling(s, now)
  BY <1>1 DEF Remember, SeenIsTold
<1>2. CASE ~(slot > Ceiling(s, now))
  <2>1. /\ DOMAIN told' = DOMAIN told \cup {s}
        /\ told'[s] >= slot /\ told'[s] >= Told(s) /\ told'[s] \in Nat
        /\ \A t \in DOMAIN told : t # s => told'[t] = told[t]
        /\ seen' \in Recorded(s, slot, now)
    BY <1>2, RememberTold
  <2>2. CASE slot <= Best(s)
    <3>1. seen' = seen
      BY <2>1, <2>2 DEF Recorded
    <3>2. QED
      BY <2>1, <3>1 DEF SeenIsTold, Told
  <2>3. CASE ~(slot <= Best(s))
    <3>1. PICK K \in SUBSET DOMAIN seen : /\ DOMAIN seen' = K \cup {s} /\ seen'[s].slot = slot
                                          /\ \A t \in K : t # s => seen'[t] = seen[t]
      BY <2>1, <2>3, RecordedMap
    <3>2. \A t \in DOMAIN seen' : \/ t = s /\ seen'[t].slot = slot
                                  \/ t # s /\ t \in DOMAIN seen /\ seen'[t].slot = seen[t].slot
      BY <3>1
    <3>3. QED
      BY <2>1, <3>2 DEF SeenIsTold
  <2>4. QED
    BY <2>2, <2>3
<1>3. QED
  BY <1>1, <1>2

\* Without one, what was told last and highest is what is remembered.
LEMMA RememberKeepsTold ==
    ASSUME SeenIsTold, ToldIsSeen, NothingEvicted, NEW s \in Servers, NEW owner, NEW slot \in Nat,
           NEW now, Remember(s, owner, slot, now)
    PROVE  ToldIsSeen'
<1>1. CASE slot > Ceiling(s, now)
  BY <1>1 DEF Remember, ToldIsSeen
<1>2. CASE ~(slot > Ceiling(s, now))
  <2>1. /\ DOMAIN told' = DOMAIN told \cup {s}
        /\ told'[s] \in {slot, Told(s)} /\ told'[s] >= slot /\ told'[s] >= Told(s)
        /\ \A t \in DOMAIN told : t # s => told'[t] = told[t]
        /\ Told(s) \in Int
        /\ seen' \in Recorded(s, slot, now)
    BY <1>2, RememberTold
  <2>2. Told(s) = Best(s)
    BY DEF ToldIsSeen, Told, Best
  <2>3. CASE slot <= Best(s)
    <3>1. seen' = seen
      BY <2>1, <2>3 DEF Recorded
    <3>2. s \in DOMAIN seen
      BY <2>3 DEF Best, NoSlot
    <3>3. told'[s] = Told(s)
      BY <2>1, <2>2, <2>3
    <3>4. QED
      BY <2>1, <3>1, <3>2, <3>3 DEF ToldIsSeen, Told
  <2>4. CASE ~(slot <= Best(s))
    <3>1. ~(Cardinality(DOMAIN seen) >= SeenMax /\ s \notin DOMAIN seen)
      <4>1. SUFFICES ASSUME Cardinality(DOMAIN seen) >= SeenMax, s \notin DOMAIN seen PROVE FALSE
        OBVIOUS
      <4>2. /\ IsFiniteSet(DOMAIN seen) /\ Cardinality(DOMAIN seen) <= Cardinality(Servers)
            /\ Cardinality(Servers) = Cardinality(DOMAIN seen) => Servers = DOMAIN seen
        BY FS_Subset DEF ToldIsSeen, NothingEvicted
      <4>3. Cardinality(DOMAIN seen) \in Nat /\ Cardinality(Servers) \in Nat
        BY <4>2, FS_CardinalityType DEF NothingEvicted
      <4>4. QED
        BY <4>1, <4>2, <4>3, LagAssumption DEF NothingEvicted
    <3>2. /\ DOMAIN seen' = DOMAIN seen \cup {s} /\ seen'[s].slot = slot
          /\ \A t \in DOMAIN seen : t # s => seen'[t] = seen[t]
      <4>1. PICK K \in SUBSET DOMAIN seen :
               /\ K = DOMAIN seen
               /\ DOMAIN seen' = K \cup {s} /\ seen'[s].slot = slot
               /\ \A t \in K : t # s => seen'[t] = seen[t]
        BY <2>1, <2>4, <3>1, RecordedMap
      <4>2. QED
        BY <4>1
    <3>3. told'[s] = slot
      BY <2>1, <2>2, <2>4
    <3>4. QED
      BY <2>1, <3>2, <3>3 DEF ToldIsSeen
  <2>5. QED
    BY <2>3, <2>4
<1>3. QED
  BY <1>1, <1>2

\* -32016 forgets both.
LEMMA ForgetKeeps ==
    ASSUME NEW s, Forget(s)
    PROVE  (SeenIsTold => SeenIsTold') /\ (ToldIsSeen => ToldIsSeen')
BY DEF Forget, Restrict, SeenIsTold, ToldIsSeen

-----------------------------------------------------------------------------
(***************************************************************************)
(* The steps of a call.                                                    *)
(***************************************************************************)
\* A floor is what the server had told, less the tolerance.
FloorIsTold(c) ==
    /\ pc[c] = "idle" => answers[c] = <<>>
    /\ pc[c] = "ask" => Len(answers[c]) < 2
    /\ pc[c] \in {"wait", "behind"} =>
          /\ Len(answers[c]) \in 1 .. 2
          /\ floor[c] > 0 => answers[c][Len(answers[c])].due >= floor[c] + MaxLag
    /\ pc[c] = "behind" => floor[c] > 0
    /\ pc[c] = "resolved" => Len(answers[c]) = 2

KnownInv == ResolvingTyped /\ SeenIsTold /\ \A c \in Calls : FloorIsTold(c)

Ends(c) == Refuse(c, "refused") /\ UNCHANGED <<registry, seen, told>>

\* The tools change nothing of the resolution but that the call ends.
LEMMA StepsOfCalls ==
    ASSUME [Next]_vars
    PROVE  UNCHANGED resolving \/ Slot \/ \E c \in Calls : Resolve(c) \/ Ends(c)
BY DEF Next, Step, vars, DraftDeposit, DraftFails, VerifyDraft, RefuseDraft, Status, Done, Ends, Land, Squat, Close

\* A liar's answer is one of the shapes an honest one has.
LEMMA SaysTyped ==
    ASSUME ResolvingTyped, NEW c, NEW a \in Says(c)
    PROVE  a[1] \in Holders /\ a[2] \in Nat
<1>1. CASE Lies(Asked(c))
  BY <1>1, LagAssumption DEF Says, Holders
<1>2. CASE ~Lies(Asked(c))
  <2>1. PICK v \in 1 .. Now : a = <<history[v], v>>
    BY <1>2 DEF Says
  <2>2. Now \in Nat /\ history[v] \in Holders
    BY <2>1 DEF Now, ResolvingTyped
  <2>3. QED
    BY <2>1, <2>2
<1>3. QED
  BY <1>1, <1>2

\* The other calls stay where they are.
LEMMA RefuseKeeps ==
    ASSUME ResolvingTyped, NEW c \in Calls, NEW v \in Places, Refuse(c, v)
    PROVE  /\ pc' \in [Calls -> Places] /\ floor' \in [Calls -> Nat]
           /\ answers' \in [Calls -> Seq(Answer)]
           /\ pc'[c] = v /\ floor'[c] = 0 /\ answers'[c] = <<>>
           /\ \A d \in Calls \ {c} : pc'[d] = pc[d] /\ floor'[d] = floor[d] /\ answers'[d] = answers[d]
<1>1. <<>> \in Seq(Answer)
  OBVIOUS
<1>2. QED
  BY <1>1 DEF ResolvingTyped, Refuse, Goto

\* An answer that does not end the call fills in the one it waits for.
LEMMA HearKeeps ==
    ASSUME ResolvingTyped, NEW c \in Calls, Len(answers[c]) \in 1 .. 2, NEW owner \in Holders,
           Hear(c, owner), ~Refuse(c, "refused")
    PROVE  LET n == Len(answers[c])
           IN /\ pc' \in [Calls -> Places] /\ floor' \in [Calls -> Nat]
              /\ answers' \in [Calls -> Seq(Answer)]
              /\ n = 2 => answers[c][1].owner = owner
              /\ pc'[c] = (IF n = 2 THEN "resolved" ELSE "ask") /\ floor'[c] = 0
              /\ Len(answers'[c]) = n
              /\ answers'[c][n].owner = owner /\ answers'[c][n].due = answers[c][n].due
              /\ \A i \in 1 .. n : i < n => answers'[c][i] = answers[c][i]
              /\ \A d \in Calls \ {c} : pc'[d] = pc[d] /\ floor'[d] = floor[d] /\ answers'[d] = answers[d]
<1> DEFINE n == Len(answers[c])
           e == [answers[c][n] EXCEPT !.owner = owner]
           w == [answers[c] EXCEPT ![n] = e]
<1>1. /\ n = 2 => answers[c][1].owner = owner
      /\ Goto(c, IF n = 2 THEN "resolved" ELSE "ask")
      /\ answers' = [answers EXCEPT ![c][n].owner = owner]
      /\ floor' = [floor EXCEPT ![c] = 0]
  BY DEF Hear
<1>2. answers[c] \in Seq(Answer) /\ answers[c][n] \in Answer
  <2>1. answers[c] \in Seq(Answer)
    BY DEF ResolvingTyped
  <2>2. n \in 1 .. Len(answers[c])
    <3>1. \A m \in 1 .. 2 : m \in 1 .. m
      OBVIOUS
    <3>2. QED
      BY <3>1
  <2>3. QED
    BY <2>1, <2>2, ElementOfSeq
<1>3. e \in Answer /\ e.owner = owner /\ e.due = answers[c][n].due
  BY <1>2 DEF Answer
<1>4. w \in Seq(Answer) /\ Len(w) = n /\ w[n] = e /\ \A i \in 1 .. n : i < n => w[i] = answers[c][i]
  <2> DEFINE q == answers[c]
  <2>1. q \in Seq(Answer) /\ e \in Answer /\ n \in 1 .. Len(q)
    <3>1. \A m \in 1 .. 2 : m \in 1 .. m
      OBVIOUS
    <3>2. QED
      BY <1>2, <1>3, <3>1
  <2>2. w = [q EXCEPT ![n] = e] /\ Len(q) = n
    OBVIOUS
  <2> HIDE DEF q, e, w, n
  <2>3. w \in Seq(Answer) /\ Len(w) = Len(q) /\ w[n] = e
    BY <2>1, <2>2, ExceptSeq
  <2>4. \A i \in 1 .. Len(q) : i # n => w[i] = q[i]
    BY <2>1, <2>2, ExceptSeq
  <2>5. n \in Int
    BY <2>1
  <2>6. \A i \in 1 .. n : i < n => w[i] = q[i]
    BY <2>2, <2>4, <2>5
  <2>7. QED
    BY <2>2, <2>3, <2>6 DEF q
<1>5. answers' = [answers EXCEPT ![c] = w]
  BY <1>1
<1>6. pc' = [pc EXCEPT ![c] = IF n = 2 THEN "resolved" ELSE "ask"]
  BY <1>1 DEF Goto
<1> HIDE DEF w, e, n
<1>7. answers'[c] = w /\ answers' \in [Calls -> Seq(Answer)]
      /\ \A d \in Calls \ {c} : answers'[d] = answers[d]
  BY <1>4, <1>5 DEF ResolvingTyped
<1>8. /\ pc' \in [Calls -> Places] /\ floor' \in [Calls -> Nat]
      /\ pc'[c] = (IF n = 2 THEN "resolved" ELSE "ask") /\ floor'[c] = 0
      /\ \A d \in Calls \ {c} : pc'[d] = pc[d] /\ floor'[d] = floor[d]
  <2> DEFINE p == IF n = 2 THEN "resolved" ELSE "ask"
  <2>1. p \in Places
    BY DEF Places
  <2> HIDE DEF p
  <2>2. pc' = [pc EXCEPT ![c] = p]
    BY <1>6 DEF p
  <2>3. pc' \in [Calls -> Places] /\ pc'[c] = p /\ \A d \in Calls \ {c} : pc'[d] = pc[d]
    BY <2>1, <2>2 DEF ResolvingTyped
  <2>4. floor' \in [Calls -> Nat] /\ floor'[c] = 0 /\ \A d \in Calls \ {c} : floor'[d] = floor[d]
    BY <1>1 DEF ResolvingTyped
  <2>5. QED
    BY <2>3, <2>4 DEF p
<1>9. QED
  BY <1>1, <1>3, <1>4, <1>7, <1>8 DEF n

\* _slot_floor: the tolerance below what is remembered, and never negative.
LEMMA FloorBounds ==
    ASSUME NEW s, Best(s) \in Int
    PROVE  /\ Floor(s) \in Nat /\ Floor(s) \in {Best(s) - MaxLag, 0}
           /\ MaxLag > 0 => Floor(s) >= Best(s) - MaxLag
<1> DEFINE b == Best(s) - MaxLag
<1>1. MaxLag \in Nat /\ b \in Int
  BY LagAssumption
<1>2. Floor(s) = IF MaxLag = 0 THEN 0 ELSE Max({b, 0})
  BY DEF Floor
<1> HIDE DEF b
<1>3. Max({b, 0}) \in {b, 0} /\ Max({b, 0}) >= b /\ Max({b, 0}) >= 0
  BY <1>1, 0 \in Int, MaxOfTwo, Zenon
<1>4. /\ Floor(s) \in Nat /\ Floor(s) \in {b, 0}
      /\ MaxLag > 0 => Floor(s) >= b
  BY <1>1, <1>2, <1>3
<1>5. QED
  BY <1>4 DEF b

\* A request carries the floor of the server it goes to.
LEMMA AskKeeps ==
    ASSUME ResolvingTyped, SeenIsTold, NEW c \in Calls, Ask(c)
    PROVE  LET n == Len(answers[c]) + 1
           IN /\ pc' \in [Calls -> Places] /\ floor' \in [Calls -> Nat]
              /\ answers' \in [Calls -> Seq(Answer)]
              /\ pc'[c] = "wait" /\ floor'[c] = Floor(Asking(c))
              /\ Len(answers'[c]) = n /\ answers'[c][n].due = Told(Asking(c))
              /\ \A i \in 1 .. n : i < n => answers'[c][i] = answers[c][i]
              /\ \A d \in Calls \ {c} : pc'[d] = pc[d] /\ floor'[d] = floor[d] /\ answers'[d] = answers[d]
<1> DEFINE n == Len(answers[c]) + 1
           s == Asking(c)
           e == [owner |-> Nobody, due |-> Told(s)]
           w == Append(answers[c], e)
<1>1. Told(s) \in Int /\ Best(s) \in Int
  BY DEF Told, Best, NoSlot, SeenIsTold
<1>2. Floor(s) \in Nat
  BY <1>1, FloorBounds
<1>3. e \in Answer /\ e.due = Told(s)
  BY <1>1 DEF Answer, Holders
<1>4. answers[c] \in Seq(Answer)
  BY DEF ResolvingTyped
<1>5. w \in Seq(Answer) /\ Len(w) = n /\ w[n] = e /\ \A i \in 1 .. n : i < n => w[i] = answers[c][i]
  BY <1>3, <1>4, AppendProperties
<1>6. /\ pc' = [pc EXCEPT ![c] = "wait"] /\ floor' = [floor EXCEPT ![c] = Floor(s)]
      /\ answers' = [answers EXCEPT ![c] = w]
  BY DEF Ask, Goto
<1> HIDE DEF w, e, n, s
<1>7. answers'[c] = w /\ answers' \in [Calls -> Seq(Answer)]
      /\ \A d \in Calls \ {c} : answers'[d] = answers[d]
  BY <1>5, <1>6 DEF ResolvingTyped
<1>8. /\ pc' \in [Calls -> Places] /\ floor' \in [Calls -> Nat]
      /\ pc'[c] = "wait" /\ floor'[c] = Floor(s)
      /\ \A d \in Calls \ {c} : pc'[d] = pc[d] /\ floor'[d] = floor[d]
  <2>1. pc' \in [Calls -> Places] /\ pc'[c] = "wait" /\ \A d \in Calls \ {c} : pc'[d] = pc[d]
    BY <1>6 DEF ResolvingTyped, Places
  <2>2. floor' \in [Calls -> Nat] /\ floor'[c] = Floor(s) /\ \A d \in Calls \ {c} : floor'[d] = floor[d]
    BY <1>2, <1>6 DEF ResolvingTyped
  <2>3. QED
    BY <2>1, <2>2
<1>9. QED
  BY <1>3, <1>5, <1>7, <1>8 DEF n, s

\* The floor of a waiting request is never above what its server had told.
LEMMA KnownStep ==
    ASSUME KnownInv, [Next]_vars
    PROVE  KnownInv'
<1>0. ResolvingTyped /\ SeenIsTold /\ \A d \in Calls : FloorIsTold(d)
  BY DEF KnownInv
<1> DEFINE Elsewhere(c) == \A d \in Calls \ {c} :
              pc'[d] = pc[d] /\ floor'[d] = floor[d] /\ answers'[d] = answers[d]
           Typed == /\ pc' \in [Calls -> Places] /\ floor' \in [Calls -> Nat]
                    /\ answers' \in [Calls -> Seq(Answer)]
<1>1. ASSUME NEW c \in Calls, Elsewhere(c), FloorIsTold(c)' PROVE \A d \in Calls : FloorIsTold(d)'
  BY <1>0, <1>1 DEF FloorIsTold
<1>2. CASE UNCHANGED resolving
  BY <1>2 DEF resolving, registry, KnownInv, ResolvingTyped, SeenIsTold, FloorIsTold
<1>3. CASE Slot
  <2>1. history' \in Seq(Holders)
    BY <1>0, <1>3 DEF Slot, Holders, ResolvingTyped
  <2>2. QED
    BY <1>0, <1>3, <2>1 DEF Slot, KnownInv, ResolvingTyped, SeenIsTold, FloorIsTold
<1>4. ASSUME NEW c \in Calls, Refuse(c, "refused"), UNCHANGED registry, SeenIsTold' PROVE KnownInv'
  <2>1. Typed /\ Elsewhere(c) /\ pc'[c] = "refused"
    BY <1>0, <1>4, RefuseKeeps DEF Places
  <2>2. FloorIsTold(c)'
    BY <2>1 DEF FloorIsTold
  <2>3. \A d \in Calls : FloorIsTold(d)'
    BY <1>1, <2>1, <2>2
  <2>4. QED
    BY <1>0, <1>4, <2>1, <2>3 DEF KnownInv, ResolvingTyped, registry
<1>5. ASSUME NEW c \in Calls, UNCHANGED <<seen, told>> PROVE SeenIsTold'
  BY <1>0, <1>5 DEF SeenIsTold
<1>6. ASSUME NEW c \in Calls, Begin(c) PROVE KnownInv'
  <2>1. CASE Len(Endpoints) < 2
    BY <1>4, <1>5, <1>6, <2>1 DEF Begin
  <2>2. CASE ~(Len(Endpoints) < 2)
    <3>1. pc' = [pc EXCEPT ![c] = "ask"] /\ UNCHANGED <<floor, answers, registry, seen, told>>
      BY <1>6, <2>2 DEF Begin, Goto
    <3>2. Typed /\ Elsewhere(c) /\ pc'[c] = "ask"
      BY <1>0, <3>1 DEF ResolvingTyped, Places
    <3>3. Len(answers'[c]) < 2
      BY <1>0, <1>6, <3>1 DEF Begin, FloorIsTold
    <3>4. FloorIsTold(c)'
      BY <3>2, <3>3 DEF FloorIsTold
    <3>5. \A d \in Calls : FloorIsTold(d)'
      BY <1>1, <3>2, <3>4
    <3>6. QED
      BY <1>0, <1>5, <3>1, <3>2, <3>5 DEF KnownInv, ResolvingTyped, registry
  <2>3. QED
    BY <2>1, <2>2
<1>7. ASSUME NEW c \in Calls, Ask(c) PROVE KnownInv'
  <2> DEFINE n == Len(answers[c]) + 1
             s == Asking(c)
  <2>1. /\ Typed /\ Elsewhere(c) /\ pc'[c] = "wait" /\ floor'[c] = Floor(s)
        /\ Len(answers'[c]) = n /\ answers'[c][n].due = Told(s)
    BY <1>0, <1>7, AskKeeps
  <2>2. n \in 1 .. 2
    <3>1. Len(answers[c]) \in Nat
      BY <1>0 DEF ResolvingTyped
    <3>2. Len(answers[c]) < 2
      BY <1>0, <1>7 DEF Ask, FloorIsTold
    <3>3. QED
      BY <3>1, <3>2
  <2>3. Floor(s) > 0 => Told(s) >= Floor(s) + MaxLag
    <3>1. Told(s) \in Int /\ Best(s) \in Int /\ Best(s) <= Told(s)
      BY <1>0 DEF Told, Best, NoSlot, SeenIsTold
    <3>2. MaxLag \in Nat /\ Floor(s) \in {Best(s) - MaxLag, 0}
      BY <3>1, FloorBounds, LagAssumption
    <3>3. QED
      BY <3>1, <3>2
  <2>4. FloorIsTold(c)'
    BY <2>1, <2>2, <2>3 DEF FloorIsTold
  <2>5. \A d \in Calls : FloorIsTold(d)'
    BY <1>1, <2>1, <2>4
  <2>6. UNCHANGED <<registry, seen, told>>
    BY <1>7 DEF Ask
  <2>7. QED
    BY <1>0, <1>5, <2>1, <2>5, <2>6 DEF KnownInv, ResolvingTyped, registry
<1>8. ASSUME NEW c \in Calls, NEW a \in Says(c), NEW now, Remember(Asked(c), a[1], a[2], now)
      PROVE  SeenIsTold'
  BY <1>0, <1>8, SaysTyped, RememberKeepsSeen
<1>9. ASSUME NEW c \in Calls, Reply(c) PROVE KnownInv'
  <2>1. PICK a \in Says(c), now \in 0 .. MaxClock : Remember(Asked(c), a[1], a[2], now) /\ Hear(c, a[1])
    BY <1>9 DEF Reply
  <2>2. SeenIsTold' /\ UNCHANGED registry /\ a[1] \in Holders
    BY <1>0, <1>8, <1>9, <2>1, SaysTyped DEF Reply
  <2>3. CASE Refuse(c, "refused")
    BY <1>4, <2>2, <2>3
  <2>4. CASE ~Refuse(c, "refused")
    <3>1. Len(answers[c]) \in 1 .. 2
      BY <1>0, <1>9 DEF Reply, FloorIsTold
    <3>2. /\ Typed /\ Elsewhere(c) /\ Len(answers'[c]) = Len(answers[c])
          /\ pc'[c] = IF Len(answers[c]) = 2 THEN "resolved" ELSE "ask"
      BY <1>0, <2>1, <2>2, <2>4, <3>1, HearKeeps
    <3>3. FloorIsTold(c)'
      <4>1. \A m \in 1 .. 2 : m # 2 => m < 2
        OBVIOUS
      <4>2. Len(answers[c]) # 2 => Len(answers[c]) < 2
        BY <3>1, <4>1
      <4>3. CASE Len(answers[c]) = 2
        BY <3>2, <4>3 DEF FloorIsTold
      <4>4. CASE Len(answers[c]) # 2
        BY <3>2, <4>2, <4>4 DEF FloorIsTold
      <4>5. QED
        BY <4>3, <4>4
    <3>4. \A d \in Calls : FloorIsTold(d)'
      BY <1>1, <3>2, <3>3
    <3>5. QED
      BY <1>0, <2>2, <3>2, <3>4 DEF KnownInv, ResolvingTyped, registry
  <2>5. QED
    BY <2>3, <2>4
<1>10. ASSUME NEW c \in Calls, Behind(c) PROVE KnownInv'
  <2>1. /\ pc[c] = "wait" /\ floor[c] > 0 /\ pc' = [pc EXCEPT ![c] = "behind"]
        /\ Forget(Asked(c)) /\ UNCHANGED <<registry, floor, answers>>
    BY <1>10 DEF Behind, Goto
  <2>2. Typed /\ Elsewhere(c) /\ pc'[c] = "behind"
    BY <1>0, <2>1 DEF ResolvingTyped, Places
  <2>3. FloorIsTold(c)'
    BY <1>0, <2>1, <2>2 DEF FloorIsTold
  <2>4. \A d \in Calls : FloorIsTold(d)'
    BY <1>1, <2>2, <2>3
  <2>5. SeenIsTold'
    BY <1>0, <2>1, ForgetKeeps
  <2>6. QED
    BY <1>0, <2>1, <2>2, <2>4, <2>5 DEF KnownInv, ResolvingTyped, registry
<1>11. ASSUME NEW c \in Calls, Unusable(c) PROVE KnownInv'
  <2>1. SeenIsTold'
    BY <1>5, <1>8, <1>11 DEF Unusable
  <2>2. QED
    BY <1>4, <1>11, <2>1 DEF Unusable
<1>12. ASSUME NEW c \in Calls, Ends(c) PROVE KnownInv'
  BY <1>4, <1>5, <1>12 DEF Ends
<1>13. QED
  BY <1>2, <1>3, <1>6, <1>7, <1>9, <1>10, <1>11, <1>12, StepsOfCalls DEF Resolve

LEMMA KnownStart ==
    ASSUME Init
    PROVE  KnownInv
<1>1. history \in Seq(Holders) /\ seen = <<>> /\ told = <<>>
  <2>1. PICK o \in Holders : history = <<o>>
    BY DEF Init, ResolutionInit, Holders
  <2>2. <<o>> \in Seq(Holders)
    OBVIOUS
  <2>3. QED
    BY <2>1, <2>2 DEF Init, ResolutionInit
<1>2. SeenIsTold
  BY <1>1 DEF SeenIsTold
<1>3. /\ pc \in [Calls -> Places] /\ floor \in [Calls -> Nat] /\ answers \in [Calls -> Seq(Answer)]
      /\ \A c \in Calls : pc[c] = "idle" /\ answers[c] = <<>>
  BY DEF Init, ResolutionInit, Places
<1>4. QED
  BY <1>1, <1>2, <1>3 DEF KnownInv, ResolvingTyped, FloorIsTold

\* resolve_owner_at: a server is called behind only after it told this process
\* of a slot higher than the floor by the tolerance.
THEOREM BehindIsBehind == Spec => []BehindMeansBehind
<1>1. Init => KnownInv
  BY KnownStart
<1>2. KnownInv /\ [Next]_vars => KnownInv'
  BY KnownStep
<1>3. KnownInv => BehindMeansBehind
  BY DEF KnownInv, FloorIsTold, BehindMeansBehind, Last
<1>4. QED
  BY <1>1, <1>2, <1>3, PTL DEF Spec

-----------------------------------------------------------------------------
(***************************************************************************)
(* Whom a name pays.                                                       *)
(***************************************************************************)
\* The registry named the owner, at a slot not too old.
Named(e) == \E v \in 1 .. Now : v >= e.due - MaxLag /\ history[v] = e.owner

Resolving(c) == pc[c] \in {"ask", "wait", "resolved"}

\* What an honest server answered was so.
HonestAnswers(c) ==
    /\ Resolving(c) => ~(Len(Endpoints) < 2)
    /\ pc[c] = "wait" => floor[c] >= answers[c][Len(answers[c])].due - MaxLag
    /\ pc[c] = "resolved" => answers[c][1].owner = answers[c][2].owner
    /\ Resolving(c) =>
          \A i \in 1 .. Len(answers[c]) :
             (pc[c] = "wait" => i < Len(answers[c])) /\ ~Lies(Server[Endpoints[i]]) => Named(answers[c][i])

HonestInv == KnownInv /\ OneLiar /\ ToldIsSeen /\ \A c \in Calls : HonestAnswers(c)

\* What an honest server answered was so, no longer ago than the tolerance.
LEMMA HonestStep ==
    ASSUME NothingEvicted, HonestInv, [Next]_vars
    PROVE  HonestInv'
<1>0. /\ KnownInv /\ ResolvingTyped /\ SeenIsTold /\ OneLiar /\ ToldIsSeen
      /\ \A d \in Calls : FloorIsTold(d) /\ HonestAnswers(d)
  BY DEF HonestInv, KnownInv
<1> DEFINE Elsewhere(c) == \A d \in Calls \ {c} :
              pc'[d] = pc[d] /\ floor'[d] = floor[d] /\ answers'[d] = answers[d]
<1>1. KnownInv'
  BY <1>0, KnownStep
<1>3. ASSUME NEW c \in Calls, UNCHANGED registry, Elsewhere(c), HonestAnswers(c)', ToldIsSeen'
      PROVE  HonestInv'
  <2>1. \A d \in Calls \ {c} : HonestAnswers(d)'
    BY <1>0, <1>3 DEF HonestAnswers, Resolving, Named, Now, Lies, registry
  <2>2. QED
    BY <1>0, <1>1, <1>3, <2>1 DEF HonestInv, OneLiar, registry
<1>4. CASE UNCHANGED resolving
  BY <1>0, <1>1, <1>4 DEF resolving, registry, HonestInv, OneLiar, ToldIsSeen, HonestAnswers, Resolving, Named, Now, Lies
<1>5. CASE Slot
  <2>1. PICK o \in Holders : history' = Append(history, o)
    BY <1>5 DEF Slot, Holders
  <2>2. /\ Now \in Nat /\ Now' = Now + 1
        /\ \A v \in 1 .. Now : history'[v] = history[v]
    <3>1. history \in Seq(Holders)
      BY <1>0 DEF ResolvingTyped
    <3>2. QED
      BY <2>1, <3>1, AppendProperties DEF Now
  <2>3. UNCHANGED <<liar, seen, told, pc, floor, answers>>
    BY <1>5 DEF Slot
  <2>4. ASSUME NEW d \in Calls, NEW i \in 1 .. Len(answers[d]), Named(answers[d][i])
        PROVE  Named(answers[d][i])'
    <3>1. PICK v \in 1 .. Now : v >= answers[d][i].due - MaxLag /\ history[v] = answers[d][i].owner
      BY <2>4 DEF Named
    <3>2. v \in 1 .. Now' /\ history'[v] = history[v]
      BY <2>2
    <3>3. QED
      BY <2>3, <3>1, <3>2 DEF Named
  <2>5. ASSUME NEW d \in Calls PROVE HonestAnswers(d)'
    <3>1. HonestAnswers(d)
      BY <1>0
    <3>2. QED
      BY <2>3, <2>4, <3>1 DEF HonestAnswers, Resolving, Lies
  <2>6. QED
    BY <1>0, <1>1, <2>3, <2>5 DEF HonestInv, OneLiar, ToldIsSeen
<1>6. ASSUME NEW c \in Calls, Refuse(c, "refused"), UNCHANGED registry, ToldIsSeen' PROVE HonestInv'
  <2>1. Elsewhere(c) /\ pc'[c] = "refused"
    BY <1>0, <1>6, RefuseKeeps DEF Places
  <2>2. HonestAnswers(c)'
    BY <2>1 DEF HonestAnswers, Resolving
  <2>3. QED
    BY <1>3, <1>6, <2>1, <2>2
<1>7. ASSUME UNCHANGED <<seen, told>> PROVE ToldIsSeen'
  BY <1>0, <1>7 DEF ToldIsSeen
<1>8. ASSUME NEW c \in Calls, Begin(c) PROVE HonestInv'
  <2>1. ToldIsSeen' /\ UNCHANGED registry
    BY <1>7, <1>8 DEF Begin
  <2>2. CASE Len(Endpoints) < 2
    BY <1>6, <1>8, <2>1, <2>2 DEF Begin
  <2>3. CASE ~(Len(Endpoints) < 2)
    <3>1. pc' = [pc EXCEPT ![c] = "ask"] /\ UNCHANGED <<floor, answers>> /\ answers[c] = <<>>
      BY <1>0, <1>8, <2>3 DEF Begin, Goto, FloorIsTold
    <3>2. Elsewhere(c) /\ pc'[c] = "ask" /\ Len(answers'[c]) = 0
      BY <1>0, <3>1 DEF ResolvingTyped
    <3>3. HonestAnswers(c)'
      BY <2>3, <3>2 DEF HonestAnswers, Resolving
    <3>4. QED
      BY <1>3, <2>1, <3>2, <3>3
  <2>4. QED
    BY <2>2, <2>3
<1>9. ASSUME NEW c \in Calls, Ask(c) PROVE HonestInv'
  <2> DEFINE n == Len(answers[c]) + 1
             s == Asking(c)
  <2>1. ToldIsSeen' /\ UNCHANGED registry /\ pc[c] = "ask"
    BY <1>7, <1>9 DEF Ask
  <2>2. /\ Elsewhere(c) /\ pc'[c] = "wait" /\ floor'[c] = Floor(s)
        /\ Len(answers'[c]) = n /\ answers'[c][n].due = Told(s)
        /\ \A i \in 1 .. n : i < n => answers'[c][i] = answers[c][i]
    BY <1>0, <1>9, AskKeeps
  <2>3. Floor(s) >= Told(s) - MaxLag
    <3>1. Told(s) = Best(s) /\ Best(s) \in Int
      BY <1>0 DEF ToldIsSeen, SeenIsTold, Told, Best, NoSlot
    <3>2. QED
      BY <3>1, FloorBounds DEF NothingEvicted
  <2>4. ASSUME NEW i \in 1 .. n, i < n, ~Lies(Server[Endpoints[i]]) PROVE Named(answers[c][i])'
    <3>1. Len(answers[c]) \in Nat
      BY <1>0 DEF ResolvingTyped
    <3>2. i \in 1 .. Len(answers[c])
      BY <2>4, <3>1
    <3>3. Named(answers[c][i])
      BY <1>0, <2>1, <2>4, <3>2 DEF HonestAnswers, Resolving
    <3>4. QED
      BY <2>1, <2>2, <2>4, <3>3 DEF Named, Now, registry
  <2>5. HonestAnswers(c)'
    BY <1>0, <2>1, <2>2, <2>3, <2>4 DEF HonestAnswers, Resolving, Lies, registry
  <2>6. QED
    BY <1>3, <2>1, <2>2, <2>5
<1>10. ASSUME NEW c \in Calls, pc[c] = "wait" PROVE Asked(c) \in Servers /\ Len(answers[c]) \in 1 .. 2
  <2>1. Len(answers[c]) \in 1 .. 2 /\ ~(Len(Endpoints) < 2)
    BY <1>0, <1>10 DEF FloorIsTold, HonestAnswers, Resolving
  <2>2. Len(answers[c]) = 1 \/ Len(answers[c]) = 2
    BY <2>1
  <2>3. QED
    BY <2>1, <2>2, TwoEndpoints DEF Asked
<1>11. ASSUME NEW c \in Calls, pc[c] = "wait", NEW a \in Says(c), NEW now,
              Remember(Asked(c), a[1], a[2], now)
       PROVE  ToldIsSeen'
  BY <1>0, <1>10, <1>11, SaysTyped, RememberKeepsTold
<1>12. ASSUME NEW c \in Calls, Reply(c) PROVE HonestInv'
  <2> DEFINE n == Len(answers[c])
  <2>1. PICK a \in Says(c), now \in 0 .. MaxClock : Remember(Asked(c), a[1], a[2], now) /\ Hear(c, a[1])
    BY <1>12 DEF Reply
  <2>2. pc[c] = "wait" /\ UNCHANGED registry /\ a[1] \in Holders
    BY <1>0, <1>12, <2>1, SaysTyped DEF Reply
  <2>3. ToldIsSeen' /\ n \in 1 .. 2 /\ Asked(c) \in Servers
    BY <1>10, <1>11, <2>1, <2>2
  <2>4. CASE Refuse(c, "refused")
    BY <1>6, <2>2, <2>3, <2>4
  <2>5. CASE ~Refuse(c, "refused")
    <3>1. /\ Elsewhere(c)
          /\ n = 2 => answers[c][1].owner = a[1]
          /\ pc'[c] = (IF n = 2 THEN "resolved" ELSE "ask")
          /\ Len(answers'[c]) = n
          /\ answers'[c][n].owner = a[1] /\ answers'[c][n].due = answers[c][n].due
          /\ \A i \in 1 .. n : i < n => answers'[c][i] = answers[c][i]
      BY <1>0, <2>1, <2>2, <2>3, <2>5, HearKeeps
    <3>2. ASSUME ~Lies(Asked(c)) PROVE Named(answers[c][n])'
      <4>1. PICK v \in 1 .. Now : v >= floor[c] /\ a = <<history[v], v>>
        BY <3>2 DEF Says
      <4>2. a[1] = history[v]
        BY <4>1
      <4>3. v >= answers[c][n].due - MaxLag
        <5>1. floor[c] >= answers[c][n].due - MaxLag
          BY <1>0, <2>2 DEF HonestAnswers
        <5>2. floor[c] \in Nat /\ answers[c] \in Seq(Answer)
          BY <1>0 DEF ResolvingTyped
        <5>3. answers[c][n].due \in Int
          <6>1. \A m \in 1 .. 2 : m \in 1 .. m
            OBVIOUS
          <6>2. answers[c][n] \in Answer
            BY <2>3, <5>2, <6>1, ElementOfSeq
          <6>3. QED
            BY <6>2 DEF Answer
        <5>4. QED
          <6> DEFINE f == floor[c]
                     d == answers[c][n].due
          <6>1. f \in Int /\ d \in Int /\ MaxLag \in Int /\ v \in Int /\ f >= d - MaxLag /\ v >= f
            BY <4>1, <5>1, <5>2, <5>3, LagAssumption
          <6> HIDE DEF f, d
          <6>2. v >= d - MaxLag
            BY <6>1
          <6>3. QED
            BY <6>2 DEF d
      <4>4. QED
        BY <2>2, <3>1, <4>1, <4>2, <4>3 DEF Named, Now, registry
    <3>3. ASSUME NEW i \in 1 .. n, ~Lies(Server[Endpoints[i]]) PROVE Named(answers[c][i])'
      <4>1. CASE i = n
        BY <3>1, <3>2, <3>3, <4>1 DEF Asked
      <4>2. CASE i # n
        <5>1. i < n
          BY <2>3, <4>2
        <5>2. Named(answers[c][i])
          BY <1>0, <2>2, <3>3, <5>1 DEF HonestAnswers, Resolving
        <5>3. QED
          BY <2>2, <3>1, <5>1, <5>2 DEF Named, Now, registry
      <4>3. QED
        BY <4>1, <4>2
    <3>4. pc'[c] = "resolved" => answers'[c][1].owner = answers'[c][2].owner
      <4>1. SUFFICES ASSUME pc'[c] = "resolved" PROVE answers'[c][1].owner = answers'[c][2].owner
        OBVIOUS
      <4>2. n = 2
        BY <3>1, <4>1
      <4>3. QED
        BY <3>1, <4>2
    <3>5. pc'[c] # "wait" /\ ~(Len(Endpoints) < 2)
      BY <1>0, <2>2, <3>1 DEF HonestAnswers, Resolving
    <3>6. HonestAnswers(c)'
      BY <2>2, <3>1, <3>3, <3>4, <3>5 DEF HonestAnswers, Resolving, Lies, registry
    <3>7. QED
      BY <1>3, <2>2, <2>3, <3>1, <3>6
  <2>6. QED
    BY <2>4, <2>5
<1>13. ASSUME NEW c \in Calls, Behind(c) PROVE HonestInv'
  <2>1. /\ pc' = [pc EXCEPT ![c] = "behind"]
        /\ Forget(Asked(c)) /\ UNCHANGED <<registry, floor, answers>>
    BY <1>13 DEF Behind, Goto
  <2>2. Elsewhere(c) /\ pc'[c] = "behind"
    BY <1>0, <2>1 DEF ResolvingTyped
  <2>3. ToldIsSeen'
    BY <1>0, <2>1, ForgetKeeps
  <2>4. HonestAnswers(c)'
    BY <2>2 DEF HonestAnswers, Resolving
  <2>5. QED
    BY <1>3, <2>1, <2>2, <2>3, <2>4
<1>14. ASSUME NEW c \in Calls, Unusable(c) PROVE HonestInv'
  <2>1. pc[c] = "wait" /\ Refuse(c, "refused") /\ UNCHANGED registry
    BY <1>14 DEF Unusable
  <2>2. ToldIsSeen'
    BY <1>7, <1>11, <1>14, <2>1 DEF Unusable
  <2>3. QED
    BY <1>6, <2>1, <2>2
<1>15. ASSUME NEW c \in Calls, Ends(c) PROVE HonestInv'
  BY <1>6, <1>7, <1>15 DEF Ends
<1>16. QED
  BY <1>4, <1>5, <1>8, <1>9, <1>12, <1>13, <1>14, <1>15, StepsOfCalls DEF Resolve

\* An endpoint of the two that a resolved call heard is honest.
LEMMA OneIsHonest ==
    ASSUME HonestInv
    PROVE  OldOwnerIsNotPaid
<1>1. SUFFICES ASSUME NEW c \in Calls, pc[c] = "resolved"
               PROVE  \E h \in Heard(c) :
                         /\ ~Lies(h.server)
                         /\ \E v \in 1 .. Now : v >= h.due - MaxLag /\ history[v] = Wallet(c)
  BY DEF OldOwnerIsNotPaid
<1>2. /\ Len(answers[c]) = 2 /\ ~(Len(Endpoints) < 2)
      /\ answers[c][1].owner = answers[c][2].owner
      /\ \A i \in 1 .. 2 : ~Lies(Server[Endpoints[i]]) => Named(answers[c][i])
  BY <1>1 DEF HonestInv, KnownInv, FloorIsTold, HonestAnswers, Resolving
<1>3. PICK i \in 1 .. 2 : ~Lies(Server[Endpoints[i]])
  <2>1. Server[Endpoints[1]] # Server[Endpoints[2]]
    BY <1>2, TwoEndpoints
  <2>2. ~Lies(Server[Endpoints[1]]) \/ ~Lies(Server[Endpoints[2]])
    BY <2>1 DEF HonestInv, OneLiar, Lies
  <2>3. QED
    BY <2>2
<1>4. i \in DOMAIN answers[c]
  <2>1. answers[c] \in Seq(Answer)
    BY DEF HonestInv, KnownInv, ResolvingTyped
  <2>2. QED
    BY <1>2, <2>1
<1>5. answers[c][i].owner = Wallet(c)
  BY <1>2 DEF Wallet
<1>6. DEFINE h == [server |-> Server[Endpoints[i]], due |-> answers[c][i].due]
<1>7. h \in Heard(c) /\ ~Lies(h.server)
  BY <1>3, <1>4 DEF Heard
<1>8. \E v \in 1 .. Now : v >= h.due - MaxLag /\ history[v] = Wallet(c)
  BY <1>2, <1>3, <1>5 DEF Named
<1>9. QED
  BY <1>7, <1>8

\* resolve_owner_at and the agreement of two servers: whichever of the two lies,
\* the wallet is one the registry named, and not one gone by more than the
\* tolerance before a slot an honest one of them had told since it was last called
\* behind.
THEOREM NoOldOwnerIsPaid ==
    ASSUME NothingEvicted
    PROVE  Spec => []OldOwnerIsNotPaid
<1>1. Init => HonestInv
  <2>1. SUFFICES ASSUME Init PROVE HonestInv
    OBVIOUS
  <2>2. KnownInv /\ OneLiar /\ ToldIsSeen
    BY <2>1, KnownStart DEF Init, ResolutionInit, OneLiar, ToldIsSeen
  <2>3. \A c \in Calls : pc[c] = "idle"
    BY <2>1 DEF Init, ResolutionInit
  <2>4. QED
    BY <2>2, <2>3 DEF HonestInv, HonestAnswers, Resolving
<1>2. HonestInv /\ [Next]_vars => HonestInv'
  BY HonestStep
<1>3. HonestInv => OldOwnerIsNotPaid
  BY OneIsHonest
<1>4. QED
  BY <1>1, <1>2, <1>3, PTL DEF Spec

-----------------------------------------------------------------------------
(***************************************************************************)
(* What a verified transaction does to the depositor.                      *)
(***************************************************************************)
\* A call goes on only with two endpoints and with owners it was told of, and
\* one that was refused has forgotten them.
Learnt(c) ==
    /\ Resolving(c) =>
          /\ ~(Len(Endpoints) < 2)
          /\ \A i \in 1 .. Len(answers[c]) :
                (pc[c] = "wait" => i < Len(answers[c])) => answers[c][i].owner \in Owners
    /\ pc[c] = "refused" => answers[c] = <<>>

LearntInv == KnownInv /\ \A c \in Calls : Learnt(c)

LEMMA LearntStep ==
    ASSUME LearntInv, [Next]_vars
    PROVE  LearntInv'
<1>0. KnownInv /\ ResolvingTyped /\ SeenIsTold /\ \A d \in Calls : FloorIsTold(d) /\ Learnt(d)
  BY DEF LearntInv, KnownInv
<1> DEFINE Elsewhere(c) == \A d \in Calls \ {c} : pc'[d] = pc[d] /\ answers'[d] = answers[d]
<1>1. KnownInv'
  BY <1>0, KnownStep
<1>2. ASSUME NEW c \in Calls, Elsewhere(c), Learnt(c)'
      PROVE  LearntInv'
  BY <1>0, <1>1, <1>2 DEF LearntInv, Learnt, Resolving
<1>3. CASE UNCHANGED <<pc, answers>>
  BY <1>0, <1>1, <1>3 DEF LearntInv, Learnt, Resolving
<1>4. ASSUME NEW c \in Calls, Refuse(c, "refused")
      PROVE  LearntInv'
  <2>1. Elsewhere(c) /\ pc'[c] = "refused" /\ answers'[c] = <<>>
    BY <1>0, <1>4, RefuseKeeps DEF Places
  <2>2. Learnt(c)'
    BY <2>1 DEF Learnt, Resolving
  <2>3. QED
    BY <1>2, <2>1, <2>2
<1>5. ASSUME NEW c \in Calls, Begin(c), ~(Len(Endpoints) < 2)
      PROVE  LearntInv'
  <2>1. pc' = [pc EXCEPT ![c] = "ask"] /\ answers' = answers /\ answers[c] = <<>>
    BY <1>0, <1>5 DEF Begin, Goto, FloorIsTold
  <2>2. Elsewhere(c) /\ pc'[c] = "ask" /\ Len(answers'[c]) = 0
    BY <1>0, <2>1 DEF ResolvingTyped
  <2>3. Learnt(c)'
    BY <1>5, <2>2 DEF Learnt, Resolving
  <2>4. QED
    BY <1>2, <2>2, <2>3
<1>6. ASSUME NEW c \in Calls, Ask(c)
      PROVE  LearntInv'
  <2> DEFINE n == Len(answers[c]) + 1
  <2>1. /\ Elsewhere(c) /\ pc'[c] = "wait" /\ Len(answers'[c]) = n
        /\ \A i \in 1 .. n : i < n => answers'[c][i] = answers[c][i]
    BY <1>0, <1>6, AskKeeps
  <2>2. ~(Len(Endpoints) < 2) /\ \A i \in 1 .. Len(answers[c]) : answers[c][i].owner \in Owners
    BY <1>0, <1>6 DEF Ask, Learnt, Resolving
  <2>3. \A i \in 1 .. n : i < n => i \in 1 .. Len(answers[c])
    <3>1. Len(answers[c]) \in Nat
      BY <1>0 DEF ResolvingTyped
    <3>2. QED
      BY <3>1
  <2>4. Learnt(c)'
    BY <2>1, <2>2, <2>3 DEF Learnt
  <2>5. QED
    BY <1>2, <2>1, <2>4
<1>7. ASSUME NEW c \in Calls, Reply(c), ~Refuse(c, "refused")
      PROVE  LearntInv'
  <2> DEFINE n == Len(answers[c])
  <2>1. PICK a \in Says(c), now \in 0 .. MaxClock : Remember(Asked(c), a[1], a[2], now) /\ Hear(c, a[1])
    BY <1>7 DEF Reply
  <2>2. pc[c] = "wait" /\ a[1] \in Holders /\ n \in 1 .. 2
    BY <1>0, <1>7, <2>1, SaysTyped DEF Reply, FloorIsTold
  <2>3. a[1] \in Owners
    BY <1>7, <2>1, <2>2 DEF Hear, Holders
  <2>4. /\ Elsewhere(c) /\ Len(answers'[c]) = n /\ answers'[c][n].owner = a[1]
        /\ pc'[c] = (IF n = 2 THEN "resolved" ELSE "ask")
        /\ \A i \in 1 .. n : i < n => answers'[c][i] = answers[c][i]
    BY <1>0, <1>7, <2>1, <2>2, HearKeeps
  <2>5. ~(Len(Endpoints) < 2) /\ \A i \in 1 .. n : i < n => answers[c][i].owner \in Owners
    BY <1>0, <2>2 DEF Learnt, Resolving
  <2>6. \A i \in 1 .. n : answers'[c][i].owner \in Owners
    <3>1. SUFFICES ASSUME NEW i \in 1 .. n
                   PROVE  answers'[c][i].owner \in Owners
      OBVIOUS
    <3>2. i = n \/ i < n
      BY <2>2, <3>1
    <3>3. QED
      BY <2>3, <2>4, <2>5, <3>1, <3>2
  <2>7. Learnt(c)'
    BY <2>4, <2>5, <2>6 DEF Learnt
  <2>8. QED
    BY <1>2, <2>4, <2>7
<1>8. ASSUME NEW c \in Calls, Behind(c)
      PROVE  LearntInv'
  <2>1. Elsewhere(c) /\ pc'[c] = "behind"
    BY <1>0, <1>8 DEF Behind, Goto, ResolvingTyped
  <2>2. Learnt(c)'
    BY <2>1 DEF Learnt, Resolving
  <2>3. QED
    BY <1>2, <2>1, <2>2
<1>9. QED
  BY <1>3, <1>4, <1>5, <1>6, <1>7, <1>8, StepsOfCalls
     DEF Resolve, resolving, Slot, Begin, Unusable, Ends

LEMMA LearntStart ==
    ASSUME Init
    PROVE  LearntInv
<1>1. \A c \in Calls : pc[c] = "idle"
  BY DEF Init, ResolutionInit
<1>2. QED
  BY <1>1, KnownStart DEF LearntInv, Learnt, Resolving

\* What the human decides, and what the tools told the human.
HumanInv ==
    /\ purpose \in [Calls -> {"none", "draft", "verify", "status"}]
    /\ payee \in Owners \cup {ByName}
    /\ draft # None => Unsigned(draft)
    /\ approved # None => approved.wallet \in Owners /\ approved.id \in {Id, NoId}
    /\ report # None => report.open \in {"yes", "no", "unknown"} /\ report.corroborated \in BOOLEAN
    /\ ApprovedDoesNothingElse

LEMMA PayeeIsKnown ==
    ASSUME LearntInv, HumanInv, NEW c \in Calls, Ready(c)
    PROVE  PayTo(c) \in Owners
<1>1. CASE payee = ByName
  <2>1. pc[c] = "resolved" /\ Len(answers[c]) = 2
    BY <1>1 DEF Ready, LearntInv, KnownInv, FloorIsTold
  <2>2. answers[c][1].owner \in Owners
    BY <2>1 DEF LearntInv, Learnt, Resolving
  <2>3. QED
    BY <1>1, <2>2 DEF PayTo, Wallet
<1>2. CASE payee # ByName
  BY <1>2 DEF HumanInv, PayTo
<1>3. QED
  BY <1>1, <1>2

\* draft_deposit writes no negative number.
LEMMA DraftedIsUnsigned ==
    ASSUME NEW commitment, NEW n
    PROVE  Unsigned(Drafted(Id, commitment, n))
<1> DEFINE a == AdvanceIx(Nonce)
           l == BudgetIx("limit", Limit)
           p == BudgetIx("price", Price)
           d == DepositIx(Id, commitment, n)
           s == Drafted(Id, commitment, n).ixs
           Fine(x) == /\ x.prog = "system" => x.lamports \in Nat
                      /\ x.prog = "budget" => x.value \in Nat
<1>1. Fine(a) /\ Fine(l) /\ Fine(p) /\ Fine(d)
  BY DraftAssumption DEF AdvanceIx, BudgetIx, DepositIx
<1>2. \A i \in DOMAIN s : s[i] \in {a, l, p, d}
  <2>1. CASE Nonce = NoNonce
    <3>1. s = <<l, p, d>>
      BY <2>1 DEF Drafted
    <3> HIDE DEF a, l, p, d, s
    <3>2. DOMAIN s = 1 .. 3 /\ s[1] = l /\ s[2] = p /\ s[3] = d
      BY <3>1
    <3>3. QED
      BY <3>2
  <2>2. CASE Nonce # NoNonce
    <3>1. s = <<a>> \o <<l, p, d>>
      BY <2>2 DEF Drafted
    <3> HIDE DEF a, l, p, d, s
    <3>2. DOMAIN s = 1 .. 4 /\ s[1] = a /\ s[2] = l /\ s[3] = p /\ s[4] = d
      BY <3>1, OneAndThree, {a, l, p, d} = {a, l, p, d}
    <3>3. QED
      BY <3>2
  <2>3. QED
    BY <2>1, <2>2
<1> HIDE DEF a, l, p, d
<1>3. QED
  BY <1>1, <1>2 DEF Unsigned

LEMMA HumanStep ==
    ASSUME LearntInv, HumanInv, [Next]_vars
    PROVE  HumanInv'
<1>0. UNCHANGED <<purpose, payee>>
  BY DEF Next, Step, vars, DraftDeposit, DraftFails, VerifyDraft, RefuseDraft, Status, Done, Land, Squat, Close
<1>1. CASE UNCHANGED <<draft, approved, report>>
  BY <1>0, <1>1 DEF HumanInv, ApprovedDoesNothingElse
<1>2. ASSUME NEW c \in Calls, DraftDeposit(c)
      PROVE  HumanInv'
  BY <1>0, <1>2, DraftedIsUnsigned DEF DraftDeposit, HumanInv, ApprovedDoesNothingElse
<1>3. ASSUME NEW c \in Calls, VerifyDraft(c)
      PROVE  HumanInv'
  <2>1. PICK id \in {Id, NoId}, n \in Amounts, t \in Offers(PayTo(c)) \cup ({draft} \ {None}) :
           /\ Verified(t, PayTo(c), Salt, n, id)
           /\ approved' = [tx |-> t, wallet |-> PayTo(c), id |-> id, amount |-> n]
    BY <1>3 DEF VerifyDraft
  <2>2. /\ approved'.tx = t /\ approved'.wallet = PayTo(c)
        /\ approved'.id = id /\ approved'.amount = n
    BY <2>1
  <2>3. PayTo(c) \in Owners /\ n \in Nat
    BY <1>3, PayeeIsKnown, AmountsAssumption DEF VerifyDraft
  <2>4. Unsigned(t)
    BY <2>3, OffersAssumption DEF HumanInv
  <2>5. Leaves(t) = n /\ Charges(t) <= MaxFee /\ Advances(t) \subseteq {Nonce} \ {NoNonce}
    BY <2>1, <2>3, <2>4, VerifiedMoves, VerifiedFee, VerifiedAdvances
  <2>6. UNCHANGED <<draft, report>>
    BY <1>3 DEF VerifyDraft
  <2>7. QED
    BY <1>0, <2>2, <2>3, <2>5, <2>6 DEF HumanInv, ApprovedDoesNothingElse
<1>4. ASSUME NEW c \in Calls, Status(c)
      PROVE  HumanInv'
  <2>1. PICK a, b, answered, w : answered \in BOOLEAN /\ report' = Report(a, b, answered, w)
    BY <1>4 DEF Status
  <2>2. report'.open \in {"yes", "no", "unknown"} /\ report'.corroborated \in BOOLEAN
    BY <2>1 DEF Report, Open
  <2>3. QED
    BY <1>0, <1>4, <2>2 DEF Status, HumanInv, ApprovedDoesNothingElse
<1>5. QED
  BY <1>1, <1>2, <1>3, <1>4 DEF Next, Step, vars, human, DraftFails, RefuseDraft, Land, Squat, Close

LEMMA HumanStart ==
    ASSUME Init
    PROVE  HumanInv
BY PlansAssumption DEF Init, HumanInv, ApprovedDoesNothingElse

\* verify_draft: whatever was offered, and by whomever, what the human is told
\* to sign takes the amount from the depositor and a bounded fee, and touches
\* no nonce but the one that was configured.
THEOREM ApprovedIsBounded == Spec => []ApprovedDoesNothingElse
<1>1. Init => LearntInv /\ HumanInv
  BY LearntStart, HumanStart
<1>2. LearntInv /\ HumanInv /\ [Next]_vars => (LearntInv /\ HumanInv)'
  BY LearntStep, HumanStep
<1>3. HumanInv => ApprovedDoesNothingElse
  BY DEF HumanInv
<1>4. QED
  BY <1>1, <1>2, <1>3, PTL DEF Spec

-----------------------------------------------------------------------------
(***************************************************************************)
(* Types.                                                                  *)
(***************************************************************************)
\* What is remembered of the servers is about servers, and was written at a
\* reading of the clock.
MapsTyped ==
    /\ DOMAIN seen \in SUBSET Servers /\ DOMAIN told \in SUBSET Servers
    /\ \A s \in DOMAIN seen : seen[s].when \in 0 .. MaxClock

LEMMA RememberKeepsMaps ==
    ASSUME SeenIsTold, MapsTyped, NEW s \in Servers, NEW owner, NEW slot \in Nat,
           NEW now \in 0 .. MaxClock, Remember(s, owner, slot, now)
    PROVE  MapsTyped'
<1>1. CASE slot > Ceiling(s, now)
  BY <1>1 DEF Remember, MapsTyped
<1>2. CASE ~(slot > Ceiling(s, now))
  <2>1. DOMAIN told' = DOMAIN told \cup {s} /\ seen' \in Recorded(s, slot, now)
    BY <1>2, RememberTold
  <2>2. CASE slot <= Best(s)
    <3>1. seen' = seen
      BY <2>1, <2>2 DEF Recorded
    <3>2. QED
      BY <2>1, <3>1 DEF MapsTyped
  <2>3. CASE ~(slot <= Best(s))
    <3>1. PICK K \in SUBSET DOMAIN seen : /\ DOMAIN seen' = K \cup {s} /\ seen'[s].when = now
                                          /\ \A t \in K : t # s => seen'[t] = seen[t]
      BY <2>1, <2>3, RecordedMap
    <3>2. QED
      BY <2>1, <3>1 DEF MapsTyped
  <2>4. QED
    BY <2>2, <2>3
<1>3. QED
  BY <1>1, <1>2

LEMMA MapsStep ==
    ASSUME LearntInv, MapsTyped, [Next]_vars
    PROVE  MapsTyped'
<1>0. /\ ResolvingTyped /\ SeenIsTold /\ \A d \in Calls : FloorIsTold(d) /\ Learnt(d)
  BY DEF LearntInv, KnownInv
<1>1. CASE UNCHANGED <<seen, told>>
  BY <1>1 DEF MapsTyped
<1>2. ASSUME NEW c \in Calls, pc[c] = "wait"
      PROVE  Asked(c) \in Servers
  <2>1. Len(answers[c]) \in 1 .. 2 /\ ~(Len(Endpoints) < 2)
    BY <1>0, <1>2 DEF FloorIsTold, Learnt, Resolving
  <2>2. Len(answers[c]) = 1 \/ Len(answers[c]) = 2
    BY <2>1
  <2>3. QED
    BY <2>1, <2>2, TwoEndpoints DEF Asked
<1>3. ASSUME NEW c \in Calls, pc[c] = "wait", NEW a \in Says(c), NEW now \in 0 .. MaxClock,
             Remember(Asked(c), a[1], a[2], now)
      PROVE  MapsTyped'
  BY <1>0, <1>2, <1>3, SaysTyped, RememberKeepsMaps
<1>4. ASSUME NEW c \in Calls, Behind(c)
      PROVE  MapsTyped'
  BY <1>4 DEF Behind, Forget, Restrict, MapsTyped
<1>5. ASSUME NEW c \in Calls, Reply(c) \/ Unusable(c)
      PROVE  MapsTyped'
  <2>1. CASE Reply(c)
    BY <1>3, <2>1 DEF Reply
  <2>2. CASE Unusable(c)
    BY <1>1, <1>3, <2>2 DEF Unusable
  <2>3. QED
    BY <1>5, <2>1, <2>2
<1>6. QED
  BY <1>1, <1>4, <1>5, StepsOfCalls DEF Resolve, resolving, Slot, Begin, Ask, Ends

\* The chain has a slot, and no more than its bound; at most one server lies.
ChainTyped == Now \in 1 .. MaxSlot /\ liar \in SUBSET Servers /\ Cardinality(liar) <= 1

LEMMA ChainTypedStep ==
    ASSUME LearntInv, ChainTyped, [Next]_vars
    PROVE  ChainTyped'
<1>1. UNCHANGED liar /\ (UNCHANGED history \/ Slot)
  BY DEF Next, Step, vars, human, resolving, registry, Resolve, Begin, Ask, Reply, Behind, Unusable,
         DraftDeposit, DraftFails, VerifyDraft, RefuseDraft, Status, Done, Land, Squat, Close, Slot
<1>2. CASE UNCHANGED history
  BY <1>1, <1>2 DEF ChainTyped, Now
<1>3. CASE Slot
  <2>1. PICK o \in Holders : history' = Append(history, o) /\ Now < MaxSlot
    BY <1>3 DEF Slot, Holders
  <2>2. history \in Seq(Holders)
    BY DEF LearntInv, KnownInv, ResolvingTyped
  <2>3. Now \in Nat /\ Now' = Now + 1
    BY <2>1, <2>2, AppendProperties DEF Now
  <2>4. QED
    BY <1>1, <2>1, <2>3, LagAssumption DEF ChainTyped
<1>4. QED
  BY <1>1, <1>2, <1>3

LEMMA TypedStart ==
    ASSUME Init
    PROVE  MapsTyped /\ ChainTyped
<1>1. seen = <<>> /\ told = <<>> /\ DOMAIN seen = {} /\ DOMAIN told = {}
  BY DEF Init, ResolutionInit
<1>2. Now = 1
  BY DEF Init, ResolutionInit, Now
<1>3. liar \in SUBSET Servers /\ Cardinality(liar) <= 1
  <2>1. CASE liar = {}
    <3>1. Cardinality({}) = 0
      BY FS_EmptySet
    <3>2. QED
      BY <2>1, <3>1
  <2>2. ASSUME NEW s \in Servers, liar = {s}
        PROVE  liar \in SUBSET Servers /\ Cardinality(liar) <= 1
    <3>1. Cardinality({s}) = 1
      BY FS_Singleton
    <3>2. QED
      BY <2>2, <3>1
  <2>3. QED
    BY <2>1, <2>2 DEF Init, ResolutionInit
<1>4. QED
  BY <1>1, <1>2, <1>3, LagAssumption DEF MapsTyped, ChainTyped

\* The variables of the resolution and of the three tools keep their types: no
\* call holds more than two answers, nothing is remembered of what is no
\* server, and the human only ever deals with owners.
THEOREM TypeCorrect == Spec => []TypeOK
<1>1. Init => LearntInv /\ HumanInv /\ MapsTyped /\ ChainTyped
  BY LearntStart, HumanStart, TypedStart
<1>2. LearntInv /\ HumanInv /\ MapsTyped /\ ChainTyped /\ [Next]_vars
        => (LearntInv /\ HumanInv /\ MapsTyped /\ ChainTyped)'
  BY LearntStep, HumanStep, MapsStep, ChainTypedStep
<1>3. LearntInv /\ HumanInv /\ MapsTyped /\ ChainTyped => TypeOK
  <2> SUFFICES ASSUME LearntInv, HumanInv, MapsTyped, ChainTyped
               PROVE  TypeOK
    OBVIOUS
  <2>1. history \in UNION {[1 .. n -> Owners \cup {Nobody}] : n \in 1 .. MaxSlot}
    <3>1. history \in [1 .. Now -> Holders] /\ Now \in 1 .. MaxSlot
      BY DEF LearntInv, KnownInv, ResolvingTyped, ChainTyped, Now
    <3>2. QED
      BY <3>1 DEF Holders
  <2>2. /\ \A s \in DOMAIN seen : seen[s].slot \in Nat
        /\ \A s \in DOMAIN told : told[s] \in Nat
        /\ pc \in [Calls -> Places] /\ floor \in [Calls -> Nat]
    BY DEF LearntInv, KnownInv, SeenIsTold, ResolvingTyped
  <2>3. ASSUME NEW c \in Calls
        PROVE  Len(answers[c]) \in 0 .. 2
    <3>1. pc[c] \in Places /\ FloorIsTold(c) /\ Learnt(c) /\ Len(answers[c]) \in Nat
      BY <2>2 DEF LearntInv, KnownInv, ResolvingTyped
    <3>2. \/ answers[c] = <<>> \/ Len(answers[c]) < 2
          \/ Len(answers[c]) \in 1 .. 2 \/ Len(answers[c]) = 2
      BY <3>1 DEF Places, FloorIsTold, Learnt
    <3> DEFINE n == Len(answers[c])
    <3>3. n \in Nat /\ (n = 0 \/ n < 2 \/ n \in 1 .. 2 \/ n = 2)
      BY <3>1, <3>2, Len(<<>>) = 0
    <3> HIDE DEF n
    <3>4. n \in 0 .. 2
      BY <3>3
    <3>5. QED
      BY <3>4 DEF n
  <2>4. ResolutionTypeOK
    BY <2>1, <2>2, <2>3 DEF ResolutionTypeOK, Places, MapsTyped, ChainTyped
  <2>5. QED
    BY <2>4 DEF HumanInv, TypeOK
<1>4. QED
  BY <1>1, <1>2, <1>3, PTL DEF Spec
=============================================================================
