---------------------------- MODULE FSUtilProofs ----------------------------
(***************************************************************************)
(* What TLAPS proves of FSUtil for every set of names, callers, calls,     *)
(* file systems and guarded directories, and any number of calls and of    *)
(* links within each other.                                                *)
(*                                                                         *)
(* A call's frames rely on what they read before, while the other callers  *)
(* change the file system.  What they may rely on still comes from         *)
(* SamePlaces: as long as no link is put anywhere, a path that leads to    *)
(* something leads where it did.  Upon it stands the inductive invariant   *)
(* FSInv, of which every part is kept by the steps of the caller itself    *)
(* (OwnStep) and by the steps of the others (Bystander).                   *)
(*                                                                         *)
(* Upon FSInv stands AllAlone, what a call has done so far that no other   *)
(* comes between: it is the file system it began with, less what Rm has    *)
(* removed, each frame of Rm at a path one shorter than the next, or more  *)
(* by the directories that Mkdir has made.                                 *)
(***************************************************************************)
EXTENDS FSUtil, SequenceFacts

Places == Paths \cup {Nowhere}

LEMMA Constants == MaxLinks \in Nat /\ MaxCalls \in Nat /\ Nowhere \notin Paths
BY FSAssumption

-----------------------------------------------------------------------------
(***************************************************************************)
(* Paths.                                                                  *)
(***************************************************************************)
LEMMA PathFacts ==
    /\ <<>> \in Paths
    /\ \A p \in Paths : p # <<>> => /\ Front(p) \in Paths /\ Last(p) \in Names
                                    /\ p = Append(Front(p), Last(p))
                                    /\ Len(p) \in Nat /\ Len(Front(p)) = Len(p) - 1
    /\ \A d \in Paths, x \in Names : /\ Append(d, x) \in Paths /\ Append(d, x) # <<>>
                                     /\ Front(Append(d, x)) = d /\ Last(Append(d, x)) = x
<1>1. <<>> \in Paths
  BY DEF Paths
<1>2. ASSUME NEW p \in Paths, p # <<>>
      PROVE  /\ Front(p) \in Paths /\ Last(p) \in Names
             /\ p = Append(Front(p), Last(p))
             /\ Len(p) \in Nat /\ Len(Front(p)) = Len(p) - 1
  <2>1. p \in Seq(Names) /\ Len(p) \in Nat /\ Len(p) >= 1
    BY <1>2 DEF Paths
  <2>2. Front(p) = SubSeq(p, 1, Len(p) - 1) /\ Last(p) = p[Len(p)]
    BY DEF Front, Last
  <2>3. Front(p) \in Seq(Names) /\ Last(p) \in Names
    BY <2>1, <2>2
  <2>4. p = Append(SubSeq(p, 1, Len(p) - 1), p[Len(p)]) /\ Len(SubSeq(p, 1, Len(p) - 1)) = Len(p) - 1
    <3> DEFINE f == SubSeq(p, 1, Len(p) - 1)
               x == p[Len(p)]
    <3>1. f \in Seq(Names) /\ Len(f) = Len(p) - 1 /\ \A i \in 1..Len(f) : p[i] = f[i]
      <4> DEFINE n == Len(p) - 1
      <4>1. n \in Nat /\ n <= Len(p) /\ n = Len(p) - 1
        BY <2>1
      <4>2. f = SubSeq(p, 1, n)
        OBVIOUS
      <4> HIDE DEF n
      <4>3. SubSeq(p, 1, n) \in Seq(Names) /\ Len(SubSeq(p, 1, n)) = n
        BY <2>1, <4>1
      <4>4. \A i \in 1..n : SubSeq(p, 1, n)[i] = p[i]
        BY <2>1, <4>1
      <4> HIDE DEF f
      <4> QED
        BY <4>1, <4>2, <4>3, <4>4
    <3>2. x \in Names /\ Len(f) + 1 = Len(p)
      BY <2>1, <3>1
    <3>3. p \in [1..Len(f) + 1 -> Names] /\ p[Len(f) + 1] = x
      BY <2>1, <3>2
    <3> HIDE DEF f, x
    <3> QED
      BY <3>1, <3>2, <3>3, AppendIs DEF f, x
  <2> QED
    BY <2>1, <2>2, <2>3, <2>4 DEF Paths
<1>3. ASSUME NEW d \in Paths, NEW x \in Names
      PROVE  /\ Append(d, x) \in Paths /\ Append(d, x) # <<>>
             /\ Front(Append(d, x)) = d /\ Last(Append(d, x)) = x
  <2>1. d \in Seq(Names)
    BY DEF Paths
  <2>2. Append(d, x) \in Seq(Names) /\ Len(Append(d, x)) = Len(d) + 1 /\ Append(d, x)[Len(d) + 1] = x
    BY <2>1
  <2>3. Append(d, x) # <<>> /\ Len(d) \in Nat
    BY <2>1, <2>2
  <2> DEFINE s == Append(d, x)
             f == SubSeq(s, 1, Len(s) - 1)
  <2>4. f \in Seq(Names) /\ Len(f) = Len(d) /\ \A i \in 1..Len(d) : f[i] = d[i]
    BY <2>1, <2>2
  <2>5. f = d
    <3> HIDE DEF f
    <3> QED
      BY <2>1, <2>4
  <2>6. Front(s) = d /\ Last(s) = x
    BY <2>2, <2>3, <2>5 DEF Front, Last
  <2> QED
    BY <2>2, <2>3, <2>6 DEF Paths
<1> QED
  BY <1>1, <1>2, <1>3

\* What is so of the empty path, and of a path if it is so of the one without the last name, is
\* so of every path.
LEMMA PathInduction ==
    ASSUME NEW T \in SUBSET Paths, <<>> \in T,
           \A p \in Paths : p # <<>> /\ Front(p) \in T => p \in T
    PROVE  T = Paths
<1> DEFINE U == {n \in Nat : \A p \in Paths : Len(p) = n => p \in T}
<1>1. 0 \in U
  <2>1. \A p \in Paths : Len(p) = 0 => p = <<>>
    BY DEF Paths
  <2> QED
    BY <2>1
<1>2. ASSUME NEW n \in U
      PROVE  n + 1 \in U
  <2>1. ASSUME NEW p \in Paths, Len(p) = n + 1
        PROVE  p \in T
    <3>1. n \in Nat /\ p # <<>>
      BY <2>1 DEF Paths
    <3>2. Front(p) \in Paths /\ Len(Front(p)) = n
      BY <3>1, <2>1, PathFacts
    <3> QED
      BY <3>1, <3>2
  <2> QED
    BY <2>1
<1>3. U = Nat
  <2>1. U \in SUBSET Nat
    OBVIOUS
  <2> HIDE DEF U
  <2> QED
    BY <1>1, <1>2, <2>1, Induction
<1>4. \A p \in Paths : Len(p) \in Nat
  BY DEF Paths
<1> QED
  BY <1>3, <1>4

-----------------------------------------------------------------------------
(***************************************************************************)
(* File systems.                                                           *)
(***************************************************************************)
LEMMA NodeKinds ==
    /\ Dir.kind = "dir" /\ Socket.kind = "socket" /\ NewFile.kind = "file"
    /\ \A p : Link(p).kind = "link" /\ Link(p).to = p
    /\ \A node : IsNode(node) /\ node.kind = "dir" => node = Dir
    /\ \A node : IsNode(node) /\ node.kind = "link" => node.to \in Paths
    /\ IsNode(Dir) /\ IsNode(NewFile) /\ \A p \in Paths : IsNode(Link(p))
BY DEF Dir, Socket, NewFile, File, Link, IsNode

LEMMA SystemFacts ==
    ASSUME NEW t, IsFileSystem(t)
    PROVE  /\ DOMAIN t \subseteq Paths /\ <<>> \in DOMAIN t /\ Nowhere \notin DOMAIN t
           /\ t[<<>>] = Dir /\ Is(t, <<>>, "dir") /\ ~Is(t, <<>>, "link")
           /\ ~Is(t, Nowhere, "dir") /\ ~Is(t, Nowhere, "link")
           /\ \A q : Is(t, q, "link") => q \in DOMAIN t /\ t[q].to \in Paths /\ ~Is(t, q, "dir")
           /\ \A q : Is(t, q, "dir") <=> q \in DOMAIN t /\ t[q] = Dir
           /\ \A q : Is(t, q, "dir") => q \in Paths
           /\ \A q \in DOMAIN t : q # <<>> => Is(t, Front(q), "dir")
<1>1. /\ DOMAIN t \subseteq Paths /\ <<>> \in DOMAIN t /\ t[<<>>] = Dir
      /\ \A q \in DOMAIN t : IsNode(t[q]) /\ (q # <<>> => Front(q) \in DOMAIN t /\ t[Front(q)] = Dir)
  BY DEF IsFileSystem
<1>2. Dir.kind = "dir" /\ Dir.kind # "link"
  BY NodeKinds
<1> QED
  BY <1>1, <1>2, NodeKinds, Constants DEF Is

-----------------------------------------------------------------------------
(***************************************************************************)
(* Where paths lead.                                                       *)
(***************************************************************************)
LEMMA EnterTyped ==
    ASSUME NEW t, IsFileSystem(t), NEW links \in [Paths -> Places], NEW d \in Places, NEW x \in Names
    PROVE  Enter(t, d, x, links) \in Places
<1>1. CASE ~Is(t, d, "dir")
  BY <1>1 DEF Enter, Places
<1>2. CASE Is(t, d, "dir")
  <2> DEFINE q == Append(d, x)
  <2>1. q \in Paths
    BY <1>2, SystemFacts, PathFacts
  <2>2. Is(t, q, "link") => t[q].to \in Paths
    BY SystemFacts
  <2>3. Enter(t, d, x, links) = IF Is(t, q, "link") THEN links[t[q].to] ELSE q
    BY <1>2 DEF Enter
  <2> HIDE DEF q
  <2> QED
    BY <2>1, <2>2, <2>3 DEF Places
<1> QED
  BY <1>1, <1>2

\* w[i] is where the first i names of p lead.
Walks(w, t, p, links) ==
    /\ w \in [0..Len(p) -> Places]
    /\ w[0] = <<>>
    /\ \A i \in 1..Len(p) : w[i] = Enter(t, w[i - 1], p[i], links)

LEMMA WalkExists ==
    ASSUME NEW t, IsFileSystem(t), NEW p \in Paths, NEW links \in [Paths -> Places]
    PROVE  \E w : Walks(w, t, p, links) /\ Walk(t, p, links) = w[Len(p)]
<1> DEFINE n == Len(p)
           D == [i \in 1..n |-> [d \in Places |-> Enter(t, d, p[i], links)]]
           F(f) == f = [i \in 0..n |-> IF i = 0 THEN <<>> ELSE Enter(t, f[i - 1], p[i], links)]
<1>1. n \in Nat /\ \A i \in 1..n : p[i] \in Names
  BY DEF Paths
<1>2. <<>> \in Places
  BY PathFacts DEF Places
<1>3. Walk(t, p, links) = (CHOOSE f : F(f))[n]
  BY Zenon DEF Walk
<1> HIDE DEF n
<1>4. Steps(D, n, Places)
  <2>1. \A i \in 1..n : \A d \in Places : Enter(t, d, p[i], links) \in Places
    BY <1>1, EnterTyped
  <2>2. \A i \in 1..n : [d \in Places |-> Enter(t, d, p[i], links)] \in [Places -> Places]
    BY <2>1, Zenon
  <2> QED
    BY <1>1, <2>2, Zenon DEF Steps
<1>5. PICK w : Computes(w, <<>>, D, n, Places)
  <2> HIDE DEF D
  <2> QED
    BY <1>2, <1>4, Recursion, Zenon
<1>6. w \in [0..n -> Places] /\ w[0] = <<>> /\ \A i \in 1..n : w[i] = D[i][w[i - 1]]
  BY <1>5, Zenon DEF Computes
<1>7. \A i \in 0..n : i # 0 => i \in 1..n
  BY <1>1
<1>8. \A i \in 1..n : i - 1 \in 0..n /\ i # 0
  BY <1>1
<1>9. \A i \in 1..n : w[i - 1] \in Places
  BY <1>6, <1>8, Zenon
<1>10. \A i \in 1..n : w[i] = Enter(t, w[i - 1], p[i], links)
  BY <1>6, <1>9, Zenon
<1>11. F(w)
  <2>1. \A i \in 0..n : w[i] = IF i = 0 THEN <<>> ELSE Enter(t, w[i - 1], p[i], links)
    BY <1>6, <1>7, <1>10, Zenon
  <2> QED
    BY <1>6, <2>1, Zenon
<1>12. PICK f : F(f) /\ Walk(t, p, links) = f[n]
  <2> HIDE DEF F
  <2> QED
    BY <1>3, <1>11, Zenon
<1>13. \A i \in 0..n : f[i] = IF i = 0 THEN <<>> ELSE Enter(t, f[i - 1], p[i], links)
  BY <1>12, Zenon
<1> DEFINE T == {i \in Nat : i <= n => f[i] = w[i]}
<1>14. 0 \in T
  <2>1. 0 \in 0..n
    BY <1>1
  <2> QED
    BY <1>6, <1>13, <2>1, Zenon
<1>15. ASSUME NEW i \in T
       PROVE  i + 1 \in T
  <2>0. i \in Nat /\ i + 1 \in Nat
    OBVIOUS
  <2>1. ASSUME i + 1 <= n
        PROVE  f[i + 1] = w[i + 1]
    <3>1. i + 1 \in 0..n /\ i + 1 \in 1..n /\ i + 1 # 0 /\ (i + 1) - 1 = i /\ f[i] = w[i]
      BY <1>1, <2>0, <2>1
    <3> HIDE DEF T
    <3> QED
      BY <1>10, <1>13, <3>1, Zenon
  <2> QED
    BY <2>0, <2>1
<1>16. T = Nat
  <2>1. T \in SUBSET Nat
    OBVIOUS
  <2> HIDE DEF T
  <2> QED
    BY <1>14, <1>15, <2>1, Induction
<1>17. f[n] = w[n]
  <2>1. n \in T /\ n <= n
    BY <1>1, <1>16
  <2> QED
    BY <2>1
<1>18. Walks(w, t, p, links)
  BY <1>6, <1>10, Zenon DEF Walks, n
<1> QED
  BY <1>12, <1>17, <1>18, Zenon DEF n

\* Two walks over paths that begin alike are at the same places as long as they do.
LEMMA WalksAgree ==
    ASSUME NEW t, NEW links, NEW p \in Paths, NEW q \in Paths, NEW v, NEW w,
           Walks(v, t, p, links), Walks(w, t, q, links),
           NEW m \in Nat, m <= Len(p), m <= Len(q), \A i \in 1..m : p[i] = q[i]
    PROVE  v[m] = w[m]
<1> DEFINE T == {i \in Nat : i <= m => v[i] = w[i]}
<1>1. 0 \in T
  BY DEF Walks
<1>2. ASSUME NEW i \in T
      PROVE  i + 1 \in T
  <2>0. i \in Nat /\ i + 1 \in Nat
    OBVIOUS
  <2>1. ASSUME i + 1 <= m
        PROVE  v[i + 1] = w[i + 1]
    <3>0. Len(p) \in Nat /\ Len(q) \in Nat
      BY DEF Paths
    <3>1. /\ i + 1 \in 1..m /\ i + 1 \in 1..Len(p) /\ i + 1 \in 1..Len(q)
          /\ (i + 1) - 1 = i /\ v[i] = w[i]
      BY <2>0, <2>1, <3>0
    <3> HIDE DEF T
    <3> QED
      BY <3>1, Zenon DEF Walks
  <2> QED
    BY <2>0, <2>1
<1>3. T = Nat
  <2>1. T \in SUBSET Nat
    OBVIOUS
  <2> HIDE DEF T
  <2> QED
    BY <1>1, <1>2, <2>1, Induction
<1>4. m \in T /\ m <= m
  BY <1>3
<1> QED
  BY <1>4

LEMMA WalkIs ==
    ASSUME NEW t, IsFileSystem(t), NEW p \in Paths, NEW links \in [Paths -> Places]
    PROVE  /\ Walk(t, p, links) \in Places
           /\ p = <<>> => Walk(t, p, links) = <<>>
           /\ p # <<>> => Walk(t, p, links) = Enter(t, Walk(t, Front(p), links), Last(p), links)
<1>1. PICK w : Walks(w, t, p, links) /\ Walk(t, p, links) = w[Len(p)]
  BY WalkExists
<1>2. Len(p) \in Nat /\ Len(p) \in 0..Len(p) /\ (p = <<>> => Len(p) = 0)
  BY DEF Paths
<1>3. Walk(t, p, links) \in Places /\ (p = <<>> => Walk(t, p, links) = <<>>)
  BY <1>1, <1>2, Zenon DEF Walks
<1>4. ASSUME p # <<>>
      PROVE  Walk(t, p, links) = Enter(t, Walk(t, Front(p), links), Last(p), links)
  <2> DEFINE f == Front(p)
             m == Len(f)
  <2>1. f \in Paths /\ m = Len(p) - 1
    BY <1>4, PathFacts
  <2>2. m \in Nat /\ m <= Len(p) /\ m <= m /\ Len(p) \in 1..Len(p)
    BY <2>1, <1>2 DEF Paths
  <2>3. \A i \in 1..m : f[i] = p[i]
    BY <2>1, <2>2 DEF Front, Paths
  <2> HIDE DEF f
  <2>4. PICK v : Walks(v, t, f, links) /\ Walk(t, f, links) = v[m]
    BY <2>1, WalkExists
  <2>5. v[m] = w[m]
    BY <1>1, <2>1, <2>2, <2>3, <2>4, WalksAgree
  <2>6. w[Len(p)] = Enter(t, w[Len(p) - 1], p[Len(p)], links)
    BY <1>1, <2>2, Zenon DEF Walks
  <2> QED
    BY <1>1, <2>1, <2>4, <2>5, <2>6 DEF f, Last
<1> QED
  BY <1>3, <1>4

LEMMA NoLinksTyped == NoLinks \in [Paths -> Places]
BY DEF NoLinks, Places

LEMMA WalkTyped ==
    ASSUME NEW t, IsFileSystem(t), NEW links \in [Paths -> Places]
    PROVE  [s \in Paths |-> Walk(t, s, links)] \in [Paths -> Places]
<1>1. \A s \in Paths : Walk(t, s, links) \in Places
  BY WalkIs
<1> QED
  BY <1>1, Zenon

\* l[i] says what every path leads to with at most i links within each other.
Leads(l, t, n) ==
    /\ l \in [0..n -> [Paths -> Places]]
    /\ l[0] = [s \in Paths |-> Walk(t, s, NoLinks)]
    /\ \A i \in 1..n : l[i] = [s \in Paths |-> Walk(t, s, l[i - 1])]

LEMMA LeadsExists ==
    ASSUME NEW t, IsFileSystem(t), NEW n \in Nat
    PROVE  \E l : Leads(l, t, n) /\ \A p : Target(t, p, n) = l[n][p]
<1> DEFINE S == [Paths -> Places]
           b == [s \in Paths |-> Walk(t, s, NoLinks)]
           D == [i \in 1..n |-> [links \in S |-> [s \in Paths |-> Walk(t, s, links)]]]
           F(f) == f = [i \in 0..n |-> [s \in Paths |-> Walk(t, s, IF i = 0 THEN NoLinks ELSE f[i - 1])]]
           G == CHOOSE f : F(f)
<1>3. \A p : Target(t, p, n) = G[n][p]
  BY Zenon DEF Target
<1> HIDE DEF G
<1>2. b \in S
  BY NoLinksTyped, WalkTyped, Zenon
<1>4. Steps(D, n, S)
  <2>1. \A links \in S : [s \in Paths |-> Walk(t, s, links)] \in S
    BY WalkTyped, Zenon
  <2>2. [links \in S |-> [s \in Paths |-> Walk(t, s, links)]] \in [S -> S]
    BY <2>1, Zenon
  <2>3. D \in [1..n -> [S -> S]]
    BY <2>2, Zenon
  <2> HIDE DEF D, S
  <2> QED
    BY <2>3 DEF Steps
<1>5. PICK l : Computes(l, b, D, n, S)
  <2> HIDE DEF D, S, b
  <2> QED
    BY <1>2, <1>4, Recursion, Zenon
<1>6. l \in [0..n -> S] /\ l[0] = b /\ \A i \in 1..n : l[i] = D[i][l[i - 1]]
  BY <1>5, Zenon DEF Computes
<1>7. \A i \in 0..n : i # 0 => i \in 1..n
  OBVIOUS
<1>8. \A i \in 1..n : i - 1 \in 0..n /\ i # 0
  OBVIOUS
<1>9. \A i \in 1..n : l[i - 1] \in S
  BY <1>6, <1>8, Zenon
<1>10. \A i \in 1..n : l[i] = [s \in Paths |-> Walk(t, s, l[i - 1])]
  BY <1>6, <1>9, Zenon
<1>11. F(l)
  <2>1. \A i \in 0..n : l[i] = [s \in Paths |-> Walk(t, s, IF i = 0 THEN NoLinks ELSE l[i - 1])]
    <3> TAKE i \in 0..n
    <3>2. CASE i = 0
      BY <3>2, <1>6, Zenon
    <3>3. CASE i # 0
      <4>1. l[i] = [s \in Paths |-> Walk(t, s, l[i - 1])]
        BY <3>3, <1>7, <1>10, Zenon
      <4> QED
        BY <3>3, <4>1, Zenon
    <3> QED
      BY <3>2, <3>3
  <2> QED
    BY <1>6, <2>1, Zenon
<1>12. F(G)
  <2> HIDE DEF F
  <2> QED
    BY <1>11, Zenon DEF G
<1>13. \A i \in 0..n : G[i] = [s \in Paths |-> Walk(t, s, IF i = 0 THEN NoLinks ELSE G[i - 1])]
  BY <1>12, Zenon
<1> DEFINE T == {i \in Nat : i <= n => G[i] = l[i]}
<1>14. 0 \in T
  <2>1. 0 \in 0..n
    OBVIOUS
  <2>2. G[0] = b
    BY <1>13, <2>1, Zenon
  <2> QED
    BY <1>6, <2>2
<1>15. ASSUME NEW i \in T
       PROVE  i + 1 \in T
  <2>0. i \in Nat /\ i + 1 \in Nat
    OBVIOUS
  <2>1. ASSUME i + 1 <= n
        PROVE  G[i + 1] = l[i + 1]
    <3>1. i + 1 \in 0..n /\ i + 1 \in 1..n /\ i + 1 # 0 /\ (i + 1) - 1 = i /\ G[i] = l[i]
      BY <2>0, <2>1
    <3> HIDE DEF T
    <3>2. G[i + 1] = [s \in Paths |-> Walk(t, s, G[i])]
      <4>1. G[i + 1] = [s \in Paths |-> Walk(t, s, IF i + 1 = 0 THEN NoLinks ELSE G[(i + 1) - 1])]
        BY <1>13, <3>1, Zenon
      <4> QED
        BY <4>1, <3>1, Zenon
    <3>3. l[i + 1] = [s \in Paths |-> Walk(t, s, l[i])]
      <4>1. l[i + 1] = [s \in Paths |-> Walk(t, s, l[(i + 1) - 1])]
        BY <1>10, <3>1, Zenon
      <4> QED
        BY <4>1, <3>1, Zenon
    <3> QED
      BY <3>1, <3>2, <3>3, Zenon
  <2> QED
    BY <2>0, <2>1
<1>16. T = Nat
  <2>1. T \in SUBSET Nat
    OBVIOUS
  <2> HIDE DEF T
  <2> QED
    BY <1>14, <1>15, <2>1, Induction
<1>17. G[n] = l[n]
  <2>1. n \in T /\ n <= n
    BY <1>16
  <2> QED
    BY <2>1
<1>18. Leads(l, t, n)
  BY <1>6, <1>10, Zenon DEF Leads
<1> QED
  BY <1>3, <1>17, <1>18, Zenon

LEMMA LeadsAgree ==
    ASSUME NEW t, NEW m \in Nat, NEW n \in Nat, NEW k, NEW l, Leads(k, t, m), Leads(l, t, n), m <= n
    PROVE  k[m] = l[m]
<1> DEFINE T == {i \in Nat : i <= m => k[i] = l[i]}
<1>1. 0 \in T
  BY Zenon DEF Leads
<1>2. ASSUME NEW i \in T
      PROVE  i + 1 \in T
  <2>0. i \in Nat /\ i + 1 \in Nat
    OBVIOUS
  <2>1. ASSUME i + 1 <= m
        PROVE  k[i + 1] = l[i + 1]
    <3>1. i + 1 \in 1..m /\ i + 1 \in 1..n /\ (i + 1) - 1 = i /\ k[i] = l[i]
      BY <2>0, <2>1
    <3> HIDE DEF T
    <3>2. /\ k[i + 1] = [s \in Paths |-> Walk(t, s, k[(i + 1) - 1])]
          /\ l[i + 1] = [s \in Paths |-> Walk(t, s, l[(i + 1) - 1])]
      BY <3>1, Zenon DEF Leads
    <3> QED
      BY <3>1, <3>2, Zenon
  <2> QED
    BY <2>0, <2>1
<1>3. T = Nat
  <2>1. T \in SUBSET Nat
    OBVIOUS
  <2> HIDE DEF T
  <2> QED
    BY <1>1, <1>2, <2>1, Induction
<1>4. m \in T /\ m <= m
  BY <1>3
<1> QED
  BY <1>4

\* What the links of t lead to, if n - 1 more may follow.
LinksOf(t, n) == IF n = 0 THEN NoLinks ELSE [s \in Paths |-> Target(t, s, n - 1)]

LEMMA TargetWalk ==
    ASSUME NEW t, IsFileSystem(t), NEW n \in Nat
    PROVE  /\ LinksOf(t, n) \in [Paths -> Places]
           /\ \A p \in Paths : Target(t, p, n) = Walk(t, p, LinksOf(t, n))
<1>1. PICK l : Leads(l, t, n) /\ \A p : Target(t, p, n) = l[n][p]
  BY LeadsExists
<1>2. CASE n = 0
  <2>1. LinksOf(t, n) = NoLinks
    BY <1>2 DEF LinksOf
  <2>2. \A p \in Paths : Target(t, p, n) = Walk(t, p, NoLinks)
    BY <1>1, <1>2, Zenon DEF Leads
  <2> QED
    BY <2>1, <2>2, NoLinksTyped
<1>3. CASE n # 0
  <2> DEFINE m == n - 1
  <2>1. m \in Nat /\ m <= n /\ m \in 0..n /\ n \in 1..n
    BY <1>3
  <2>2. PICK k : Leads(k, t, m) /\ \A p : Target(t, p, m) = k[m][p]
    BY <2>1, LeadsExists
  <2>3. k[m] = l[m] /\ l[m] \in [Paths -> Places]
    <3>1. k[m] = l[m]
      BY <1>1, <2>1, <2>2, LeadsAgree
    <3> QED
      BY <3>1, <1>1, <2>1 DEF Leads
  <2>4. LinksOf(t, n) = [s \in Paths |-> Target(t, s, m)]
    BY <1>3 DEF LinksOf
  <2>5. l[n] = [s \in Paths |-> Walk(t, s, l[m])]
    BY <1>1, <2>1, Zenon DEF Leads
  <2> HIDE DEF m
  <2>6. LinksOf(t, n) = l[m]
    <3>1. \A s \in Paths : Target(t, s, m) = l[m][s]
      BY <2>2, <2>3, Zenon
    <3> QED
      BY <3>1, <2>3, <2>4, Zenon
  <2>7. \A p \in Paths : Target(t, p, n) = Walk(t, p, l[m])
    BY <1>1, <2>5, Zenon
  <2> QED
    BY <2>3, <2>6, <2>7, Zenon
<1> QED
  BY <1>2, <1>3

\* Target by itself, as the last name of the path decides.
LEMMA TargetIs ==
    ASSUME NEW t, IsFileSystem(t), NEW p \in Paths, NEW n \in Nat
    PROVE  /\ Target(t, p, n) \in Places
           /\ Target(t, <<>>, n) = <<>>
           /\ p # <<>> => Target(t, p, n) =
                 LET d == Target(t, Front(p), n)
                     q == Append(d, Last(p))
                 IN  IF ~Is(t, d, "dir") THEN Nowhere
                     ELSE IF ~Is(t, q, "link") THEN q
                     ELSE IF n = 0 THEN Nowhere ELSE Target(t, t[q].to, n - 1)
<1> DEFINE links == LinksOf(t, n)
<1>1. links \in [Paths -> Places] /\ \A s \in Paths : Target(t, s, n) = Walk(t, s, links)
  BY TargetWalk
<1>2. \A s \in Paths : n # 0 => links[s] = Target(t, s, n - 1)
  BY Zenon DEF LinksOf
<1>3. \A s \in Paths : n = 0 => links[s] = Nowhere
  BY DEF LinksOf, NoLinks
<1> HIDE DEF links
<1>4. Target(t, p, n) \in Places /\ Target(t, <<>>, n) = <<>>
  BY <1>1, WalkIs, PathFacts
<1>5. ASSUME p # <<>>
      PROVE  Target(t, p, n) = Enter(t, Target(t, Front(p), n), Last(p), links)
  BY <1>1, <1>5, WalkIs, PathFacts
<1>6. \A d, x : LET q == Append(d, x)
                IN  Enter(t, d, x, links) =
                       IF ~Is(t, d, "dir") THEN Nowhere
                       ELSE IF ~Is(t, q, "link") THEN q
                       ELSE IF n = 0 THEN Nowhere ELSE Target(t, t[q].to, n - 1)
  <2> TAKE d, x
  <2> DEFINE q == Append(d, x)
  <2>1. Is(t, q, "link") => t[q].to \in Paths
    BY SystemFacts
  <2>2. Enter(t, d, x, links) = IF ~Is(t, d, "dir") THEN Nowhere
                                ELSE IF Is(t, q, "link") THEN links[t[q].to] ELSE q
    BY Zenon DEF Enter
  <2> HIDE DEF q
  <2>3. Enter(t, d, x, links) = IF ~Is(t, d, "dir") THEN Nowhere
                                ELSE IF ~Is(t, q, "link") THEN q
                                ELSE IF n = 0 THEN Nowhere ELSE Target(t, t[q].to, n - 1)
    BY <1>2, <1>3, <2>1, <2>2, Zenon
  <2> QED
    BY <2>3, Zenon DEF q
<1> QED
  BY <1>4, <1>5, <1>6, Zenon

LEMMA PlaceIs ==
    ASSUME NEW t, IsFileSystem(t), NEW p \in Paths, NEW n \in Nat
    PROVE  /\ Place(t, p, n) \in Places
           /\ Place(t, <<>>, n) = <<>>
           /\ p # <<>> => Place(t, p, n) = IF Is(t, Target(t, Front(p), n), "dir")
                                           THEN Append(Target(t, Front(p), n), Last(p)) ELSE Nowhere
           /\ p # <<>> => Place(t, p, n) # <<>>
           /\ Place(t, p, n) \notin {Nowhere, <<>>} => Is(t, Front(Place(t, p, n)), "dir")
<1>1. Place(t, <<>>, n) = <<>>
  BY Zenon DEF Place
<1>2. ASSUME p # <<>>
      PROVE  Place(t, p, n) = IF Is(t, Target(t, Front(p), n), "dir")
                              THEN Append(Target(t, Front(p), n), Last(p)) ELSE Nowhere
  BY <1>2, Zenon DEF Place
<1>3. CASE p = <<>>
  BY <1>1, <1>3, PathFacts DEF Places
<1>4. CASE p # <<>> /\ Is(t, Target(t, Front(p), n), "dir")
  <2> DEFINE d == Target(t, Front(p), n)
  <2>1. d \in Paths /\ Last(p) \in Names /\ Is(t, d, "dir")
    BY <1>4, PathFacts, SystemFacts
  <2>2. Place(t, p, n) = Append(d, Last(p))
    BY <1>2, <1>4
  <2> HIDE DEF d
  <2>3. Place(t, p, n) \in Paths /\ Place(t, p, n) # <<>> /\ Front(Place(t, p, n)) = d
    BY <2>1, <2>2, PathFacts
  <2> QED
    BY <1>1, <1>2, <2>1, <2>3 DEF Places
<1>5. CASE p # <<>> /\ ~Is(t, Target(t, Front(p), n), "dir")
  BY <1>1, <1>2, <1>5, Constants, PathFacts DEF Places
<1> QED
  BY <1>3, <1>4, <1>5

LEMMA TargetPlace ==
    ASSUME NEW t, IsFileSystem(t), NEW p \in Paths, NEW n \in Nat
    PROVE  LET q == Place(t, p, n)
           IN  Target(t, p, n) = IF ~Is(t, q, "link") THEN q
                                 ELSE IF n = 0 THEN Nowhere ELSE Target(t, t[q].to, n - 1)
<1> DEFINE q == Place(t, p, n)
           d == Target(t, Front(p), n)
<1>1. CASE p = <<>>
  BY <1>1, PlaceIs, TargetIs, SystemFacts, PathFacts
<1>2. CASE p # <<>> /\ Is(t, d, "dir")
  <2>1. q = Append(d, Last(p))
    BY <1>2, PlaceIs
  <2>2. Target(t, p, n) = IF ~Is(t, Append(d, Last(p)), "link") THEN Append(d, Last(p))
                          ELSE IF n = 0 THEN Nowhere ELSE Target(t, t[Append(d, Last(p))].to, n - 1)
    BY <1>2, TargetIs, Zenon
  <2> QED
    BY <2>1, <2>2, Zenon
<1>3. CASE p # <<>> /\ ~Is(t, d, "dir")
  <2>1. q = Nowhere /\ ~Is(t, Nowhere, "link")
    BY <1>3, PlaceIs, SystemFacts
  <2>2. Target(t, p, n) = Nowhere
    BY <1>3, TargetIs
  <2> QED
    BY <2>1, <2>2
<1> QED
  BY <1>1, <1>2, <1>3

\* What a path leads to is in a directory, is the root or is nowhere.
LEMMA TargetInDir ==
    ASSUME NEW t, IsFileSystem(t), NEW n \in Nat
    PROVE  \A p \in Paths : Target(t, p, n) \notin {Nowhere, <<>>} => Is(t, Front(Target(t, p, n)), "dir")
<1> DEFINE Good(k) == \A p \in Paths :
                Target(t, p, k) \notin {Nowhere, <<>>} => Is(t, Front(Target(t, p, k)), "dir")
           T == {k \in Nat : Good(k)}
<1>1. 0 \in T
  <2>1. ASSUME NEW p \in Paths, Target(t, p, 0) \notin {Nowhere, <<>>}
        PROVE  Is(t, Front(Target(t, p, 0)), "dir")
    <3>1. Target(t, p, 0) = Place(t, p, 0)
      BY <2>1, TargetPlace
    <3> QED
      BY <2>1, <3>1, PlaceIs
  <2> QED
    BY <2>1
<1>2. ASSUME NEW k \in T
      PROVE  k + 1 \in T
  <2>0. k + 1 \in Nat /\ (k + 1) - 1 = k /\ k + 1 # 0 /\ Good(k)
    OBVIOUS
  <2>1. ASSUME NEW p \in Paths, Target(t, p, k + 1) \notin {Nowhere, <<>>}
        PROVE  Is(t, Front(Target(t, p, k + 1)), "dir")
    <3> DEFINE q == Place(t, p, k + 1)
    <3>1. CASE ~Is(t, q, "link")
      BY <2>0, <2>1, <3>1, TargetPlace, PlaceIs
    <3>2. CASE Is(t, q, "link")
      <4>1. Target(t, p, k + 1) = Target(t, t[q].to, (k + 1) - 1)
        BY <2>0, <3>2, TargetPlace, Zenon
      <4>2. t[q].to \in Paths
        BY <3>2, SystemFacts
      <4> QED
        BY <2>0, <2>1, <4>1, <4>2, Zenon
    <3> QED
      BY <3>1, <3>2
  <2>2. Good(k + 1)
    BY <2>1
  <2> QED
    BY <2>0, <2>2
<1>3. T = Nat
  <2>1. T \in SUBSET Nat
    OBVIOUS
  <2> HIDE DEF T
  <2> QED
    BY <1>1, <1>2, <2>1, Induction
<1>4. n \in T
  BY <1>3
<1> QED
  BY <1>4

-----------------------------------------------------------------------------
(***************************************************************************)
(* Where paths lead in two file systems, of which the second has no link   *)
(* that the first has not.                                                 *)
(***************************************************************************)
NoNewLinks(t, u) == \A q : Is(u, q, "link") => q \in DOMAIN t /\ t[q] = u[q]

SamePlace(t, u, p, n) == Place(u, p, n) \in DOMAIN t => Place(t, p, n) = Place(u, p, n)
SameTarget(t, u, p, n) ==
    Target(u, p, n) \in DOMAIN t /\ ~Is(t, Target(u, p, n), "link") => Target(t, p, n) = Target(u, p, n)

LEMMA SameFront ==
    ASSUME NEW t, IsFileSystem(t), NEW u, IsFileSystem(u), NEW n \in Nat,
           NEW p \in Paths, p # <<>>, SameTarget(t, u, Front(p), n)
    PROVE  SamePlace(t, u, p, n)
<1> DEFINE d == Target(u, Front(p), n)
           q == Place(u, p, n)
<1> SUFFICES ASSUME q \in DOMAIN t
             PROVE  Place(t, p, n) = q
  BY DEF SamePlace
<1>1. Is(u, d, "dir") /\ q = Append(d, Last(p))
  BY PlaceIs, SystemFacts
<1>2. d \in Paths /\ Last(p) \in Names
  BY <1>1, PathFacts, SystemFacts
<1>3. q # <<>> /\ Front(q) = d
  BY <1>1, <1>2, PathFacts
<1>4. Is(t, d, "dir")
  BY <1>3, SystemFacts
<1>5. d \in DOMAIN t /\ ~Is(t, d, "link")
  BY <1>4, SystemFacts
<1>6. Target(t, Front(p), n) = d
  BY <1>5 DEF SameTarget
<1> QED
  BY <1>1, <1>4, <1>6, PlaceIs

LEMMA SameLast ==
    ASSUME NEW t, IsFileSystem(t), NEW u, IsFileSystem(u), NoNewLinks(t, u), NEW n \in Nat,
           NEW p \in Paths, SamePlace(t, u, p, n),
           n # 0 => \A s \in Paths : SameTarget(t, u, s, n - 1)
    PROVE  SameTarget(t, u, p, n)
<1> DEFINE q == Place(u, p, n)
           d == Target(u, p, n)
<1> SUFFICES ASSUME d \in DOMAIN t, ~Is(t, d, "link")
             PROVE  Target(t, p, n) = d
  BY DEF SameTarget
<1>1. CASE ~Is(u, q, "link")
  <2>1. d = q
    BY <1>1, TargetPlace
  <2>2. Place(t, p, n) = q
    BY <2>1 DEF SamePlace
  <2> QED
    BY <2>1, <2>2, TargetPlace
<1>2. CASE Is(u, q, "link")
  <2>1. q \in DOMAIN t /\ t[q] = u[q] /\ Is(t, q, "link") /\ u[q].to \in Paths
    BY <1>2, SystemFacts DEF NoNewLinks, Is
  <2>2. Place(t, p, n) = q
    BY <2>1 DEF SamePlace
  <2>3. n # 0
    BY <1>2, TargetPlace, SystemFacts
  <2>4. d = Target(u, u[q].to, n - 1)
    BY <1>2, <2>3, TargetPlace, Zenon
  <2>5. Target(t, p, n) = Target(t, t[q].to, n - 1)
    BY <2>1, <2>2, <2>3, TargetPlace, Zenon
  <2>6. SameTarget(t, u, u[q].to, n - 1)
    BY <2>1, <2>3
  <2>7. Target(t, u[q].to, n - 1) = d
    BY <2>4, <2>6, Zenon DEF SameTarget
  <2> QED
    BY <2>1, <2>5, <2>7, Zenon
<1> QED
  BY <1>1, <1>2

\* A path that leads somewhere in u, at which t has something too, leads there in t as well.
LEMMA SamePlaces ==
    ASSUME NEW t, IsFileSystem(t), NEW u, IsFileSystem(u), NoNewLinks(t, u), NEW n \in Nat
    PROVE  \A p \in Paths : SamePlace(t, u, p, n) /\ SameTarget(t, u, p, n)
<1> DEFINE Good(k) == \A p \in Paths : SamePlace(t, u, p, k) /\ SameTarget(t, u, p, k)
<1>1. ASSUME NEW k \in Nat, k # 0 => \A p \in Paths : SameTarget(t, u, p, k - 1)
      PROVE  Good(k)
  <2> DEFINE P == {p \in Paths : SamePlace(t, u, p, k) /\ SameTarget(t, u, p, k)}
  <2>1. <<>> \in P
    <3>1. SamePlace(t, u, <<>>, k)
      BY PlaceIs, PathFacts DEF SamePlace
    <3> QED
      BY <1>1, <3>1, SameLast, PathFacts
  <2>2. ASSUME NEW p \in Paths, p # <<>>, Front(p) \in P
        PROVE  p \in P
    <3>1. SamePlace(t, u, p, k)
      BY <2>2, SameFront
    <3> QED
      BY <1>1, <3>1, SameLast
  <2>3. P = Paths
    <3>1. P \in SUBSET Paths
      OBVIOUS
    <3> HIDE DEF P
    <3> QED
      BY <2>1, <2>2, <3>1, PathInduction
  <2> QED
    BY <2>3
<1> DEFINE T == {k \in Nat : Good(k)}
<1>2. 0 \in T
  BY <1>1
<1>3. ASSUME NEW k \in T
      PROVE  k + 1 \in T
  <2>1. k + 1 \in Nat /\ (k + 1) - 1 = k /\ Good(k)
    OBVIOUS
  <2>2. \A p \in Paths : SameTarget(t, u, p, (k + 1) - 1)
    BY <2>1, Zenon
  <2> HIDE DEF Good
  <2>3. Good(k + 1)
    BY <1>1, <2>1, <2>2
  <2> QED
    BY <2>1, <2>3
<1>4. T = Nat
  <2>1. T \in SUBSET Nat
    OBVIOUS
  <2> HIDE DEF T
  <2> QED
    BY <1>2, <1>3, <2>1, Induction
<1>5. n \in T
  BY <1>4
<1> QED
  BY <1>5

-----------------------------------------------------------------------------
(***************************************************************************)
(* Paths that begin with others.                                           *)
(***************************************************************************)
LEMMA SamePath ==
    ASSUME NEW p \in Paths, NEW q \in Paths, Len(p) = Len(q), \A i \in 1..Len(p) : p[i] = q[i]
    PROVE  p = q
BY DEF Paths

LEMMA PrefixIs ==
    ASSUME NEW p \in Paths, NEW q \in Paths
    PROVE  IsPrefix(p, q) <=> Len(p) <= Len(q) /\ \A i \in 1..Len(p) : p[i] = q[i]
<1>1. p \in Seq(Names) /\ q \in Seq(Names) /\ Len(p) \in Nat /\ Len(q) \in Nat
  BY DEF Paths
<1> SUFFICES ASSUME Len(p) <= Len(q)
             PROVE  SubSeq(p, 1, Len(p)) = SubSeq(q, 1, Len(p)) <=> \A i \in 1..Len(p) : p[i] = q[i]
  BY DEF IsPrefix
<1> DEFINE n == Len(p)
           f == SubSeq(p, 1, n)
           g == SubSeq(q, 1, n)
<1>2. f \in Seq(Names) /\ g \in Seq(Names) /\ Len(f) = n /\ Len(g) = n
  BY <1>1
<1>3. \A i \in 1..n : f[i] = p[i] /\ g[i] = q[i]
  BY <1>1
<1> HIDE DEF f, g
<1>4. ASSUME f = g
      PROVE  \A i \in 1..n : p[i] = q[i]
  BY <1>3, <1>4
<1>5. ASSUME \A i \in 1..n : p[i] = q[i]
      PROVE  f = g
  BY <1>2, <1>3, <1>5
<1> QED
  BY <1>4, <1>5 DEF f, g

LEMMA PrefixFacts ==
    ASSUME NEW p \in Paths, NEW q \in Paths
    PROVE  /\ IsPrefix(p, p) /\ IsPrefix(<<>>, p)
           /\ IsPrefix(p, q) /\ IsPrefix(q, p) => p = q
           /\ IsPrefix(p, q) /\ p # q => q # <<>> /\ IsPrefix(p, Front(q))
           /\ q # <<>> => IsPrefix(Front(q), q) /\ ~IsPrefix(q, Front(q))
           /\ q # <<>> /\ IsPrefix(p, Front(q)) => IsPrefix(p, q)
           /\ \A r \in Paths : IsPrefix(p, q) /\ IsPrefix(q, r) => IsPrefix(p, r)
<1>1. /\ p \in Seq(Names) /\ q \in Seq(Names) /\ Len(p) \in Nat /\ Len(q) \in Nat
      /\ \A r \in Paths : Len(r) \in Nat
  BY DEF Paths
<1>2. Len(<<>>) = 0 /\ <<>> \in Paths /\ (q # <<>> => Len(q) # 0)
  BY <1>1 DEF Paths
<1>3. IsPrefix(p, p) /\ IsPrefix(<<>>, p)
  BY <1>1, <1>2, PrefixIs
<1>4. IsPrefix(p, q) /\ IsPrefix(q, p) => p = q
  BY <1>1, PrefixIs, SamePath
<1>5. ASSUME q # <<>>
      PROVE  /\ Front(q) \in Paths /\ Len(Front(q)) = Len(q) - 1 /\ Len(q) # 0
             /\ \A i \in 1..Len(q) - 1 : Front(q)[i] = q[i]
  <2>1. Front(q) \in Paths /\ Len(Front(q)) = Len(q) - 1
    BY <1>5, PathFacts
  <2> DEFINE n == Len(q) - 1
  <2>2. n \in Nat /\ n <= Len(q) /\ n = Len(q) - 1
    BY <1>1, <1>2, <1>5
  <2>3. Front(q) = SubSeq(q, 1, n)
    BY DEF Front
  <2> HIDE DEF n
  <2>4. \A i \in 1..n : SubSeq(q, 1, n)[i] = q[i]
    BY <1>1, <2>2
  <2> QED
    BY <1>2, <1>5, <2>1, <2>2, <2>3, <2>4
<1>6. IsPrefix(p, q) /\ p # q => q # <<>> /\ IsPrefix(p, Front(q))
  <2> SUFFICES ASSUME IsPrefix(p, q), p # q
               PROVE  q # <<>> /\ IsPrefix(p, Front(q))
    OBVIOUS
  <2>1. Len(p) <= Len(q) /\ \A i \in 1..Len(p) : p[i] = q[i]
    BY PrefixIs
  <2>2. Len(p) # Len(q)
    BY <1>1, <2>1, SamePath
  <2>3. q # <<>>
    BY <1>1, <1>2, <2>1, <2>2
  <2> QED
    BY <1>1, <1>5, <2>1, <2>2, <2>3, PrefixIs
<1>7. q # <<>> => IsPrefix(Front(q), q) /\ ~IsPrefix(q, Front(q))
  <2> SUFFICES ASSUME q # <<>>
               PROVE  IsPrefix(Front(q), q) /\ ~IsPrefix(q, Front(q))
    OBVIOUS
  <2> DEFINE f == Front(q)
  <2>1. f \in Paths /\ Len(f) = Len(q) - 1 /\ \A i \in 1..Len(f) : f[i] = q[i]
    BY <1>5
  <2> HIDE DEF f
  <2>2. Len(f) <= Len(q) /\ ~(Len(q) <= Len(f))
    BY <1>1, <2>1
  <2>3. IsPrefix(f, q) /\ ~IsPrefix(q, f)
    BY <2>1, <2>2, PrefixIs
  <2> QED
    BY <2>3 DEF f
<1>8. \A r \in Paths : IsPrefix(p, q) /\ IsPrefix(q, r) => IsPrefix(p, r)
  <2> SUFFICES ASSUME NEW r \in Paths, IsPrefix(p, q), IsPrefix(q, r)
               PROVE  IsPrefix(p, r)
    OBVIOUS
  <2>1. Len(p) <= Len(q) /\ \A i \in 1..Len(p) : p[i] = q[i]
    BY PrefixIs
  <2>2. Len(q) <= Len(r) /\ \A i \in 1..Len(q) : q[i] = r[i]
    BY PrefixIs
  <2> QED
    BY <1>1, <2>1, <2>2, PrefixIs
<1>9. q # <<>> /\ IsPrefix(p, Front(q)) => IsPrefix(p, q)
  <2> SUFFICES ASSUME q # <<>>, IsPrefix(p, Front(q))
               PROVE  IsPrefix(p, q)
    OBVIOUS
  <2>1. Len(p) <= Len(Front(q)) /\ \A i \in 1..Len(p) : p[i] = Front(q)[i]
    BY <1>5, PrefixIs
  <2> QED
    BY <1>1, <1>5, <2>1, PrefixIs
<1> QED
  BY <1>3, <1>4, <1>6, <1>7, <1>8, <1>9

LEMMA MovedIs ==
    ASSUME NEW r \in Paths, NEW f \in Paths, NEW q \in Paths, IsPrefix(f, r)
    PROVE  /\ Moved(r, f, q) \in Paths
           /\ Len(Moved(r, f, q)) = Len(q) + (Len(r) - Len(f))
           /\ Len(r) \in Nat /\ Len(f) \in Nat /\ Len(q) \in Nat /\ Len(f) <= Len(r)
           /\ \A i \in 1..Len(q) : Moved(r, f, q)[i] = q[i]
           /\ \A i \in 1..Len(r) - Len(f) : Moved(r, f, q)[Len(q) + i] = r[Len(f) + i]
<1>1. /\ r \in Seq(Names) /\ Len(r) \in Nat /\ Len(f) \in Nat /\ Len(f) <= Len(r)
      /\ q \in Seq(Names) /\ Len(q) \in Nat
  BY PrefixIs DEF Paths
<1> DEFINE k == Len(f)
           n == Len(r)
           s == SubSeq(r, k + 1, n)
<1>2. s \in Seq(Names) /\ Len(s) = n - k /\ \A i \in 1..n - k : s[i] = r[k + i]
  <2> HIDE DEF k, n
  <2>1. k \in Nat /\ n \in Nat /\ k <= n /\ n = Len(r)
    BY <1>1 DEF k, n
  <2>2. SubSeq(r, k + 1, n) \in Seq(Names) /\ Len(SubSeq(r, k + 1, n)) = n - k
    BY <1>1, <2>1
  <2>3. ASSUME NEW i \in 1..n - k
        PROVE  SubSeq(r, k + 1, n)[i] = r[k + i]
    BY <1>1, <2>1
  <2> QED
    BY <2>2, <2>3
<1>3. Moved(r, f, q) = q \o s
  BY DEF Moved
<1>4. q \o s \in Seq(Names) /\ Len(q \o s) = Len(q) + Len(s)
  <2>1. s \in Seq(Names) /\ q \in Seq(Names)
    BY <1>1, <1>2
  <2> HIDE DEF s
  <2> QED
    BY <2>1
<1> HIDE DEF s
<1>5. \A i \in 1..Len(q) : (q \o s)[i] = q[i]
  BY <1>1, <1>2
<1>6. ASSUME NEW i \in 1..Len(s)
      PROVE  (q \o s)[Len(q) + i] = s[i]
  <2> DEFINE j == Len(q) + i
             h == j - Len(q)
  <2>1. j \in 1..Len(q) + Len(s) /\ j > Len(q) /\ h = i
    BY <1>1, <1>2
  <2> HIDE DEF j
  <2>2. (q \o s)[j] = s[j - Len(q)]
    BY <1>1, <1>2, <2>1
  <2>3. (q \o s)[j] = s[i]
    BY <2>1, <2>2, Zenon
  <2> QED
    BY <2>3 DEF j
<1>7. \A i \in 1..n - k : (q \o s)[Len(q) + i] = r[k + i]
  BY <1>2, <1>6
<1> QED
  BY <1>1, <1>2, <1>3, <1>4, <1>5, <1>7 DEF Paths

LEMMA MovedFacts ==
    ASSUME NEW r \in Paths, NEW f \in Paths, NEW q \in Paths, IsPrefix(f, r)
    PROVE  /\ Moved(r, f, q) \in Paths /\ IsPrefix(q, Moved(r, f, q))
           /\ Moved(Moved(r, f, q), q, f) = r
           /\ Moved(r, f, f) = r /\ Moved(f, f, q) = q
           /\ r # f => /\ Moved(r, f, q) # q /\ Moved(r, f, q) # <<>> /\ IsPrefix(f, Front(r))
                       /\ Front(Moved(r, f, q)) = Moved(Front(r), f, q)
                       /\ Last(Moved(r, f, q)) = Last(r)
<1> DEFINE m == Moved(r, f, q)
<1>1. /\ m \in Paths
      /\ Len(m) = Len(q) + (Len(r) - Len(f))
      /\ Len(r) \in Nat /\ Len(f) \in Nat /\ Len(q) \in Nat /\ Len(f) <= Len(r)
      /\ \A i \in 1..Len(q) : m[i] = q[i]
      /\ \A i \in 1..Len(r) - Len(f) : m[Len(q) + i] = r[Len(f) + i]
  BY MovedIs
<1>2. \A i \in 1..Len(f) : f[i] = r[i]
  BY PrefixIs
<1> HIDE DEF m
<1>3. IsPrefix(q, m)
  BY <1>1, PrefixIs
<1>4. ASSUME NEW b \in Paths, NEW s \in Paths, IsPrefix(q, b), Len(s) = Len(f) + (Len(b) - Len(q)),
             \A i \in 1..Len(f) : s[i] = f[i],
             \A i \in 1..Len(b) - Len(q) : s[Len(f) + i] = b[Len(q) + i]
      PROVE  Moved(b, q, f) = s
  <2> DEFINE g == Moved(b, q, f)
  <2>1. /\ g \in Paths /\ Len(g) = Len(f) + (Len(b) - Len(q))
        /\ Len(b) \in Nat /\ Len(q) <= Len(b)
        /\ \A i \in 1..Len(f) : g[i] = f[i]
        /\ \A i \in 1..Len(b) - Len(q) : g[Len(f) + i] = b[Len(q) + i]
    BY <1>4, MovedIs
  <2> HIDE DEF g
  <2>2. ASSUME NEW i \in 1..Len(g), i > Len(f)
        PROVE  g[i] = s[i]
    <3>1. i - Len(f) \in 1..Len(b) - Len(q) /\ i = Len(f) + (i - Len(f))
      BY <1>1, <2>1, <2>2
    <3> QED
      BY <1>4, <2>1, <3>1
  <2>3. \A i \in 1..Len(g) : g[i] = s[i]
    BY <1>1, <1>4, <2>1, <2>2
  <2>4. g = s
    BY <1>4, <2>1, <2>3, SamePath
  <2> QED
    BY <2>4 DEF g
<1>5. Moved(m, q, f) = r
  <2>1. Len(m) - Len(q) = Len(r) - Len(f) /\ Len(r) = Len(f) + (Len(m) - Len(q))
    BY <1>1
  <2> QED
    BY <1>1, <1>2, <1>3, <1>4, <2>1
<1>6. Moved(r, f, f) = r /\ Moved(f, f, q) = q
  <2>0. Len(f) + (Len(r) - Len(f)) = Len(r) /\ Len(q) + (Len(f) - Len(f)) = Len(q)
    BY <1>1
  <2>1. /\ Moved(r, f, f) \in Paths /\ Len(Moved(r, f, f)) = Len(r)
        /\ \A i \in 1..Len(f) : Moved(r, f, f)[i] = f[i]
        /\ \A i \in 1..Len(r) - Len(f) : Moved(r, f, f)[Len(f) + i] = r[Len(f) + i]
    BY <2>0, MovedIs, Zenon
  <2>2. ASSUME NEW i \in 1..Len(r), i > Len(f)
        PROVE  Moved(r, f, f)[i] = r[i]
    <3>1. i - Len(f) \in 1..Len(r) - Len(f) /\ i = Len(f) + (i - Len(f))
      BY <1>1, <2>2
    <3> QED
      BY <2>1, <3>1
  <2>3. \A i \in 1..Len(r) : Moved(r, f, f)[i] = r[i]
    BY <1>1, <1>2, <2>1, <2>2
  <2>4. Moved(r, f, f) = r
    BY <2>1, <2>3, SamePath
  <2>5. IsPrefix(f, f)
    BY PrefixFacts
  <2>6. /\ Moved(f, f, q) \in Paths /\ Len(Moved(f, f, q)) = Len(q)
        /\ \A i \in 1..Len(q) : Moved(f, f, q)[i] = q[i]
    BY <2>0, <2>5, MovedIs, Zenon
  <2> QED
    BY <2>4, <2>6, SamePath
<1>7. ASSUME r # f
      PROVE  /\ m # q /\ m # <<>> /\ IsPrefix(f, Front(r))
             /\ Front(m) = Moved(Front(r), f, q) /\ Last(m) = Last(r)
  <2> DEFINE a == Front(r)
             b == Front(m)
  <2>1. r # <<>> /\ IsPrefix(f, a) /\ a \in Paths /\ Len(a) = Len(r) - 1
    BY <1>7, PrefixFacts, PathFacts
  <2>2. Len(r) # Len(f)
    BY <1>1, <1>2, <1>7, SamePath
  <2>3. m # q /\ m # <<>>
    <3>1. Len(m) # Len(q) /\ Len(m) # 0
      BY <1>1, <2>2
    <3>2. Len(<<>>) = 0
      OBVIOUS
    <3> QED
      BY <3>1, <3>2
  <2>4. b \in Paths /\ Len(b) = Len(m) - 1
    BY <1>1, <2>3, PathFacts
  <2>5. /\ Moved(a, f, q) \in Paths /\ Len(Moved(a, f, q)) = Len(q) + (Len(a) - Len(f))
        /\ \A i \in 1..Len(q) : Moved(a, f, q)[i] = q[i]
        /\ \A i \in 1..Len(a) - Len(f) : Moved(a, f, q)[Len(q) + i] = a[Len(f) + i]
    <3> HIDE DEF a, b
    <3>1. a \in Paths /\ IsPrefix(f, a)
      BY <2>1
    <3> QED
      BY <3>1, MovedIs, Zenon
  <2>6. \A i \in 1..Len(a) : a[i] = r[i]
    <3>1. IsPrefix(a, r)
      BY <2>1, PrefixFacts
    <3> QED
      BY <2>1, <3>1, PrefixIs
  <2>7. \A i \in 1..Len(b) : b[i] = m[i]
    <3>1. IsPrefix(b, m)
      BY <1>1, <2>3, PrefixFacts
    <3> QED
      BY <1>1, <2>4, <3>1, PrefixIs
  <2> HIDE DEF a, b
  <2>8. Len(b) = Len(Moved(a, f, q)) /\ Len(b) \in Nat
    BY <1>1, <2>1, <2>2, <2>4, <2>5
  <2>9. ASSUME NEW i \in 1..Len(b), i > Len(q)
        PROVE  b[i] = Moved(a, f, q)[i]
    <3> DEFINE j == i - Len(q)
    <3>1. j \in 1..Len(a) - Len(f) /\ j \in 1..Len(r) - Len(f) /\ i = Len(q) + j /\ Len(f) + j \in 1..Len(a)
      BY <1>1, <2>1, <2>4, <2>9
    <3> HIDE DEF j
    <3>2. b[i] = m[Len(q) + j] /\ m[Len(q) + j] = r[Len(f) + j]
      BY <1>1, <2>7, <3>1
    <3>3. a[Len(f) + j] = r[Len(f) + j] /\ Moved(a, f, q)[Len(q) + j] = a[Len(f) + j]
      BY <2>5, <2>6, <3>1
    <3> QED
      BY <3>1, <3>2, <3>3
  <2>10. \A i \in 1..Len(b) : b[i] = Moved(a, f, q)[i]
    BY <1>1, <2>5, <2>7, <2>8, <2>9
  <2>11. b = Moved(a, f, q)
    BY <2>4, <2>5, <2>8, <2>10, SamePath
  <2>12. Last(m) = Last(r)
    <3> DEFINE j == Len(r) - Len(f)
    <3>1. j \in 1..Len(r) - Len(f) /\ Len(m) = Len(q) + j /\ Len(r) = Len(f) + j
      BY <1>1, <2>2
    <3> QED
      BY <1>1, <3>1 DEF Last
  <2> QED
    BY <2>1, <2>3, <2>11, <2>12 DEF a, b
<1> QED
  BY <1>1, <1>3, <1>5, <1>6, <1>7 DEF m

-----------------------------------------------------------------------------
(***************************************************************************)
(* What the system calls do to the tree leaves a file system.              *)
(***************************************************************************)
LEMMA WithKept ==
    ASSUME IsFileSystem(tree), NEW q \in Paths, NEW node, IsNode(node), CanMkdir(q), Is(tree, Front(q), "dir")
    PROVE  /\ IsFileSystem(With(q, node))
           /\ DOMAIN With(q, node) = DOMAIN tree \cup {q} /\ With(q, node)[q] = node
           /\ \A r \in DOMAIN tree : r # q /\ With(q, node)[r] = tree[r]
<1> DEFINE u == With(q, node)
<1>1. q # <<>> /\ q \notin DOMAIN tree
  BY DEF CanMkdir, Writable
<1>2. u = [r \in DOMAIN tree \cup {q} |-> IF r = q THEN node ELSE tree[r]]
  BY DEF With
<1>3. DOMAIN u = DOMAIN tree \cup {q} /\ u[q] = node /\ \A r \in DOMAIN tree : r # q /\ u[r] = tree[r]
  BY <1>1, <1>2
<1>4. u = [r \in DOMAIN u |-> u[r]]
  BY <1>2
<1> HIDE DEF u
<1>5. ASSUME NEW r \in DOMAIN u, r # <<>>
      PROVE  Front(r) \in DOMAIN u /\ u[Front(r)] = Dir
  BY <1>3, <1>5, SystemFacts
<1>6. \A r \in DOMAIN u : IsNode(u[r])
  BY <1>3 DEF IsFileSystem
<1>7. IsFileSystem(u)
  BY <1>3, <1>4, <1>5, <1>6, SystemFacts DEF IsFileSystem
<1> QED
  BY <1>3, <1>7 DEF u

LEMMA WithoutKept ==
    ASSUME NEW t, IsFileSystem(t), NEW gone \in SUBSET DOMAIN t, <<>> \notin gone,
           \A r \in DOMAIN t : r # <<>> /\ Front(r) \in gone => r \in gone
    PROVE  /\ IsFileSystem(Without(t, gone)) /\ NoNewLinks(t, Without(t, gone))
           /\ DOMAIN Without(t, gone) = DOMAIN t \ gone
           /\ \A r \in DOMAIN t \ gone : Without(t, gone)[r] = t[r]
<1> DEFINE u == Without(t, gone)
<1>1. u = [r \in DOMAIN t \ gone |-> t[r]]
  BY DEF Without
<1>2. u = [r \in DOMAIN u |-> u[r]] /\ DOMAIN u = DOMAIN t \ gone /\ \A r \in DOMAIN u : u[r] = t[r]
  BY <1>1
<1> HIDE DEF u
<1>3. ASSUME NEW r \in DOMAIN u
      PROVE  IsNode(u[r]) /\ (r # <<>> => Front(r) \in DOMAIN u /\ u[Front(r)] = Dir)
  <2>1. r \in DOMAIN t /\ u[r] = t[r] /\ r \notin gone
    BY <1>2
  <2>2. IsNode(t[r]) /\ (r # <<>> => Front(r) \in DOMAIN t /\ t[Front(r)] = Dir)
    BY <2>1 DEF IsFileSystem
  <2> QED
    BY <1>2, <2>1, <2>2
<1>4. IsFileSystem(u)
  BY <1>2, <1>3, SystemFacts DEF IsFileSystem
<1>5. NoNewLinks(t, u)
  BY <1>2 DEF NoNewLinks, Is
<1> QED
  BY <1>2, <1>4, <1>5 DEF u

LEMMA RemovedKept ==
    ASSUME IsFileSystem(tree), NEW q, CanUnlink(q) \/ CanRmdir(q)
    PROVE  /\ IsFileSystem(Without(tree, {q})) /\ NoNewLinks(tree, Without(tree, {q}))
           /\ q \in DOMAIN tree /\ DOMAIN Without(tree, {q}) = DOMAIN tree \ {q}
           /\ \A r \in DOMAIN tree \ {q} : Without(tree, {q})[r] = tree[r]
<1>1. q # <<>> /\ q \in DOMAIN tree /\ q \in Paths /\ q # Nowhere
  BY SystemFacts, Constants DEF CanUnlink, CanRmdir, Writable, Is
<1>2. ASSUME NEW r \in DOMAIN tree, r # <<>>, Front(r) = q
      PROVE  r = q
  <2>1. Is(tree, q, "dir") /\ r \in Paths
    BY <1>2, SystemFacts
  <2>2. tree[q] = Dir
    BY <2>1, SystemFacts
  <2>3. Below(tree, q) = {q}
    BY <2>2 DEF CanUnlink, CanRmdir
  <2>4. IsPrefix(q, r)
    BY <1>2, <2>1, PrefixFacts
  <2>5. r \in Below(tree, q)
    BY <1>1, <2>1, <2>4, Constants DEF Below, Under
  <2> QED
    BY <2>3, <2>5
<1> QED
  BY <1>1, <1>2, WithoutKept

LEMMA RenamedKept ==
    ASSUME IsFileSystem(tree), NEW f, NEW q \in Paths, CanRename(f, q), Is(tree, Front(q), "dir")
    PROVE  /\ IsFileSystem(Renamed(f, q))
           /\ q \in DOMAIN Renamed(f, q)
           /\ \A r \in DOMAIN tree : ~Under(f, r) /\ ~Under(q, r) =>
                 r \in DOMAIN Renamed(f, q) /\ Renamed(f, q)[r] = tree[r]
<1> DEFINE u == Renamed(f, q)
           S == {r \in DOMAIN tree : ~IsPrefix(f, r) /\ ~IsPrefix(q, r)}
           M == {Moved(r, f, q) : r \in Below(tree, f)}
<1>1. /\ f \in DOMAIN tree /\ f \in Paths /\ f # <<>> /\ q # <<>> /\ f # Nowhere /\ q # Nowhere
      /\ f # q => ~IsPrefix(f, q)
  BY SystemFacts, Constants DEF CanRename, Writable
<1>2. u = [r \in S \cup M |-> IF IsPrefix(q, r) THEN tree[Moved(r, q, f)] ELSE tree[r]]
  BY DEF Renamed
<1>3. \A s \in Below(tree, f) : s \in DOMAIN tree /\ s \in Paths /\ IsPrefix(f, s)
  BY SystemFacts DEF Below, Under
<1>4. \A s \in DOMAIN tree : IsPrefix(f, s) => s \in Below(tree, f)
  BY <1>1, SystemFacts DEF Below, Under
<1>5. \A r \in S : r \in DOMAIN tree /\ r \in Paths /\ ~IsPrefix(f, r) /\ ~IsPrefix(q, r)
  BY SystemFacts
<1>6. \A r \in S : r \in DOMAIN u /\ u[r] = tree[r]
  BY <1>2
<1>7. ASSUME NEW s \in Below(tree, f)
      PROVE  Moved(s, f, q) \in Paths /\ Moved(s, f, q) \in DOMAIN u /\ u[Moved(s, f, q)] = tree[s]
  <2>1. Moved(s, f, q) \in Paths /\ IsPrefix(q, Moved(s, f, q)) /\ Moved(Moved(s, f, q), q, f) = s
    BY <1>1, <1>3, MovedFacts
  <2> QED
    BY <1>2, <2>1
<1>8. DOMAIN u = S \cup M /\ u = [r \in DOMAIN u |-> u[r]]
  BY <1>2
<1>9. q \in DOMAIN u
  <2>1. f \in Below(tree, f) /\ Moved(f, f, q) = q
    BY <1>1, <1>4, PrefixFacts, MovedFacts
  <2> QED
    BY <1>7, <2>1
<1>10. ASSUME NEW r \in DOMAIN tree, ~Under(f, r), ~Under(q, r)
       PROVE  r \in DOMAIN u /\ u[r] = tree[r]
  <2>1. r \in S
    BY <1>1, <1>10, SystemFacts DEF Under
  <2> QED
    BY <1>6, <2>1
<1>11. \A r \in DOMAIN u : r \in S \/ \E s \in Below(tree, f) : r = Moved(s, f, q)
  BY <1>8
<1> HIDE DEF u, S, M
<1>12. CASE f = q
  <2>1. \A s \in Below(tree, f) : Moved(s, f, q) = s
    BY <1>1, <1>3, <1>12, MovedFacts
  <2>2. \A r \in DOMAIN u : r \in DOMAIN tree /\ u[r] = tree[r]
    BY <1>3, <1>5, <1>6, <1>7, <1>11, <2>1
  <2>3. \A r \in DOMAIN tree : r \in DOMAIN u
    BY <1>1, <1>4, <1>7, <1>10, <1>12, <2>1 DEF Under
  <2>4. DOMAIN u = DOMAIN tree
    BY <2>2, <2>3
  <2>5. tree = [r \in DOMAIN tree |-> tree[r]]
    BY DEF IsFileSystem
  <2>6. u = tree
    BY <1>8, <2>2, <2>4, <2>5
  <2> QED
    BY <1>9, <1>10, <2>6 DEF u
<1>13. CASE f # q
  <2>1. <<>> \in S
    <3>1. <<>> \in DOMAIN tree /\ <<>> \in Paths
      BY SystemFacts
    <3>2. ~IsPrefix(f, <<>>) /\ ~IsPrefix(q, <<>>)
      BY <1>1, <3>1, PrefixFacts
    <3> QED
      BY <3>1, <3>2 DEF S
  <2>2. ASSUME NEW r \in DOMAIN u
        PROVE  /\ r \in Paths /\ IsNode(u[r])
               /\ r # <<>> => Front(r) \in DOMAIN u /\ u[Front(r)] = Dir
    <3>1. CASE r \in S
      <4>1. r \in Paths /\ r \in DOMAIN tree /\ u[r] = tree[r] /\ IsNode(tree[r])
        BY <1>5, <1>6, <3>1 DEF IsFileSystem
      <4>2. ASSUME r # <<>>
            PROVE  Front(r) \in DOMAIN u /\ u[Front(r)] = Dir
        <5>1. Front(r) \in DOMAIN tree /\ tree[Front(r)] = Dir /\ Front(r) \in Paths
          BY <4>1, <4>2, SystemFacts
        <5>2. ~IsPrefix(f, Front(r)) /\ ~IsPrefix(q, Front(r))
          BY <1>1, <1>5, <3>1, <4>2, PrefixFacts
        <5>3. Front(r) \in S
          BY <5>1, <5>2 DEF S
        <5> QED
          BY <1>6, <5>1, <5>3
      <4> QED
        BY <4>1, <4>2
    <3>2. CASE r \notin S
      <4>1. PICK s \in Below(tree, f) : r = Moved(s, f, q)
        BY <1>11, <3>2
      <4>2. r \in Paths /\ u[r] = tree[s] /\ IsNode(tree[s])
        BY <1>3, <1>7, <4>1 DEF IsFileSystem
      <4>3. CASE s = f
        <5>1. r = q
          BY <1>1, <4>1, <4>3, PrefixFacts, MovedFacts
        <5>2. Front(q) \in DOMAIN tree /\ tree[Front(q)] = Dir /\ Front(q) \in Paths
          BY SystemFacts
        <5>3. ~IsPrefix(f, Front(q)) /\ ~IsPrefix(q, Front(q))
          BY <1>1, <1>13, <5>2, PrefixFacts
        <5>4. Front(q) \in S
          BY <5>2, <5>3 DEF S
        <5> QED
          BY <1>6, <4>2, <5>1, <5>2, <5>4
      <4>4. CASE s # f
        <5>1. IsPrefix(f, Front(s)) /\ Front(r) = Moved(Front(s), f, q)
          BY <1>1, <1>3, <4>1, <4>4, MovedFacts
        <5>2. s # <<>>
          BY <1>1, <1>3, <4>4, PrefixFacts
        <5>3. Front(s) \in DOMAIN tree /\ tree[Front(s)] = Dir
          BY <1>3, <5>2, SystemFacts
        <5>4. Front(s) \in Below(tree, f)
          BY <1>4, <5>1, <5>3
        <5> QED
          BY <1>7, <4>2, <5>1, <5>3, <5>4
      <4> QED
        BY <4>3, <4>4
    <3> QED
      BY <3>1, <3>2
  <2>3. u[<<>>] = Dir /\ <<>> \in DOMAIN u
    BY <1>6, <2>1, SystemFacts
  <2>4. IsFileSystem(u)
    BY <1>8, <2>2, <2>3 DEF IsFileSystem
  <2> QED
    BY <1>9, <1>10, <2>4 DEF u
<1> QED
  BY <1>12, <1>13

-----------------------------------------------------------------------------
(***************************************************************************)
(* The inductive invariant.                                                *)
(***************************************************************************)
Ops == {"Mkdir", "Unlink", "Rm", "Mv", "Symlink", "OpenForWrite", "ListAllFile"}
Pcs == {"link", "lstat", "unlink", "open", "again", "access", "mkdir", "opendir", "readdir"}
Kinds == {"dir", "file", "link", "socket"}
Frames == [op : Ops, pc : Pcs, path : Paths, todo : SUBSET [name : Names, kind : Kinds],
           i : Nat \ {0}, ret : BOOLEAN]

\* g is what f waits for.
Callee(f, g) ==
    \/ f.op = "OpenForWrite" /\ f.pc = "again" /\ g.op = "Mkdir"
    \/ f.op \in {"Mv", "Symlink"} /\ g.op \in {"Rm", "Unlink"} /\ g.path = f.path
    \/ /\ f.pc = "readdir" /\ g.path # <<>> /\ Front(g.path) = f.path
       /\ \/ f.op = "Rm" /\ g.op \in {"Rm", "Unlink"}
          \/ f.op = "ListAllFile" /\ g.op = "ListAllFile"

\* f is for the call k itself.
Serves(f, k) == f.path = k.path /\ (f.op = k.op \/ (k.op = "Rm" /\ f.op = "Unlink"))

\* Mkdir is at a prefix of its path.
OnPath(f) ==
    f.op = "Mkdir" => (f.pc = "lstat" /\ f.i = 1) \/ (f.path # <<>> /\ f.i <= Len(f.path))

StackOf(s, k) ==
    /\ s \in Seq(Frames)
    /\ \A j \in 1..Len(s) : OnPath(s[j])
    /\ s # <<>> => k \in Calls /\ Serves(s[1], k)
    /\ \A j \in 2..Len(s) : Callee(s[j - 1], s[j])

\* The paths that are known to lead to no link: what Rm opens, what is below what ListAllFile
\* was given, and what it is going to enter.
Sure(f, j) ==
    {p \in {f.path} : \/ f.op = "Rm" /\ f.pc \in {"opendir", "readdir"}
                      \/ f.op = "ListAllFile" /\ j # 1}
    \cup {Append(f.path, e.name) : e \in {e \in f.todo : f.op = "ListAllFile" /\ e.kind = "dir"}}

NoLinkAt(t, p) == ~Is(t, Place(t, p, MaxLinks), "link")
NoLinkOn(t, s) == \A j \in 1..Len(s) : \A p \in Sure(s[j], j) : NoLinkAt(t, p)

\* f has yet to come to p.
Ahead(f, p) ==
    \/ f.pc \in {"access", "opendir"} /\ IsPrefix(f.path, p) /\ f.path # p
    \/ f.pc = "readdir" /\ \E e \in f.todo :
          LET q == Append(f.path, e.name)
          IN  IsPrefix(q, p) /\ e.kind = IF q = p THEN "file" ELSE "dir"

Covered(s, found, p) == p \in found \/ \E j \in 1..Len(s) : Ahead(s[j], p)

\* What f is going to list.
Seen(f) == {Append(f.path, e.name) : e \in {e \in f.todo : e.kind = "file"}}

StackInv(c) == StackOf(calls[c], call[c]) /\ (calls[c] # <<>> => result[c] = {})

\* What the history of a call has to do with the file system while it runs.
HistInv(c) ==
    /\ hist[c] = [before |-> hist[c].before, alone |-> hist[c].alone, linked |-> hist[c].linked,
                  met |-> hist[c].met, missed |-> hist[c].missed,
                  ever |-> hist[c].ever, stable |-> hist[c].stable]
    /\ calls[c] # <<>> =>
          /\ hist[c].met \/ At(call[c].path) \notin DOMAIN tree
          /\ hist[c].missed \/ At(call[c].path) \in DOMAIN tree
          /\ call[c].op = "ListAllFile" =>
                /\ hist[c].stable \subseteq Listing(tree, call[c].path)
                /\ Listing(tree, call[c].path) \subseteq hist[c].ever

LinkInv(c) == ~hist[c].linked => NoLinkOn(tree, calls[c])

CoverInv(c) == call[c].op = "ListAllFile" =>
    \A p \in hist[c].stable : Last(p) \in call[c].arg => Covered(calls[c], files[c], p)

SeenInv(c) == call[c].op = "ListAllFile" /\ ~hist[c].linked =>
    /\ files[c] \subseteq hist[c].ever
    /\ \A j \in 1..Len(calls[c]) : Seen(calls[c][j]) \subseteq hist[c].ever

ReportInv(c) ==
    /\ result[c] \in SUBSET BOOLEAN
    /\ result[c] # {} => calls[c] = <<>>
    /\ Returned(c, {"Rm", "Unlink"}, TRUE) => hist[c].missed
    /\ Returned(c, {"Mkdir", "Mv", "Symlink", "OpenForWrite"}, TRUE) => hist[c].met

CallerInv(c) == /\ StackInv(c) /\ HistInv(c) /\ LinkInv(c)
                /\ CoverInv(c) /\ SeenInv(c) /\ ReportInv(c)

FSInv == /\ IsFileSystem(tree)
         /\ DOMAIN calls = Callers /\ DOMAIN result = Callers /\ DOMAIN files = Callers
         /\ DOMAIN call = Callers /\ DOMAIN hist = Callers
         /\ \A c \in Callers : CallerInv(c)

-----------------------------------------------------------------------------
(***************************************************************************)
(* Stacks.                                                                 *)
(***************************************************************************)
LEMMA FrameTyped ==
    ASSUME NEW op \in Ops, NEW pc \in Pcs, NEW p \in Paths
    PROVE  /\ Frame(op, pc, p) \in Frames
           /\ Frame(op, pc, p).op = op /\ Frame(op, pc, p).pc = pc /\ Frame(op, pc, p).path = p
           /\ Frame(op, pc, p).todo = {} /\ Frame(op, pc, p).i = 1
BY DEF Frame, Frames

LEMMA OneFrame ==
    ASSUME NEW f \in Frames
    PROVE  <<f>> \in Seq(Frames) /\ Len(<<f>>) = 1 /\ <<f>>[1] = f /\ <<f>> # <<>>
OBVIOUS

LEMMA TwoFrames ==
    ASSUME NEW f \in Frames, NEW g \in Frames
    PROVE  <<f, g>> \in Seq(Frames) /\ Len(<<f, g>>) = 2 /\ <<f, g>>[1] = f /\ <<f, g>>[2] = g /\ <<f, g>> # <<>>
OBVIOUS

LEMMA FrontIs ==
    ASSUME NEW s \in Seq(Frames), s # <<>>
    PROVE  /\ Len(s) \in Nat \ {0} /\ Last(s) \in Frames /\ Last(s) = s[Len(s)]
           /\ Front(s) \in Seq(Frames) /\ Len(Front(s)) = Len(s) - 1
           /\ \A j \in 1..Len(s) - 1 : Front(s)[j] = s[j] /\ s[j] \in Frames
           /\ Front(s) = <<>> <=> Len(s) = 1
<1> DEFINE n == Len(s) - 1
<1>1. n \in Nat /\ n <= Len(s) /\ n = Len(s) - 1 /\ Len(s) \in Nat \ {0}
  OBVIOUS
<1>2. Last(s) = s[Len(s)] /\ s[Len(s)] \in Frames
  BY <1>1 DEF Last
<1>3. Front(s) = SubSeq(s, 1, n)
  BY DEF Front
<1> HIDE DEF n
<1>4. SubSeq(s, 1, n) \in Seq(Frames) /\ Len(SubSeq(s, 1, n)) = n
  BY <1>1
<1>5. \A j \in 1..n : SubSeq(s, 1, n)[j] = s[j] /\ s[j] \in Frames
  BY <1>1
<1> DEFINE z == Front(s)
<1>6. z \in Seq(Frames) /\ Len(z) = n /\ \A j \in 1..n : z[j] = s[j] /\ s[j] \in Frames
  BY <1>3, <1>4, <1>5
<1> HIDE DEF z
<1>7. z = <<>> <=> n = 0
  BY <1>1, <1>6
<1> QED
  BY <1>1, <1>2, <1>6, <1>7 DEF z

\* What is the same in a frame that something is returned to.
Same(f, g) == f.op = g.op /\ f.pc = g.pc /\ f.path = g.path /\ f.todo = g.todo /\ f.i = g.i

\* z is s after a step, which leaves all but the last frame as they are.
Moves(s, z) ==
    /\ z \in Seq(Frames) /\ Len(z) \in Nat
    /\ Len(z) = Len(s) - 1 \/ Len(z) = Len(s) \/ Len(z) = Len(s) + 1
    /\ \A j \in 1..Len(s) - 1 : Same(z[j], s[j])

LEMMA GoesMoves ==
    ASSUME NEW s \in Seq(Frames), s # <<>>, NEW f \in Frames
    PROVE  LET z == Append(Front(s), f)
           IN  Moves(s, z) /\ Len(z) = Len(s) /\ z[Len(s)] = f
<1> DEFINE r == Front(s)
           z == Append(r, f)
<1>1. r \in Seq(Frames) /\ Len(r) = Len(s) - 1 /\ Len(s) \in Nat \ {0} /\ \A j \in 1..Len(s) - 1 : r[j] = s[j]
  BY FrontIs
<1> HIDE DEF r
<1>2. z \in Seq(Frames) /\ Len(z) = Len(r) + 1 /\ z[Len(r) + 1] = f /\ \A j \in 1..Len(r) : z[j] = r[j]
  BY <1>1
<1> HIDE DEF z
<1>3. Len(r) + 1 = Len(s)
  BY <1>1
<1>4. Moves(s, z) /\ Len(z) = Len(s) /\ z[Len(s)] = f
  BY <1>1, <1>2, <1>3 DEF Moves, Same
<1> QED
  BY <1>4 DEF z, r

LEMMA ConcatIs ==
    ASSUME NEW S, NEW a \in Seq(S), NEW b \in Seq(S)
    PROVE  /\ a \o b \in Seq(S) /\ Len(a \o b) = Len(a) + Len(b)
           /\ \A j \in 1..Len(a) : (a \o b)[j] = a[j]
           /\ \A j \in 1..Len(a) + Len(b) : j > Len(a) => (a \o b)[j] = b[j - Len(a)]
<1>1. a \o b \in Seq(S)
  OBVIOUS
<1>2. Len(a \o b) = Len(a) + Len(b)
  OBVIOUS
<1>3. \A j \in 1..Len(a) : (a \o b)[j] = a[j]
  OBVIOUS
<1>4. \A j \in 1..Len(a) + Len(b) : j > Len(a) => (a \o b)[j] = b[j - Len(a)]
  OBVIOUS
<1> QED
  BY <1>1, <1>2, <1>3, <1>4

Pushed(s, f, g) == Front(s) \o <<f, g>>

LEMMA PushesMoves ==
    ASSUME NEW s \in Seq(Frames), s # <<>>, NEW f \in Frames, NEW g \in Frames
    PROVE  /\ Moves(s, Pushed(s, f, g)) /\ Len(Pushed(s, f, g)) = Len(s) + 1
           /\ Pushed(s, f, g)[Len(s)] = f /\ Pushed(s, f, g)[Len(s) + 1] = g
<1> DEFINE z == Pushed(s, f, g)
           r == Front(s)
           w == <<f, g>>
<1>1. r \in Seq(Frames) /\ Len(r) = Len(s) - 1 /\ Len(s) \in Nat \ {0} /\ \A j \in 1..Len(s) - 1 : r[j] = s[j]
  BY FrontIs
<1>2. w \in Seq(Frames) /\ Len(w) = 2 /\ w[1] = f /\ w[2] = g
  BY TwoFrames
<1>0. z = r \o w
  BY DEF Pushed
<1> HIDE DEF r, w, z
<1>3. z \in Seq(Frames) /\ Len(z) = Len(r) + 2 /\ \A j \in 1..Len(r) : z[j] = r[j]
  <2>1. r \in Seq(Frames) /\ w \in Seq(Frames)
    BY <1>1, <1>2
  <2>2. r \o w \in Seq(Frames) /\ Len(r \o w) = Len(r) + Len(w) /\ \A j \in 1..Len(r) : (r \o w)[j] = r[j]
    BY <2>1, ConcatIs
  <2> QED
    BY <1>0, <1>2, <2>2, Zenon
<1>4. z[Len(r) + 1] = w[1] /\ z[Len(r) + 2] = w[2]
  <2> DEFINE i == Len(r) + 1
             k == Len(r) + 2
  <2>1. /\ r \in Seq(Frames) /\ w \in Seq(Frames)
        /\ i \in 1..Len(r) + Len(w) /\ i > Len(r) /\ i - Len(r) = 1
        /\ k \in 1..Len(r) + Len(w) /\ k > Len(r) /\ k - Len(r) = 2
    BY <1>1, <1>2
  <2> HIDE DEF i, k
  <2>2. z[i] = w[i - Len(r)] /\ z[k] = w[k - Len(r)]
    BY <1>0, <2>1, ConcatIs
  <2> QED
    BY <2>1, <2>2, Zenon DEF i, k
<1>5. Len(r) + 1 = Len(s) /\ Len(r) + 2 = Len(s) + 1
  BY <1>1
<1>6. z[Len(s)] = f /\ z[Len(s) + 1] = g
  BY <1>2, <1>4, <1>5, Zenon
<1>7. Moves(s, z) /\ Len(z) = Len(s) + 1
  BY <1>1, <1>3, <1>5 DEF Moves, Same
<1> QED
  BY <1>6, <1>7 DEF z

LEMMA ReturnMoves ==
    ASSUME NEW s \in Seq(Frames), s # <<>>, NEW r \in BOOLEAN
    PROVE  LET b == Front(s)
               z == IF b = <<>> THEN <<>> ELSE [b EXCEPT ![Len(b)].ret = r]
           IN  Moves(s, z) /\ Len(z) = Len(s) - 1 /\ (b = <<>> <=> Len(s) = 1) /\ (z = <<>> <=> Len(s) = 1)
<1> DEFINE b == Front(s)
           z == IF b = <<>> THEN <<>> ELSE [b EXCEPT ![Len(b)].ret = r]
<1>1. /\ b \in Seq(Frames) /\ Len(b) = Len(s) - 1 /\ Len(s) \in Nat \ {0}
      /\ \A j \in 1..Len(s) - 1 : b[j] = s[j] /\ s[j] \in Frames
      /\ b = <<>> <=> Len(s) = 1
  BY FrontIs
<1> HIDE DEF b
<1>2. CASE b = <<>>
  <2>1. z = <<>> /\ z \in Seq(Frames) /\ Len(z) = 0
    BY <1>2
  <2> HIDE DEF z
  <2>2. Len(s) = 1 /\ Len(z) \in Nat
    BY <1>1, <1>2, <2>1
  <2>3. Moves(s, z)
    BY <2>1, <2>2 DEF Moves
  <2> QED
    BY <1>1, <1>2, <2>1, <2>2, <2>3 DEF z, b
<1>3. CASE b # <<>>
  <2> DEFINE m == Len(b)
             f == [b[m] EXCEPT !.ret = r]
  <2>0. Len(s) # 1
    BY <1>1, <1>3
  <2>1. m \in Nat \ {0} /\ m = Len(s) - 1 /\ m \in 1..m
    BY <1>1, <2>0
  <2>2. b[m] \in Frames
    BY <1>1, <2>1
  <2>3. f \in Frames /\ Same(f, b[m])
    BY <2>2 DEF Frames, Same
  <2>4. z = [b EXCEPT ![m] = f]
    BY <1>3
  <2> HIDE DEF z, f
  <2>5. z \in Seq(Frames) /\ Len(z) = m /\ z[m] = f /\ \A j \in 1..m : j # m => z[j] = b[j]
    BY <1>1, <2>1, <2>3, <2>4
  <2> HIDE DEF m
  <2>6. Moves(s, z) /\ Len(z) = Len(s) - 1
    <3>1. ASSUME NEW j \in 1..Len(s) - 1
          PROVE  Same(z[j], s[j])
      BY <1>1, <2>1, <2>3, <2>5 DEF Same
    <3> QED
      BY <1>1, <2>1, <2>5, <3>1 DEF Moves
  <2>7. z # <<>>
    <3>1. Len(<<>>) = 0
      OBVIOUS
    <3> QED
      BY <2>1, <2>5, <3>1
  <2> QED
    BY <1>1, <1>3, <2>0, <2>6, <2>7 DEF z, b
<1> QED
  BY <1>2, <1>3

LEMMA StackKept ==
    ASSUME NEW s, NEW k, StackOf(s, k), s # <<>>, NEW z, Moves(s, z),
           Len(z) >= Len(s) =>
              /\ z[Len(s)].path = Last(s).path /\ OnPath(z[Len(s)])
              /\ z[Len(s)].op = Last(s).op \/ (Last(s).op = "Rm" /\ z[Len(s)].op = "Unlink"),
           Len(z) = Len(s) + 1 => OnPath(z[Len(s) + 1]) /\ Callee(z[Len(s)], z[Len(s) + 1])
    PROVE  StackOf(z, k)
<1>1. s \in Seq(Frames) /\ Len(s) \in Nat \ {0} /\ Last(s) = s[Len(s)]
  BY FrontIs DEF StackOf
<1>2. z \in Seq(Frames) /\ Len(z) \in Nat /\ \A j \in 1..Len(s) - 1 : Same(z[j], s[j])
  BY DEF Moves
<1>3. \A j \in 1..Len(s) : OnPath(s[j])
  BY DEF StackOf
<1>4. \A j \in 2..Len(s) : Callee(s[j - 1], s[j])
  BY DEF StackOf
<1>5. k \in Calls /\ Serves(s[1], k)
  BY DEF StackOf
<1>6. Len(z) = Len(s) - 1 \/ Len(z) = Len(s) \/ Len(z) = Len(s) + 1
  BY DEF Moves
<1>7. ASSUME NEW j \in 1..Len(z)
      PROVE  OnPath(z[j])
  <2>1. CASE j <= Len(s) - 1
    <3>1. Same(z[j], s[j]) /\ OnPath(s[j])
      BY <1>1, <1>2, <1>3, <2>1
    <3> QED
      BY <3>1 DEF Same, OnPath
  <2>2. CASE j = Len(s)
    BY <1>1, <1>2, <2>2
  <2>3. CASE j = Len(s) + 1
    BY <1>1, <1>2, <1>6, <2>3
  <2> QED
    BY <1>1, <1>2, <1>6, <2>1, <2>2, <2>3
<1>8. ASSUME z # <<>>
      PROVE  Serves(z[1], k)
  <2>0. Len(z) # 0
    BY <1>2, <1>8
  <2>1. CASE Len(s) = 1
    BY <1>1, <1>2, <1>5, <1>6, <2>0, <2>1 DEF Serves
  <2>2. CASE Len(s) # 1
    <3> DEFINE n == Len(s)
    <3>2. n \in Nat /\ n # 0 /\ n # 1
      BY <1>1, <2>2
    <3> HIDE DEF n
    <3>3. 1 \in 1..n - 1
      BY <3>2
    <3>0. 1 \in 1..Len(s) - 1
      BY <3>3 DEF n
    <3>1. Same(z[1], s[1])
      BY <1>2, <3>0
    <3> QED
      BY <1>5, <3>1 DEF Same, Serves
  <2> QED
    BY <2>1, <2>2
<1>9. ASSUME NEW j \in 2..Len(z)
      PROVE  Callee(z[j - 1], z[j])
  <2> DEFINE i == j - 1
  <2>0. i \in 1..Len(z) /\ j = i + 1 /\ j \in Nat
    BY <1>2
  <2> SUFFICES Callee(z[i], z[j])
    OBVIOUS
  <2>1. ASSUME j <= Len(s)
        PROVE  Same(z[i], s[i]) /\ Callee(s[i], s[j])
    <3>1. i \in 1..Len(s) - 1 /\ j \in 2..Len(s)
      BY <1>1, <2>0, <2>1
    <3> QED
      BY <1>2, <1>4, <3>1
  <2> HIDE DEF i
  <2>2. CASE j <= Len(s) - 1
    <3>1. Same(z[j], s[j])
      BY <1>1, <1>2, <2>0, <2>2
    <3>2. Same(z[i], s[i]) /\ Callee(s[i], s[j])
      BY <1>1, <2>0, <2>1, <2>2
    <3> QED
      BY <3>1, <3>2 DEF Same, Callee
  <2>3. CASE j = Len(s)
    <3>1. Same(z[i], s[i]) /\ Callee(s[i], s[j])
      BY <1>1, <2>0, <2>1, <2>3
    <3>2. /\ z[j].path = s[j].path
          /\ z[j].op = s[j].op \/ (s[j].op = "Rm" /\ z[j].op = "Unlink")
      BY <1>1, <1>2, <2>0, <2>3
    <3> QED
      BY <3>1, <3>2 DEF Same, Callee
  <2>4. CASE j = Len(s) + 1
    <3>1. i = Len(s) /\ Len(z) = Len(s) + 1
      BY <1>1, <1>2, <1>6, <2>0, <2>4
    <3> QED
      BY <2>4, <3>1
  <2> QED
    BY <1>1, <1>2, <1>6, <2>0, <2>2, <2>3, <2>4
<1> QED
  BY <1>2, <1>5, <1>7, <1>8, <1>9 DEF StackOf

\* What is so of every frame below the last is so of it after the step.
LEMMA BelowKept ==
    ASSUME NEW s \in Seq(Frames), s # <<>>, NEW z, Moves(s, z), NEW j \in 1..Len(z), ~(j >= Len(s))
    PROVE  /\ j \in 1..Len(s) /\ j # Len(s) /\ \A i : Sure(z[j], i) = Sure(s[j], i)
           /\ \A p : Ahead(s[j], p) <=> Ahead(z[j], p)
           /\ Seen(z[j]) = Seen(s[j])
<1>1. Len(s) \in Nat /\ Len(z) \in Nat /\ j \in 1..Len(s) - 1
  BY DEF Moves
<1>2. Same(z[j], s[j])
  BY <1>1 DEF Moves
<1> QED
  BY <1>1, <1>2 DEF Same, Sure, Ahead, Seen

LEMMA NoLinkKept ==
    ASSUME NEW s \in Seq(Frames), s # <<>>, NEW z, Moves(s, z), NEW t, NoLinkOn(t, s),
           \A j \in 1..Len(z) : j >= Len(s) => \A p \in Sure(z[j], j) : NoLinkAt(t, p)
    PROVE  NoLinkOn(t, z)
<1> SUFFICES ASSUME NEW j \in 1..Len(z), NEW p \in Sure(z[j], j)
             PROVE  NoLinkAt(t, p)
  BY DEF NoLinkOn
<1>1. CASE ~(j >= Len(s))
  <2>1. j \in 1..Len(s) /\ Sure(z[j], j) = Sure(s[j], j)
    BY <1>1, BelowKept
  <2> QED
    BY <2>1 DEF NoLinkOn
<1> QED
  BY <1>1

LEMMA CoverKept ==
    ASSUME NEW s \in Seq(Frames), s # <<>>, NEW z, Moves(s, z), NEW found, NEW more, found \subseteq more,
           NEW p, Covered(s, found, p),
           Ahead(Last(s), p) => p \in more \/ \E j \in 1..Len(z) : Ahead(z[j], p)
    PROVE  Covered(z, more, p)
<1>1. Last(s) = s[Len(s)] /\ Len(s) \in Nat /\ Len(z) \in Nat /\ Len(z) >= Len(s) - 1
  BY FrontIs DEF Moves
<1>2. ASSUME NEW j \in 1..Len(s), Ahead(s[j], p), j # Len(s)
      PROVE  \E i \in 1..Len(z) : Ahead(z[i], p)
  <2>1. j \in 1..Len(z) /\ ~(j >= Len(s))
    BY <1>1, <1>2
  <2>2. Ahead(z[j], p)
    BY <1>2, <2>1, BelowKept
  <2> QED
    BY <2>1, <2>2
<1>3. CASE p \in found
  BY <1>3 DEF Covered
<1>4. CASE p \notin found
  <2>1. PICK j \in 1..Len(s) : Ahead(s[j], p)
    BY <1>4 DEF Covered
  <2> QED
    BY <1>1, <1>2, <2>1 DEF Covered
<1> QED
  BY <1>3, <1>4

LEMMA SeenKept ==
    ASSUME NEW s \in Seq(Frames), s # <<>>, NEW z, Moves(s, z), NEW ever,
           \A j \in 1..Len(s) : Seen(s[j]) \subseteq ever,
           \A j \in 1..Len(z) : j >= Len(s) => Seen(z[j]) \subseteq ever
    PROVE  \A j \in 1..Len(z) : Seen(z[j]) \subseteq ever
<1> SUFFICES ASSUME NEW j \in 1..Len(z)
             PROVE  Seen(z[j]) \subseteq ever
  OBVIOUS
<1>1. CASE ~(j >= Len(s))
  BY <1>1, BelowKept
<1> QED
  BY <1>1

-----------------------------------------------------------------------------
(***************************************************************************)
(* What a step of c does to the tree, and what every caller's history      *)
(* notices of it.                                                          *)
(***************************************************************************)
TreeStep(c) == UNCHANGED <<tree, hist>> \/ SetTree(c, tree')

IsHistory(h) ==
    h = [before |-> h.before, alone |-> h.alone, linked |-> h.linked,
         met |-> h.met, missed |-> h.missed, ever |-> h.ever, stable |-> h.stable]

\* The history g of x after a step of c, when it was h.
Noticed(h, g, x, c) ==
    LET p == call[x].path
        there == Place(tree', p, MaxLinks) \in DOMAIN tree'
        list == IF call[x].op = "ListAllFile" THEN Listing(tree', p) ELSE {}
        mvs == x = c /\ call[x].op = "Mv" /\ Place(tree, p, MaxLinks) \in DOMAIN tree'
    IN  /\ g.linked <=> h.linked \/ (x # c /\ ~NoNewLinks(tree, tree'))
        /\ g.met <=> h.met \/ there \/ mvs
        /\ g.missed <=> h.missed \/ ~there
        /\ g.ever = h.ever \cup list /\ g.stable = h.stable \cap list

LEMMA NoNewLinksIs ==
    ASSUME NEW t, NEW u
    PROVE  {q \in DOMAIN u : Is(u, q, "link") /\ (q \in DOMAIN t => t[q] # u[q])} = {} <=> NoNewLinks(t, u)
BY DEF NoNewLinks, Is

LEMMA SetTreeIs ==
    ASSUME NEW c \in Callers, NEW x \in Callers, SetTree(c, tree'), IsHistory(hist[x])
    PROVE  /\ DOMAIN hist' = Callers /\ IsHistory(hist'[x])
           /\ result[x] # {} => /\ hist'[x].linked = hist[x].linked /\ hist'[x].met = hist[x].met
                                /\ hist'[x].missed = hist[x].missed /\ hist'[x].ever = hist[x].ever
                                /\ hist'[x].stable = hist[x].stable
           /\ result[x] = {} => Noticed(hist[x], hist'[x], x, c)
<1> DEFINE h == hist[x]
           g == hist'[x]
           p == call[x].path
           there == Place(tree', p, MaxLinks) \in DOMAIN tree'
           list == IF call[x].op = "ListAllFile" THEN Listing(tree', p) ELSE {}
           mvs == x = c /\ call[x].op = "Mv" /\ Place(tree, p, MaxLinks) \in DOMAIN tree'
           links == {q \in DOMAIN tree' : Is(tree', q, "link") /\ (q \in DOMAIN tree => tree[q] # tree'[q])}
<1>1. DOMAIN hist' = Callers
  BY DEF SetTree
<1>2. g = IF result[x] # {} THEN [h EXCEPT !.alone = FALSE]
          ELSE [h EXCEPT !.alone = @ /\ x = c,
                         !.linked = @ \/ (x # c /\ links # {}),
                         !.met = @ \/ there \/ mvs,
                         !.missed = @ \/ ~there,
                         !.ever = @ \cup list,
                         !.stable = @ \cap list]
  BY Zenon DEF SetTree
<1>3. links = {} <=> NoNewLinks(tree, tree')
  BY NoNewLinksIs
<1> HIDE DEF h, g, there, list, mvs, links
<1>4. h = [before |-> h.before, alone |-> h.alone, linked |-> h.linked,
           met |-> h.met, missed |-> h.missed, ever |-> h.ever, stable |-> h.stable]
  BY DEF IsHistory, h
<1>5. CASE result[x] # {}
  <2>1. g = [h EXCEPT !.alone = FALSE]
    BY <1>2, <1>5
  <2>2. g = [before |-> h.before, alone |-> FALSE, linked |-> h.linked,
             met |-> h.met, missed |-> h.missed, ever |-> h.ever, stable |-> h.stable]
    BY <1>4, <2>1
  <2>3. IsHistory(g) /\ g.linked = h.linked /\ g.met = h.met /\ g.missed = h.missed
        /\ g.ever = h.ever /\ g.stable = h.stable
    BY <2>2 DEF IsHistory
  <2> QED
    BY <1>1, <1>5, <2>3 DEF g, h
<1>6. CASE result[x] = {}
  <2> DEFINE a == h.alone /\ x = c
             l == h.linked \/ (x # c /\ links # {})
             e == h.met \/ there \/ mvs
             s == h.missed \/ ~there
  <2>1. g = [h EXCEPT !.alone = a, !.linked = l, !.met = e, !.missed = s,
                      !.ever = h.ever \cup list, !.stable = h.stable \cap list]
    BY <1>2, <1>6, Zenon
  <2> HIDE DEF a, l, e, s
  <2>2. g = [before |-> h.before, alone |-> a, linked |-> l, met |-> e, missed |-> s,
             ever |-> h.ever \cup list, stable |-> h.stable \cap list]
    BY <1>4, <2>1
  <2>3. IsHistory(g) /\ g.linked = l /\ g.met = e /\ g.missed = s
        /\ g.ever = h.ever \cup list /\ g.stable = h.stable \cap list
    BY <2>2 DEF IsHistory
  <2>4. /\ g.linked <=> h.linked \/ (x # c /\ ~NoNewLinks(tree, tree'))
        /\ g.met <=> h.met \/ there \/ mvs
        /\ g.missed <=> h.missed \/ ~there
    BY <1>3, <2>3, Zenon DEF l, e, s
  <2>5. Noticed(h, g, x, c)
    BY <2>3, <2>4, Zenon DEF Noticed, there, list, mvs
  <2> QED
    BY <1>1, <1>6, <2>3, <2>5 DEF g, h
<1> QED
  BY <1>5, <1>6

\* What is so of x's history after a step of c.
LEMMA HistoryKept ==
    ASSUME FSInv, NEW c \in Callers, TreeStep(c), NEW x \in Callers
    PROVE  /\ DOMAIN hist' = Callers /\ IsHistory(hist'[x])
           /\ hist[x].linked => hist'[x].linked
           /\ hist[x].met => hist'[x].met
           /\ hist[x].missed => hist'[x].missed
           /\ hist[x].ever \subseteq hist'[x].ever /\ hist'[x].stable \subseteq hist[x].stable
           /\ calls[x] # <<>> =>
                 /\ hist'[x].met \/ Place(tree', call[x].path, MaxLinks) \notin DOMAIN tree'
                 /\ hist'[x].missed \/ Place(tree', call[x].path, MaxLinks) \in DOMAIN tree'
                 /\ call[x].op = "ListAllFile" =>
                       /\ hist'[x].stable \subseteq Listing(tree', call[x].path)
                       /\ Listing(tree', call[x].path) \subseteq hist'[x].ever
                 /\ hist'[x].linked \/ x = c \/ NoNewLinks(tree, tree')
                 /\ x = c /\ call[x].op = "Mv" /\ SetTree(c, tree') /\ At(call[x].path) \in DOMAIN tree'
                       => hist'[x].met
<1>1. DOMAIN hist = Callers /\ IsHistory(hist[x]) /\ (calls[x] # <<>> => result[x] = {})
  BY DEF FSInv, CallerInv, HistInv, IsHistory, StackInv
<1>2. CASE SetTree(c, tree') /\ result[x] # {}
  BY <1>1, <1>2, SetTreeIs
<1>3. CASE SetTree(c, tree') /\ result[x] = {}
  <2>1. DOMAIN hist' = Callers /\ IsHistory(hist'[x]) /\ Noticed(hist[x], hist'[x], x, c)
    BY <1>1, <1>3, SetTreeIs
  <2> QED
    BY <1>3, <2>1 DEF Noticed, At
<1>4. CASE UNCHANGED <<tree, hist>>
  <2>1. /\ calls[x] # <<>> =>
              /\ hist[x].met \/ At(call[x].path) \notin DOMAIN tree
              /\ hist[x].missed \/ At(call[x].path) \in DOMAIN tree
              /\ call[x].op = "ListAllFile" =>
                    /\ hist[x].stable \subseteq Listing(tree, call[x].path)
                    /\ Listing(tree, call[x].path) \subseteq hist[x].ever
    BY DEF FSInv, CallerInv, HistInv
  <2>2. NoNewLinks(tree, tree')
    BY <1>4 DEF NoNewLinks, Is
  <2>3. tree' = tree /\ hist' = hist
    BY <1>4
  <2>4. CASE SetTree(c, tree')
    BY <1>2, <1>3, <2>4
  <2> QED
    BY <1>1, <2>1, <2>2, <2>3, <2>4 DEF At
<1> QED
  BY <1>2, <1>3, <1>4 DEF TreeStep

LEMMA NoLinkStays ==
    ASSUME NEW t, IsFileSystem(t), NEW u, IsFileSystem(u), NoNewLinks(t, u), NEW p \in Paths, NoLinkAt(t, p)
    PROVE  NoLinkAt(u, p)
<1> DEFINE q == Place(u, p, MaxLinks)
<1> SUFFICES ASSUME Is(u, q, "link")
             PROVE  FALSE
  BY DEF NoLinkAt
<1>1. q \in DOMAIN t /\ t[q] = u[q] /\ Is(t, q, "link")
  BY DEF NoNewLinks, Is
<1>2. SamePlace(t, u, p, MaxLinks)
  BY SamePlaces, Constants
<1>3. Place(t, p, MaxLinks) = q
  BY <1>1, <1>2 DEF SamePlace
<1> QED
  BY <1>1, <1>3 DEF NoLinkAt

LEMMA SureTyped ==
    ASSUME NEW f \in Frames, NEW j, NEW p \in Sure(f, j)
    PROVE  p \in Paths
<1>1. f.path \in Paths /\ \A e \in f.todo : e.name \in Names
  BY DEF Frames
<1>2. p = f.path \/ \E e \in f.todo : p = Append(f.path, e.name)
  BY DEF Sure
<1> QED
  BY <1>1, <1>2, PathFacts

LEMMA NoLinkOnStays ==
    ASSUME NEW t, IsFileSystem(t), NEW u, IsFileSystem(u), NoNewLinks(t, u), NEW s \in Seq(Frames), NoLinkOn(t, s)
    PROVE  NoLinkOn(u, s)
<1> SUFFICES ASSUME NEW j \in 1..Len(s), NEW p \in Sure(s[j], j)
             PROVE  NoLinkAt(u, p)
  BY DEF NoLinkOn
<1>1. s[j] \in Frames
  OBVIOUS
<1>2. p \in Paths
  BY <1>1, SureTyped
<1> QED
  BY <1>2, NoLinkStays DEF NoLinkOn

LEMMA StackOps ==
    ASSUME NEW s, NEW k, StackOf(s, k), NEW j \in 1..Len(s)
    PROVE  /\ s[j].op = "ListAllFile" <=> k.op = "ListAllFile"
           /\ s[j].op \in {"Mv", "Symlink", "OpenForWrite"} => j = 1
<1>1. s \in Seq(Frames) /\ Len(s) \in Nat /\ s # <<>> /\ Serves(s[1], k)
  BY DEF StackOf
<1>2. \A i \in 2..Len(s) : Callee(s[i - 1], s[i])
  BY DEF StackOf
<1>3. s[j].op \in {"Mv", "Symlink", "OpenForWrite"} => j = 1
  <2>1. CASE j = 1
    BY <2>1
  <2>2. CASE j # 1
    <3>1. j \in 2..Len(s)
      BY <1>1, <2>2
    <3>2. Callee(s[j - 1], s[j])
      BY <1>2, <3>1
    <3> QED
      BY <3>2 DEF Callee
  <2> QED
    BY <2>1, <2>2
<1> DEFINE T == {i \in Nat : i + 1 \in 1..Len(s) => (s[i + 1].op = "ListAllFile" <=> k.op = "ListAllFile")}
<1>4. 0 \in T
  <2>1. s[1].op = "ListAllFile" <=> k.op = "ListAllFile"
    BY <1>1 DEF Serves
  <2> QED
    BY <2>1
<1>5. ASSUME NEW i \in T
      PROVE  i + 1 \in T
  <2> DEFINE a == i + 1
             b == a + 1
  <2>1. a \in Nat /\ b - 1 = a
    BY <1>5
  <2> SUFFICES ASSUME b \in 1..Len(s)
               PROVE  s[b].op = "ListAllFile" <=> k.op = "ListAllFile"
    BY <2>1
  <2>2. a \in 1..Len(s) /\ b \in 2..Len(s)
    BY <1>1, <1>5
  <2>3. s[a].op = "ListAllFile" <=> k.op = "ListAllFile"
    BY <1>5, <2>2
  <2>4. Callee(s[b - 1], s[b])
    BY <1>2, <2>2
  <2>5. Callee(s[a], s[b])
    BY <2>1, <2>4, Zenon
  <2> HIDE DEF a, b
  <2> QED
    BY <2>3, <2>5 DEF Callee
<1>6. T = Nat
  <2>1. T \in SUBSET Nat
    OBVIOUS
  <2> HIDE DEF T
  <2> QED
    BY <1>4, <1>5, <2>1, Induction
<1>7. s[j].op = "ListAllFile" <=> k.op = "ListAllFile"
  <2> DEFINE i == j - 1
  <2>1. i \in Nat /\ i + 1 = j
    BY <1>1
  <2> HIDE DEF i
  <2>2. i \in T
    BY <1>6, <2>1
  <2> QED
    BY <2>1, <2>2
<1> QED
  BY <1>3, <1>7

\* Others notice what c does only by their history.
LEMMA Bystander ==
    ASSUME FSInv, NEW c \in Callers, TreeStep(c), IsFileSystem(tree'),
           NEW x \in Callers, x # c, calls'[x] = calls[x], result'[x] = result[x],
           files'[x] = files[x], call'[x] = call[x]
    PROVE  CallerInv(x)'
<1> DEFINE s == calls[x]
           k == call[x]
           h == hist[x]
           g == hist'[x]
<1>1. IsFileSystem(tree) /\ CallerInv(x)
  BY DEF FSInv
<1>2. /\ DOMAIN hist' = Callers /\ IsHistory(g)
      /\ h.linked => g.linked
      /\ h.met => g.met
      /\ h.missed => g.missed
      /\ h.ever \subseteq g.ever /\ g.stable \subseteq h.stable
      /\ s # <<>> =>
            /\ g.met \/ Place(tree', k.path, MaxLinks) \notin DOMAIN tree'
            /\ g.missed \/ Place(tree', k.path, MaxLinks) \in DOMAIN tree'
            /\ k.op = "ListAllFile" => g.stable \subseteq Listing(tree', k.path) /\ Listing(tree', k.path) \subseteq g.ever
            /\ g.linked \/ NoNewLinks(tree, tree')
  BY HistoryKept
<1>3. StackInv(x)'
  BY <1>1 DEF CallerInv, StackInv
<1>4. HistInv(x)'
  BY <1>2 DEF HistInv, IsHistory, At
<1>5. LinkInv(x)'
  <2> SUFFICES ASSUME ~g.linked
               PROVE  NoLinkOn(tree', s)
    BY DEF LinkInv
  <2>1. CASE s = <<>>
    BY <2>1 DEF NoLinkOn
  <2>2. CASE s # <<>>
    <3>1. NoNewLinks(tree, tree') /\ s \in Seq(Frames) /\ NoLinkOn(tree, s)
      BY <1>1, <1>2, <2>2 DEF CallerInv, LinkInv, StackInv, StackOf
    <3> QED
      BY <1>1, <3>1, NoLinkOnStays
  <2> QED
    BY <2>1, <2>2
<1>6. CoverInv(x)'
  <2>1. CoverInv(x)
    BY <1>1 DEF CallerInv
  <2> SUFFICES ASSUME k.op = "ListAllFile", NEW p \in g.stable, Last(p) \in k.arg
               PROVE  Covered(s, files[x], p)
    BY DEF CoverInv
  <2> QED
    BY <1>2, <2>1 DEF CoverInv
<1>7. SeenInv(x)'
  <2>1. SeenInv(x)
    BY <1>1 DEF CallerInv
  <2> SUFFICES ASSUME k.op = "ListAllFile", ~g.linked
               PROVE  files[x] \subseteq g.ever /\ \A j \in 1..Len(s) : Seen(s[j]) \subseteq g.ever
    BY DEF SeenInv
  <2>2. files[x] \subseteq h.ever /\ \A j \in 1..Len(s) : Seen(s[j]) \subseteq h.ever
    BY <1>2, <2>1 DEF SeenInv
  <2> QED
    BY <1>2, <2>2
<1>8. ReportInv(x)'
  BY <1>1, <1>2 DEF CallerInv, ReportInv, Returned
<1> QED
  BY <1>3, <1>4, <1>5, <1>6, <1>7, <1>8 DEF CallerInv

\* c's own invariant after a step that leaves its stack z.
LEMMA OwnStep ==
    ASSUME FSInv, NEW c \in Callers, TreeStep(c), IsFileSystem(tree'), calls[c] # <<>>, call'[c] = call[c],
           NEW z, calls'[c] = z, Moves(calls[c], z), StackOf(z, call[c]),
           z # <<>> => result'[c] = {} /\ NoNewLinks(tree, tree'),
           ~hist[c].linked => \A j \in 1..Len(z) : j >= Len(calls[c]) => \A p \in Sure(z[j], j) : NoLinkAt(tree', p),
           call[c].op = "ListAllFile" =>
              /\ files[c] \subseteq files'[c]
              /\ \A p \in hist[c].stable : Last(p) \in call[c].arg /\ Ahead(Last(calls[c]), p) =>
                    p \in files'[c] \/ \E j \in 1..Len(z) : Ahead(z[j], p)
              /\ ~hist[c].linked => /\ files'[c] \subseteq hist[c].ever
                                    /\ \A j \in 1..Len(z) : j >= Len(calls[c]) => Seen(z[j]) \subseteq hist[c].ever,
           ReportInv(c)'
    PROVE  CallerInv(c)'
<1> DEFINE s == calls[c]
           k == call[c]
           h == hist[c]
           g == hist'[c]
<1>1. IsFileSystem(tree) /\ CallerInv(c) /\ s \in Seq(Frames)
  BY DEF FSInv, CallerInv, StackInv, StackOf
<1>2. /\ IsHistory(g)
      /\ h.linked => g.linked
      /\ h.ever \subseteq g.ever /\ g.stable \subseteq h.stable
      /\ g.met \/ Place(tree', k.path, MaxLinks) \notin DOMAIN tree'
      /\ g.missed \/ Place(tree', k.path, MaxLinks) \in DOMAIN tree'
      /\ k.op = "ListAllFile" => g.stable \subseteq Listing(tree', k.path) /\ Listing(tree', k.path) \subseteq g.ever
  BY HistoryKept
<1>3. StackInv(c)'
  BY DEF StackInv
<1>4. HistInv(c)'
  BY <1>2 DEF HistInv, IsHistory, At
<1>5. LinkInv(c)'
  <2> SUFFICES ASSUME ~g.linked
               PROVE  NoLinkOn(tree', z)
    BY DEF LinkInv
  <2>1. CASE z = <<>>
    BY <2>1 DEF NoLinkOn
  <2>2. CASE z # <<>>
    <3>1. NoNewLinks(tree, tree') /\ NoLinkOn(tree, s)
      BY <1>1, <1>2, <2>2 DEF CallerInv, LinkInv
    <3>2. NoLinkOn(tree', s)
      BY <1>1, <3>1, NoLinkOnStays
    <3>3. \A j \in 1..Len(z) : j >= Len(s) => \A p \in Sure(z[j], j) : NoLinkAt(tree', p)
      BY <1>2
    <3> QED
      BY <1>1, <3>2, <3>3, NoLinkKept
  <2> QED
    BY <2>1, <2>2
<1>6. CoverInv(c)'
  <2>1. CoverInv(c)
    BY <1>1 DEF CallerInv
  <2> SUFFICES ASSUME k.op = "ListAllFile", NEW p \in g.stable, Last(p) \in k.arg
               PROVE  Covered(z, files'[c], p)
    BY DEF CoverInv
  <2>2. Covered(s, files[c], p)
    BY <1>2, <2>1 DEF CoverInv
  <2>3. Ahead(Last(s), p) => p \in files'[c] \/ \E j \in 1..Len(z) : Ahead(z[j], p)
    BY <1>2
  <2>4. files[c] \subseteq files'[c]
    OBVIOUS
  <2> QED
    BY <1>1, <2>2, <2>3, <2>4, CoverKept
<1>7. SeenInv(c)'
  <2>1. SeenInv(c)
    BY <1>1 DEF CallerInv
  <2> SUFFICES ASSUME k.op = "ListAllFile", ~g.linked
               PROVE  files'[c] \subseteq g.ever /\ \A j \in 1..Len(z) : Seen(z[j]) \subseteq g.ever
    BY DEF SeenInv
  <2>2. \A j \in 1..Len(s) : Seen(s[j]) \subseteq h.ever
    BY <1>2, <2>1 DEF SeenInv
  <2>3. files'[c] \subseteq h.ever /\ \A j \in 1..Len(z) : j >= Len(s) => Seen(z[j]) \subseteq h.ever
    BY <1>2
  <2> HIDE DEF h
  <2>4. \A j \in 1..Len(z) : Seen(z[j]) \subseteq h.ever
    BY <1>1, <2>2, <2>3, SeenKept
  <2> QED
    BY <1>2, <2>3, <2>4
<1> QED
  BY <1>3, <1>4, <1>5, <1>6, <1>7 DEF CallerInv

\* Only c's calls, results and files change.
Only(c) ==
    /\ DOMAIN calls' = Callers /\ DOMAIN result' = Callers /\ DOMAIN files' = Callers /\ DOMAIN call' = Callers
    /\ \A x \in Callers : x # c => /\ calls'[x] = calls[x] /\ result'[x] = result[x]
                                   /\ files'[x] = files[x] /\ call'[x] = call[x]

LEMMA OnlyOne ==
    ASSUME FSInv, NEW c \in Callers, TreeStep(c), IsFileSystem(tree'), Only(c), CallerInv(c)'
    PROVE  FSInv'
<1>1. \A x \in Callers : CallerInv(x)'
  BY Bystander DEF Only
<1>2. DOMAIN hist' = Callers
  BY HistoryKept
<1> QED
  BY <1>1, <1>2 DEF FSInv, Only

LEMMA StackFacts ==
    ASSUME FSInv, NEW c \in Callers, calls[c] # <<>>
    PROVE  /\ calls[c] \in Seq(Frames) /\ StackOf(calls[c], call[c]) /\ result[c] = {}
           /\ Len(calls[c]) \in Nat \ {0}
           /\ Top(c) \in Frames /\ Top(c) = Last(calls[c]) /\ Top(c) = calls[c][Len(calls[c])]
           /\ call[c] \in Calls /\ call[c].path \in Paths /\ OnPath(Top(c))
           /\ Top(c).op = "ListAllFile" <=> call[c].op = "ListAllFile"
           /\ Top(c).op \in {"Mv", "Symlink", "OpenForWrite"} => Len(calls[c]) = 1
           /\ Len(calls[c]) = 1 => Serves(Top(c), call[c])
<1>1. StackOf(calls[c], call[c]) /\ calls[c] \in Seq(Frames) /\ result[c] = {} /\ call[c] \in Calls
      /\ Serves(calls[c][1], call[c]) /\ \A j \in 1..Len(calls[c]) : OnPath(calls[c][j])
  BY DEF FSInv, CallerInv, StackInv, StackOf
<1>2. Len(calls[c]) \in Nat \ {0} /\ Last(calls[c]) \in Frames /\ Last(calls[c]) = calls[c][Len(calls[c])]
  BY <1>1, FrontIs
<1>3. call[c].path \in Paths
  BY <1>1, FSAssumption
<1>4. Len(calls[c]) \in 1..Len(calls[c])
  BY <1>2
<1>5. /\ calls[c][Len(calls[c])].op = "ListAllFile" <=> call[c].op = "ListAllFile"
      /\ calls[c][Len(calls[c])].op \in {"Mv", "Symlink", "OpenForWrite"} => Len(calls[c]) = 1
  BY <1>1, <1>4, StackOps
<1> QED
  BY <1>1, <1>2, <1>3, <1>4, <1>5 DEF Top

LEMMA GoesKept ==
    ASSUME FSInv, NEW c \in Callers, TreeStep(c), IsFileSystem(tree'), NoNewLinks(tree, tree'), calls[c] # <<>>,
           NEW f \in Frames, Goes(c, f), OnPath(f), f.path = Top(c).path,
           f.op = Top(c).op \/ (Top(c).op = "Rm" /\ f.op = "Unlink"),
           UNCHANGED call, DOMAIN files' = Callers, \A x \in Callers : x # c => files'[x] = files[x],
           ~hist[c].linked => \A p \in Sure(f, Len(calls[c])) : NoLinkAt(tree', p),
           f.op = "ListAllFile" =>
              /\ files[c] \subseteq files'[c]
              /\ \A p \in hist[c].stable : Last(p) \in call[c].arg /\ Ahead(Top(c), p) => p \in files'[c] \/ Ahead(f, p)
              /\ ~hist[c].linked => files'[c] \subseteq hist[c].ever /\ Seen(f) \subseteq hist[c].ever
    PROVE  FSInv'
<1> DEFINE s == calls[c]
           z == Append(Front(s), f)
           n == Len(s)
<1>1. DOMAIN calls = Callers /\ DOMAIN result = Callers /\ DOMAIN call = Callers /\ CallerInv(c)
  BY DEF FSInv
<1>2. calls' = [calls EXCEPT ![c] = z] /\ result' = result
  BY DEF Goes
<1>3. calls'[c] = z /\ Only(c) /\ call'[c] = call[c] /\ result'[c] = result[c]
  BY <1>1, <1>2 DEF Only
<1>4. s \in Seq(Frames) /\ StackOf(s, call[c]) /\ result[c] = {} /\ n \in Nat \ {0} /\ Top(c) = Last(s)
      /\ (Top(c).op = "ListAllFile" <=> call[c].op = "ListAllFile")
  BY StackFacts
<1>5. Moves(s, z) /\ Len(z) = n /\ z[n] = f
  BY <1>4, GoesMoves
<1> HIDE DEF z
<1>6. StackOf(z, call[c])
  BY <1>4, <1>5, StackKept
<1>7. n \in 1..Len(z) /\ \A j \in 1..Len(z) : j >= n => j = n
  BY <1>4, <1>5
<1>8. ReportInv(c)'
  BY <1>1, <1>3, <1>4 DEF CallerInv, ReportInv, Returned
<1>9. ~hist[c].linked => \A j \in 1..Len(z) : j >= n => \A p \in Sure(z[j], j) : NoLinkAt(tree', p)
  BY <1>5, <1>7
<1>10. call[c].op = "ListAllFile" =>
          /\ files[c] \subseteq files'[c]
          /\ \A p \in hist[c].stable : Last(p) \in call[c].arg /\ Ahead(Last(s), p) =>
                p \in files'[c] \/ \E j \in 1..Len(z) : Ahead(z[j], p)
          /\ ~hist[c].linked => /\ files'[c] \subseteq hist[c].ever
                                /\ \A j \in 1..Len(z) : j >= n => Seen(z[j]) \subseteq hist[c].ever
  BY <1>4, <1>5, <1>7
<1>11. CallerInv(c)'
  BY <1>3, <1>4, <1>5, <1>6, <1>8, <1>9, <1>10, OwnStep
<1> QED
  BY <1>3, <1>11, OnlyOne

LEMMA PushesKept ==
    ASSUME FSInv, NEW c \in Callers, TreeStep(c), IsFileSystem(tree'), NoNewLinks(tree, tree'), calls[c] # <<>>,
           NEW f \in Frames, NEW g \in Frames, Pushes(c, f, g), OnPath(f), OnPath(g), Callee(f, g),
           f.path = Top(c).path, f.op = Top(c).op, UNCHANGED <<files, call>>,
           ~hist[c].linked => /\ \A p \in Sure(f, Len(calls[c])) : NoLinkAt(tree', p)
                              /\ \A p \in Sure(g, Len(calls[c]) + 1) : NoLinkAt(tree', p),
           f.op = "ListAllFile" =>
              /\ \A p \in hist[c].stable : Last(p) \in call[c].arg /\ Ahead(Top(c), p) => Ahead(f, p) \/ Ahead(g, p)
              /\ ~hist[c].linked => Seen(f) \subseteq hist[c].ever /\ Seen(g) \subseteq hist[c].ever
    PROVE  FSInv'
<1> DEFINE s == calls[c]
           z == Pushed(s, f, g)
           n == Len(s)
<1>1. /\ DOMAIN calls = Callers /\ DOMAIN result = Callers /\ DOMAIN call = Callers /\ DOMAIN files = Callers
      /\ CallerInv(c)
  BY DEF FSInv
<1>2. calls' = [calls EXCEPT ![c] = z] /\ result' = result
  BY DEF Pushes, Pushed
<1>3. calls'[c] = z /\ Only(c) /\ call'[c] = call[c] /\ result'[c] = result[c] /\ files'[c] = files[c]
  BY <1>1, <1>2 DEF Only
<1>4. s \in Seq(Frames) /\ StackOf(s, call[c]) /\ result[c] = {} /\ n \in Nat \ {0} /\ Top(c) = Last(s)
      /\ (Top(c).op = "ListAllFile" <=> call[c].op = "ListAllFile")
  BY StackFacts
<1>5. Moves(s, z) /\ Len(z) = n + 1 /\ z[n] = f /\ z[n + 1] = g
  BY <1>4, PushesMoves
<1> HIDE DEF z
<1>6. StackOf(z, call[c])
  BY <1>4, <1>5, StackKept
<1>7. n \in 1..Len(z) /\ n + 1 \in 1..Len(z) /\ \A j \in 1..Len(z) : j >= n => j = n \/ j = n + 1
  BY <1>4, <1>5
<1>8. ReportInv(c)'
  BY <1>1, <1>3, <1>4 DEF CallerInv, ReportInv, Returned
<1>9. ~hist[c].linked => \A j \in 1..Len(z) : j >= n => \A p \in Sure(z[j], j) : NoLinkAt(tree', p)
  BY <1>5, <1>7
<1>10. call[c].op = "ListAllFile" =>
          /\ files[c] \subseteq files'[c]
          /\ \A p \in hist[c].stable : Last(p) \in call[c].arg /\ Ahead(Last(s), p) =>
                p \in files'[c] \/ \E j \in 1..Len(z) : Ahead(z[j], p)
          /\ ~hist[c].linked => /\ files'[c] \subseteq hist[c].ever
                                /\ \A j \in 1..Len(z) : j >= n => Seen(z[j]) \subseteq hist[c].ever
  <2> SUFFICES ASSUME call[c].op = "ListAllFile"
               PROVE  /\ files[c] \subseteq files'[c]
                      /\ \A p \in hist[c].stable : Last(p) \in call[c].arg /\ Ahead(Last(s), p) =>
                            p \in files'[c] \/ \E j \in 1..Len(z) : Ahead(z[j], p)
                      /\ ~hist[c].linked => /\ files'[c] \subseteq hist[c].ever
                                            /\ \A j \in 1..Len(z) : j >= n => Seen(z[j]) \subseteq hist[c].ever
    OBVIOUS
  <2>1. ~hist[c].linked => files[c] \subseteq hist[c].ever
    BY <1>1 DEF CallerInv, SeenInv
  <2> QED
    BY <1>3, <1>4, <1>5, <1>7, <2>1
<1>11. CallerInv(c)'
  BY <1>3, <1>4, <1>5, <1>6, <1>8, <1>9, <1>10, OwnStep
<1> QED
  BY <1>3, <1>11, OnlyOne

LEMMA ReturnKept ==
    ASSUME FSInv, NEW c \in Callers, TreeStep(c), IsFileSystem(tree'), calls[c] # <<>>,
           NEW r \in BOOLEAN, Return(c, r), UNCHANGED <<files, call>>,
           Len(calls[c]) # 1 => NoNewLinks(tree, tree'),
           Top(c).op = "ListAllFile" =>
              \A p \in hist[c].stable : Last(p) \in call[c].arg => ~Ahead(Top(c), p),
           r /\ Len(calls[c]) = 1 =>
              /\ call[c].op \in {"Rm", "Unlink"} => hist'[c].missed
              /\ call[c].op \in {"Mkdir", "Mv", "Symlink", "OpenForWrite"} => hist'[c].met
    PROVE  FSInv'
<1> DEFINE s == calls[c]
           b == Front(s)
           z == IF b = <<>> THEN <<>> ELSE [b EXCEPT ![Len(b)].ret = r]
           n == Len(s)
<1>1. /\ DOMAIN calls = Callers /\ DOMAIN result = Callers /\ DOMAIN call = Callers /\ DOMAIN files = Callers
      /\ CallerInv(c)
  BY DEF FSInv
<1>2. calls' = [calls EXCEPT ![c] = z] /\ result' = [result EXCEPT ![c] = IF b = <<>> THEN {r} ELSE {}]
  BY DEF Return
<1>4. s \in Seq(Frames) /\ StackOf(s, call[c]) /\ result[c] = {} /\ n \in Nat \ {0} /\ Top(c) = Last(s)
      /\ (Top(c).op = "ListAllFile" <=> call[c].op = "ListAllFile")
  BY StackFacts
<1>5. Moves(s, z) /\ Len(z) = n - 1 /\ (b = <<>> <=> n = 1) /\ (z = <<>> <=> n = 1)
  BY <1>4, ReturnMoves
<1> HIDE DEF z, b
<1>3. /\ calls'[c] = z /\ Only(c) /\ call'[c] = call[c] /\ files'[c] = files[c]
      /\ result'[c] = IF n = 1 THEN {r} ELSE {}
  BY <1>1, <1>2, <1>5 DEF Only
<1>6. StackOf(z, call[c])
  BY <1>4, <1>5, StackKept
<1>7. \A j \in 1..Len(z) : ~(j >= n)
  BY <1>4, <1>5
<1>8. ReportInv(c)'
  <2>1. result'[c] \in SUBSET BOOLEAN /\ (result'[c] # {} => calls'[c] = <<>>)
    BY <1>3, <1>5
  <2>2. ASSUME result'[c] = {TRUE}
        PROVE  r /\ n = 1
    BY <1>3, <2>2
  <2> QED
    BY <1>3, <2>1, <2>2 DEF ReportInv, Returned
<1>9. z # <<>> => result'[c] = {} /\ NoNewLinks(tree, tree')
  BY <1>3, <1>5
<1>10. call[c].op = "ListAllFile" =>
          /\ files[c] \subseteq files'[c]
          /\ \A p \in hist[c].stable : Last(p) \in call[c].arg /\ Ahead(Last(s), p) =>
                p \in files'[c] \/ \E j \in 1..Len(z) : Ahead(z[j], p)
          /\ ~hist[c].linked => /\ files'[c] \subseteq hist[c].ever
                                /\ \A j \in 1..Len(z) : j >= n => Seen(z[j]) \subseteq hist[c].ever
  <2> SUFFICES ASSUME call[c].op = "ListAllFile"
               PROVE  /\ files[c] \subseteq files'[c]
                      /\ \A p \in hist[c].stable : Last(p) \in call[c].arg => ~Ahead(Last(s), p)
                      /\ ~hist[c].linked => files'[c] \subseteq hist[c].ever
    BY <1>7
  <2> QED
    BY <1>1, <1>3, <1>4 DEF CallerInv, SeenInv
<1>11. CallerInv(c)'
  BY <1>3, <1>4, <1>5, <1>6, <1>7, <1>8, <1>9, <1>10, OwnStep
<1> QED
  BY <1>3, <1>11, OnlyOne

-----------------------------------------------------------------------------
(***************************************************************************)
(* Steps that read, make and remove.                                       *)
(***************************************************************************)
LEMMA Quiet ==
    ASSUME FSInv, UNCHANGED <<tree, hist>>, NEW c
    PROVE  /\ TreeStep(c) /\ IsFileSystem(tree') /\ NoNewLinks(tree, tree')
           /\ tree' = tree /\ hist' = hist
<1>1. IsFileSystem(tree) /\ tree' = tree /\ hist' = hist
  BY DEF FSInv
<1>2. NoNewLinks(tree, tree)
  BY DEF NoNewLinks, Is
<1> QED
  BY <1>1, <1>2 DEF TreeStep

\* A place where something could be made or renamed to is in a directory.
LEMMA InDir ==
    ASSUME IsFileSystem(tree), NEW p \in Paths, NEW q \in {At(p), End(p)}, Writable(q)
    PROVE  q \in Paths /\ q # <<>> /\ q # Nowhere /\ Is(tree, Front(q), "dir")
<1>1. q \notin {Nowhere, <<>>}
  BY DEF Writable
<1>2. CASE q = At(p)
  BY <1>1, <1>2, PlaceIs, Constants DEF At, Places
<1>3. CASE q = End(p)
  BY <1>1, <1>3, TargetIs, TargetInDir, Constants DEF End, Places
<1> QED
  BY <1>1, <1>2, <1>3

LEMMA EndPlace ==
    ASSUME NEW t, IsFileSystem(t), NEW p \in Paths, Target(t, p, MaxLinks) \in DOMAIN t
    PROVE  Place(t, p, MaxLinks) \in DOMAIN t
<1>1. CASE Is(t, Place(t, p, MaxLinks), "link")
  BY <1>1 DEF Is
<1>2. CASE ~Is(t, Place(t, p, MaxLinks), "link")
  BY <1>2, TargetPlace, Constants
<1> QED
  BY <1>1, <1>2

\* Something has been made at q.
LEMMA Makes ==
    ASSUME FSInv, NEW c \in Callers, NEW p \in Paths, NEW q \in {At(p), End(p)}, CanMkdir(q),
           NEW node, IsNode(node), SetTree(c, With(q, node))
    PROVE  /\ TreeStep(c) /\ IsFileSystem(tree')
           /\ node.kind # "link" => NoNewLinks(tree, tree')
           /\ q = At(p) => Place(tree', p, MaxLinks) \in DOMAIN tree'
           /\ q = End(p) /\ node.kind # "link" => Place(tree', p, MaxLinks) \in DOMAIN tree'
           /\ \A r \in DOMAIN tree : r \in DOMAIN tree' /\ tree'[r] = tree[r]
<1>1. IsFileSystem(tree) /\ tree' = With(q, node)
  BY DEF FSInv, SetTree
<1>2. q \in Paths /\ Is(tree, Front(q), "dir")
  BY <1>1, InDir DEF CanMkdir
<1>3. /\ IsFileSystem(tree') /\ DOMAIN tree' = DOMAIN tree \cup {q} /\ tree'[q] = node
      /\ \A r \in DOMAIN tree : r # q /\ tree'[r] = tree[r]
  <2> DEFINE u == With(q, node)
  <2>1. /\ IsFileSystem(u) /\ DOMAIN u = DOMAIN tree \cup {q} /\ u[q] = node
        /\ \A r \in DOMAIN tree : r # q /\ u[r] = tree[r]
    BY <1>1, <1>2, WithKept
  <2>2. tree' = u
    BY <1>1
  <2> HIDE DEF u
  <2> QED
    BY <2>1, <2>2
<1>4. TreeStep(c)
  BY <1>1 DEF TreeStep
<1>5. NoNewLinks(tree', tree)
  BY <1>3 DEF NoNewLinks, Is
<1>6. node.kind # "link" => NoNewLinks(tree, tree')
  BY <1>3 DEF NoNewLinks, Is
<1>7. SamePlace(tree', tree, p, MaxLinks) /\ SameTarget(tree', tree, p, MaxLinks)
  BY <1>1, <1>3, <1>5, SamePlaces, Constants
<1>8. ASSUME q = At(p)
      PROVE  Place(tree', p, MaxLinks) \in DOMAIN tree'
  BY <1>3, <1>7, <1>8 DEF SamePlace, At
<1>9. ASSUME q = End(p), node.kind # "link"
      PROVE  Place(tree', p, MaxLinks) \in DOMAIN tree'
  <2>1. Target(tree', p, MaxLinks) = q
    BY <1>3, <1>7, <1>9 DEF SameTarget, End, Is
  <2> QED
    BY <1>3, <2>1, EndPlace
<1> QED
  BY <1>3, <1>4, <1>6, <1>8, <1>9

\* What was at p has been removed.
LEMMA Removes ==
    ASSUME FSInv, NEW c \in Callers, NEW p \in Paths, CanUnlink(At(p)) \/ CanRmdir(At(p)),
           SetTree(c, Without(tree, {At(p)}))
    PROVE  /\ TreeStep(c) /\ IsFileSystem(tree') /\ NoNewLinks(tree, tree')
           /\ Place(tree', p, MaxLinks) \notin DOMAIN tree'
           /\ At(p) \in DOMAIN tree /\ \A r \in DOMAIN tree : r # At(p) => r \in DOMAIN tree' /\ tree'[r] = tree[r]
<1> DEFINE q == At(p)
<1>1. IsFileSystem(tree) /\ tree' = Without(tree, {q})
  BY DEF FSInv, SetTree
<1>2. /\ IsFileSystem(tree') /\ NoNewLinks(tree, tree')
      /\ q \in DOMAIN tree /\ DOMAIN tree' = DOMAIN tree \ {q}
      /\ \A r \in DOMAIN tree \ {q} : tree'[r] = tree[r]
  BY <1>1, RemovedKept
<1>3. TreeStep(c)
  BY <1>1 DEF TreeStep
<1>4. SamePlace(tree, tree', p, MaxLinks)
  BY <1>1, <1>2, SamePlaces, Constants
<1>5. Place(tree', p, MaxLinks) \notin DOMAIN tree'
  BY <1>2, <1>4 DEF SamePlace, At
<1> QED
  BY <1>2, <1>3, <1>5

\* A return that reports what is so at the path of the frame.
LEMMA Returns ==
    ASSUME FSInv, NEW c \in Callers, TreeStep(c), IsFileSystem(tree'), calls[c] # <<>>,
           NEW r \in BOOLEAN, Return(c, r), UNCHANGED <<files, call>>,
           Len(calls[c]) # 1 => NoNewLinks(tree, tree'),
           Top(c).op # "ListAllFile",
           r /\ Top(c).op \in {"Rm", "Unlink"} => Place(tree', Top(c).path, MaxLinks) \notin DOMAIN tree',
           r /\ Top(c).op \in {"Mkdir", "Mv", "Symlink", "OpenForWrite"} =>
              \/ Place(tree', Top(c).path, MaxLinks) \in DOMAIN tree'
              \/ hist'[c].met
    PROVE  FSInv'
<1>1. Len(calls[c]) = 1 => Serves(Top(c), call[c])
  BY StackFacts
<1>2. /\ hist'[c].met \/ Place(tree', call[c].path, MaxLinks) \notin DOMAIN tree'
      /\ hist'[c].missed \/ Place(tree', call[c].path, MaxLinks) \in DOMAIN tree'
  BY HistoryKept
<1>3. ASSUME r, Len(calls[c]) = 1
      PROVE  /\ call[c].op \in {"Rm", "Unlink"} => hist'[c].missed
             /\ call[c].op \in {"Mkdir", "Mv", "Symlink", "OpenForWrite"} => hist'[c].met
  <2>1. /\ Top(c).path = call[c].path
        /\ Top(c).op = call[c].op \/ (call[c].op = "Rm" /\ Top(c).op = "Unlink")
    BY <1>1, <1>3 DEF Serves
  <2> QED
    BY <1>2, <1>3, <2>1
<1> QED
  BY <1>3, ReturnKept

\* A step that only reads, and goes on with the frame f.
LEMMA Reads ==
    ASSUME FSInv, NEW c \in Callers, UNCHANGED <<tree, hist, files, call>>, calls[c] # <<>>,
           NEW f \in Frames, Goes(c, f), OnPath(f), f.path = Top(c).path,
           f.op = Top(c).op \/ (Top(c).op = "Rm" /\ f.op = "Unlink"), f.op # "ListAllFile",
           ~hist[c].linked => \A p \in Sure(f, Len(calls[c])) : NoLinkAt(tree, p)
    PROVE  FSInv'
<1>1. TreeStep(c) /\ IsFileSystem(tree') /\ NoNewLinks(tree, tree') /\ tree' = tree
  BY Quiet
<1>2. DOMAIN files' = Callers /\ \A x \in Callers : x # c => files'[x] = files[x]
  BY DEF FSInv
<1>3. ~hist[c].linked => \A p \in Sure(f, Len(calls[c])) : NoLinkAt(tree', p)
  BY <1>1
<1> QED
  BY <1>1, <1>2, <1>3, GoesKept

-----------------------------------------------------------------------------
(***************************************************************************)
(* Mkdir, Unlink and Rm.                                                   *)
(***************************************************************************)
LEMMA InFacts ==
    ASSUME FSInv, NEW c \in Callers, NEW op, NEW pc, In(c, op, pc)
    PROVE  /\ calls[c] # <<>> /\ Top(c) \in Frames /\ Top(c).op = op /\ Top(c).pc = pc
           /\ Top(c).path \in Paths /\ Top(c).i \in Nat \ {0} /\ OnPath(Top(c))
           /\ \A e \in Top(c).todo : e.name \in Names /\ e.kind \in Kinds
           /\ Top(c).ret \in BOOLEAN
<1>1. calls[c] # <<>> /\ Top(c).op = op /\ Top(c).pc = pc
  BY DEF In
<1>2. Top(c) \in Frames /\ OnPath(Top(c))
  BY <1>1, StackFacts
<1> QED
  BY <1>1, <1>2 DEF Frames

LEMMA FrameTo ==
    ASSUME NEW f \in Frames, NEW pc \in Pcs
    PROVE  /\ [f EXCEPT !.pc = pc] \in Frames
           /\ [f EXCEPT !.pc = pc].op = f.op /\ [f EXCEPT !.pc = pc].path = f.path
           /\ [f EXCEPT !.pc = pc].pc = pc /\ [f EXCEPT !.pc = pc].i = f.i
           /\ [f EXCEPT !.pc = pc].todo = f.todo
BY DEF Frames

NextFrame(f, pc, i) == [f EXCEPT !.pc = pc, !.i = i]

LEMMA FrameNext ==
    ASSUME NEW f \in Frames, NEW pc \in Pcs, NEW i \in Nat \ {0}
    PROVE  /\ NextFrame(f, pc, i) \in Frames
           /\ NextFrame(f, pc, i).op = f.op /\ NextFrame(f, pc, i).path = f.path
           /\ NextFrame(f, pc, i).todo = f.todo /\ NextFrame(f, pc, i).i = i
BY DEF Frames, NextFrame

LEMMA MkdirLstatKept ==
    ASSUME FSInv, NEW c \in Callers, MkdirLstat(c)
    PROVE  FSInv'
<1>1. /\ calls[c] # <<>> /\ Top(c) \in Frames /\ Top(c).op = "Mkdir" /\ Top(c).pc = "lstat"
      /\ Top(c).path \in Paths /\ OnPath(Top(c))
  BY InFacts DEF MkdirLstat
<1>2. UNCHANGED <<tree, hist, files, call>>
  BY DEF MkdirLstat
<1>3. TreeStep(c) /\ IsFileSystem(tree') /\ NoNewLinks(tree, tree') /\ tree' = tree
  BY <1>2, Quiet
<1>4. CASE At(Top(c).path) \in DOMAIN tree
  <2>1. Return(c, TRUE)
    BY <1>4 DEF MkdirLstat
  <2>2. Place(tree', Top(c).path, MaxLinks) \in DOMAIN tree'
    BY <1>3, <1>4 DEF At
  <2> QED
    BY <1>1, <1>2, <1>3, <2>1, <2>2, Returns
<1>5. CASE At(Top(c).path) \notin DOMAIN tree
  <2> DEFINE f == [Top(c) EXCEPT !.pc = "access"]
  <2>1. Goes(c, f)
    BY <1>5 DEF MkdirLstat
  <2>2. f \in Frames /\ f.op = "Mkdir" /\ f.path = Top(c).path /\ f.i = Top(c).i /\ f.todo = Top(c).todo
    BY <1>1, FrameTo DEF Pcs
  <2>3. Top(c).path # <<>>
    BY <1>5, PlaceIs, PathFacts, SystemFacts, Constants DEF At, FSInv
  <2>4. Top(c).i <= Len(Top(c).path)
    <3>1. Len(Top(c).path) \in Nat /\ Len(Top(c).path) # 0
      BY <1>1, <2>3 DEF Paths
    <3> QED
      BY <1>1, <3>1 DEF OnPath
  <2> HIDE DEF f
  <2>5. OnPath(f)
    BY <2>2, <2>3, <2>4 DEF OnPath
  <2>6. Sure(f, Len(calls[c])) = {}
    BY <2>2 DEF Sure
  <2> QED
    BY <1>1, <1>2, <2>1, <2>2, <2>5, <2>6, Reads
<1> QED
  BY <1>4, <1>5

\* The last prefix is the path.
LEMMA PrefixIsPath ==
    ASSUME NEW c, NEW p \in Paths, Top(c).path = p, Top(c).i \in 1..Len(p)
    PROVE  Prefix(c) \in Paths /\ (Top(c).i = Len(p) => Prefix(c) = p)
<1> DEFINE i == Top(c).i
<1>1. p \in Seq(Names) /\ Len(p) \in Nat /\ i \in Nat /\ i <= Len(p)
  BY DEF Paths
<1>2. Prefix(c) = SubSeq(p, 1, i)
  BY DEF Prefix
<1> HIDE DEF i
<1>3. SubSeq(p, 1, i) \in Seq(Names) /\ Len(SubSeq(p, 1, i)) = i
  BY <1>1
<1>4. \A j \in 1..i : SubSeq(p, 1, i)[j] = p[j]
  BY <1>1
<1> DEFINE s == SubSeq(p, 1, i)
<1>5. s \in Paths /\ Len(s) = i /\ \A j \in 1..i : s[j] = p[j]
  BY <1>3, <1>4 DEF Paths
<1> HIDE DEF s
<1>6. i = Len(p) => s = p
  BY <1>5, SamePath
<1> QED
  BY <1>2, <1>5, <1>6 DEF s, i

\* The step to the next prefix, or the end of Mkdir.
LEMMA NextPrefixKept ==
    ASSUME FSInv, NEW c \in Callers, TreeStep(c), IsFileSystem(tree'), NoNewLinks(tree, tree'),
           calls[c] # <<>>, Top(c).op = "Mkdir", Top(c).pc # "lstat", NextPrefix(c), UNCHANGED <<files, call>>,
           Top(c).i = Len(Top(c).path) => Place(tree', Top(c).path, MaxLinks) \in DOMAIN tree'
    PROVE  FSInv'
<1>1. Top(c) \in Frames /\ OnPath(Top(c))
  BY StackFacts
<1>2. Top(c).path \in Paths /\ Top(c).i \in Nat \ {0}
  BY <1>1 DEF Frames
<1>3. CASE Top(c).i = Len(Top(c).path)
  <2>1. Return(c, TRUE)
    BY <1>3 DEF NextPrefix
  <2> QED
    BY <1>3, <2>1, Returns
<1>4. CASE Top(c).i # Len(Top(c).path)
  <2> DEFINE i == Top(c).i + 1
             f == [Top(c) EXCEPT !.pc = "access", !.i = i]
  <2>1. Goes(c, f)
    BY <1>4 DEF NextPrefix
  <2>7. i \in Nat \ {0}
    BY <1>2
  <2>8. "access" \in Pcs
    BY DEF Pcs
  <2> HIDE DEF i
  <2>2. /\ f \in Frames /\ f.op = "Mkdir" /\ f.path = Top(c).path /\ f.i = i
        /\ f.todo = Top(c).todo
    <3>1. f = NextFrame(Top(c), "access", i)
      BY DEF NextFrame
    <3> HIDE DEF f
    <3> QED
      BY <1>1, <2>7, <2>8, <3>1, FrameNext
  <2>3. Top(c).path # <<>> /\ Top(c).i <= Len(Top(c).path) /\ Len(Top(c).path) \in Nat
    BY <1>1, <1>2 DEF OnPath, Paths
  <2> HIDE DEF f
  <2>4. OnPath(f)
    BY <1>2, <1>4, <2>2, <2>3 DEF OnPath, i
  <2>5. Sure(f, Len(calls[c])) = {}
    BY <2>2 DEF Sure
  <2>6. DOMAIN files' = Callers /\ \A x \in Callers : x # c => files'[x] = files[x]
    BY DEF FSInv
  <2> QED
    BY <2>1, <2>2, <2>4, <2>5, <2>6, GoesKept
<1> QED
  BY <1>3, <1>4

LEMMA MkdirAccessKept ==
    ASSUME FSInv, NEW c \in Callers, MkdirAccess(c)
    PROVE  FSInv'
<1>1. /\ calls[c] # <<>> /\ Top(c) \in Frames /\ Top(c).op = "Mkdir" /\ Top(c).pc = "access"
      /\ Top(c).path \in Paths /\ Top(c).i \in Nat \ {0} /\ OnPath(Top(c))
  BY InFacts DEF MkdirAccess
<1>2. UNCHANGED <<tree, hist, files, call>>
  BY DEF MkdirAccess
<1>3. TreeStep(c) /\ IsFileSystem(tree') /\ NoNewLinks(tree, tree') /\ tree' = tree /\ IsFileSystem(tree)
  BY <1>2, Quiet DEF FSInv
<1>4. Top(c).path # <<>> /\ Top(c).i \in 1..Len(Top(c).path)
  BY <1>1 DEF OnPath, Paths
<1>5. CASE End(Prefix(c)) \in DOMAIN tree
  <2>1. NextPrefix(c)
    BY <1>5 DEF MkdirAccess
  <2>2. ASSUME Top(c).i = Len(Top(c).path)
        PROVE  Place(tree', Top(c).path, MaxLinks) \in DOMAIN tree'
    <3>1. Prefix(c) = Top(c).path
      BY <1>1, <1>4, <2>2, PrefixIsPath
    <3>2. Target(tree, Top(c).path, MaxLinks) \in DOMAIN tree
      BY <1>5, <3>1 DEF End
    <3>3. Place(tree, Top(c).path, MaxLinks) \in DOMAIN tree
      BY <1>1, <1>3, <3>2, EndPlace
    <3> QED
      BY <1>3, <3>3
  <2> QED
    BY <1>1, <1>2, <1>3, <2>1, <2>2, NextPrefixKept
<1>6. CASE End(Prefix(c)) \notin DOMAIN tree
  <2> DEFINE f == [Top(c) EXCEPT !.pc = "mkdir"]
  <2>1. Goes(c, f)
    BY <1>6 DEF MkdirAccess
  <2>2. f \in Frames /\ f.op = "Mkdir" /\ f.path = Top(c).path /\ f.i = Top(c).i /\ f.todo = Top(c).todo
    BY <1>1, FrameTo DEF Pcs
  <2> HIDE DEF f
  <2>3. OnPath(f)
    BY <1>1, <1>4, <2>2 DEF OnPath
  <2>4. Sure(f, Len(calls[c])) = {}
    BY <2>2 DEF Sure
  <2> QED
    BY <1>1, <1>2, <2>1, <2>2, <2>3, <2>4, Reads
<1> QED
  BY <1>5, <1>6

LEMMA MkdirMkdirKept ==
    ASSUME FSInv, NEW c \in Callers, MkdirMkdir(c)
    PROVE  FSInv'
<1>1. /\ calls[c] # <<>> /\ Top(c) \in Frames /\ Top(c).op = "Mkdir" /\ Top(c).pc = "mkdir"
      /\ Top(c).path \in Paths /\ Top(c).i \in Nat \ {0} /\ OnPath(Top(c))
  BY InFacts DEF MkdirMkdir
<1>2. UNCHANGED <<files, call>>
  BY DEF MkdirMkdir
<1>3. Top(c).path # <<>> /\ Top(c).i \in 1..Len(Top(c).path)
  BY <1>1 DEF OnPath, Paths
<1>4. Prefix(c) \in Paths /\ (Top(c).i = Len(Top(c).path) => Prefix(c) = Top(c).path)
  BY <1>1, <1>3, PrefixIsPath
<1> DEFINE q == At(Prefix(c))
<1>5. CASE CanMkdir(q) /\ SetTree(c, With(q, Dir)) /\ NextPrefix(c)
  <2>1. /\ TreeStep(c) /\ IsFileSystem(tree') /\ NoNewLinks(tree, tree')
        /\ Place(tree', Prefix(c), MaxLinks) \in DOMAIN tree'
    BY <1>4, <1>5, Makes, NodeKinds
  <2> QED
    BY <1>1, <1>2, <1>4, <1>5, <2>1, NextPrefixKept
<1>6. CASE ~CanMkdir(q) /\ Return(c, FALSE) /\ UNCHANGED <<tree, hist>>
  BY <1>1, <1>2, <1>6, Quiet, Returns
<1> QED
  BY <1>5, <1>6 DEF MkdirMkdir

LEMMA UnlinkLstatKept ==
    ASSUME FSInv, NEW c \in Callers, UnlinkLstat(c)
    PROVE  FSInv'
<1>1. /\ calls[c] # <<>> /\ Top(c) \in Frames /\ Top(c).op = "Unlink"
      /\ Top(c).path \in Paths /\ OnPath(Top(c))
  BY InFacts DEF UnlinkLstat
<1>2. UNCHANGED <<tree, hist, files, call>>
  BY DEF UnlinkLstat
<1>3. TreeStep(c) /\ IsFileSystem(tree') /\ NoNewLinks(tree, tree') /\ tree' = tree
  BY <1>2, Quiet
<1>4. CASE At(Top(c).path) \in DOMAIN tree
  <2> DEFINE f == [Top(c) EXCEPT !.pc = "unlink"]
  <2>1. Goes(c, f)
    BY <1>4 DEF UnlinkLstat
  <2>2. f \in Frames /\ f.op = "Unlink" /\ f.path = Top(c).path
    BY <1>1, FrameTo DEF Pcs
  <2> HIDE DEF f
  <2>3. OnPath(f) /\ Sure(f, Len(calls[c])) = {}
    BY <2>2 DEF OnPath, Sure
  <2> QED
    BY <1>1, <1>2, <2>1, <2>2, <2>3, Reads
<1>5. CASE At(Top(c).path) \notin DOMAIN tree
  <2>1. Return(c, TRUE)
    BY <1>5 DEF UnlinkLstat
  <2>2. Place(tree', Top(c).path, MaxLinks) \notin DOMAIN tree'
    BY <1>3, <1>5 DEF At
  <2> QED
    BY <1>1, <1>2, <1>3, <2>1, <2>2, Returns
<1> QED
  BY <1>4, <1>5

LEMMA UnlinkUnlinkKept ==
    ASSUME FSInv, NEW c \in Callers, UnlinkUnlink(c)
    PROVE  FSInv'
<1>1. /\ calls[c] # <<>> /\ Top(c) \in Frames /\ Top(c).op = "Unlink" /\ Top(c).path \in Paths
  BY InFacts DEF UnlinkUnlink
<1>2. UNCHANGED <<files, call>>
  BY DEF UnlinkUnlink
<1> DEFINE q == At(Top(c).path)
<1>3. CASE CanUnlink(q) /\ SetTree(c, Without(tree, {q})) /\ Return(c, TRUE)
  BY <1>1, <1>2, <1>3, Removes, Returns
<1>4. CASE ~CanUnlink(q) /\ Return(c, FALSE) /\ UNCHANGED <<tree, hist>>
  BY <1>1, <1>2, <1>4, Quiet, Returns
<1> QED
  BY <1>3, <1>4 DEF UnlinkUnlink

LEMMA RmLstatKept ==
    ASSUME FSInv, NEW c \in Callers, RmLstat(c)
    PROVE  FSInv'
<1>1. /\ calls[c] # <<>> /\ Top(c) \in Frames /\ Top(c).op = "Rm"
      /\ Top(c).path \in Paths /\ OnPath(Top(c))
  BY InFacts DEF RmLstat
<1>2. UNCHANGED <<tree, hist, files, call>>
  BY DEF RmLstat
<1>3. TreeStep(c) /\ IsFileSystem(tree') /\ NoNewLinks(tree, tree') /\ tree' = tree
  BY <1>2, Quiet
<1> DEFINE p == Top(c).path
<1>4. CASE At(p) \notin DOMAIN tree
  <2>1. Return(c, TRUE)
    BY <1>4 DEF RmLstat
  <2>2. Place(tree', p, MaxLinks) \notin DOMAIN tree'
    BY <1>3, <1>4 DEF At
  <2> QED
    BY <1>1, <1>2, <1>3, <2>1, <2>2, Returns
<1>5. CASE At(p) \in DOMAIN tree /\ HasDirBit(At(p))
  <2> DEFINE f == [Top(c) EXCEPT !.pc = "opendir"]
  <2>1. Goes(c, f)
    BY <1>5 DEF RmLstat
  <2>2. f \in Frames /\ f.op = "Rm" /\ f.path = p
    BY <1>1, FrameTo DEF Pcs
  <2> HIDE DEF f
  <2>3. OnPath(f) /\ Sure(f, Len(calls[c])) \subseteq {p}
    BY <2>2 DEF OnPath, Sure
  <2>4. NoLinkAt(tree, p)
    BY <1>5, NodeKinds DEF NoLinkAt, HasDirBit, At, Is
  <2> QED
    BY <1>1, <1>2, <2>1, <2>2, <2>3, <2>4, Reads
<1>6. CASE At(p) \in DOMAIN tree /\ ~HasDirBit(At(p))
  <2> DEFINE f == Frame("Unlink", "lstat", p)
  <2>1. Goes(c, f)
    BY <1>6 DEF RmLstat
  <2>2. f \in Frames /\ f.op = "Unlink" /\ f.path = p
    BY <1>1, FrameTyped DEF Pcs, Ops
  <2> HIDE DEF f
  <2>3. OnPath(f) /\ Sure(f, Len(calls[c])) = {}
    BY <2>2 DEF OnPath, Sure
  <2> QED
    BY <1>1, <1>2, <2>1, <2>2, <2>3, Reads
<1> QED
  BY <1>4, <1>5, <1>6

LEMMA EntriesAre ==
    ASSUME NEW t, IsFileSystem(t), NEW q \in Paths
    PROVE  /\ Entries(t, q) \in SUBSET [name : Names, kind : Kinds]
           /\ \A e \in Entries(t, q) : Append(q, e.name) \in DOMAIN t /\ t[Append(q, e.name)].kind = e.kind
           /\ \A x \in Names : Append(q, x) \in DOMAIN t =>
                 \E e \in Entries(t, q) : e.name = x /\ e.kind = t[Append(q, x)].kind
<1> DEFINE R == {r \in Below(t, q) : Len(r) = Len(q) + 1}
<1>1. Len(q) \in Nat /\ q # Nowhere /\ DOMAIN t \subseteq Paths
  BY SystemFacts, Constants DEF Paths
<1>2. ASSUME NEW r \in R
      PROVE  r \in DOMAIN t /\ r = Append(q, Last(r)) /\ Last(r) \in Names /\ t[r].kind \in Kinds
  <2>1. r \in DOMAIN t /\ r \in Paths /\ IsPrefix(q, r) /\ Len(r) = Len(q) + 1
    BY <1>1 DEF Below, Under
  <2>2. r # q
    BY <1>1, <2>1
  <2>3. r # <<>> /\ IsPrefix(q, Front(r))
    BY <2>1, <2>2, PrefixFacts
  <2>4. Front(r) \in Paths /\ Last(r) \in Names /\ r = Append(Front(r), Last(r)) /\ Len(Front(r)) = Len(r) - 1
    BY <2>1, <2>3, PathFacts
  <2>5. Len(Front(r)) = Len(q)
    BY <1>1, <2>1, <2>4
  <2>6. Front(r) = q
    BY <2>3, <2>4, <2>5, PrefixIs, SamePath
  <2>7. IsNode(t[r])
    BY <2>1 DEF IsFileSystem
  <2>8. t[r].kind \in Kinds
    BY <2>7, NodeKinds DEF IsNode, Kinds
  <2> QED
    BY <2>1, <2>4, <2>6, <2>8
<1>3. Entries(t, q) = {[name |-> Last(r), kind |-> t[r].kind] : r \in R}
  BY DEF Entries
<1>4. ASSUME NEW x \in Names, Append(q, x) \in DOMAIN t
      PROVE  \E e \in Entries(t, q) : e.name = x /\ e.kind = t[Append(q, x)].kind
  <2> DEFINE r == Append(q, x)
  <2>1. r \in Paths /\ r # <<>> /\ Front(r) = q /\ Last(r) = x
    BY PathFacts
  <2>3. r \in DOMAIN t
    BY <1>4
  <2>4. r # Nowhere
    BY <2>1, Constants
  <2> HIDE DEF r
  <2>2. Len(r) \in Nat /\ Len(q) = Len(r) - 1 /\ IsPrefix(q, r)
    BY <2>1, PathFacts, PrefixFacts
  <2>5. r \in R
    BY <1>1, <2>2, <2>3, <2>4 DEF Below, Under
  <2>6. [name |-> Last(r), kind |-> t[r].kind] \in Entries(t, q)
    BY <1>3, <2>5
  <2> QED
    BY <2>1, <2>6 DEF r
<1> HIDE DEF R
<1>5. \A e \in Entries(t, q) : \E r \in R : e = [name |-> Last(r), kind |-> t[r].kind]
  BY <1>3
<1>6. ASSUME NEW e \in Entries(t, q)
      PROVE  /\ e \in [name : Names, kind : Kinds]
             /\ Append(q, e.name) \in DOMAIN t /\ t[Append(q, e.name)].kind = e.kind
  <2>1. PICK r \in R : e = [name |-> Last(r), kind |-> t[r].kind]
    BY <1>5
  <2>2. e.name = Last(r) /\ e.kind = t[r].kind
    BY <2>1
  <2> QED
    BY <1>2, <2>1, <2>2
<1> QED
  BY <1>4, <1>6

TodoFrame(f, todo) == [f EXCEPT !.todo = todo]
ReadFrame(f, todo) == [f EXCEPT !.pc = "readdir", !.todo = todo]

LEMMA FrameTodo ==
    ASSUME NEW f \in Frames, NEW todo \in SUBSET [name : Names, kind : Kinds]
    PROVE  /\ TodoFrame(f, todo) \in Frames
           /\ TodoFrame(f, todo).op = f.op /\ TodoFrame(f, todo).path = f.path
           /\ TodoFrame(f, todo).pc = f.pc /\ TodoFrame(f, todo).todo = todo
           /\ ReadFrame(f, todo) \in Frames
           /\ ReadFrame(f, todo).op = f.op /\ ReadFrame(f, todo).path = f.path
           /\ ReadFrame(f, todo).pc = "readdir" /\ ReadFrame(f, todo).todo = todo
BY DEF Frames, Pcs, TodoFrame, ReadFrame

\* What is known of the last frame: the paths it is sure of lead to no link.
LEMMA TopSure ==
    ASSUME FSInv, NEW c \in Callers, calls[c] # <<>>, ~hist[c].linked
    PROVE  \A p \in Sure(Top(c), Len(calls[c])) : NoLinkAt(tree, p)
<1>1. NoLinkOn(tree, calls[c])
  BY DEF FSInv, CallerInv, LinkInv
<1>2. Len(calls[c]) \in 1..Len(calls[c]) /\ Top(c) = calls[c][Len(calls[c])]
  BY StackFacts
<1> QED
  BY <1>1, <1>2 DEF NoLinkOn

LEMMA RmOpendirKept ==
    ASSUME FSInv, NEW c \in Callers, RmOpendir(c)
    PROVE  FSInv'
<1>1. /\ calls[c] # <<>> /\ Top(c) \in Frames /\ Top(c).op = "Rm" /\ Top(c).pc = "opendir"
      /\ Top(c).path \in Paths
  BY InFacts DEF RmOpendir
<1>2. UNCHANGED <<tree, hist, files, call>>
  BY DEF RmOpendir
<1> DEFINE d == End(Top(c).path)
<1>3. CASE Is(tree, d, "dir")
  <2> DEFINE todo == Entries(tree, d)
             f == [Top(c) EXCEPT !.pc = "readdir", !.todo = todo]
  <2>1. Goes(c, f)
    BY <1>3, Zenon DEF RmOpendir
  <2>2. todo \in SUBSET [name : Names, kind : Kinds]
    BY <1>3, SystemFacts, EntriesAre DEF FSInv
  <2> HIDE DEF todo
  <2>3. f \in Frames /\ f.op = "Rm" /\ f.path = Top(c).path /\ f.pc = "readdir"
    <3>1. f = ReadFrame(Top(c), todo)
      BY DEF ReadFrame
    <3> HIDE DEF f
    <3> QED
      BY <1>1, <2>2, <3>1, FrameTodo
  <2> HIDE DEF f
  <2>4. OnPath(f) /\ Sure(f, Len(calls[c])) \subseteq Sure(Top(c), Len(calls[c]))
    BY <1>1, <2>3 DEF OnPath, Sure
  <2>5. ~hist[c].linked => \A p \in Sure(f, Len(calls[c])) : NoLinkAt(tree, p)
    BY <1>1, <2>4, TopSure
  <2> QED
    BY <1>1, <1>2, <2>1, <2>3, <2>4, <2>5, Reads
<1>4. CASE ~Is(tree, d, "dir")
  <2>1. Return(c, FALSE)
    BY <1>4 DEF RmOpendir
  <2> QED
    BY <1>1, <1>2, <2>1, Quiet, Returns
<1> QED
  BY <1>3, <1>4

LEMMA RmReaddirKept ==
    ASSUME FSInv, NEW c \in Callers, RmReaddir(c)
    PROVE  FSInv'
<1>1. /\ calls[c] # <<>> /\ Top(c) \in Frames /\ Top(c).op = "Rm" /\ Top(c).pc = "readdir"
      /\ Top(c).path \in Paths
  BY InFacts DEF RmReaddir
<1>2. UNCHANGED <<tree, hist, files, call>>
  BY DEF RmReaddir
<1>3. TreeStep(c) /\ IsFileSystem(tree') /\ NoNewLinks(tree, tree') /\ tree' = tree
  BY <1>2, Quiet
<1>4. PICK e \in Top(c).todo :
          Pushes(c, [Top(c) EXCEPT !.todo = @ \ {e}], Frame("Rm", "lstat", Append(Top(c).path, e.name)))
  BY DEF RmReaddir
<1> DEFINE todo == Top(c).todo \ {e}
           f == [Top(c) EXCEPT !.todo = todo]
           p == Append(Top(c).path, e.name)
           g == Frame("Rm", "lstat", p)
<1>5. Pushes(c, f, g)
  BY <1>4
<1>6. todo \in SUBSET [name : Names, kind : Kinds] /\ e.name \in Names
  BY <1>1 DEF Frames
<1>7. p \in Paths /\ p # <<>> /\ Front(p) = Top(c).path
  BY <1>1, <1>6, PathFacts
<1> HIDE DEF todo, p
<1>8. f \in Frames /\ f.op = "Rm" /\ f.path = Top(c).path /\ f.pc = "readdir"
  <2>1. f = TodoFrame(Top(c), todo)
    BY DEF TodoFrame
  <2> HIDE DEF f
  <2> QED
    BY <1>1, <1>6, <2>1, FrameTodo
<1>9. g \in Frames /\ g.op = "Rm" /\ g.path = p /\ g.pc = "lstat" /\ g.todo = {}
  BY <1>7, FrameTyped DEF Ops, Pcs
<1> HIDE DEF f, g
<1>10. OnPath(f) /\ Sure(f, Len(calls[c])) \subseteq Sure(Top(c), Len(calls[c]))
  BY <1>1, <1>8 DEF OnPath, Sure
<1>11. OnPath(g) /\ Sure(g, Len(calls[c]) + 1) = {} /\ Callee(f, g)
  BY <1>7, <1>8, <1>9 DEF OnPath, Sure, Callee
<1>12. ~hist[c].linked => /\ \A s \in Sure(f, Len(calls[c])) : NoLinkAt(tree', s)
                          /\ \A s \in Sure(g, Len(calls[c]) + 1) : NoLinkAt(tree', s)
  BY <1>1, <1>3, <1>10, <1>11, TopSure
<1> QED
  BY <1>1, <1>2, <1>3, <1>5, <1>8, <1>9, <1>10, <1>11, <1>12, PushesKept

LEMMA RmRmdirKept ==
    ASSUME FSInv, NEW c \in Callers, RmRmdir(c)
    PROVE  FSInv'
<1>1. /\ calls[c] # <<>> /\ Top(c) \in Frames /\ Top(c).op = "Rm" /\ Top(c).path \in Paths
      /\ Top(c).ret \in BOOLEAN
  BY InFacts DEF RmRmdir
<1>2. UNCHANGED <<files, call>>
  BY DEF RmRmdir
<1> DEFINE q == At(Top(c).path)
<1>3. CASE CanRmdir(q) /\ SetTree(c, Without(tree, {q})) /\ Return(c, Top(c).ret)
  BY <1>1, <1>2, <1>3, Removes, Returns
<1>4. CASE ~CanRmdir(q) /\ Return(c, FALSE) /\ UNCHANGED <<tree, hist>>
  BY <1>1, <1>2, <1>4, Quiet, Returns
<1> QED
  BY <1>3, <1>4 DEF RmRmdir

-----------------------------------------------------------------------------
(***************************************************************************)
(* Mv, Symlink and OpenForWrite.                                           *)
(***************************************************************************)
LEMMA MvKept ==
    ASSUME FSInv, NEW c \in Callers, Mv(c)
    PROVE  FSInv'
<1>1. /\ calls[c] # <<>> /\ Top(c) \in Frames /\ Top(c).op = "Mv" /\ Top(c).path \in Paths
  BY InFacts DEF Mv
<1>2. UNCHANGED <<files, call>>
  BY DEF Mv
<1>3. Len(calls[c]) = 1 /\ call[c].path = Top(c).path /\ call[c].op = "Mv"
  BY <1>1, StackFacts DEF Serves
<1> DEFINE f == At(call[c].arg)
           q == At(Top(c).path)
<1>4. CASE CanRename(f, q) /\ SetTree(c, Renamed(f, q)) /\ Return(c, TRUE)
  <2>1. IsFileSystem(tree) /\ tree' = Renamed(f, q)
    BY <1>4 DEF FSInv, SetTree
  <2>2. q \in Paths /\ Is(tree, Front(q), "dir")
    BY <1>1, <1>4, <2>1, InDir DEF CanRename
  <2>3. IsFileSystem(tree') /\ q \in DOMAIN tree'
    <3> DEFINE u == Renamed(f, q)
    <3>1. IsFileSystem(u) /\ q \in DOMAIN u
      BY <1>4, <2>1, <2>2, RenamedKept
    <3>2. tree' = u
      BY <2>1
    <3> HIDE DEF u
    <3> QED
      BY <3>1, <3>2
  <2>4. SetTree(c, tree') /\ TreeStep(c)
    BY <1>4, <2>1 DEF TreeStep
  <2>5. hist'[c].met
    BY <1>1, <1>3, <2>3, <2>4, HistoryKept
  <2> QED
    BY <1>1, <1>2, <1>3, <1>4, <2>3, <2>4, <2>5, Returns
<1>5. CASE Return(c, FALSE) /\ UNCHANGED <<tree, hist>>
  BY <1>1, <1>2, <1>5, Quiet, Returns
<1> QED
  BY <1>4, <1>5 DEF Mv

LEMMA SymlinkKept ==
    ASSUME FSInv, NEW c \in Callers, Symlink(c)
    PROVE  FSInv'
<1>1. /\ calls[c] # <<>> /\ Top(c) \in Frames /\ Top(c).op = "Symlink" /\ Top(c).path \in Paths
  BY InFacts DEF Symlink
<1>2. UNCHANGED <<files, call>>
  BY DEF Symlink
<1>3. Len(calls[c]) = 1 /\ call[c] \in Calls /\ call[c].op = "Symlink"
  BY <1>1, StackFacts DEF Serves
<1>4. IsNode(Link(call[c].arg))
  BY <1>3, NodeKinds, FSAssumption
<1> DEFINE q == At(Top(c).path)
<1>5. CASE CanMkdir(q) /\ SetTree(c, With(q, Link(call[c].arg))) /\ Return(c, TRUE)
  <2>1. TreeStep(c) /\ IsFileSystem(tree') /\ Place(tree', Top(c).path, MaxLinks) \in DOMAIN tree'
    BY <1>1, <1>4, <1>5, Makes
  <2> QED
    BY <1>1, <1>2, <1>3, <1>5, <2>1, Returns
<1>6. CASE Return(c, FALSE) /\ UNCHANGED <<tree, hist>>
  BY <1>1, <1>2, <1>6, Quiet, Returns
<1> QED
  BY <1>5, <1>6 DEF Symlink

LEMMA OpenForWriteKept ==
    ASSUME FSInv, NEW c \in Callers, OpenForWrite(c)
    PROVE  FSInv'
<1>0. In(c, "OpenForWrite", "open") \/ In(c, "OpenForWrite", "again")
  BY DEF OpenForWrite
<1>1. calls[c] # <<>> /\ Top(c) \in Frames /\ Top(c).op = "OpenForWrite" /\ Top(c).path \in Paths
  BY <1>0, InFacts
<1>2. UNCHANGED <<files, call>> /\ IsFileSystem(tree)
  BY DEF OpenForWrite, FSInv
<1> DEFINE q == End(Top(c).path)
<1>3. CASE CanOpen(q)
  <2>1. CanOpen(q) \in BOOLEAN
    BY DEF CanOpen, Is, CanMkdir
  <2>2. Return(c, CanOpen(q)) \/ Return(c, TRUE)
    BY DEF OpenForWrite
  <2>3. SetTree(c, Opened(q))
    BY <1>3 DEF OpenForWrite
  <2>4. /\ TreeStep(c) /\ IsFileSystem(tree') /\ NoNewLinks(tree, tree')
        /\ Place(tree', Top(c).path, MaxLinks) \in DOMAIN tree'
    <3>1. CASE q \in DOMAIN tree
      <4>1. tree' = tree
        BY <2>3, <3>1 DEF SetTree, Opened
      <4>2. SetTree(c, tree') /\ NoNewLinks(tree, tree')
        BY <2>3, <3>1, <4>1 DEF Opened, NoNewLinks, Is
      <4>3. Place(tree, Top(c).path, MaxLinks) \in DOMAIN tree
        BY <1>1, <1>2, <3>1, EndPlace DEF End
      <4> QED
        BY <1>2, <4>1, <4>2, <4>3 DEF TreeStep
    <3>2. CASE q \notin DOMAIN tree
      <4>1. CanMkdir(q) /\ SetTree(c, With(q, NewFile))
        BY <1>3, <2>3, <3>2 DEF CanOpen, Is, Opened
      <4> QED
        BY <1>1, <4>1, Makes, NodeKinds
    <3> QED
      BY <3>1, <3>2
  <2> QED
    BY <1>1, <1>2, <2>1, <2>2, <2>4, Returns
<1>4. CASE ~CanOpen(q)
  <2>1. UNCHANGED <<tree, hist>>
    BY <1>4 DEF OpenForWrite
  <2>2. Return(c, CanOpen(q)) /\ CanOpen(q) \in BOOLEAN
    BY <1>4 DEF OpenForWrite, CanOpen, Is, CanMkdir
  <2> QED
    BY <1>1, <1>2, <1>4, <2>1, <2>2, Quiet, Returns
<1> QED
  BY <1>3, <1>4

LEMMA OpenForWriteMkdirKept ==
    ASSUME FSInv, NEW c \in Callers, OpenForWriteMkdir(c)
    PROVE  FSInv'
<1>1. calls[c] # <<>> /\ Top(c) \in Frames /\ Top(c).op = "OpenForWrite" /\ Top(c).path \in Paths
  BY InFacts DEF OpenForWriteMkdir
<1>2. UNCHANGED <<tree, hist, files, call>>
  BY DEF OpenForWriteMkdir
<1>3. TreeStep(c) /\ IsFileSystem(tree') /\ NoNewLinks(tree, tree')
  BY <1>2, Quiet
<1> DEFINE p == Dirname(Top(c).path)
           f == [Top(c) EXCEPT !.pc = "again"]
           g == Frame("Mkdir", "lstat", p)
<1>4. Pushes(c, f, g)
  BY DEF OpenForWriteMkdir
<1>5. p \in Paths
  <2>1. Front(<<>>) = <<>>
    BY DEF Front
  <2> QED
    BY <1>1, <2>1, PathFacts DEF Dirname
<1> HIDE DEF p
<1>6. f \in Frames /\ f.op = "OpenForWrite" /\ f.path = Top(c).path /\ f.pc = "again"
  BY <1>1, FrameTo DEF Pcs
<1>7. g \in Frames /\ g.op = "Mkdir" /\ g.pc = "lstat" /\ g.i = 1 /\ g.todo = {}
  BY <1>5, FrameTyped DEF Ops, Pcs
<1> HIDE DEF f, g
<1>8. OnPath(f) /\ Sure(f, Len(calls[c])) = {}
  BY <1>6 DEF OnPath, Sure
<1>9. OnPath(g) /\ Sure(g, Len(calls[c]) + 1) = {} /\ Callee(f, g)
  BY <1>6, <1>7 DEF OnPath, Sure, Callee
<1> QED
  BY <1>1, <1>2, <1>3, <1>4, <1>6, <1>7, <1>8, <1>9, PushesKept

-----------------------------------------------------------------------------
(***************************************************************************)
(* What a listing contains, and what a walk through its directories finds. *)
(***************************************************************************)
LEMMA MovedPrefix ==
    ASSUME NEW k \in Paths, NEW q \in Paths, NEW s \in Paths, NEW p \in Paths, IsPrefix(k, s), IsPrefix(s, p)
    PROVE  /\ IsPrefix(k, p) /\ Moved(s, k, q) \in Paths /\ Moved(p, k, q) \in Paths
           /\ IsPrefix(Moved(s, k, q), Moved(p, k, q))
           /\ s # p => Moved(s, k, q) # Moved(p, k, q)
           /\ s # k => Moved(s, k, q) = Append(Moved(Front(s), k, q), Last(s))
<1>1. IsPrefix(k, p)
  BY PrefixFacts
<1> DEFINE a == Moved(s, k, q)
           b == Moved(p, k, q)
<1>2. /\ a \in Paths /\ Len(a) = Len(q) + (Len(s) - Len(k))
      /\ Len(s) \in Nat /\ Len(k) \in Nat /\ Len(q) \in Nat /\ Len(k) <= Len(s)
      /\ \A i \in 1..Len(q) : a[i] = q[i]
      /\ \A i \in 1..Len(s) - Len(k) : a[Len(q) + i] = s[Len(k) + i]
  BY MovedIs
<1>3. /\ b \in Paths /\ Len(b) = Len(q) + (Len(p) - Len(k))
      /\ Len(p) \in Nat /\ Len(k) <= Len(p)
      /\ \A i \in 1..Len(q) : b[i] = q[i]
      /\ \A i \in 1..Len(p) - Len(k) : b[Len(q) + i] = p[Len(k) + i]
  BY <1>1, MovedIs
<1>4. Len(s) <= Len(p) /\ \A i \in 1..Len(s) : s[i] = p[i]
  BY PrefixIs
<1>5. s # p => a # b
  <2>1. Moved(a, q, k) = s /\ Moved(b, q, k) = p
    BY <1>1, MovedFacts
  <2> QED
    BY <2>1
<1>6. s # k => a = Append(Moved(Front(s), k, q), Last(s))
  <2> SUFFICES ASSUME s # k
               PROVE  a = Append(Moved(Front(s), k, q), Last(s))
    OBVIOUS
  <2>1. a # <<>> /\ Front(a) = Moved(Front(s), k, q) /\ Last(a) = Last(s)
    BY MovedFacts
  <2>2. a = Append(Front(a), Last(a))
    BY <1>2, <2>1, PathFacts
  <2> QED
    BY <2>1, <2>2
<1> HIDE DEF a, b
<1>7. ASSUME NEW i \in 1..Len(a)
      PROVE  a[i] = b[i]
  <2>1. CASE i <= Len(q)
    BY <1>2, <1>3, <2>1
  <2>2. CASE i > Len(q)
    <3> DEFINE j == i - Len(q)
    <3>1. j \in 1..Len(s) - Len(k) /\ j \in 1..Len(p) - Len(k) /\ i = Len(q) + j /\ Len(k) + j \in 1..Len(s)
      BY <1>2, <1>3, <1>4, <2>2
    <3> HIDE DEF j
    <3>2. a[Len(q) + j] = s[Len(k) + j] /\ b[Len(q) + j] = p[Len(k) + j]
      BY <1>2, <1>3, <3>1
    <3>3. s[Len(k) + j] = p[Len(k) + j]
      BY <1>4, <3>1
    <3> QED
      BY <3>1, <3>2, <3>3
  <2> QED
    BY <1>2, <2>1, <2>2
<1>8. IsPrefix(a, b)
  BY <1>2, <1>3, <1>4, <1>7, PrefixIs
<1> QED
  BY <1>1, <1>2, <1>3, <1>5, <1>6, <1>8 DEF a, b

\* Whatever something is in is a directory.
LEMMA Ancestors ==
    ASSUME NEW t, IsFileSystem(t), NEW a \in Paths
    PROVE  \A r \in DOMAIN t : IsPrefix(a, r) /\ a # r => Is(t, a, "dir")
<1> DEFINE T == {r \in Paths : r \in DOMAIN t /\ IsPrefix(a, r) /\ a # r => Is(t, a, "dir")}
<1>1. <<>> \in T
  BY PathFacts, PrefixFacts
<1>2. ASSUME NEW r \in Paths, r # <<>>, Front(r) \in T
      PROVE  r \in T
  <2> SUFFICES ASSUME r \in DOMAIN t, IsPrefix(a, r), a # r
               PROVE  Is(t, a, "dir")
    OBVIOUS
  <2>1. IsPrefix(a, Front(r)) /\ Is(t, Front(r), "dir")
    BY <1>2, PrefixFacts, SystemFacts
  <2>2. Front(r) \in DOMAIN t
    BY <2>1 DEF Is
  <2> QED
    BY <1>2, <2>1, <2>2
<1>3. T = Paths
  <2>1. T \in SUBSET Paths
    OBVIOUS
  <2> HIDE DEF T
  <2> QED
    BY <1>1, <1>2, <2>1, PathInduction
<1> QED
  BY <1>3, SystemFacts

LEMMA NextName ==
    ASSUME NEW s \in Paths, NEW p \in Paths, IsPrefix(s, p), s # p
    PROVE  \E x \in Names : IsPrefix(Append(s, x), p)
<1> DEFINE n == Len(s)
           x == p[n + 1]
           a == Append(s, x)
<1>1. s \in Seq(Names) /\ p \in Seq(Names) /\ n \in Nat /\ Len(p) \in Nat
  BY DEF Paths
<1>2. n <= Len(p) /\ \A i \in 1..n : s[i] = p[i]
  BY PrefixIs
<1>3. n # Len(p)
  BY <1>1, <1>2, SamePath
<1>4. x \in Names
  BY <1>1, <1>2, <1>3
<1> HIDE DEF x
<1>5. a \in Paths /\ Len(a) = n + 1 /\ a[n + 1] = x /\ \A i \in 1..n : a[i] = s[i]
  BY <1>1, <1>4 DEF Paths
<1> HIDE DEF a
<1>6. \A i \in 1..Len(a) : a[i] = p[i]
  BY <1>1, <1>2, <1>5 DEF x
<1>7. IsPrefix(a, p)
  BY <1>1, <1>2, <1>3, <1>5, <1>6, PrefixIs
<1> QED
  BY <1>4, <1>7 DEF a

LEMMA ListingIs ==
    ASSUME NEW t, IsFileSystem(t), NEW k \in Paths, NEW p \in Listing(t, k)
    PROVE  LET q == Target(t, k, MaxLinks)
           IN  /\ Is(t, q, "dir") /\ q \in Paths /\ p \in Paths /\ IsPrefix(k, p) /\ p # k
               /\ Moved(p, k, q) \in DOMAIN t /\ t[Moved(p, k, q)].kind = "file"
<1> DEFINE q == Target(t, k, MaxLinks)
<1>1. Is(t, q, "dir") /\ q \in Paths /\ t[q] = Dir
  BY SystemFacts DEF Listing
<1>2. PICK r \in Below(t, q) : Is(t, r, "file") /\ p = Moved(r, q, k)
  BY <1>1 DEF Listing
<1>3. r \in DOMAIN t /\ r \in Paths /\ IsPrefix(q, r) /\ t[r].kind = "file"
  BY <1>2, SystemFacts DEF Below, Under, Is
<1>4. r # q
  BY <1>1, <1>3, NodeKinds
<1> HIDE DEF q
<1>5. p \in Paths /\ IsPrefix(k, p) /\ p # k /\ Moved(p, k, q) = r
  BY <1>1, <1>2, <1>3, <1>4, MovedFacts
<1> QED
  BY <1>1, <1>3, <1>5 DEF q

\* The directories on the way to a file of the listing are entered by their paths, and the next
\* one, or the file, is found in each.
LEMMA ListingDirs ==
    ASSUME NEW t, IsFileSystem(t), NEW k \in Paths, NEW p \in Listing(t, k)
    PROVE  \A s \in Paths : IsPrefix(k, s) /\ IsPrefix(s, p) /\ s # p =>
              /\ Target(t, s, MaxLinks) = Moved(s, k, Target(t, k, MaxLinks))
              /\ Is(t, Target(t, s, MaxLinks), "dir")
<1> DEFINE q == Target(t, k, MaxLinks)
           Good(s) == Target(t, s, MaxLinks) = Moved(s, k, q) /\ Is(t, Target(t, s, MaxLinks), "dir")
           T == {s \in Paths : IsPrefix(k, s) /\ IsPrefix(s, p) /\ s # p => Good(s)}
<1>1. /\ Is(t, q, "dir") /\ q \in Paths /\ p \in Paths /\ IsPrefix(k, p) /\ p # k
      /\ Moved(p, k, q) \in DOMAIN t /\ t[Moved(p, k, q)].kind = "file"
  BY ListingIs
<1>2. Good(k)
  <2>1. Moved(k, k, q) = q
    BY <1>1, PrefixFacts, MovedFacts
  <2> QED
    BY <1>1, <2>1
<1>3. <<>> \in T
  <2>1. IsPrefix(k, <<>>) => k = <<>>
    BY PathFacts, PrefixFacts
  <2> QED
    BY <1>2, <2>1, PathFacts
<1>4. ASSUME NEW s \in Paths, s # <<>>, Front(s) \in T
      PROVE  s \in T
  <2> SUFFICES ASSUME IsPrefix(k, s), IsPrefix(s, p), s # p, s # k
               PROVE  Good(s)
    BY <1>2
  <2>1. /\ Front(s) \in Paths /\ IsPrefix(k, Front(s)) /\ IsPrefix(Front(s), s) /\ ~IsPrefix(s, Front(s))
    BY <1>4, PathFacts, PrefixFacts
  <2>2. IsPrefix(Front(s), p)
    BY <1>1, <2>1, PrefixFacts
  <2>3. Front(s) # p
    BY <2>1
  <2>4. Good(Front(s))
    BY <1>4, <2>1, <2>2, <2>3
  <2> DEFINE a == Moved(s, k, q)
             b == Moved(p, k, q)
  <2>5. a \in Paths /\ IsPrefix(a, b) /\ a # b /\ a = Append(Moved(Front(s), k, q), Last(s))
    BY <1>1, MovedPrefix
  <2>6. Is(t, a, "dir")
    BY <1>1, <2>5, Ancestors
  <2>7. ~Is(t, a, "link")
    BY <2>6, SystemFacts
  <2>8. Target(t, s, MaxLinks) = a
    BY <1>4, <2>4, <2>5, <2>7, TargetIs, Constants
  <2> QED
    BY <2>6, <2>8
<1>5. T = Paths
  <2>1. T \in SUBSET Paths
    OBVIOUS
  <2> HIDE DEF T
  <2> QED
    BY <1>3, <1>4, <2>1, PathInduction
<1> QED
  BY <1>5

LEMMA NextEntry ==
    ASSUME NEW t, IsFileSystem(t), NEW k \in Paths, NEW p \in Listing(t, k),
           NEW s \in Paths, IsPrefix(k, s), IsPrefix(s, p), s # p
    PROVE  LET d == Target(t, s, MaxLinks)
           IN  /\ Is(t, d, "dir")
               /\ \E e \in Entries(t, d) : /\ IsPrefix(Append(s, e.name), p)
                                           /\ e.kind = IF Append(s, e.name) = p THEN "file" ELSE "dir"
<1> DEFINE q == Target(t, k, MaxLinks)
           d == Target(t, s, MaxLinks)
<1>1. /\ Is(t, q, "dir") /\ q \in Paths /\ p \in Paths /\ IsPrefix(k, p) /\ p # k
      /\ Moved(p, k, q) \in DOMAIN t /\ t[Moved(p, k, q)].kind = "file"
  BY ListingIs
<1>2. d = Moved(s, k, q) /\ Is(t, d, "dir")
  BY ListingDirs
<1>3. d \in Paths
  BY <1>2, SystemFacts
<1>4. PICK x \in Names : IsPrefix(Append(s, x), p)
  BY <1>1, NextName
<1> DEFINE r == Append(s, x)
<1>5. r \in Paths /\ r # <<>> /\ Front(r) = s /\ Last(r) = x /\ IsPrefix(r, p)
  BY <1>4, PathFacts
<1> HIDE DEF r, q, d
<1>6. IsPrefix(k, r) /\ r # k
  BY <1>5, PrefixFacts
<1>7. /\ Moved(r, k, q) \in Paths /\ IsPrefix(Moved(r, k, q), Moved(p, k, q))
      /\ r # p => Moved(r, k, q) # Moved(p, k, q)
      /\ Moved(r, k, q) = Append(d, x)
  <2>2. k \in Paths /\ q \in Paths /\ r \in Paths /\ p \in Paths /\ IsPrefix(k, r) /\ IsPrefix(r, p) /\ r # k
    BY <1>1, <1>5, <1>6
  <2>3. Moved(r, k, q) \in Paths /\ IsPrefix(Moved(r, k, q), Moved(p, k, q))
    BY <2>2, MovedPrefix
  <2>4. r # p => Moved(r, k, q) # Moved(p, k, q)
    BY <2>2, MovedPrefix
  <2>5. Moved(r, k, q) = Append(Moved(Front(r), k, q), Last(r))
    BY <2>2, MovedPrefix
  <2> QED
    BY <1>2, <1>5, <2>3, <2>4, <2>5, Zenon
<1>8. /\ Append(d, x) \in DOMAIN t
      /\ t[Append(d, x)].kind = IF r = p THEN "file" ELSE "dir"
  <2>1. CASE r = p
    BY <1>1, <1>7, <2>1
  <2>2. CASE r # p
    <3>1. Is(t, Moved(r, k, q), "dir")
      BY <1>1, <1>7, <2>2, Ancestors
    <3> QED
      BY <1>7, <2>2, <3>1 DEF Is
  <2> QED
    BY <2>1, <2>2
<1>9. PICK e \in Entries(t, d) : e.name = x /\ e.kind = t[Append(d, x)].kind
  BY <1>3, <1>8, EntriesAre
<1>10. IsPrefix(Append(s, e.name), p) /\ e.kind = IF Append(s, e.name) = p THEN "file" ELSE "dir"
  BY <1>4, <1>8, <1>9 DEF r
<1> QED
  BY <1>2, <1>10 DEF d

-----------------------------------------------------------------------------
(***************************************************************************)
(* ListAllFile.                                                            *)
(***************************************************************************)
\* Every frame of ListAllFile is in a directory below the one that was given, as long as its
\* path leads to a directory at all.
LEMMA ListPaths ==
    ASSUME NEW t, IsFileSystem(t), NEW s, NEW k, StackOf(s, k), k.op = "ListAllFile", NEW j \in 1..Len(s)
    PROVE  LET p == s[j].path
               q == Target(t, k.path, MaxLinks)
           IN  /\ k.path \in Paths /\ p \in Paths /\ IsPrefix(k.path, p)
               /\ NoLinkOn(t, s) /\ Is(t, Target(t, p, MaxLinks), "dir") =>
                     Is(t, q, "dir") /\ Target(t, p, MaxLinks) = Moved(p, k.path, q)
<1> DEFINE q == Target(t, k.path, MaxLinks)
           Good(f) == /\ IsPrefix(k.path, f.path)
                      /\ NoLinkOn(t, s) /\ Is(t, Target(t, f.path, MaxLinks), "dir") =>
                            Is(t, q, "dir") /\ Target(t, f.path, MaxLinks) = Moved(f.path, k.path, q)
           T == {i \in Nat : i + 1 \in 1..Len(s) => Good(s[i + 1])}
<1>1. /\ s \in Seq(Frames) /\ Len(s) \in Nat /\ s # <<>> /\ Serves(s[1], k) /\ k \in Calls
      /\ \A i \in 1..Len(s) : s[i].path \in Paths
  <2>1. s \in Seq(Frames) /\ s # <<>> /\ Serves(s[1], k) /\ k \in Calls
    BY DEF StackOf
  <2>2. \A i \in 1..Len(s) : s[i] \in Frames
    BY <2>1
  <2>3. \A f \in Frames : f.path \in Paths
    BY DEF Frames
  <2> QED
    BY <2>1, <2>2, <2>3
<1>2. k.path \in Paths
  BY <1>1, FSAssumption
<1>3. Good(s[1])
  <2>1. s[1].path = k.path
    BY <1>1 DEF Serves
  <2>2. Is(t, q, "dir") => q = Moved(k.path, k.path, q)
    <3>1. ASSUME Is(t, q, "dir")
          PROVE  q = Moved(k.path, k.path, q)
      <4>1. q \in Paths
        BY <3>1, SystemFacts
      <4>2. IsPrefix(k.path, k.path)
        BY <1>2, PrefixFacts
      <4> HIDE DEF q
      <4> QED
        BY <1>2, <4>1, <4>2, MovedFacts
    <3> QED
      BY <3>1
  <2>3. IsPrefix(k.path, k.path)
    BY <1>2, PrefixFacts
  <2> QED
    BY <2>1, <2>2, <2>3
<1>4. 0 \in T
  <2> HIDE DEF Good
  <2> QED
    BY <1>3
<1>5. ASSUME NEW i \in T
      PROVE  i + 1 \in T
  <2> DEFINE a == i + 1
             b == a + 1
  <2>1. a \in Nat /\ b - 1 = a /\ b # 1
    BY <1>5
  <2> SUFFICES ASSUME b \in 1..Len(s)
               PROVE  Good(s[b])
    <3> HIDE DEF Good
    <3> QED
      BY <2>1
  <2>2. a \in 1..Len(s) /\ b \in 2..Len(s)
    BY <1>1, <1>5
  <2>3. Good(s[a])
    <3> HIDE DEF Good
    <3> QED
      BY <1>5, <2>2
  <2>4. Callee(s[b - 1], s[b])
    BY <2>2 DEF StackOf
  <2>5. Callee(s[a], s[b])
    BY <2>1, <2>4, Zenon
  <2>6. s[a].op = "ListAllFile"
    BY <2>2, StackOps
  <2> DEFINE f == s[a].path
             g == s[b].path
  <2>7. g # <<>> /\ Front(g) = f /\ s[b].op = "ListAllFile"
    BY <2>5, <2>6 DEF Callee
  <2>8. f \in Paths /\ g \in Paths
    BY <1>1, <2>2
  <2>9. NoLinkOn(t, s) => NoLinkAt(t, g)
    <3>1. g \in Sure(s[b], b)
      BY <2>1, <2>7 DEF Sure
    <3> QED
      BY <2>2, <3>1 DEF NoLinkOn
  <2> HIDE DEF a, b
  <2>10. IsPrefix(k.path, f) /\ (NoLinkOn(t, s) /\ Is(t, Target(t, f, MaxLinks), "dir") =>
                             Is(t, q, "dir") /\ Target(t, f, MaxLinks) = Moved(f, k.path, q))
    BY <2>3
  <2> SUFFICES /\ IsPrefix(k.path, g)
               /\ NoLinkOn(t, s) /\ Is(t, Target(t, g, MaxLinks), "dir") =>
                     Is(t, q, "dir") /\ Target(t, g, MaxLinks) = Moved(g, k.path, q)
    BY Zenon
  <2> HIDE DEF f, g, Good
  <2>11. IsPrefix(k.path, g) /\ g # k.path
    BY <1>2, <2>7, <2>8, <2>10, PrefixFacts
  <2>12. ASSUME NoLinkOn(t, s), Is(t, Target(t, g, MaxLinks), "dir")
         PROVE  Is(t, q, "dir") /\ Target(t, g, MaxLinks) = Moved(g, k.path, q)
    <3>1. Target(t, g, MaxLinks) = Place(t, g, MaxLinks)
      BY <2>8, <2>9, <2>12, TargetPlace, Constants DEF NoLinkAt
    <3>2. ~Is(t, Nowhere, "dir")
      BY SystemFacts
    <3>3. /\ Is(t, Target(t, f, MaxLinks), "dir")
          /\ Place(t, g, MaxLinks) = Append(Target(t, f, MaxLinks), Last(g))
      BY <2>7, <2>8, <2>12, <3>1, <3>2, PlaceIs, Constants
    <3>4. Is(t, q, "dir") /\ Target(t, f, MaxLinks) = Moved(f, k.path, q)
      BY <2>10, <2>12, <3>3
    <3>5. q \in Paths
      BY <3>4, SystemFacts
    <3> HIDE DEF q
    <3>6. IsPrefix(g, g)
      BY <2>8, PrefixFacts
    <3>7. Moved(g, k.path, q) = Append(Moved(f, k.path, q), Last(g))
      <4>1. Moved(g, k.path, q) = Append(Moved(Front(g), k.path, q), Last(g))
        BY <1>2, <2>8, <2>11, <3>5, <3>6, MovedPrefix
      <4> QED
        BY <2>7, <4>1, Zenon
    <3> QED
      BY <3>1, <3>3, <3>4, <3>7
  <2> QED
    BY <2>11, <2>12
<1>6. T = Nat
  <2>1. T \in SUBSET Nat
    OBVIOUS
  <2> HIDE DEF T
  <2> QED
    BY <1>4, <1>5, <2>1, Induction
<1>7. Good(s[j])
  <2> DEFINE i == j - 1
  <2>1. i \in Nat /\ i + 1 = j
    BY <1>1
  <2> HIDE DEF i, Good
  <2>2. i \in T
    BY <1>6, <2>1
  <2> QED
    BY <2>1, <2>2
<1> QED
  BY <1>1, <1>2, <1>7

LEMMA MovedAppend ==
    ASSUME NEW k \in Paths, NEW q \in Paths, NEW p \in Paths, IsPrefix(k, p), NEW x \in Names
    PROVE  /\ Append(p, x) \in Paths /\ IsPrefix(k, Append(p, x))
           /\ Moved(Append(p, x), k, q) = Append(Moved(p, k, q), x)
<1> DEFINE r == Append(p, x)
<1>1. r \in Paths /\ r # <<>> /\ Front(r) = p /\ Last(r) = x
  BY PathFacts
<1> HIDE DEF r
<1>2. IsPrefix(k, r) /\ r # k /\ IsPrefix(r, r)
  BY <1>1, PrefixFacts
<1>3. Moved(r, k, q) = Append(Moved(Front(r), k, q), Last(r))
  <2>1. k \in Paths /\ q \in Paths /\ r \in Paths /\ IsPrefix(k, r) /\ IsPrefix(r, r) /\ r # k
    BY <1>1, <1>2
  <2> QED
    BY <2>1, MovedPrefix
<1>4. Moved(r, k, q) = Append(Moved(p, k, q), x)
  BY <1>1, <1>3, Zenon
<1> QED
  BY <1>1, <1>2, <1>4 DEF r

\* A file in the directory that a frame opens is one of the listing.
LEMMA SeenListed ==
    ASSUME NEW t, IsFileSystem(t), NEW k \in Paths, NEW p \in Paths, IsPrefix(k, p), NEW x \in Names,
           Is(t, Target(t, k, MaxLinks), "dir"),
           Is(t, Append(Moved(p, k, Target(t, k, MaxLinks)), x), "file")
    PROVE  Append(p, x) \in Listing(t, k)
<1> DEFINE q == Target(t, k, MaxLinks)
           r == Append(p, x)
           m == Moved(r, k, q)
<1>1. q \in Paths /\ q # Nowhere
  BY SystemFacts, Constants
<1> HIDE DEF q
<1>2. r \in Paths /\ IsPrefix(k, r) /\ m = Append(Moved(p, k, q), x)
  BY <1>1, MovedAppend
<1>3. Is(t, m, "file")
  BY <1>2 DEF q
<1> HIDE DEF r
<1>4. m \in Paths /\ IsPrefix(q, m) /\ Moved(m, q, k) = r
  <2>1. k \in Paths /\ q \in Paths /\ r \in Paths /\ IsPrefix(k, r)
    BY <1>1, <1>2
  <2> QED
    BY <2>1, MovedFacts
<1>5. m \in DOMAIN t /\ m # Nowhere
  BY <1>3, <1>4, Constants DEF Is
<1> HIDE DEF m
<1>6. m \in {z \in Below(t, q) : Is(t, z, "file")}
  BY <1>1, <1>3, <1>4, <1>5 DEF Below, Under
<1>7. Listing(t, k) = {Moved(z, q, k) : z \in {z \in Below(t, q) : Is(t, z, "file")}}
  BY DEF Listing, q
<1>8. r \in Listing(t, k)
  BY <1>4, <1>6, <1>7
<1> QED
  BY <1>8 DEF r

\* What is known of the last frame of ListAllFile.
LEMMA ListTop ==
    ASSUME FSInv, NEW c \in Callers, calls[c] # <<>>, Top(c).op = "ListAllFile"
    PROVE  /\ ~hist[c].linked => files[c] \subseteq hist[c].ever /\ Seen(Top(c)) \subseteq hist[c].ever
           /\ \A p \in hist[c].stable : IsPrefix(Top(c).path, p) /\ Top(c).path # p =>
                 /\ Is(tree, End(Top(c).path), "dir")
                 /\ \E e \in Entries(tree, End(Top(c).path)) :
                       /\ IsPrefix(Append(Top(c).path, e.name), p)
                       /\ e.kind = IF Append(Top(c).path, e.name) = p THEN "file" ELSE "dir"
           /\ ~hist[c].linked /\ Is(tree, End(Top(c).path), "dir") =>
                 \A x \in Names : Is(tree, Append(End(Top(c).path), x), "file") =>
                    Append(Top(c).path, x) \in hist[c].ever
<1> DEFINE s == calls[c]
           n == Len(s)
           k == call[c]
           p == Top(c).path
           d == End(p)
<1>1. /\ s \in Seq(Frames) /\ StackOf(s, k) /\ n \in 1..n /\ Top(c) = s[n] /\ Top(c) \in Frames
      /\ k.op = "ListAllFile" /\ k.path \in Paths
  BY StackFacts
<1>2. p \in Paths /\ IsFileSystem(tree)
  BY <1>1 DEF Frames, FSInv
<1>3. CallerInv(c)
  BY DEF FSInv
<1>4. hist[c].stable \subseteq Listing(tree, k.path) /\ Listing(tree, k.path) \subseteq hist[c].ever
  BY <1>1, <1>3 DEF CallerInv, HistInv
<1>5. ~hist[c].linked => NoLinkOn(tree, s) /\ files[c] \subseteq hist[c].ever /\ Seen(Top(c)) \subseteq hist[c].ever
  BY <1>1, <1>3 DEF CallerInv, LinkInv, SeenInv
<1>6. /\ IsPrefix(k.path, p)
      /\ NoLinkOn(tree, s) /\ Is(tree, d, "dir") =>
            Is(tree, End(k.path), "dir") /\ d = Moved(p, k.path, End(k.path))
  BY <1>1, <1>2, ListPaths DEF End
<1>7. ASSUME NEW r \in hist[c].stable, IsPrefix(p, r), p # r
      PROVE  /\ Is(tree, d, "dir")
             /\ \E e \in Entries(tree, d) :
                   /\ IsPrefix(Append(p, e.name), r)
                   /\ e.kind = IF Append(p, e.name) = r THEN "file" ELSE "dir"
  <2>1. r \in Listing(tree, k.path)
    BY <1>4
  <2> HIDE DEF k, p
  <2> QED
    BY <1>1, <1>2, <1>6, <1>7, <2>1, NextEntry DEF End
<1>8. ASSUME ~hist[c].linked, Is(tree, d, "dir"), NEW x \in Names, Is(tree, Append(d, x), "file")
      PROVE  Append(p, x) \in hist[c].ever
  <2>1. Is(tree, End(k.path), "dir") /\ d = Moved(p, k.path, End(k.path))
    BY <1>5, <1>6, <1>8
  <2>2. Is(tree, Append(Moved(p, k.path, End(k.path)), x), "file")
    BY <1>8, <2>1
  <2> HIDE DEF k, p
  <2>3. Append(p, x) \in Listing(tree, k.path)
    BY <1>1, <1>2, <1>6, <2>1, <2>2, SeenListed DEF End
  <2> QED
    BY <1>4, <2>3
<1> QED
  BY <1>5, <1>7, <1>8

\* A step of ListAllFile that only reads, and goes on with the frame f.
LEMMA ListReads ==
    ASSUME FSInv, NEW c \in Callers, UNCHANGED <<tree, hist, files, call>>, calls[c] # <<>>,
           NEW f \in Frames, Goes(c, f), f.path = Top(c).path, f.op = "ListAllFile", Top(c).op = "ListAllFile",
           \A p \in hist[c].stable : Ahead(Top(c), p) => Ahead(f, p),
           ~hist[c].linked => Seen(f) \subseteq hist[c].ever /\ \A p \in Sure(f, Len(calls[c])) : NoLinkAt(tree, p)
    PROVE  FSInv'
<1>1. TreeStep(c) /\ IsFileSystem(tree') /\ NoNewLinks(tree, tree') /\ tree' = tree
  BY Quiet
<1>2. DOMAIN files' = Callers /\ files' = files /\ \A x \in Callers : x # c => files'[x] = files[x]
  BY DEF FSInv
<1>3. ~hist[c].linked => \A p \in Sure(f, Len(calls[c])) : NoLinkAt(tree', p)
  BY <1>1
<1>4. OnPath(f)
  BY DEF OnPath
<1>5. files[c] \subseteq files'[c] /\ (~hist[c].linked => files'[c] \subseteq hist[c].ever)
  BY <1>2, ListTop
<1> QED
  BY <1>1, <1>2, <1>3, <1>4, <1>5, GoesKept

\* ListAllFile returns from what is not a directory, or when nothing is left to do.
LEMMA ListReturns ==
    ASSUME FSInv, NEW c \in Callers, UNCHANGED <<tree, hist, files, call>>, calls[c] # <<>>,
           Return(c, TRUE), Top(c).op = "ListAllFile",
           \/ Top(c).pc \in {"access", "opendir"} /\ ~Is(tree, End(Top(c).path), "dir")
           \/ Top(c).pc = "readdir" /\ Top(c).todo = {}
    PROVE  FSInv'
<1>1. TreeStep(c) /\ IsFileSystem(tree') /\ NoNewLinks(tree, tree')
  BY Quiet
<1>2. \A p \in hist[c].stable : ~Ahead(Top(c), p)
  BY ListTop DEF Ahead
<1>3. call[c].op = "ListAllFile"
  BY StackFacts
<1> QED
  BY <1>1, <1>2, <1>3, ReturnKept

LEMMA ListAccessKept ==
    ASSUME FSInv, NEW c \in Callers, ListAccess(c)
    PROVE  FSInv'
<1>1. /\ calls[c] # <<>> /\ Top(c) \in Frames /\ Top(c).op = "ListAllFile" /\ Top(c).pc = "access"
      /\ Top(c).path \in Paths
  BY InFacts DEF ListAccess
<1>2. UNCHANGED <<tree, hist, files, call>>
  BY DEF ListAccess
<1>3. CASE End(Top(c).path) \in DOMAIN tree
  <2> DEFINE f == [Top(c) EXCEPT !.pc = "opendir"]
  <2>1. Goes(c, f)
    BY <1>3 DEF ListAccess
  <2>2. /\ f \in Frames /\ f.op = "ListAllFile" /\ f.path = Top(c).path /\ f.pc = "opendir"
        /\ f.todo = Top(c).todo
    BY <1>1, FrameTo DEF Pcs
  <2> HIDE DEF f
  <2>3. Seen(f) = Seen(Top(c)) /\ Sure(f, Len(calls[c])) \subseteq Sure(Top(c), Len(calls[c]))
    BY <1>1, <2>2 DEF Seen, Sure
  <2>4. \A p : Ahead(Top(c), p) => Ahead(f, p)
    BY <1>1, <2>2 DEF Ahead
  <2>5. ~hist[c].linked => Seen(f) \subseteq hist[c].ever /\ \A p \in Sure(f, Len(calls[c])) : NoLinkAt(tree, p)
    BY <1>1, <2>3, ListTop, TopSure
  <2> QED
    BY <1>1, <1>2, <2>1, <2>2, <2>4, <2>5, ListReads
<1>4. CASE End(Top(c).path) \notin DOMAIN tree
  <2>1. Return(c, TRUE)
    BY <1>4 DEF ListAccess
  <2> QED
    BY <1>1, <1>2, <1>4, <2>1, ListReturns DEF Is
<1> QED
  BY <1>3, <1>4

LEMMA ListOpendirKept ==
    ASSUME FSInv, NEW c \in Callers, ListOpendir(c)
    PROVE  FSInv'
<1>1. /\ calls[c] # <<>> /\ Top(c) \in Frames /\ Top(c).op = "ListAllFile" /\ Top(c).pc = "opendir"
      /\ Top(c).path \in Paths
  BY InFacts DEF ListOpendir
<1>2. UNCHANGED <<tree, hist, files, call>>
  BY DEF ListOpendir
<1> DEFINE p == Top(c).path
           d == End(p)
<1>3. CASE Is(tree, d, "dir")
  <2> DEFINE todo == Entries(tree, d)
             f == [Top(c) EXCEPT !.pc = "readdir", !.todo = todo]
  <2>1. Goes(c, f)
    BY <1>3, Zenon DEF ListOpendir
  <2>2. IsFileSystem(tree) /\ d \in Paths
    BY <1>3, SystemFacts DEF FSInv
  <2>3. /\ todo \in SUBSET [name : Names, kind : Kinds]
        /\ \A e \in todo : /\ e.name \in Names
                           /\ Append(d, e.name) \in DOMAIN tree /\ tree[Append(d, e.name)].kind = e.kind
    BY <2>2, EntriesAre
  <2>4. \A r \in hist[c].stable : IsPrefix(p, r) /\ p # r =>
           \E e \in todo : /\ IsPrefix(Append(p, e.name), r)
                           /\ e.kind = IF Append(p, e.name) = r THEN "file" ELSE "dir"
    BY <1>1, ListTop
  <2>5. ~hist[c].linked => \A x \in Names : Is(tree, Append(d, x), "file") => Append(p, x) \in hist[c].ever
    BY <1>1, <1>3, ListTop
  <2> HIDE DEF todo
  <2>6. f \in Frames /\ f.op = "ListAllFile" /\ f.path = p /\ f.pc = "readdir" /\ f.todo = todo
    <3>1. f = ReadFrame(Top(c), todo)
      BY DEF ReadFrame
    <3> HIDE DEF f
    <3> QED
      BY <1>1, <2>3, <3>1, FrameTodo
  <2> HIDE DEF f
  <2>7. \A r \in hist[c].stable : Ahead(Top(c), r) => Ahead(f, r)
    BY <1>1, <2>4, <2>6 DEF Ahead
  <2>8. ~hist[c].linked => Seen(f) \subseteq hist[c].ever
    <3>1. ASSUME ~hist[c].linked, NEW e \in todo, e.kind = "file"
          PROVE  Append(p, e.name) \in hist[c].ever
      <4>1. e.name \in Names /\ Is(tree, Append(d, e.name), "file")
        BY <2>3, <3>1 DEF Is
      <4> HIDE DEF p, d
      <4> QED
        BY <2>5, <3>1, <4>1
    <3> HIDE DEF p, d
    <3> QED
      BY <2>6, <3>1 DEF Seen
  <2>9. ASSUME ~hist[c].linked, NEW r \in Sure(f, Len(calls[c]))
        PROVE  NoLinkAt(tree, r)
    <3>1. CASE r \in Sure(Top(c), Len(calls[c]))
      BY <1>1, <2>9, <3>1, TopSure
    <3>2. CASE r \notin Sure(Top(c), Len(calls[c]))
      <4>1. PICK e \in todo : e.kind = "dir" /\ r = Append(p, e.name)
        BY <1>1, <2>6, <2>9, <3>2 DEF Sure
      <4>2. r \in Paths /\ r # <<>> /\ Front(r) = p /\ Last(r) = e.name
        BY <1>1, <2>3, <4>1, PathFacts
      <4>3. Place(tree, r, MaxLinks) = Append(d, e.name)
        BY <1>3, <2>2, <4>2, PlaceIs, Constants DEF End
      <4> QED
        BY <2>3, <4>1, <4>3 DEF NoLinkAt, Is
    <3> QED
      BY <3>1, <3>2
  <2> QED
    BY <1>1, <1>2, <2>1, <2>6, <2>7, <2>8, <2>9, ListReads
<1>4. CASE ~Is(tree, d, "dir")
  <2>1. Return(c, TRUE)
    BY <1>4 DEF ListOpendir
  <2> QED
    BY <1>1, <1>2, <1>4, <2>1, ListReturns
<1> QED
  BY <1>3, <1>4

LEMMA ListReturnKept ==
    ASSUME FSInv, NEW c \in Callers, ListReturn(c)
    PROVE  FSInv'
<1>1. calls[c] # <<>> /\ Top(c).op = "ListAllFile" /\ Top(c).pc = "readdir" /\ Top(c).todo = {}
  BY InFacts DEF ListReturn
<1>2. UNCHANGED <<tree, hist, files, call>> /\ Return(c, TRUE)
  BY DEF ListReturn
<1> QED
  BY <1>1, <1>2, ListReturns

LEMMA ListReaddirKept ==
    ASSUME FSInv, NEW c \in Callers, ListReaddir(c)
    PROVE  FSInv'
<1>1. /\ calls[c] # <<>> /\ Top(c) \in Frames /\ Top(c).op = "ListAllFile" /\ Top(c).pc = "readdir"
      /\ Top(c).path \in Paths /\ \A e \in Top(c).todo : e.name \in Names /\ e.kind \in Kinds
  BY InFacts DEF ListReaddir
<1>2. UNCHANGED <<tree, hist, call>>
  BY DEF ListReaddir
<1>3. TreeStep(c) /\ IsFileSystem(tree') /\ NoNewLinks(tree, tree') /\ tree' = tree
  BY <1>2, Quiet
<1> DEFINE n == Len(calls[c])
<1>4. PICK e \in Top(c).todo :
          LET p == Append(Top(c).path, e.name)
              rest == [Top(c) EXCEPT !.todo = @ \ {e}]
          IN  /\ IF e.kind = "dir" THEN Pushes(c, rest, Frame("ListAllFile", "access", p))
                                   ELSE Goes(c, rest)
              /\ files' = IF e.kind = "file" /\ e.name \in call[c].arg
                          THEN [files EXCEPT ![c] = @ \cup {p}] ELSE files
  BY DEF ListReaddir
<1> DEFINE todo == Top(c).todo \ {e}
           f == [Top(c) EXCEPT !.todo = todo]
           p == Append(Top(c).path, e.name)
           g == Frame("ListAllFile", "access", p)
<1>5. /\ e.kind = "dir" => Pushes(c, f, g)
      /\ e.kind # "dir" => Goes(c, f)
      /\ files' = IF e.kind = "file" /\ e.name \in call[c].arg THEN [files EXCEPT ![c] = @ \cup {p}] ELSE files
  BY <1>4
<1>6. todo \in SUBSET [name : Names, kind : Kinds] /\ e.name \in Names
  BY <1>1 DEF Frames
<1>7. p \in Paths /\ p # <<>> /\ Front(p) = Top(c).path /\ Last(p) = e.name
  BY <1>1, <1>6, PathFacts
<1>8. f \in Frames /\ f.op = "ListAllFile" /\ f.path = Top(c).path /\ f.pc = "readdir" /\ f.todo = todo
  <2>1. f = TodoFrame(Top(c), todo)
    BY DEF TodoFrame
  <2> HIDE DEF f, todo
  <2> QED
    BY <1>1, <1>6, <2>1, FrameTodo
<1>9. g \in Frames /\ g.op = "ListAllFile" /\ g.path = p /\ g.pc = "access" /\ g.todo = {}
  <2>1. "ListAllFile" \in Ops /\ "access" \in Pcs
    BY DEF Ops, Pcs
  <2> HIDE DEF p
  <2> QED
    BY <1>7, <2>1, FrameTyped
<1> HIDE DEF f, g
<1>10. OnPath(f) /\ OnPath(g) /\ Callee(f, g)
  BY <1>7, <1>8, <1>9 DEF OnPath, Callee
<1>11. Sure(f, n) \subseteq Sure(Top(c), n) /\ Seen(f) \subseteq Seen(Top(c))
  BY <1>1, <1>8 DEF Sure, Seen
<1>12. ~hist[c].linked => /\ \A s \in Sure(f, n) : NoLinkAt(tree, s)
                          /\ Seen(f) \subseteq hist[c].ever /\ files[c] \subseteq hist[c].ever
                          /\ Seen(Top(c)) \subseteq hist[c].ever
  BY <1>1, <1>11, TopSure, ListTop
<1>13. DOMAIN files = Callers
  BY DEF FSInv
\* What was ahead of this frame is ahead of it still, unless it is what this entry leads to.
<1>14. ASSUME NEW r, Ahead(Top(c), r), ~Ahead(f, r)
       PROVE  IsPrefix(p, r) /\ e.kind = IF p = r THEN "file" ELSE "dir"
  <2>1. PICK x \in Top(c).todo : /\ IsPrefix(Append(Top(c).path, x.name), r)
                                 /\ x.kind = IF Append(Top(c).path, x.name) = r THEN "file" ELSE "dir"
    BY <1>1, <1>14 DEF Ahead
  <2>2. x = e
    <3>1. ASSUME x # e
          PROVE  Ahead(f, r)
      <4>1. x \in f.todo
        BY <1>8, <3>1
      <4> QED
        BY <1>8, <2>1, <4>1 DEF Ahead
    <3> QED
      BY <1>14, <3>1
  <2> QED
    BY <2>1, <2>2
<1>15. CASE e.kind = "dir"
  <2>1. files' = files
    BY <1>5, <1>15
  <2>2. p \in Sure(Top(c), n)
    BY <1>1, <1>15 DEF Sure
  <2>3. Sure(g, n + 1) \subseteq {p} /\ Seen(g) = {}
    BY <1>9 DEF Sure, Seen
  <2>4. ~hist[c].linked => \A s \in Sure(g, n + 1) : NoLinkAt(tree, s)
    BY <1>1, <2>2, <2>3, TopSure
  <2>5. \A r : Ahead(Top(c), r) => Ahead(f, r) \/ Ahead(g, r)
    BY <1>9, <1>14, <1>15 DEF Ahead
  <2>6. /\ ~hist[c].linked => /\ \A s \in Sure(f, n) : NoLinkAt(tree', s)
                              /\ \A s \in Sure(g, n + 1) : NoLinkAt(tree', s)
        /\ ~hist[c].linked => Seen(f) \subseteq hist[c].ever /\ Seen(g) \subseteq hist[c].ever
    BY <1>3, <1>12, <2>3, <2>4
  <2>7. Pushes(c, f, g) /\ UNCHANGED <<files, call>>
    BY <1>2, <1>5, <1>15, <2>1
  <2> QED
    BY <1>1, <1>3, <1>8, <1>9, <1>10, <2>5, <2>6, <2>7, PushesKept
<1>16. CASE e.kind # "dir"
  <2>1. Goes(c, f)
    BY <1>5, <1>16
  <2>2. /\ DOMAIN files' = Callers /\ \A x \in Callers : x # c => files'[x] = files[x]
        /\ files[c] \subseteq files'[c] /\ files'[c] \subseteq files[c] \cup {p}
        /\ files'[c] = files[c] \/ e.kind = "file"
        /\ e.kind = "file" /\ e.name \in call[c].arg => p \in files'[c]
    BY <1>5, <1>13
  <2>3. e.kind = "file" => p \in Seen(Top(c))
    BY DEF Seen
  <2>4. ~hist[c].linked => files'[c] \subseteq hist[c].ever
    BY <1>12, <2>2, <2>3
  <2>5. ASSUME NEW r \in hist[c].stable, Last(r) \in call[c].arg, Ahead(Top(c), r)
        PROVE  r \in files'[c] \/ Ahead(f, r)
    <3> SUFFICES ASSUME ~Ahead(f, r)
                 PROVE  r \in files'[c]
      OBVIOUS
    <3>1. p = r /\ e.kind = "file"
      BY <1>14, <1>16, <2>5
    <3> QED
      BY <1>7, <2>2, <2>5, <3>1
  <2>6. ~hist[c].linked => \A s \in Sure(f, n) : NoLinkAt(tree', s)
    BY <1>3, <1>12
  <2>7. UNCHANGED call
    BY <1>2
  <2> QED
    BY <1>1, <1>3, <1>8, <1>10, <1>12, <2>1, <2>2, <2>4, <2>5, <2>6, <2>7, GoesKept
<1> QED
  BY <1>15, <1>16

-----------------------------------------------------------------------------
(***************************************************************************)
(* Calls.                                                                  *)
(***************************************************************************)
\* A stack with which a call k begins.
Begins(s, k) ==
    /\ StackOf(s, k) /\ s # <<>>
    /\ \A j \in 1..Len(s) : Sure(s[j], j) = {} /\ Seen(s[j]) = {}
    /\ k.op = "ListAllFile" => Len(s) = 1 /\ s[1].pc = "access" /\ s[1].path = k.path

LEMMA BeginsOne ==
    ASSUME NEW k \in Calls, NEW pc \in {"unlink", "open", "access", "lstat"}, k.op = "ListAllFile" => pc = "access",
           k.op = "Mkdir" => pc = "lstat", k.op \notin {"Mv", "Symlink"}
    PROVE  Begins(<<Frame(k.op, pc, k.path)>>, k)
<1> DEFINE f == Frame(k.op, pc, k.path)
           s == <<f>>
<1>1. k.path \in Paths /\ k.op \in Ops /\ pc \in Pcs
  BY FSAssumption DEF Ops, Pcs
<1>2. f \in Frames /\ f.op = k.op /\ f.pc = pc /\ f.path = k.path /\ f.todo = {} /\ f.i = 1
  BY <1>1, FrameTyped
<1> HIDE DEF f
<1>3. s \in Seq(Frames) /\ Len(s) = 1 /\ s[1] = f /\ s # <<>>
  BY <1>2, OneFrame
<1> HIDE DEF s
<1>4. /\ \A j \in 1..Len(s) : j = 1
      /\ \A j \in 2..Len(s) : FALSE
  BY <1>3
<1>5. OnPath(f) /\ Serves(f, k) /\ Sure(f, 1) = {} /\ Seen(f) = {}
  BY <1>2 DEF OnPath, Serves, Sure, Seen
<1>6. StackOf(s, k)
  BY <1>3, <1>4, <1>5 DEF StackOf
<1>7. Begins(s, k)
  BY <1>2, <1>3, <1>4, <1>5, <1>6 DEF Begins
<1> QED
  BY <1>7 DEF s, f

LEMMA BeginsTwo ==
    ASSUME NEW k \in Calls, k.op \in {"Mv", "Symlink"}
    PROVE  Begins(<<Frame(k.op, "link", k.path), Frame("Rm", "lstat", k.path)>>, k)
<1> DEFINE f == Frame(k.op, "link", k.path)
           g == Frame("Rm", "lstat", k.path)
           s == <<f, g>>
<1>1. k.path \in Paths /\ k.op \in Ops /\ "Rm" \in Ops /\ "link" \in Pcs /\ "lstat" \in Pcs
  BY FSAssumption DEF Ops, Pcs
<1>2. f \in Frames /\ f.op = k.op /\ f.pc = "link" /\ f.path = k.path /\ f.todo = {} /\ f.i = 1
  BY <1>1, FrameTyped
<1>3. g \in Frames /\ g.op = "Rm" /\ g.pc = "lstat" /\ g.path = k.path /\ g.todo = {} /\ g.i = 1
  BY <1>1, FrameTyped
<1> HIDE DEF f, g
<1>4. s \in Seq(Frames) /\ Len(s) = 2 /\ s[1] = f /\ s[2] = g /\ s # <<>>
  BY <1>2, <1>3, TwoFrames
<1> HIDE DEF s
<1>5. \A j \in 1..Len(s) : j = 1 \/ j = 2
  BY <1>4
<1>6. OnPath(f) /\ Serves(f, k) /\ Sure(f, 1) = {} /\ Seen(f) = {}
  BY <1>2 DEF OnPath, Serves, Sure, Seen
<1>7. OnPath(g) /\ Callee(f, g) /\ Sure(g, 2) = {} /\ Seen(g) = {}
  BY <1>2, <1>3 DEF OnPath, Callee, Sure, Seen
<1>8. \A j \in 2..Len(s) : Callee(s[j - 1], s[j])
  BY <1>4, <1>7
<1>9. StackOf(s, k)
  BY <1>4, <1>5, <1>6, <1>7, <1>8 DEF StackOf
<1>10. Begins(s, k)
  BY <1>4, <1>5, <1>6, <1>7, <1>9 DEF Begins
<1> QED
  BY <1>10 DEF s, f, g

LEMMA CallBegins ==
    ASSUME FSInv, NEW c \in Callers, NEW k \in Calls, Call(c, k)
    PROVE  Begins(calls'[c], k)
<1>1. DOMAIN calls = Callers
  BY DEF FSInv
<1>2. calls'[c] =
          CASE k.op \in {"Mv", "Symlink"} -> <<Frame(k.op, "link", k.path), Frame("Rm", "lstat", k.path)>>
            [] k.op = "Unlink" /\ k.arg -> <<Frame("Unlink", "unlink", k.path)>>
            [] k.op = "OpenForWrite" -> <<Frame(k.op, "open", k.path)>>
            [] k.op = "ListAllFile" -> <<Frame(k.op, "access", k.path)>>
            [] OTHER -> <<Frame(k.op, "lstat", k.path)>>
  BY <1>1 DEF Call
<1>3. CASE k.op \in {"Mv", "Symlink"}
  <2>1. calls'[c] = <<Frame(k.op, "link", k.path), Frame("Rm", "lstat", k.path)>>
    BY <1>2, <1>3
  <2> QED
    BY <1>3, <2>1, BeginsTwo
<1>4. CASE k.op = "Unlink"
  <2>1. calls'[c] = <<Frame(k.op, "unlink", k.path)>> \/ calls'[c] = <<Frame(k.op, "lstat", k.path)>>
    <3>1. CASE k.arg
      BY <1>2, <1>4, <3>1
    <3>2. CASE ~k.arg
      BY <1>2, <1>4, <3>2
    <3> QED
      BY <3>1, <3>2
  <2> QED
    BY <1>4, <2>1, BeginsOne
<1>5. CASE k.op = "OpenForWrite"
  <2>1. calls'[c] = <<Frame(k.op, "open", k.path)>>
    BY <1>2, <1>5
  <2> QED
    BY <1>5, <2>1, BeginsOne
<1>6. CASE k.op = "ListAllFile"
  <2>1. calls'[c] = <<Frame(k.op, "access", k.path)>>
    BY <1>2, <1>6
  <2> QED
    BY <1>6, <2>1, BeginsOne
<1>7. CASE k.op \notin {"Mv", "Symlink", "Unlink", "OpenForWrite", "ListAllFile"}
  <2>1. calls'[c] = <<Frame(k.op, "lstat", k.path)>>
    BY <1>2, <1>7
  <2> QED
    BY <1>7, <2>1, BeginsOne
<1> QED
  BY <1>3, <1>4, <1>5, <1>6, <1>7

LEMMA CallKept ==
    ASSUME FSInv, NEW c \in Callers, NEW k \in Calls, Call(c, k)
    PROVE  FSInv'
<1> DEFINE s == calls'[c]
           h == hist'[c]
           list == IF k.op = "ListAllFile" THEN Listing(tree, k.path) ELSE {}
<1>1. /\ IsFileSystem(tree) /\ DOMAIN calls = Callers /\ DOMAIN result = Callers /\ DOMAIN files = Callers
      /\ DOMAIN call = Callers /\ DOMAIN hist = Callers /\ \A x \in Callers : CallerInv(x)
  BY DEF FSInv
<1>2. tree' = tree /\ IsFileSystem(tree')
  BY <1>1 DEF Call
<1>3. /\ DOMAIN calls' = Callers /\ DOMAIN result' = Callers /\ DOMAIN files' = Callers
      /\ DOMAIN call' = Callers /\ DOMAIN hist' = Callers
  BY <1>1 DEF Call
<1>4. call'[c] = k /\ result'[c] = {} /\ files'[c] = {} /\ k.path \in Paths
  BY <1>1, FSAssumption DEF Call
<1>5. h = [before |-> tree, alone |-> TRUE, linked |-> FALSE,
           met |-> At(k.path) \in DOMAIN tree, missed |-> ~(At(k.path) \in DOMAIN tree),
           ever |-> list, stable |-> list]
  BY <1>1, Zenon DEF Call
<1>6. /\ IsHistory(h) /\ h.ever = list /\ h.stable = list
      /\ h.met <=> At(k.path) \in DOMAIN tree
      /\ h.missed <=> At(k.path) \notin DOMAIN tree
  <2> DEFINE met == At(k.path) \in DOMAIN tree
             missed == ~(At(k.path) \in DOMAIN tree)
  <2> HIDE DEF met, missed, list, h
  <2>1. h = [before |-> tree, alone |-> TRUE, linked |-> FALSE, met |-> met, missed |-> missed,
             ever |-> list, stable |-> list]
    BY <1>5 DEF met, missed
  <2>2. IsHistory(h) /\ h.met = met /\ h.missed = missed /\ h.ever = list /\ h.stable = list
    BY <2>1 DEF IsHistory
  <2> QED
    BY <2>2, Zenon DEF met, missed
<1>7. Begins(s, k)
  BY CallBegins
<1> HIDE DEF s, h
<1>8. CallerInv(c)'
  <2>1. StackInv(c)'
    BY <1>4, <1>7 DEF StackInv, Begins, s
  <2>2. HistInv(c)'
    BY <1>2, <1>4, <1>6 DEF HistInv, IsHistory, At, h
  <2>3. LinkInv(c)'
    BY <1>7 DEF LinkInv, NoLinkOn, Begins, s
  <2>4. CoverInv(c)'
    <3> SUFFICES ASSUME k.op = "ListAllFile", NEW p \in h.stable
                 PROVE  Covered(s, {}, p)
      BY <1>4 DEF CoverInv, s, h
    <3>1. Len(s) = 1 /\ s[1].pc = "access" /\ s[1].path = k.path
      BY <1>7 DEF Begins
    <3>2. IsPrefix(k.path, p) /\ p # k.path
      BY <1>1, <1>4, <1>6, ListingIs
    <3>3. 1 \in 1..Len(s) /\ Ahead(s[1], p)
      BY <3>1, <3>2 DEF Ahead
    <3> QED
      BY <3>3 DEF Covered
  <2>5. SeenInv(c)'
    <3>1. \A j \in 1..Len(s) : Seen(s[j]) \subseteq h.ever
      BY <1>7 DEF Begins
    <3> QED
      BY <1>4, <3>1 DEF SeenInv, s, h
  <2>6. ReportInv(c)'
    BY <1>4 DEF ReportInv, Returned
  <2> QED
    BY <2>1, <2>2, <2>3, <2>4, <2>5, <2>6 DEF CallerInv
<1>9. ASSUME NEW x \in Callers, x # c
      PROVE  CallerInv(x)'
  <2>1. /\ calls'[x] = calls[x] /\ result'[x] = result[x] /\ files'[x] = files[x]
        /\ call'[x] = call[x] /\ hist'[x] = hist[x]
    BY <1>1, <1>9 DEF Call
  <2>2. CallerInv(x)
    BY <1>1
  <2> QED
    BY <1>2, <2>1, <2>2 DEF CallerInv, StackInv, HistInv, LinkInv, CoverInv, SeenInv, ReportInv, Returned, At
<1> QED
  BY <1>2, <1>3, <1>8, <1>9 DEF FSInv

-----------------------------------------------------------------------------
(***************************************************************************)
(* The invariants.                                                         *)
(***************************************************************************)
LEMMA InitInv == Init => FSInv
<1> SUFFICES ASSUME Init
             PROVE  FSInv
  OBVIOUS
<1>1. IsFileSystem(tree)
  BY FSAssumption DEF Init
<1>2. /\ DOMAIN calls = Callers /\ DOMAIN result = Callers /\ DOMAIN files = Callers
      /\ DOMAIN call = Callers /\ DOMAIN hist = Callers
  BY DEF Init
<1>3. ASSUME NEW c \in Callers
      PROVE  CallerInv(c)
  <2>1. calls[c] = <<>> /\ result[c] = {} /\ files[c] = {} /\ call[c].op = "none"
    BY DEF Init
  <2>2. hist[c] = [before |-> tree, alone |-> FALSE, linked |-> TRUE,
                   met |-> TRUE, missed |-> TRUE, ever |-> {}, stable |-> {}]
    BY DEF Init
  <2>3. Len(<<>>) = 0 /\ 1..0 = {} /\ 2..0 = {} /\ <<>> \in Seq(Frames)
    OBVIOUS
  <2>4. StackInv(c)
    BY <2>1, <2>3 DEF StackInv, StackOf
  <2>5. HistInv(c)
    BY <2>1, <2>2 DEF HistInv
  <2>6. LinkInv(c) /\ CoverInv(c) /\ SeenInv(c) /\ ReportInv(c)
    BY <2>1, <2>2 DEF LinkInv, CoverInv, SeenInv, ReportInv, Returned
  <2> QED
    BY <2>4, <2>5, <2>6 DEF CallerInv
<1> QED
  BY <1>1, <1>2, <1>3 DEF FSInv

LEMMA NextKept == FSInv /\ [Next]_vars => FSInv'
<1> SUFFICES ASSUME FSInv, [Next]_vars
             PROVE  FSInv'
  OBVIOUS
<1>1. CASE UNCHANGED vars
  <2>1. /\ tree' = tree /\ calls' = calls /\ result' = result /\ files' = files
        /\ call' = call /\ hist' = hist
    BY <1>1 DEF vars
  <2>2. \A c \in Callers : CallerInv(c)'
    BY <2>1 DEF FSInv, CallerInv, StackInv, HistInv, LinkInv, CoverInv, SeenInv, ReportInv, Returned, At
  <2> QED
    BY <2>1, <2>2 DEF FSInv
<1>2. ASSUME NEW c \in Callers, NEW k \in Calls, Call(c, k)
      PROVE  FSInv'
  BY <1>2, CallKept
<1>3. ASSUME NEW c \in Callers, MkdirNext(c)
      PROVE  FSInv'
  BY <1>3, MkdirLstatKept, MkdirAccessKept, MkdirMkdirKept DEF MkdirNext
<1>4. ASSUME NEW c \in Callers, RmNext(c)
      PROVE  FSInv'
  BY <1>4, UnlinkLstatKept, UnlinkUnlinkKept, RmLstatKept, RmOpendirKept, RmReaddirKept, RmRmdirKept DEF RmNext
<1>5. ASSUME NEW c \in Callers, Mv(c) \/ Symlink(c) \/ OpenForWrite(c) \/ OpenForWriteMkdir(c)
      PROVE  FSInv'
  BY <1>5, MvKept, SymlinkKept, OpenForWriteKept, OpenForWriteMkdirKept
<1>6. ASSUME NEW c \in Callers, ListNext(c)
      PROVE  FSInv'
  BY <1>6, ListAccessKept, ListOpendirKept, ListReaddirKept, ListReturnKept DEF ListNext
<1> QED
  BY <1>1, <1>2, <1>3, <1>4, <1>5, <1>6 DEF Next

\* The inductive invariant: what every frame on the stacks, whatever the others do meanwhile,
\* may rely on, and what the histories have noticed of what it still has to do.
THEOREM FramesRely == Spec => []FSInv
<1> QED
  BY InitInv, NextKept, PTL DEF Spec

\* However many callers there are and whatever they call on whatever file system: whatever there
\* is in it, is in a directory.  No step that was prepared by reading the tree before makes
\* anything in, or moves anything to, what has stopped to be one.
THEOREM SystemStays == Spec => []IsFileSystem(tree)
<1>1. FSInv => IsFileSystem(tree)
  BY DEF FSInv
<1> QED
  BY <1>1, FramesRely, PTL

\* However many callers interfere with each other: what a call reports was so at some moment
\* while it ran, and ListAllFile misses nothing that was there throughout and, unless a link was
\* put into its way, lists nothing that never was.
THEOREM ReportsHold == Spec => []ResultsHold
<1>1. FSInv => ResultsHold
  <2> SUFFICES ASSUME FSInv, NEW c \in Callers
               PROVE  LET found == {p \in hist[c].stable : Last(p) \in call[c].arg}
                      IN  /\ Returned(c, {"Rm", "Unlink"}, TRUE) => hist[c].missed
                          /\ Returned(c, {"Mkdir", "Mv", "Symlink", "OpenForWrite"}, TRUE) => hist[c].met
                          /\ Returned(c, {"ListAllFile"}, TRUE) =>
                                found \subseteq files[c] /\ (hist[c].linked \/ files[c] \subseteq hist[c].ever)
    BY DEF ResultsHold
  <2>1. CallerInv(c)
    BY DEF FSInv
  <2>2. ReportInv(c) /\ CoverInv(c) /\ SeenInv(c)
    BY <2>1 DEF CallerInv
  <2>3. ASSUME Returned(c, {"ListAllFile"}, TRUE)
        PROVE  /\ \A p \in hist[c].stable : Last(p) \in call[c].arg => p \in files[c]
               /\ hist[c].linked \/ files[c] \subseteq hist[c].ever
    <3>1. calls[c] = <<>> /\ call[c].op = "ListAllFile"
      BY <2>2, <2>3 DEF Returned, ReportInv
    <3>2. 1..Len(calls[c]) = {}
      BY <3>1
    <3> QED
      BY <2>2, <3>1, <3>2 DEF CoverInv, Covered, SeenInv
  <2> QED
    BY <2>2, <2>3 DEF ReportInv
<1> QED
  BY <1>1, FramesRely, PTL

-----------------------------------------------------------------------------
(***************************************************************************)
(* What may disappear.                                                     *)
(***************************************************************************)
\* Rm gets into directories only, and by their names: what it removes is below the path it was
\* given.
LEMMA PlacesBelow ==
    ASSUME NEW t, IsFileSystem(t), NEW s, NEW k, StackOf(s, k), NoLinkOn(t, s),
           NEW j \in 1..Len(s), s[j].op \in {"Rm", "Unlink", "Mv", "Symlink"}
    PROVE  LET q == Place(t, s[j].path, MaxLinks)
           IN  q = Nowhere \/ Under(Place(t, k.path, MaxLinks), q)
<1> DEFINE r == Place(t, k.path, MaxLinks)
           Removers == {"Rm", "Unlink", "Mv", "Symlink"}
           Good(f) == f.op \in Removers =>
                         Place(t, f.path, MaxLinks) = Nowhere \/ Under(r, Place(t, f.path, MaxLinks))
           T == {i \in Nat : i + 1 \in 1..Len(s) => Good(s[i + 1])}
<1>1. /\ s \in Seq(Frames) /\ Len(s) \in Nat /\ s # <<>> /\ Serves(s[1], k) /\ k \in Calls
      /\ \A i \in 1..Len(s) : s[i].path \in Paths
  <2>1. s \in Seq(Frames) /\ s # <<>> /\ Serves(s[1], k) /\ k \in Calls
    BY DEF StackOf
  <2>2. \A i \in 1..Len(s) : s[i] \in Frames
    BY <2>1
  <2>3. \A f \in Frames : f.path \in Paths
    BY DEF Frames
  <2> QED
    BY <2>1, <2>2, <2>3
<1>2. k.path \in Paths /\ r \in Places
  BY <1>1, FSAssumption, PlaceIs, Constants
<1>3. Good(s[1])
  <2>1. s[1].path = k.path
    BY <1>1 DEF Serves
  <2>2. r = Nowhere \/ Under(r, r)
    BY <1>2, PrefixFacts, Constants DEF Under, Places
  <2> QED
    BY <2>1, <2>2
<1>4. 0 \in T
  <2> HIDE DEF Good
  <2> QED
    BY <1>3
<1>5. ASSUME NEW i \in T
      PROVE  i + 1 \in T
  <2> DEFINE a == i + 1
             b == a + 1
  <2>1. a \in Nat /\ b - 1 = a /\ b # 1
    BY <1>5
  <2> SUFFICES ASSUME b \in 1..Len(s)
               PROVE  Good(s[b])
    <3> HIDE DEF Good
    <3> QED
      BY <2>1
  <2>2. a \in 1..Len(s) /\ b \in 2..Len(s)
    BY <1>1, <1>5
  <2>3. Good(s[a])
    <3> HIDE DEF Good
    <3> QED
      BY <1>5, <2>2
  <2>4. Callee(s[b - 1], s[b])
    BY <2>2 DEF StackOf
  <2>5. Callee(s[a], s[b])
    BY <2>1, <2>4, Zenon
  <2> DEFINE f == s[a].path
             g == s[b].path
             h == Target(t, f, MaxLinks)
  <2>6. f \in Paths /\ g \in Paths
    BY <1>1, <2>2
  <2>7. f \in Sure(s[a], a) => NoLinkAt(t, f)
    BY <2>2 DEF NoLinkOn
  <2> HIDE DEF a, b
  <2> SUFFICES ASSUME s[b].op \in Removers
               PROVE  Place(t, g, MaxLinks) = Nowhere \/ Under(r, Place(t, g, MaxLinks))
    OBVIOUS
  <2>8. CASE g = f /\ s[a].op \in Removers
    BY <2>3, <2>8
  <2>9. CASE s[a].op = "Rm" /\ s[a].pc = "readdir" /\ g # <<>> /\ Front(g) = f
    <3>1. NoLinkAt(t, f)
      BY <2>7, <2>9 DEF Sure
    <3>2. h = Place(t, f, MaxLinks)
      BY <2>6, <3>1, TargetPlace, Constants DEF NoLinkAt
    <3>3. Place(t, g, MaxLinks) = IF Is(t, h, "dir") THEN Append(h, Last(g)) ELSE Nowhere
      <4> HIDE DEF f, g, h
      <4>1. Place(t, g, MaxLinks) = IF Is(t, Target(t, Front(g), MaxLinks), "dir")
                                    THEN Append(Target(t, Front(g), MaxLinks), Last(g)) ELSE Nowhere
        BY <2>6, <2>9, PlaceIs, Constants
      <4>2. Front(g) = f
        BY <2>9
      <4> QED
        BY <4>1, <4>2, Zenon DEF h
    <3>4. h = Nowhere \/ Under(r, h)
      BY <2>3, <2>9, <3>2
    <3> HIDE DEF f, g, h, r
    <3>5. ASSUME Is(t, h, "dir")
          PROVE  Under(r, Append(h, Last(g)))
      <4>1. h \in Paths /\ h # Nowhere
        BY <3>5, SystemFacts, Constants
      <4>2. r \in Paths /\ r # Nowhere /\ IsPrefix(r, h)
        BY <1>2, <3>4, <4>1 DEF Under, Places
      <4>3. Last(g) \in Names
        BY <2>6, <2>9, PathFacts
      <4>4. Append(h, Last(g)) \in Paths /\ IsPrefix(r, Append(h, Last(g)))
        BY <4>1, <4>2, <4>3, MovedAppend
      <4> QED
        BY <4>2, <4>4, Constants DEF Under
    <3> QED
      BY <3>3, <3>5 DEF g
  <2> QED
    BY <2>5, <2>8, <2>9 DEF Callee
<1>6. T = Nat
  <2>1. T \in SUBSET Nat
    OBVIOUS
  <2> HIDE DEF T
  <2> QED
    BY <1>4, <1>5, <2>1, Induction
<1>7. Good(s[j])
  <2> DEFINE i == j - 1
  <2>1. i \in Nat /\ i + 1 = j
    BY <1>1
  <2> HIDE DEF i, Good
  <2>2. i \in T
    BY <1>6, <2>1
  <2> QED
    BY <2>1, <2>2
<1> QED
  BY <1>7

\* A step leaves what is at q, or q is below what the call is about.
Spared(c, q) ==
    \/ q \in DOMAIN tree' /\ tree'[q] = tree[q]
    \/ Under(At(call[c].path), q)
    \/ call[c].op = "Mv" /\ Under(At(call[c].arg), q)

\* A step that removes what is at the path of the last frame.
LEMMA RemovesSpares ==
    ASSUME FSInv, NEW c \in Callers, calls[c] # <<>>, ~hist[c].linked, Top(c).op \in {"Rm", "Unlink"},
           LET q == At(Top(c).path)
           IN  CanUnlink(q) \/ CanRmdir(q),
           SetTree(c, Without(tree, {At(Top(c).path)})), NEW q \in DOMAIN tree
    PROVE  Spared(c, q)
<1> DEFINE n == Len(calls[c])
           p == Top(c).path
<1>1. /\ StackOf(calls[c], call[c]) /\ n \in 1..n /\ Top(c) = calls[c][n] /\ p \in Paths
      /\ IsFileSystem(tree) /\ NoLinkOn(tree, calls[c])
  BY StackFacts DEF FSInv, CallerInv, LinkInv, Frames
<1>2. At(p) = Nowhere \/ Under(At(call[c].path), At(p))
  BY <1>1, PlacesBelow DEF At
<1>3. At(p) \in DOMAIN tree /\ \A r \in DOMAIN tree : r # At(p) => r \in DOMAIN tree' /\ tree'[r] = tree[r]
  BY <1>1, Removes
<1>4. At(p) # Nowhere
  BY <1>1, <1>3, SystemFacts
<1> QED
  BY <1>2, <1>3, <1>4 DEF Spared

LEMMA MvSpares ==
    ASSUME FSInv, NEW c \in Callers, Mv(c), NEW q \in DOMAIN tree
    PROVE  Spared(c, q)
<1>1. /\ calls[c] # <<>> /\ Top(c) \in Frames /\ Top(c).op = "Mv" /\ Top(c).path \in Paths
  BY InFacts DEF Mv
<1>2. call[c].path = Top(c).path /\ call[c].op = "Mv"
  BY <1>1, StackFacts DEF Serves
<1> DEFINE f == At(call[c].arg)
           r == At(Top(c).path)
<1>3. CASE CanRename(f, r) /\ SetTree(c, Renamed(f, r))
  <2>1. IsFileSystem(tree) /\ tree' = Renamed(f, r)
    BY <1>3 DEF FSInv, SetTree
  <2>2. r \in Paths /\ Is(tree, Front(r), "dir")
    BY <1>1, <1>3, <2>1, InDir DEF CanRename
  <2>3. ~Under(f, q) /\ ~Under(r, q) => q \in DOMAIN tree' /\ tree'[q] = tree[q]
    <3> DEFINE u == Renamed(f, r)
    <3>1. ~Under(f, q) /\ ~Under(r, q) => q \in DOMAIN u /\ u[q] = tree[q]
      BY <1>3, <2>1, <2>2, RenamedKept
    <3>2. tree' = u
      BY <2>1
    <3> HIDE DEF u
    <3> QED
      BY <3>1, <3>2
  <2> QED
    BY <1>2, <2>3 DEF Spared
<1>4. CASE UNCHANGED tree
  BY <1>4 DEF Spared
<1> QED
  BY <1>3, <1>4 DEF Mv

\* Steps that make something or only read remove nothing.
LEMMA OthersSpare ==
    ASSUME FSInv, NEW c \in Callers, NEW q \in DOMAIN tree,
           \/ MkdirNext(c) \/ Symlink(c) \/ OpenForWrite(c) \/ OpenForWriteMkdir(c) \/ ListNext(c)
           \/ UnlinkLstat(c) \/ RmLstat(c) \/ RmOpendir(c) \/ RmReaddir(c)
           \/ \E k \in Calls : Call(c, k)
    PROVE  q \in DOMAIN tree' /\ tree'[q] = tree[q]
<1>1. CASE UNCHANGED tree
  BY <1>1
<1>2. CASE MkdirMkdir(c) /\ ~UNCHANGED tree
  <2>1. /\ calls[c] # <<>> /\ Top(c).op = "Mkdir" /\ Top(c).pc = "mkdir"
        /\ Top(c).path \in Paths /\ Top(c).i \in Nat \ {0} /\ OnPath(Top(c))
    BY <1>2, InFacts DEF MkdirMkdir
  <2>2. Top(c).path # <<>> /\ Top(c).i \in 1..Len(Top(c).path)
    BY <2>1 DEF OnPath, Paths
  <2>3. Prefix(c) \in Paths
    BY <2>1, <2>2, PrefixIsPath
  <2>4. CanMkdir(At(Prefix(c))) /\ SetTree(c, With(At(Prefix(c)), Dir))
    BY <1>2 DEF MkdirMkdir
  <2> QED
    BY <2>3, <2>4, Makes, NodeKinds
<1>3. CASE Symlink(c) /\ ~UNCHANGED tree
  <2>1. calls[c] # <<>> /\ Top(c).op = "Symlink" /\ Top(c).path \in Paths
    BY <1>3, InFacts DEF Symlink
  <2>2. call[c] \in Calls /\ call[c].op = "Symlink"
    BY <2>1, StackFacts DEF Serves
  <2>3. IsNode(Link(call[c].arg))
    BY <2>2, NodeKinds, FSAssumption
  <2>4. CanMkdir(At(Top(c).path)) /\ SetTree(c, With(At(Top(c).path), Link(call[c].arg)))
    BY <1>3 DEF Symlink
  <2> QED
    BY <2>1, <2>3, <2>4, Makes
<1>4. CASE OpenForWrite(c) /\ ~UNCHANGED tree
  <2>1. In(c, "OpenForWrite", "open") \/ In(c, "OpenForWrite", "again")
    BY <1>4 DEF OpenForWrite
  <2>2. Top(c).path \in Paths
    BY <2>1, InFacts
  <2>3. CanOpen(End(Top(c).path)) /\ SetTree(c, Opened(End(Top(c).path)))
    BY <1>4 DEF OpenForWrite
  <2>4. End(Top(c).path) \notin DOMAIN tree
    BY <1>4, <2>3 DEF SetTree, Opened
  <2>5. CanMkdir(End(Top(c).path)) /\ SetTree(c, With(End(Top(c).path), NewFile))
    BY <2>3, <2>4 DEF CanOpen, Is, Opened
  <2> QED
    BY <2>2, <2>5, Makes, NodeKinds
<1> QED
  BY <1>1, <1>2, <1>3, <1>4 DEF MkdirNext, MkdirLstat, MkdirAccess, Call, OpenForWriteMkdir, ListNext,
     ListAccess, ListOpendir, ListReaddir, ListReturn, UnlinkLstat, RmLstat, RmOpendir, RmReaddir

LEMMA StepsSpare ==
    ASSUME FSInv, [Next]_vars, NEW c \in Callers, calls'[c] # calls[c], ~hist[c].linked, NEW q \in DOMAIN tree
    PROVE  Spared(c, q)
<1>1. DOMAIN calls = Callers
  BY DEF FSInv
<1>2. ASSUME NEW x \in Callers, x # c,
             \/ \E k \in Calls : Call(x, k)
             \/ MkdirNext(x) \/ RmNext(x) \/ Mv(x) \/ Symlink(x)
             \/ OpenForWrite(x) \/ OpenForWriteMkdir(x) \/ ListNext(x)
      PROVE  FALSE
  <2>1. \E z : calls' = [calls EXCEPT ![x] = z]
    BY <1>2 DEF Call, MkdirNext, MkdirLstat, MkdirAccess, MkdirMkdir, NextPrefix, RmNext, UnlinkLstat,
       UnlinkUnlink, RmLstat, RmOpendir, RmReaddir, RmRmdir, Mv, Symlink, OpenForWrite, OpenForWriteMkdir,
       ListNext, ListAccess, ListOpendir, ListReaddir, ListReturn, Goes, Pushes, Return
  <2> QED
    BY <1>1, <1>2, <2>1
<1>3. CASE UnlinkUnlink(c)
  <2>1. calls[c] # <<>> /\ Top(c).op = "Unlink"
    BY <1>3, InFacts DEF UnlinkUnlink
  <2>2. CASE CanUnlink(At(Top(c).path)) /\ SetTree(c, Without(tree, {At(Top(c).path)}))
    BY <2>1, <2>2, RemovesSpares
  <2>3. CASE UNCHANGED tree
    BY <2>3 DEF Spared
  <2> QED
    BY <1>3, <2>2, <2>3 DEF UnlinkUnlink
<1>4. CASE RmRmdir(c)
  <2>1. calls[c] # <<>> /\ Top(c).op = "Rm"
    BY <1>4, InFacts DEF RmRmdir
  <2>2. CASE CanRmdir(At(Top(c).path)) /\ SetTree(c, Without(tree, {At(Top(c).path)}))
    BY <2>1, <2>2, RemovesSpares
  <2>3. CASE UNCHANGED tree
    BY <2>3 DEF Spared
  <2> QED
    BY <1>4, <2>2, <2>3 DEF RmRmdir
<1>5. CASE Mv(c)
  BY <1>5, MvSpares
<1>6. CASE \/ MkdirNext(c) \/ Symlink(c) \/ OpenForWrite(c) \/ OpenForWriteMkdir(c) \/ ListNext(c)
           \/ UnlinkLstat(c) \/ RmLstat(c) \/ RmOpendir(c) \/ RmReaddir(c)
           \/ \E k \in Calls : Call(c, k)
  BY <1>6, OthersSpare DEF Spared
<1>7. ~UNCHANGED vars
  BY DEF vars
<1>8. PICK x \in Callers :
         \/ \E k \in Calls : Call(x, k)
         \/ MkdirNext(x) \/ RmNext(x) \/ Mv(x) \/ Symlink(x)
         \/ OpenForWrite(x) \/ OpenForWriteMkdir(x) \/ ListNext(x)
  BY <1>7 DEF Next
<1> QED
  BY <1>2, <1>3, <1>4, <1>5, <1>6, <1>8 DEF RmNext

\* However many callers interfere with each other: nothing disappears but what is at or below the
\* path that a call was given, or the source of Mv, unless somebody else has put a link there.
THEOREM RemovalsAreBelow == Spec => RemovesOnlyBelow
<1>1. FSInv /\ [Next]_vars =>
         [\A c \in Callers : calls'[c] # calls[c] /\ ~hist[c].linked =>
             \A q \in DOMAIN tree :
                 \/ q \in DOMAIN tree' /\ tree'[q] = tree[q]
                 \/ Under(At(call[c].path), q)
                 \/ call[c].op = "Mv" /\ Under(At(call[c].arg), q)]_vars
  BY StepsSpare DEF Spared
<1> QED
  BY <1>1, FramesRely, PTL DEF Spec, RemovesOnlyBelow

-----------------------------------------------------------------------------
(***************************************************************************)
(* What a call alone with the file system has done so far.                 *)
(***************************************************************************)
Removers == {"Rm", "Unlink", "Mv", "Symlink"}

\* The place of p, a path at or below k, when q is that of k.
Spot(p, k, q) == IF q = Nowhere THEN Nowhere ELSE Moved(p, k, q)

\* Of b, only what Rm can remove at or below q has been removed.
Partly(b, t, q) == /\ \A r \in DOMAIN t : r \in DOMAIN b /\ t[r] = b[r]
                   /\ \A r \in DOMAIN b \ DOMAIN t : Under(q, r) /\ r \notin Kept(b, q)

\* All that Rm can remove at or below w has been removed.
Cleared(b, t, q, w) == \A r \in DOMAIN t : Under(w, r) => r \in Kept(b, q)

\* What the frame f has done at w, when it waits for a call with a path in over.  There is less
\* below w than readdir has not returned yet and Rm is removing, and could not remove.
Fits(b, t, k, q, f, over) ==
    LET w == Spot(f.path, k.path, q)
    IN  /\ f.op \in Removers /\ IsPrefix(k.path, f.path)
        /\ f.op = "Rm" => f.ret \/ \E x \in Names : Append(w, x) \in Kept(b, q)
        /\ f.op = "Rm" /\ f.pc = "opendir" => w \in DOMAIN t /\ t[w] \in {Dir, Socket}
        /\ f.op = "Unlink" => w \in DOMAIN t /\ t[w] \notin {Dir, Socket}
        /\ f.op = "Rm" /\ f.pc = "readdir" =>
              /\ Is(t, w, "dir")
              /\ \A r \in DOMAIN t : IsPrefix(w, r) /\ r # w =>
                    \/ r \in Kept(b, q) \/ \E e \in f.todo : IsPrefix(Append(w, e.name), r)
                    \/ \E p \in over : Under(Spot(p, k.path, q), r)
        /\ f.op \in {"Mv", "Symlink"} =>
              /\ f.path = k.path
              /\ over = {} => Cleared(b, t, q, q) /\ (f.ret <=> Kept(b, q) = {})

Over(s, j) == {s[i].path : i \in {i \in 1..Len(s) : i = j + 1}}
Depth(s, k, j) == s[j].op \in {"Rm", "Unlink"} =>
                     Len(s[j].path) + (IF k.op = "Rm" THEN 1 ELSE 2) = Len(k.path) + j

Removing(b, t, k, q, s) ==
    /\ Partly(b, t, q)
    /\ \A j \in 1..Len(s) : Fits(b, t, k, q, s[j], Over(s, j)) /\ Depth(s, k, j)

OnTheWay(p) == {SubSeq(p, 1, i) : i \in 1..Len(p)}

\* Directories have been made on the way to p, and nothing else.
Grown(b, t, p) ==
    /\ \A q \in DOMAIN b : q \in DOMAIN t /\ t[q] = b[q]
    /\ \A q \in DOMAIN t \ DOMAIN b : t[q] = Dir /\ \E p2 \in OnTheWay(p) : Place(t, p2, MaxLinks) = q

Making(b, t, p, f) ==
    /\ Grown(b, t, p) /\ f.op = "Mkdir"
    /\ f.pc # "lstat" => Place(t, p, MaxLinks) \notin DOMAIN t
    /\ f.pc = "mkdir" => Target(t, SubSeq(p, 1, f.i), MaxLinks) \notin DOMAIN t

AloneInv(c) ==
    LET b == hist[c].before
        k == call[c]
        q == Place(b, k.path, MaxLinks)
    IN  hist[c].alone /\ Avoids(b, k.path, q) =>
            /\ IsFileSystem(b)
            /\ calls[c] # <<>> /\ k.op \in {"Rm", "Mv", "Symlink"} => Removing(b, tree, k, q, calls[c])
            /\ calls[c] # <<>> /\ k.op = "Mkdir" => Len(calls[c]) = 1 /\ Making(b, tree, k.path, Top(c))
            /\ \A r \in result[c] : Exact(b, tree, k, r)

-----------------------------------------------------------------------------
(***************************************************************************)
(* Where paths lead to, with more or less in the file system.              *)
(***************************************************************************)
Within(u, t) == \A r \in DOMAIN u : r \in DOMAIN t /\ u[r] = t[r]

\* A path that leads to a place leads there also when there is more.
LEMMA GrowsPlace ==
    ASSUME NEW t, IsFileSystem(t), NEW u, IsFileSystem(u), Within(u, t), NEW p \in Paths,
           Place(u, p, MaxLinks) # Nowhere
    PROVE  Place(t, p, MaxLinks) = Place(u, p, MaxLinks)
<1>1. NoNewLinks(t, u)
  BY DEF NoNewLinks, Is, Within
<1>2. CASE p = <<>>
  BY <1>2, PlaceIs, Constants
<1>3. CASE p # <<>>
  <2> DEFINE d == Target(u, Front(p), MaxLinks)
  <2>1. Front(p) \in Paths
    BY <1>3, PathFacts
  <2>2. Is(u, d, "dir") /\ Place(u, p, MaxLinks) = Append(d, Last(p))
    BY <1>3, PlaceIs, Constants
  <2>3. d \in DOMAIN t /\ ~Is(t, d, "link") /\ Is(t, d, "dir")
    BY <2>2, SystemFacts DEF Within, Is
  <2>4. SameTarget(t, u, Front(p), MaxLinks)
    BY <1>1, <2>1, SamePlaces, Constants
  <2>5. Target(t, Front(p), MaxLinks) = d
    BY <2>3, <2>4 DEF SameTarget
  <2> HIDE DEF d
  <2> QED
    BY <1>3, <2>2, <2>3, <2>5, PlaceIs, Constants
<1> QED
  BY <1>2, <1>3

\* A path that avoids what is at q leads where it did while that is being removed.
LEMMA AvoidsPlace ==
    ASSUME NEW b, IsFileSystem(b), NEW t, IsFileSystem(t), NEW q \in Places, Within(t, b),
           \A r \in DOMAIN b \ DOMAIN t : Under(q, r), NEW p \in Paths, Avoids(b, p, q), q = <<>> => p = <<>>
    PROVE  Place(t, p, MaxLinks) = Place(b, p, MaxLinks)
<1> DEFINE gone == Below(b, q)
           u == Without(b, gone)
<1>1. CASE p = <<>>
  BY <1>1, PlaceIs, Constants
<1>2. CASE Place(t, p, MaxLinks) # Nowhere
  BY <1>2, GrowsPlace
<1>3. CASE p # <<>> /\ Place(t, p, MaxLinks) = Nowhere
  <2>1. gone \in SUBSET DOMAIN b /\ <<>> \notin gone
    <3>1. q # <<>> /\ (q # Nowhere => q \in Paths)
      BY <1>3 DEF Places
    <3>2. q # Nowhere => ~IsPrefix(q, <<>>)
      BY <3>1, PrefixFacts, PathFacts
    <3> QED
      BY <3>2 DEF Below, Under
  <2>2. ASSUME NEW r \in DOMAIN b, r # <<>>, Front(r) \in gone
        PROVE  r \in gone
    <3>1. r \in Paths /\ q \in Paths /\ IsPrefix(q, Front(r)) /\ r # Nowhere /\ q # Nowhere
      BY <2>2, SystemFacts DEF Below, Under, Places
    <3>2. IsPrefix(q, r)
      BY <2>2, <3>1, PrefixFacts
    <3> QED
      BY <3>1, <3>2 DEF Below, Under
  <2> HIDE DEF gone
  <2>3. IsFileSystem(u) /\ DOMAIN u = DOMAIN b \ gone /\ \A r \in DOMAIN b \ gone : u[r] = b[r]
    BY <2>1, <2>2, WithoutKept
  <2>4. Place(u, p, MaxLinks) = Place(b, p, MaxLinks)
    BY DEF Avoids, gone
  <2> HIDE DEF u
  <2>5. ASSUME NEW r \in DOMAIN u
        PROVE  r \in DOMAIN t /\ u[r] = t[r]
    <3>1. r \in DOMAIN b /\ r \notin gone /\ u[r] = b[r]
      BY <2>3
    <3>2. ~Under(q, r)
      BY <3>1 DEF gone, Below
    <3> QED
      BY <3>1, <3>2 DEF Within
  <2>6. Within(u, t)
    BY <2>5 DEF Within
  <2>7. Place(u, p, MaxLinks) = Nowhere
    BY <1>3, <2>3, <2>6, GrowsPlace
  <2> QED
    BY <1>3, <2>4, <2>7
<1> QED
  BY <1>1, <1>2, <1>3

\* Where everything is in directories, a path below k leads below the place of k.
LEMMA WayDown ==
    ASSUME NEW t, IsFileSystem(t), NEW k \in Paths, NEW q \in Paths, Place(t, k, MaxLinks) = q
    PROVE  \A p \in Paths : IsPrefix(k, p) /\ p # k /\ Is(t, Moved(Front(p), k, q), "dir") =>
              Place(t, p, MaxLinks) = Moved(p, k, q)
<1> DEFINE Claim(p) == IsPrefix(k, p) /\ p # k /\ Is(t, Moved(Front(p), k, q), "dir") =>
                          Place(t, p, MaxLinks) = Moved(p, k, q)
           T == {p \in Paths : Claim(p)}
<1>1. <<>> \in T
  <2>1. IsPrefix(k, <<>>) => k = <<>>
    BY PathFacts, PrefixFacts
  <2> QED
    BY <2>1, PathFacts
<1>2. ASSUME NEW p \in Paths, p # <<>>, Front(p) \in T
      PROVE  p \in T
  <2> SUFFICES ASSUME IsPrefix(k, p), p # k, Is(t, Moved(Front(p), k, q), "dir")
               PROVE  Place(t, p, MaxLinks) = Moved(p, k, q)
    OBVIOUS
  <2> DEFINE f == Front(p)
             d == Moved(f, k, q)
  <2>1. f \in Paths /\ IsPrefix(k, f) /\ Last(p) \in Names /\ p = Append(f, Last(p))
    BY <1>2, PathFacts, PrefixFacts
  <2>2. Place(t, f, MaxLinks) = d
    <3>1. CASE f = k
      BY <2>1, <3>1, MovedFacts
    <3>2. CASE f # k
      <4>1. d # <<>> /\ Front(d) = Moved(Front(f), k, q)
        BY <2>1, <3>2, MovedFacts
      <4>2. Is(t, Front(d), "dir")
        BY <4>1, SystemFacts DEF Is
      <4>3. Claim(f)
        BY <1>2
      <4> QED
        BY <2>1, <3>2, <4>1, <4>2, <4>3
    <3> QED
      BY <3>1, <3>2
  <2>3. Is(t, d, "dir") /\ ~Is(t, d, "link")
    BY SystemFacts
  <2>4. Target(t, f, MaxLinks) = d
    BY <2>1, <2>2, <2>3, TargetPlace, Constants
  <2>5. Moved(Append(f, Last(p)), k, q) = Append(d, Last(p))
    BY <2>1, MovedAppend
  <2>6. Place(t, p, MaxLinks) = Append(d, Last(p))
    BY <1>2, <2>3, <2>4, PlaceIs, Constants
  <2> QED
    BY <2>1, <2>5, <2>6
<1> HIDE DEF T
<1>3. T \in SUBSET Paths
  BY DEF T
<1>4. T = Paths
  BY <1>1, <1>2, <1>3, PathInduction
<1> QED
  BY <1>4 DEF T

-----------------------------------------------------------------------------
(***************************************************************************)
(* What the frames below the last one are after a step.                    *)
(***************************************************************************)
LEMMA GoesFrames ==
    ASSUME NEW s \in Seq(Frames), s # <<>>, NEW f \in Frames
    PROVE  LET z == Append(Front(s), f)
           IN  /\ z \in Seq(Frames) /\ Len(z) = Len(s) /\ z[Len(s)] = f /\ z # <<>>
               /\ \A j \in 1..Len(s) - 1 : z[j] = s[j]
<1> DEFINE r == Front(s)
           z == Append(r, f)
<1>1. r \in Seq(Frames) /\ Len(r) = Len(s) - 1 /\ Len(s) \in Nat \ {0} /\ \A j \in 1..Len(s) - 1 : r[j] = s[j]
  BY FrontIs
<1> HIDE DEF r
<1>2. z \in Seq(Frames) /\ Len(z) = Len(r) + 1 /\ z[Len(r) + 1] = f /\ \A j \in 1..Len(r) : z[j] = r[j]
  BY <1>1
<1> HIDE DEF z
<1>3. Len(r) + 1 = Len(s)
  BY <1>1
<1>4. z # <<>>
  BY <1>1, <1>2
<1> QED
  BY <1>1, <1>2, <1>3, <1>4 DEF z, r

LEMMA PushesFrames ==
    ASSUME NEW s \in Seq(Frames), s # <<>>, NEW f \in Frames, NEW g \in Frames
    PROVE  LET z == Pushed(s, f, g)
           IN  /\ z \in Seq(Frames) /\ Len(z) = Len(s) + 1 /\ z[Len(s)] = f /\ z[Len(s) + 1] = g
               /\ \A j \in 1..Len(s) - 1 : z[j] = s[j]
<1> DEFINE z == Pushed(s, f, g)
           r == Front(s)
           w == <<f, g>>
<1>1. r \in Seq(Frames) /\ Len(r) = Len(s) - 1 /\ Len(s) \in Nat \ {0} /\ \A j \in 1..Len(s) - 1 : r[j] = s[j]
  BY FrontIs
<1>2. z \in Seq(Frames) /\ Len(z) = Len(s) + 1 /\ z[Len(s)] = f /\ z[Len(s) + 1] = g
  BY PushesMoves DEF Moves
<1>3. w \in Seq(Frames)
  BY TwoFrames
<1>4. z = r \o w
  BY DEF Pushed
<1> HIDE DEF r, w, z
<1>5. \A j \in 1..Len(r) : (r \o w)[j] = r[j]
  BY <1>1, <1>3, ConcatIs
<1> QED
  BY <1>1, <1>2, <1>4, <1>5 DEF z

Answered(f, r) == [f EXCEPT !.ret = r]

LEMMA ReturnFrames ==
    ASSUME NEW s \in Seq(Frames), s # <<>>, NEW r \in BOOLEAN
    PROVE  LET b == Front(s)
               z == IF b = <<>> THEN <<>> ELSE [b EXCEPT ![Len(b)].ret = r]
           IN  /\ z \in Seq(Frames) /\ Len(z) = Len(s) - 1 /\ (b = <<>> <=> Len(s) = 1)
               /\ \A j \in 1..Len(s) - 2 : z[j] = s[j]
               /\ Len(s) # 1 => z[Len(s) - 1] = Answered(s[Len(s) - 1], r) /\ s[Len(s) - 1] \in Frames
<1> DEFINE b == Front(s)
           z == IF b = <<>> THEN <<>> ELSE [b EXCEPT ![Len(b)].ret = r]
<1>1. /\ b \in Seq(Frames) /\ Len(b) = Len(s) - 1 /\ Len(s) \in Nat \ {0}
      /\ \A j \in 1..Len(s) - 1 : b[j] = s[j] /\ s[j] \in Frames
      /\ b = <<>> <=> Len(s) = 1
  BY FrontIs
<1>2. z \in Seq(Frames) /\ Len(z) = Len(s) - 1
  BY ReturnMoves DEF Moves
<1> HIDE DEF b
<1>3. CASE Len(s) = 1
  BY <1>1, <1>2, <1>3 DEF b
<1>4. CASE Len(s) # 1
  <2> DEFINE m == Len(b)
             f == Answered(b[m], r)
  <2>1. m \in Nat \ {0} /\ m = Len(s) - 1 /\ m \in 1..m
    BY <1>1, <1>4
  <2>2. z = [b EXCEPT ![m] = f]
    BY <1>1, <1>4 DEF Answered
  <2> HIDE DEF z, f
  <2>3. z[m] = f /\ \A j \in 1..m : j # m => z[j] = b[j]
    BY <1>1, <2>1, <2>2
  <2>4. f = Answered(s[Len(s) - 1], r) /\ s[Len(s) - 1] \in Frames
    BY <1>1, <2>1 DEF f
  <2> HIDE DEF m
  <2>5. ASSUME NEW j \in 1..Len(s) - 2
        PROVE  z[j] = s[j]
    <3>1. j \in 1..m /\ j # m /\ j \in 1..Len(s) - 1
      BY <1>1, <2>1
    <3> QED
      BY <1>1, <2>3, <3>1
  <2> QED
    BY <1>1, <1>2, <1>4, <2>1, <2>3, <2>4, <2>5 DEF z, b
<1> QED
  BY <1>3, <1>4

LEMMA AnsweredIs ==
    ASSUME NEW f \in Frames, NEW r \in BOOLEAN
    PROVE  /\ Answered(f, r) \in Frames
           /\ Answered(f, r).op = f.op /\ Answered(f, r).pc = f.pc /\ Answered(f, r).path = f.path
           /\ Answered(f, r).todo = f.todo /\ Answered(f, r).ret = r
BY DEF Answered, Frames

-----------------------------------------------------------------------------
(***************************************************************************)
(* What Rm cannot remove, and the places of what it removes.               *)
(***************************************************************************)
LEMMA SpotIs ==
    ASSUME NEW k \in Paths, NEW q \in Places, NEW p \in Paths, IsPrefix(k, p)
    PROVE  /\ Spot(k, k, q) = q
           /\ q = Nowhere => Spot(p, k, q) = Nowhere
           /\ q # Nowhere => /\ q \in Paths /\ Spot(p, k, q) = Moved(p, k, q) /\ Spot(p, k, q) \in Paths
                             /\ Spot(p, k, q) # Nowhere /\ Under(q, Spot(p, k, q))
                             /\ Len(Spot(p, k, q)) = Len(q) + (Len(p) - Len(k))
                             /\ \A x \in Names : Spot(Append(p, x), k, q) = Append(Spot(p, k, q), x)
<1>1. CASE q = Nowhere
  BY <1>1 DEF Spot
<1>2. CASE q # Nowhere
  <2>1. q \in Paths
    BY <1>2 DEF Places
  <2>2. /\ Moved(p, k, q) \in Paths /\ IsPrefix(q, Moved(p, k, q)) /\ Len(Moved(p, k, q)) = Len(q) + (Len(p) - Len(k))
        /\ \A x \in Names : Moved(Append(p, x), k, q) = Append(Moved(p, k, q), x)
    BY <2>1, MovedFacts, MovedIs, MovedAppend
  <2>3. IsPrefix(k, k) /\ Moved(k, k, q) = q
    BY <2>1, PrefixFacts, MovedFacts
  <2>4. Moved(p, k, q) # Nowhere
    BY <2>2, Constants
  <2> QED
    BY <1>2, <2>1, <2>2, <2>3, <2>4 DEF Spot, Under
<1> QED
  BY <1>1, <1>2

LEMMA UnderFacts ==
    /\ \A p, q \in Places : Under(p, q) => p \in Paths /\ q \in Paths /\ IsPrefix(p, q)
    /\ \A q \in Paths : Under(q, q)
    /\ \A p, q, r \in Places : Under(p, q) /\ Under(q, r) => Under(p, r)
    /\ \A p, q \in Places : Under(p, q) /\ Under(q, p) => p = q
    /\ \A p, q \in Places : Under(p, q) /\ p # q => q # <<>> /\ Under(p, Front(q))
    /\ \A q \in Paths : q # <<>> => Under(Front(q), q)
<1>1. \A p, q \in Places : Under(p, q) <=> p \in Paths /\ q \in Paths /\ IsPrefix(p, q)
  BY Constants DEF Under, Places
<1>2. /\ \A p, q \in Places : Under(p, q) => p \in Paths /\ q \in Paths /\ IsPrefix(p, q)
      /\ \A q \in Paths : Under(q, q)
  BY <1>1, PrefixFacts DEF Places
<1>3. ASSUME NEW p \in Places, NEW q \in Places, NEW r \in Places, Under(p, q), Under(q, r)
      PROVE  Under(p, r)
  BY <1>1, <1>3, PrefixFacts
<1>4. ASSUME NEW p \in Places, NEW q \in Places, Under(p, q), Under(q, p)
      PROVE  p = q
  BY <1>1, <1>4, PrefixFacts
<1>5. ASSUME NEW p \in Places, NEW q \in Places, Under(p, q), p # q
      PROVE  q # <<>> /\ Under(p, Front(q))
  <2>1. p \in Paths /\ q \in Paths /\ q # <<>> /\ IsPrefix(p, Front(q))
    BY <1>1, <1>5, PrefixFacts
  <2>2. Front(q) \in Paths
    BY <2>1, PathFacts
  <2> QED
    BY <1>1, <2>1, <2>2 DEF Places
<1>6. ASSUME NEW q \in Paths, q # <<>>
      PROVE  Under(Front(q), q)
  <2>1. Front(q) \in Paths /\ IsPrefix(Front(q), q)
    BY <1>6, PathFacts, PrefixFacts
  <2> QED
    BY <1>1, <2>1 DEF Places
<1> QED
  BY <1>2, <1>3, <1>4, <1>5, <1>6

LEMMA Above ==
    ASSUME NEW t, IsFileSystem(t), NEW w \in Places, NEW r \in DOMAIN t, Under(w, r)
    PROVE  /\ w \in Paths /\ r \in Paths /\ w \in DOMAIN t
           /\ w # r => Is(t, w, "dir")
<1>1. r \in Paths
  BY SystemFacts
<1>2. w \in Paths /\ IsPrefix(w, r)
  BY <1>1, UnderFacts DEF Places
<1>3. w # r => Is(t, w, "dir")
  BY <1>2, Ancestors
<1> QED
  BY <1>1, <1>2, <1>3 DEF Is

Stuck(b, r) == ~Writable(r) \/ b[r] = Socket

LEMMA KeptFacts ==
    ASSUME NEW b, IsFileSystem(b), NEW q \in Places
    PROVE  /\ \A r \in Kept(b, q) : r \in DOMAIN b /\ r \in Paths /\ Under(q, r)
           /\ \A w \in DOMAIN b : Under(q, w) /\ Stuck(b, w) => w \in Kept(b, q)
           /\ \A w \in Places : \A r \in Kept(b, q) : Under(q, w) /\ Under(w, r) => w \in Kept(b, q)
           /\ \A w \in Kept(b, q) : Stuck(b, w) \/ \E r \in Kept(b, q) : Under(w, r) /\ r # w
<1>1. DOMAIN b \subseteq Paths
  BY SystemFacts
<1>2. \A r : r \in Kept(b, q) <=> r \in DOMAIN b /\ Under(q, r) /\ \E s \in DOMAIN b : Under(r, s) /\ Stuck(b, s)
  BY DEF Kept, Below, Stuck
<1>3. ASSUME NEW w \in DOMAIN b, Under(q, w), Stuck(b, w)
      PROVE  w \in Kept(b, q)
  <2>1. Under(w, w)
    BY <1>1, UnderFacts
  <2> QED
    BY <1>2, <1>3, <2>1
<1>4. ASSUME NEW w \in Places, NEW r \in Kept(b, q), Under(q, w), Under(w, r)
      PROVE  w \in Kept(b, q)
  <2>1. PICK s \in DOMAIN b : Under(r, s) /\ Stuck(b, s)
    BY <1>2
  <2>2. r \in DOMAIN b /\ r \in Places /\ s \in Places
    BY <1>1, <1>2 DEF Places
  <2>3. Under(w, s)
    BY <1>4, <2>1, <2>2, UnderFacts
  <2>4. w \in DOMAIN b
    BY <1>4, <2>2, Above
  <2> QED
    BY <1>2, <1>4, <2>1, <2>3, <2>4
<1>5. ASSUME NEW w \in Kept(b, q), ~Stuck(b, w)
      PROVE  \E r \in Kept(b, q) : Under(w, r) /\ r # w
  <2>1. PICK s \in DOMAIN b : Under(w, s) /\ Stuck(b, s)
    BY <1>2
  <2>2. w \in Places /\ s \in Places /\ Under(q, w)
    BY <1>1, <1>2 DEF Places
  <2>3. Under(q, s)
    BY <2>1, <2>2, UnderFacts
  <2>4. s \in Kept(b, q)
    BY <1>3, <2>1, <2>3
  <2> QED
    BY <1>5, <2>1, <2>4
<1> QED
  BY <1>1, <1>2, <1>3, <1>4, <1>5

\* What is kept is still there, and so is what it is in.
LEMMA StillThere ==
    ASSUME NEW b, IsFileSystem(b), NEW t, NEW q \in Places, Partly(b, t, q)
    PROVE  \A r \in Kept(b, q) : r \in DOMAIN t /\ t[r] = b[r]
BY KeptFacts DEF Partly

-----------------------------------------------------------------------------
(***************************************************************************)
(* Steps of Rm, seen by the frames that wait.                              *)
(***************************************************************************)
Sound(b, k, q) == /\ IsFileSystem(b) /\ k \in Calls /\ k.op \in {"Rm", "Mv", "Symlink"}
                  /\ q = Place(b, k.path, MaxLinks) /\ Avoids(b, k.path, q)

LEMMA SoundFacts ==
    ASSUME NEW b, NEW k, NEW q, Sound(b, k, q)
    PROVE  /\ k.path \in Paths /\ q \in Places /\ (q = <<>> => k.path = <<>>)
           /\ k.op \in {"Mv", "Symlink"} => k.arg \in Paths
<1>1. k.path \in Paths /\ (k.op \in {"Mv", "Symlink"} => k.arg \in Paths)
  BY FSAssumption DEF Sound
<1>2. q \in Places /\ (k.path # <<>> => q # <<>>)
  BY <1>1, PlaceIs, Constants DEF Sound
<1> QED
  BY <1>1, <1>2

LEMMA PathStays ==
    ASSUME NEW b, NEW k, NEW q, Sound(b, k, q), NEW t, IsFileSystem(t), Partly(b, t, q)
    PROVE  Place(t, k.path, MaxLinks) = q
<1>1. Within(t, b) /\ \A r \in DOMAIN b \ DOMAIN t : Under(q, r)
  BY DEF Partly, Within
<1>2. IsFileSystem(b) /\ q = Place(b, k.path, MaxLinks) /\ Avoids(b, k.path, q)
  BY DEF Sound
<1>3. k.path \in Paths /\ q \in Places /\ (q = <<>> => k.path = <<>>)
  BY SoundFacts
<1>4. Place(t, k.path, MaxLinks) = Place(b, k.path, MaxLinks)
  BY <1>1, <1>2, <1>3, AvoidsPlace
<1> QED
  BY <1>2, <1>4

LEMMA OverIs ==
    ASSUME NEW s \in Seq(Frames), NEW j \in 1..Len(s)
    PROVE  Over(s, j) = IF j = Len(s) THEN {} ELSE {s[j + 1].path}
<1>1. Len(s) \in Nat
  OBVIOUS
<1>2. CASE j = Len(s)
  <2>1. {i \in 1..Len(s) : i = j + 1} = {}
    BY <1>1, <1>2
  <2> QED
    BY <1>2, <2>1 DEF Over
<1>3. CASE j # Len(s)
  <2>1. {i \in 1..Len(s) : i = j + 1} = {j + 1}
    BY <1>1, <1>3
  <2> QED
    BY <1>3, <2>1 DEF Over
<1> QED
  BY <1>2, <1>3

\* Frames that wait, and what they wait for.
LEMMA Waits ==
    ASSUME NEW s, NEW k, StackOf(s, k), NEW b, NEW t, NEW q, Removing(b, t, k, q, s), NEW j \in 1..Len(s), j # Len(s)
    PROVE  /\ s[j] \in Frames /\ s[j + 1] \in Frames /\ j + 1 \in 1..Len(s)
           /\ \/ s[j].op \in {"Mv", "Symlink"} /\ s[j + 1].path = s[j].path
              \/ /\ s[j].op = "Rm" /\ s[j].pc = "readdir"
                 /\ s[j + 1].path # <<>> /\ Front(s[j + 1].path) = s[j].path
           /\ s[j + 1].op \in {"Rm", "Unlink"}
<1>1. s \in Seq(Frames) /\ Len(s) \in Nat /\ j + 1 \in 1..Len(s) /\ j + 1 \in 2..Len(s)
  BY DEF StackOf
<1>2. Callee(s[(j + 1) - 1], s[j + 1]) /\ (j + 1) - 1 = j
  BY <1>1 DEF StackOf
<1>3. s[j].op \in Removers
  BY DEF Removing, Fits
<1> QED
  BY <1>1, <1>2, <1>3 DEF Callee, Removers

\* The last frame is at its place.
LEMMA TopPlace ==
    ASSUME NEW b, NEW k, NEW q, Sound(b, k, q), NEW t, IsFileSystem(t), NEW s, StackOf(s, k), s # <<>>,
           Removing(b, t, k, q, s)
    PROVE  /\ Last(s).path \in Paths /\ IsPrefix(k.path, Last(s).path) /\ Last(s).op \in Removers
           /\ Place(t, Last(s).path, MaxLinks) = Spot(Last(s).path, k.path, q)
           /\ Len(s) = 1 => Last(s).path = k.path
<1> DEFINE n == Len(s)
<1>1. s \in Seq(Frames) /\ n \in Nat \ {0} /\ Last(s) = s[n] /\ Last(s) \in Frames
  BY FrontIs DEF StackOf
<1>2. Fits(b, t, k, q, s[n], Over(s, n)) /\ Partly(b, t, q)
  BY <1>1 DEF Removing
<1>3. Last(s).path \in Paths /\ IsPrefix(k.path, Last(s).path) /\ Last(s).op \in Removers
  BY <1>1, <1>2 DEF Fits, Frames
<1>4. k.path \in Paths /\ q \in Places /\ Place(t, k.path, MaxLinks) = q /\ Spot(k.path, k.path, q) = q
  BY <1>2, SoundFacts, PathStays, SpotIs, PrefixFacts
<1>5. ASSUME n = 1
      PROVE  Last(s).path = k.path
  BY <1>1, <1>5 DEF StackOf, Serves
<1>6. CASE Last(s).path = k.path
  BY <1>3, <1>4, <1>6
<1>7. CASE Last(s).path # k.path
  <2> DEFINE m == n - 1
             f == s[m]
             p == s[n].path
  <2>0. Len(s) \in Nat /\ Len(s) # 0 /\ Len(s) # 1
    BY <1>1, <1>5, <1>7
  <2>1. m \in 1..Len(s) /\ m # Len(s) /\ m + 1 = n
    <3>1. \A i \in Nat : i # 0 /\ i # 1 => i - 1 \in 1..i /\ i - 1 # i /\ (i - 1) + 1 = i
      OBVIOUS
    <3> QED
      BY <2>0, <3>1, Zenon
  <2>2. Fits(b, t, k, q, f, Over(s, m))
    BY <2>1 DEF Removing
  <2> HIDE DEF m
  <2>3. \/ f.op \in {"Mv", "Symlink"} /\ p = f.path
        \/ f.op = "Rm" /\ f.pc = "readdir" /\ p # <<>> /\ Front(p) = f.path
    BY <2>1, Waits
  <2>4. f.op \notin {"Mv", "Symlink"}
    BY <1>1, <1>7, <2>2, <2>3 DEF Fits
  <2>5. p # <<>> /\ Front(p) = f.path /\ IsPrefix(k.path, Front(p)) /\ Is(t, Spot(Front(p), k.path, q), "dir")
    BY <2>2, <2>3, <2>4 DEF Fits
  <2>6. p \in Paths /\ Front(p) \in Paths
    BY <1>1, <1>3, <2>5, PathFacts
  <2>7. Spot(Front(p), k.path, q) # Nowhere
    BY <2>5, SystemFacts
  <2>8. q # Nowhere /\ q \in Paths
    BY <1>4, <2>5, <2>6, <2>7, SpotIs
  <2>9. Spot(Front(p), k.path, q) = Moved(Front(p), k.path, q) /\ Spot(p, k.path, q) = Moved(p, k.path, q)
    BY <2>8 DEF Spot
  <2>10. Place(t, p, MaxLinks) = Moved(p, k.path, q)
    BY <1>1, <1>3, <1>4, <1>7, <2>5, <2>6, <2>8, <2>9, WayDown
  <2> QED
    BY <1>1, <1>3, <1>5, <2>9, <2>10
<1> QED
  BY <1>6, <1>7

\* t with at most w removed.
Shrinks(t, u, w) == Within(u, t) /\ \A r \in DOMAIN t \ DOMAIN u : r = w

\* A frame that waits fits also what is left when more has been removed.
LEMMA LowerFits ==
    ASSUME NEW b, NEW t, NEW u, NEW k, NEW q, NEW f, NEW p, NEW over, Fits(b, t, k, q, f, {p}), p \in over,
           f.op \in {"Mv", "Symlink"} \/ (f.op = "Rm" /\ f.pc = "readdir"), Within(u, t),
           f.op = "Rm" => Is(u, Spot(f.path, k.path, q), "dir")
    PROVE  Fits(b, u, k, q, f, over)
<1> DEFINE w == Spot(f.path, k.path, q)
<1>1. f.op \in Removers /\ IsPrefix(k.path, f.path)
  BY DEF Fits
<1>2. CASE f.op \in {"Mv", "Symlink"}
  <2>1. f.path = k.path /\ over # {}
    BY <1>2 DEF Fits
  <2>2. f.op # "Rm" /\ f.op # "Unlink"
    BY <1>2
  <2> QED
    BY <1>1, <2>1, <2>2 DEF Fits
<1>3. CASE f.op = "Rm" /\ f.pc = "readdir"
  <2>1. /\ \A r \in DOMAIN t : IsPrefix(w, r) /\ r # w =>
              \/ r \in Kept(b, q) \/ \E e \in f.todo : IsPrefix(Append(w, e.name), r)
              \/ Under(Spot(p, k.path, q), r)
        /\ f.ret \/ \E x \in Names : Append(w, x) \in Kept(b, q)
    BY <1>3 DEF Fits
  <2>2. ASSUME NEW r \in DOMAIN u, IsPrefix(w, r), r # w
        PROVE  \/ r \in Kept(b, q) \/ \E e \in f.todo : IsPrefix(Append(w, e.name), r)
               \/ \E p2 \in over : Under(Spot(p2, k.path, q), r)
    <3>1. r \in DOMAIN t
      BY DEF Within
    <3> QED
      BY <2>1, <2>2, <3>1
  <2>3. Is(u, w, "dir") /\ f.op # "Mv" /\ f.op # "Symlink" /\ f.op # "Unlink" /\ f.pc # "opendir"
    BY <1>3
  <2> HIDE DEF w
  <2> QED
    BY <1>1, <2>1, <2>2, <2>3 DEF Fits, w
<1> QED
  BY <1>2, <1>3

\* A directory that a frame waits in is not what the last frame removes.
LEMMA LowerDir ==
    ASSUME NEW b, NEW k, NEW q, Sound(b, k, q), NEW t, IsFileSystem(t), NEW s, StackOf(s, k), s # <<>>,
           Removing(b, t, k, q, s), NEW u, Shrinks(t, u, Spot(Last(s).path, k.path, q)),
           NEW j \in 1..Len(s), j # Len(s), s[j].op = "Rm"
    PROVE  Is(u, Spot(s[j].path, k.path, q), "dir")
<1> DEFINE n == Len(s)
           w == Spot(s[j].path, k.path, q)
           v == Spot(Last(s).path, k.path, q)
<1>1. s \in Seq(Frames) /\ n \in Nat \ {0} /\ Last(s) = s[n] /\ Last(s).path \in Paths
  BY FrontIs DEF StackOf, Frames
<1>2. k.path \in Paths /\ q \in Places
  BY SoundFacts
<1>3. s[j] \in Frames /\ s[j].pc = "readdir"
  BY Waits
<1>4. n # 1 /\ n \in 1..n /\ j \in Nat /\ Len(k.path) \in Nat
  BY <1>1, <1>2 DEF Paths
<1>5. s[n].op \in {"Rm", "Unlink"}
  <2>1. Last(s).op \in Removers
    BY TopPlace
  <2>2. s[n].op \in {"Mv", "Symlink", "OpenForWrite"} => n = 1
    BY <1>4, StackOps
  <2> QED
    BY <1>1, <1>4, <2>1, <2>2 DEF Removers
<1>6. Fits(b, t, k, q, s[j], Over(s, j)) /\ Depth(s, k, j) /\ Depth(s, k, n)
  BY <1>4 DEF Removing
<1>7. Is(t, w, "dir") /\ IsPrefix(k.path, s[j].path) /\ s[j].path \in Paths
  BY <1>3, <1>6 DEF Fits, Frames
<1>8. q # Nowhere
  BY <1>2, <1>7, SpotIs, SystemFacts
<1>9. IsPrefix(k.path, Last(s).path) /\ q \in Paths
  BY <1>2, <1>8, TopPlace DEF Places
<1>10. /\ Len(q) \in Int /\ Len(s[j].path) \in Int /\ Len(Last(s).path) \in Int /\ Len(k.path) \in Int
       /\ j \in Int /\ n \in Int
  BY <1>1, <1>2, <1>4, <1>7, <1>9 DEF Paths
<1>11. Len(s[j].path) # Len(Last(s).path)
  <2> DEFINE e == IF k.op = "Rm" THEN 1 ELSE 2
  <2>1. Len(s[j].path) + e = Len(k.path) + j /\ Len(Last(s).path) + e = Len(k.path) + n
    BY <1>1, <1>5, <1>6 DEF Depth
  <2>2. e \in Int
    OBVIOUS
  <2> HIDE DEF e
  <2>3. \A x, y, i, m, l, a \in Int : x + a = l + i /\ y + a = l + m /\ i # m => x # y
    OBVIOUS
  <2> QED
    BY <1>10, <2>1, <2>2, <2>3, Zenon
<1>12. w # v
  <2>1. Len(w) = Len(q) + (Len(s[j].path) - Len(k.path))
    BY <1>2, <1>7, <1>8, SpotIs
  <2>2. Len(v) = Len(q) + (Len(Last(s).path) - Len(k.path))
    BY <1>1, <1>2, <1>8, <1>9, SpotIs
  <2>3. \A x, y, l, m \in Int : x # y => l + (x - m) # l + (y - m)
    OBVIOUS
  <2> HIDE DEF w, v
  <2> QED
    BY <1>10, <1>11, <2>1, <2>2, <2>3, Zenon
<1> HIDE DEF w, v
<1>13. Is(u, w, "dir")
  BY <1>7, <1>12 DEF Shrinks, Within, Is, v
<1> QED
  BY <1>13 DEF w

\* All the frames that wait fit after a step.
LEMMA LowerKept ==
    ASSUME NEW b, NEW k, NEW q, Sound(b, k, q), NEW t, IsFileSystem(t), NEW s, StackOf(s, k), s # <<>>,
           Removing(b, t, k, q, s), NEW u, Shrinks(t, u, Spot(Last(s).path, k.path, q)),
           NEW z \in Seq(Frames), NEW j \in 1..Len(s), j # Len(s), j + 1 <= Len(z),
           z[j] = s[j], z[j + 1].path = s[j + 1].path
    PROVE  Fits(b, u, k, q, z[j], Over(z, j)) /\ Depth(z, k, j)
<1>1. s \in Seq(Frames) /\ Len(s) \in Nat /\ j \in Nat /\ Len(z) \in Nat
  BY DEF StackOf
<1>2. j \in 1..Len(z) /\ j # Len(z)
  BY <1>1
<1>3. Over(s, j) = {s[j + 1].path} /\ Over(z, j) = {s[j + 1].path}
  BY <1>1, <1>2, OverIs
<1>4. Fits(b, t, k, q, s[j], Over(s, j)) /\ Depth(s, k, j)
  BY DEF Removing
<1>5. s[j].op \in {"Mv", "Symlink"} \/ (s[j].op = "Rm" /\ s[j].pc = "readdir")
  BY Waits
<1>6. s[j].op = "Rm" => Is(u, Spot(s[j].path, k.path, q), "dir")
  BY LowerDir
<1>7. Within(u, t) /\ Fits(b, t, k, q, s[j], {s[j + 1].path}) /\ s[j + 1].path \in Over(z, j)
  BY <1>3, <1>4 DEF Shrinks
<1>8. Fits(b, u, k, q, s[j], Over(z, j))
  BY <1>5, <1>6, <1>7, LowerFits
<1>9. Depth(z, k, j)
  BY <1>4 DEF Depth
<1> QED
  BY <1>8, <1>9

LEMMA Unshrunk ==
    ASSUME NEW t, NEW w
    PROVE  Shrinks(t, t, w)
BY DEF Shrinks, Within

LEMMA RemovingGoes ==
    ASSUME NEW b, NEW k, NEW q, Sound(b, k, q), NEW t, IsFileSystem(t), NEW s, StackOf(s, k), s # <<>>,
           Removing(b, t, k, q, s), NEW f \in Frames, f.path = Last(s).path, Fits(b, t, k, q, f, {}),
           Last(s).op \in {"Rm", "Unlink"}
    PROVE  Removing(b, t, k, q, Append(Front(s), f))
<1> DEFINE n == Len(s)
           z == Append(Front(s), f)
<1>1. s \in Seq(Frames) /\ n \in Nat \ {0} /\ Last(s) = s[n]
  BY FrontIs DEF StackOf
<1>2. z \in Seq(Frames) /\ Len(z) = n /\ z[n] = f /\ \A j \in 1..n - 1 : z[j] = s[j]
  BY <1>1, GoesFrames
<1> HIDE DEF z
<1>3. ASSUME NEW j \in 1..n, j # n
      PROVE  Fits(b, t, k, q, z[j], Over(z, j)) /\ Depth(z, k, j)
  <2>1. j \in 1..n - 1 /\ j + 1 <= Len(z) /\ z[j] = s[j]
    BY <1>1, <1>2, <1>3
  <2>2. z[j + 1].path = s[j + 1].path
    <3>1. j + 1 = n \/ j + 1 \in 1..n - 1
      BY <1>1, <1>3
    <3> QED
      BY <1>1, <1>2, <3>1
  <2>3. Shrinks(t, t, Spot(Last(s).path, k.path, q))
    BY Unshrunk
  <2> QED
    BY <1>2, <1>3, <2>1, <2>2, <2>3, LowerKept
<1>4. Fits(b, t, k, q, z[n], Over(z, n)) /\ Depth(z, k, n)
  <2>1. n \in 1..Len(z)
    BY <1>1, <1>2
  <2>2. Over(z, n) = {}
    BY <1>2, <2>1, OverIs
  <2>3. Depth(s, k, n)
    BY <1>2, <2>1 DEF Removing
  <2> QED
    BY <1>1, <1>2, <2>2, <2>3 DEF Depth
<1>5. Partly(b, t, q)
  BY DEF Removing
<1>6. Removing(b, t, k, q, z)
  BY <1>2, <1>3, <1>4, <1>5 DEF Removing
<1> QED
  BY <1>6 DEF z

LEMMA RemovingPushes ==
    ASSUME NEW b, NEW k, NEW q, Sound(b, k, q), NEW t, IsFileSystem(t), NEW s, StackOf(s, k), s # <<>>,
           Removing(b, t, k, q, s), Last(s).op = "Rm",
           NEW f \in Frames, f.path = Last(s).path, f.op = "Rm", NEW g \in Frames, NEW x \in Names,
           g.path = Append(f.path, x), Fits(b, t, k, q, f, {g.path}), Fits(b, t, k, q, g, {})
    PROVE  Removing(b, t, k, q, Pushed(s, f, g))
<1> DEFINE n == Len(s)
           z == Pushed(s, f, g)
<1>1. s \in Seq(Frames) /\ n \in Nat \ {0} /\ Last(s) = s[n]
  BY FrontIs DEF StackOf
<1>2. /\ z \in Seq(Frames) /\ Len(z) = n + 1 /\ z[n] = f /\ z[n + 1] = g
      /\ \A j \in 1..n - 1 : z[j] = s[j]
  BY <1>1, PushesFrames
<1> HIDE DEF z
<1>3. ASSUME NEW j \in 1..n, j # n
      PROVE  Fits(b, t, k, q, z[j], Over(z, j)) /\ Depth(z, k, j)
  <2>1. j \in 1..n - 1 /\ j + 1 <= Len(z) /\ z[j] = s[j]
    BY <1>1, <1>2, <1>3
  <2>2. z[j + 1].path = s[j + 1].path
    <3>1. j + 1 = n \/ j + 1 \in 1..n - 1
      BY <1>1, <1>3
    <3> QED
      BY <1>1, <1>2, <3>1
  <2>3. Shrinks(t, t, Spot(Last(s).path, k.path, q))
    BY Unshrunk
  <2> QED
    BY <1>2, <1>3, <2>1, <2>2, <2>3, LowerKept
<1>4. n \in 1..Len(z) /\ n + 1 \in 1..Len(z) /\ n # n + 1 /\ n \in 1..n
  BY <1>1, <1>2
<1>5. Over(z, n) = {g.path} /\ Over(z, n + 1) = {}
  BY <1>2, <1>4, OverIs
<1>6. Depth(z, k, n) /\ Depth(z, k, n + 1)
  <2>1. Depth(s, k, n)
    BY <1>4 DEF Removing
  <2>2. f.path \in Paths
    BY DEF Frames
  <2>3. Len(g.path) = Len(f.path) + 1 /\ Len(f.path) \in Nat
    BY <2>2 DEF Paths
  <2>4. k.path \in Paths
    BY SoundFacts
  <2>5. Len(k.path) \in Nat
    BY <2>4 DEF Paths
  <2> DEFINE e == IF k.op = "Rm" THEN 1 ELSE 2
  <2>6. Len(f.path) + e = Len(k.path) + n
    BY <1>1, <2>1 DEF Depth
  <2>7. Len(g.path) + e = Len(k.path) + (n + 1)
    <3> DEFINE lf == Len(f.path)
               lk == Len(k.path)
    <3>1. lf + e = lk + n
      BY <2>6, Zenon
    <3>4. e \in Int
      OBVIOUS
    <3>5. n \in Int /\ lf \in Int /\ lk \in Int
      BY <1>1, <2>3, <2>5
    <3>2. Len(g.path) = lf + 1
      BY <2>3
    <3> HIDE DEF e, n, lf, lk
    <3>3. (lf + 1) + e = lk + (n + 1)
      BY <3>1, <3>4, <3>5
    <3> QED
      BY <3>2, <3>3 DEF lk
  <2> QED
    BY <1>2, <2>6, <2>7 DEF Depth
<1>7. Partly(b, t, q)
  BY DEF Removing
<1>8. ASSUME NEW j \in 1..Len(z)
      PROVE  Fits(b, t, k, q, z[j], Over(z, j)) /\ Depth(z, k, j)
  <2>1. j = n + 1 \/ j = n \/ (j \in 1..n /\ j # n)
    BY <1>1, <1>2
  <2> QED
    BY <1>2, <1>3, <1>5, <1>6, <2>1
<1>9. Removing(b, t, k, q, z)
  BY <1>7, <1>8 DEF Removing
<1> QED
  BY <1>9 DEF z

\* Rm of w has returned r.
Done(b, u, q, w, r) ==
    /\ Partly(b, u, q) /\ Cleared(b, u, q, w)
    /\ IF r THEN w \notin DOMAIN u ELSE w \in Kept(b, q)

\* What was returned fits the frame that waited for it.
LEMMA AnsweredFits ==
    ASSUME NEW b, NEW k, NEW q, Sound(b, k, q), NEW u, IsFileSystem(u),
           NEW f \in Frames, NEW g \in Frames, NEW r \in BOOLEAN,
           Fits(b, u, k, q, f, {g.path}), IsPrefix(k.path, g.path),
           Done(b, u, q, Spot(g.path, k.path, q), r),
           \/ f.op \in {"Mv", "Symlink"} /\ g.path = f.path
           \/ f.op = "Rm" /\ f.pc = "readdir" /\ g.path # <<>> /\ Front(g.path) = f.path
    PROVE  Fits(b, u, k, q, Answered(f, r), {})
<1> DEFINE h == Answered(f, r)
           w == Spot(f.path, k.path, q)
           v == Spot(g.path, k.path, q)
<1>1. /\ h.op = f.op /\ h.pc = f.pc /\ h.path = f.path /\ h.todo = f.todo /\ h.ret = r
      /\ f.path \in Paths /\ g.path \in Paths
  BY AnsweredIs DEF Frames
<1>2. k.path \in Paths /\ q \in Places /\ IsFileSystem(b)
  BY SoundFacts DEF Sound
<1>3. f.op \in Removers /\ IsPrefix(k.path, f.path)
  BY DEF Fits
<1> HIDE DEF h
<1>4. CASE f.op \in {"Mv", "Symlink"}
  <2>1. f.path = k.path /\ g.path = f.path
    BY <1>4 DEF Fits
  <2>2. v = q
    BY <1>2, <2>1, SpotIs, PrefixFacts
  <2> HIDE DEF v
  <2>3. Cleared(b, u, q, q) /\ Partly(b, u, q) /\ IF r THEN q \notin DOMAIN u ELSE q \in Kept(b, q)
    BY <2>2 DEF Done, v
  <2>4. ASSUME r, NEW x \in Kept(b, q)
        PROVE  FALSE
    <3>1. x \in DOMAIN u /\ Under(q, x)
      BY <1>2, <2>3, StillThere, KeptFacts
    <3>2. q \in DOMAIN u
      BY <1>2, <3>1, Above
    <3> QED
      BY <2>3, <2>4, <3>2
  <2>5. r <=> Kept(b, q) = {}
    BY <2>3, <2>4
  <2>6. f.op # "Rm" /\ f.op # "Unlink"
    BY <1>4
  <2> QED
    BY <1>1, <1>3, <2>1, <2>3, <2>5, <2>6 DEF Fits, h
<1>5. CASE f.op = "Rm" /\ f.pc = "readdir"
  <2>1. /\ Is(u, w, "dir")
        /\ \A y \in DOMAIN u : IsPrefix(w, y) /\ y # w =>
              \/ y \in Kept(b, q) \/ \E e \in f.todo : IsPrefix(Append(w, e.name), y)
              \/ Under(v, y)
    BY <1>5 DEF Fits
  <2>2. f.op \notin {"Mv", "Symlink", "Unlink"} /\ f.pc # "opendir" /\ g.path # <<>> /\ Front(g.path) = f.path
    BY <1>5
  <2>3. Last(g.path) \in Names /\ g.path = Append(f.path, Last(g.path))
    BY <1>1, <2>2, PathFacts
  <2>4. q # Nowhere
    BY <1>1, <1>2, <1>3, <2>1, SpotIs, SystemFacts
  <2>5. v = Append(w, Last(g.path))
    <3> DEFINE x == Last(g.path)
    <3>1. \A y \in Names : Spot(Append(f.path, y), k.path, q) = Append(w, y)
      BY <1>1, <1>2, <1>3, <2>4, SpotIs
    <3>2. x \in Names /\ g.path = Append(f.path, x)
      BY <2>3
    <3> HIDE DEF x, w
    <3>3. Spot(g.path, k.path, q) = Append(w, x)
      BY <3>1, <3>2
    <3> QED
      BY <3>3 DEF x
  <2>6. Cleared(b, u, q, v) /\ (r \/ v \in Kept(b, q))
    BY DEF Done
  <2> HIDE DEF v, w
  <2>7. \A y \in DOMAIN u : IsPrefix(w, y) /\ y # w =>
              y \in Kept(b, q) \/ \E e \in f.todo : IsPrefix(Append(w, e.name), y)
    BY <2>1, <2>6 DEF Cleared
  <2>8. r \/ \E x \in Names : Append(w, x) \in Kept(b, q)
    BY <2>3, <2>5, <2>6
  <2>9. Fits(b, u, k, q, h, {})
    BY <1>1, <1>3, <2>1, <2>2, <2>7, <2>8 DEF Fits, w
  <2> QED
    BY <2>9 DEF h
<1> QED
  BY <1>4, <1>5

Popped(s, r) == IF Front(s) = <<>> THEN <<>> ELSE [Front(s) EXCEPT ![Len(Front(s))].ret = r]

LEMMA RemovingReturns ==
    ASSUME NEW b, NEW k, NEW q, Sound(b, k, q), NEW t, IsFileSystem(t), NEW s, StackOf(s, k), s # <<>>,
           Removing(b, t, k, q, s), Len(s) # 1, NEW r \in BOOLEAN, NEW u, IsFileSystem(u),
           Shrinks(t, u, Spot(Last(s).path, k.path, q)), Done(b, u, q, Spot(Last(s).path, k.path, q), r)
    PROVE  Removing(b, u, k, q, Popped(s, r))
<1> DEFINE z == Popped(s, r)
           n == Len(s)
           m == n - 1
           w == Spot(Last(s).path, k.path, q)
           f == s[m]
           g == s[n]
<1>1. s \in Seq(Frames) /\ n \in Nat \ {0} /\ Last(s) = g
  BY FrontIs DEF StackOf
<1>2. /\ z \in Seq(Frames) /\ Len(z) = n - 1 /\ \A j \in 1..n - 2 : z[j] = s[j]
      /\ z[n - 1] = Answered(s[n - 1], r) /\ s[n - 1] \in Frames
  BY <1>1, ReturnFrames DEF Popped
<1> HIDE DEF z
<1>3. m \in 1..n /\ m # n /\ m + 1 = n /\ m \in 1..Len(z) /\ m = Len(z)
  BY <1>1, <1>2
<1>4. f \in Frames /\ g \in Frames /\ z[m] = Answered(f, r)
  BY <1>1, <1>2, <1>3, Waits
<1> HIDE DEF m
<1>5. \/ f.op \in {"Mv", "Symlink"} /\ g.path = f.path
      \/ f.op = "Rm" /\ f.pc = "readdir" /\ g.path # <<>> /\ Front(g.path) = f.path
  BY <1>3, Waits
<1>6. IsPrefix(k.path, g.path)
  BY <1>1, TopPlace
<1>7. Over(s, m) = {g.path}
  BY <1>1, <1>3, OverIs
<1>8. Fits(b, t, k, q, f, {g.path}) /\ Depth(s, k, m)
  BY <1>3, <1>7 DEF Removing
<1>9. Fits(b, u, k, q, f, {g.path})
  <2>1. f.op = "Rm" => Is(u, Spot(f.path, k.path, q), "dir")
    BY <1>3, LowerDir
  <2>2. Within(u, t)
    BY DEF Shrinks
  <2> QED
    BY <1>5, <1>8, <2>1, <2>2, LowerFits
<1>10. Done(b, u, q, Spot(g.path, k.path, q), r)
  BY <1>1
<1>11. Fits(b, u, k, q, Answered(f, r), {})
  BY <1>4, <1>5, <1>6, <1>9, <1>10, AnsweredFits
<1>12. Fits(b, u, k, q, z[m], Over(z, m)) /\ Depth(z, k, m)
  <2>1. Over(z, m) = {}
    BY <1>2, <1>3, OverIs
  <2>2. Answered(f, r).op = f.op /\ Answered(f, r).path = f.path
    BY <1>4, AnsweredIs
  <2> QED
    BY <1>4, <1>8, <1>11, <2>1, <2>2 DEF Depth
<1>13. ASSUME NEW j \in 1..Len(z), j # m
       PROVE  Fits(b, u, k, q, z[j], Over(z, j)) /\ Depth(z, k, j)
  <2>1. j \in 1..n /\ j # n /\ j + 1 <= Len(z) /\ j \in 1..n - 2 /\ (j + 1 = m \/ j + 1 \in 1..n - 2)
    <3>1. \A i, a \in Int : i \in 1..a - 1 /\ i # a - 1 =>
              i \in 1..a /\ i # a /\ i + 1 <= a - 1 /\ i \in 1..a - 2 /\ (i + 1 = a - 1 \/ i + 1 \in 1..a - 2)
      OBVIOUS
    <3>2. j \in Int /\ n \in Int /\ j \in 1..n - 1 /\ j # n - 1 /\ Len(z) = n - 1 /\ m = n - 1
      BY <1>1, <1>2, <1>3, <1>13 DEF m
    <3> HIDE DEF n
    <3> QED
      BY <3>1, <3>2
  <2>2. z[j] = s[j]
    BY <1>2, <2>1
  <2>3. z[j + 1].path = s[j + 1].path
    <3>1. CASE j + 1 = m
      <4>1. z[m].path = f.path
        BY <1>4, AnsweredIs
      <4> QED
        BY <3>1, <4>1
    <3>2. CASE j + 1 \in 1..n - 2
      BY <1>2, <3>2
    <3> QED
      BY <2>1, <3>1, <3>2
  <2> QED
    BY <1>2, <2>1, <2>2, <2>3, LowerKept
<1>14. Partly(b, u, q)
  BY DEF Done
<1> QED
  BY <1>12, <1>13, <1>14 DEF Removing, z

-----------------------------------------------------------------------------
(***************************************************************************)
(* What the steps of Rm do at the place of the last frame.                 *)
(***************************************************************************)
Stands(b, t, k, q, w) == /\ Sound(b, k, q) /\ IsFileSystem(t) /\ Partly(b, t, q)
                      /\ w \in Places /\ (w # Nowhere => Under(q, w))

LEMMA StandsFacts ==
    ASSUME NEW b, NEW t, NEW k, NEW q, NEW w, Stands(b, t, k, q, w)
    PROVE  /\ IsFileSystem(b) /\ IsFileSystem(t) /\ q \in Places /\ w \in Places
           /\ Within(t, b) /\ \A r \in DOMAIN t : r \in Paths
           /\ w \in DOMAIN t => w \in Paths /\ Under(q, w) /\ w \in DOMAIN b /\ b[w] = t[w] /\ Under(w, w)
<1>1. IsFileSystem(b) /\ IsFileSystem(t) /\ q \in Places /\ w \in Places /\ Within(t, b) /\ \A r \in DOMAIN t : r \in Paths
  BY SoundFacts, SystemFacts DEF Stands, Sound, Partly, Within
<1>2. ASSUME w \in DOMAIN t
      PROVE  w \in Paths /\ Under(q, w) /\ w \in DOMAIN b /\ b[w] = t[w] /\ Under(w, w)
  <2>1. w \in Paths /\ w # Nowhere
    BY <1>1, <1>2, SystemFacts
  <2> QED
    BY <1>1, <1>2, <2>1, UnderFacts DEF Stands, Within
<1> QED
  BY <1>1, <1>2

\* There is nothing at w.
LEMMA MissingDone ==
    ASSUME NEW b, NEW t, NEW k, NEW q, NEW w, Stands(b, t, k, q, w), w \notin DOMAIN t
    PROVE  Done(b, t, q, w, TRUE)
<1>1. IsFileSystem(t) /\ w \in Places /\ Partly(b, t, q)
  BY DEF Stands
<1>2. \A r \in DOMAIN t : ~Under(w, r)
  BY <1>1, Above
<1> QED
  BY <1>1, <1>2 DEF Done, Cleared

\* What is at w cannot be removed, and is no directory.
LEMMA StuckDone ==
    ASSUME NEW b, NEW t, NEW k, NEW q, NEW w, Stands(b, t, k, q, w),
           w \in DOMAIN t, ~Is(t, w, "dir"), Stuck(b, w)
    PROVE  Done(b, t, q, w, FALSE)
<1>1. /\ IsFileSystem(b) /\ IsFileSystem(t) /\ q \in Places /\ w \in Places
      /\ w \in Paths /\ Under(q, w) /\ w \in DOMAIN b
  BY StandsFacts
<1>2. w \in Kept(b, q)
  BY <1>1, KeptFacts
<1>3. \A r \in DOMAIN t : Under(w, r) => r = w
  BY <1>1, Above
<1> QED
  BY <1>2, <1>3 DEF Done, Cleared, Stands

\* What is at w has been removed, and was all there was.
LEMMA RemovedDone ==
    ASSUME NEW b, NEW t, NEW k, NEW q, NEW w, Stands(b, t, k, q, w),
           w \in DOMAIN t, Writable(w), t[w] # Socket, \A r \in DOMAIN t : Under(w, r) => r = w,
           NEW u, DOMAIN u = DOMAIN t \ {w}, \A r \in DOMAIN t \ {w} : u[r] = t[r]
    PROVE  Shrinks(t, u, w) /\ Done(b, u, q, w, TRUE) /\ w \notin Kept(b, q)
           /\ \A x \in Kept(b, q) : ~Under(w, x)
<1>1. /\ IsFileSystem(b) /\ IsFileSystem(t) /\ q \in Places /\ w \in Places
      /\ w \in Paths /\ Under(q, w) /\ w \in DOMAIN b /\ b[w] = t[w]
  BY StandsFacts
<1>2. Partly(b, t, q)
  BY DEF Stands
<1>3. Shrinks(t, u, w)
  BY DEF Shrinks, Within
<1>4. ~Stuck(b, w)
  BY <1>1 DEF Stuck
<1>5. w \notin Kept(b, q)
  <2> SUFFICES ASSUME w \in Kept(b, q)
               PROVE  FALSE
    OBVIOUS
  <2>1. PICK r \in Kept(b, q) : Under(w, r) /\ r # w
    BY <1>1, <1>4, KeptFacts
  <2>2. r \in DOMAIN t
    BY <1>1, <1>2, StillThere
  <2> QED
    BY <2>1, <2>2
<1>6. ASSUME NEW x \in Kept(b, q), Under(w, x)
      PROVE  FALSE
  BY <1>1, <1>5, <1>6, KeptFacts
<1>7. Partly(b, u, q)
  BY <1>1, <1>2, <1>5 DEF Partly
<1>8. Cleared(b, u, q, w)
  BY DEF Cleared
<1>9. Done(b, u, q, w, TRUE)
  BY <1>7, <1>8 DEF Done
<1> QED
  BY <1>3, <1>5, <1>6, <1>9

\* The directory at w is not empty, or cannot be removed.
LEMMA RmdirFails ==
    ASSUME NEW b, NEW t, NEW k, NEW q, NEW w, Stands(b, t, k, q, w), Is(t, w, "dir"),
           \A r \in DOMAIN t : IsPrefix(w, r) /\ r # w => r \in Kept(b, q),
           ~Writable(w) \/ Below(t, w) # {w}
    PROVE  Done(b, t, q, w, FALSE)
<1>1. w \in DOMAIN t
  BY DEF Is
<1>2. /\ IsFileSystem(b) /\ IsFileSystem(t) /\ q \in Places /\ w \in Places
      /\ w \in Paths /\ Under(q, w) /\ w \in DOMAIN b /\ Under(w, w)
  BY <1>1, StandsFacts
<1>3. \A r \in DOMAIN t : Under(w, r) /\ r # w => r \in Kept(b, q)
  BY DEF Under
<1>4. w \in Kept(b, q)
  <2>1. CASE ~Writable(w)
    BY <1>2, <2>1, KeptFacts DEF Stuck
  <2>2. CASE Below(t, w) # {w}
    <3>1. PICK r \in DOMAIN t : Under(w, r) /\ r # w
      BY <1>1, <1>2, <2>2 DEF Below
    <3>2. r \in Kept(b, q)
      BY <1>3, <3>1
    <3> QED
      BY <1>2, <3>1, <3>2, KeptFacts
  <2> QED
    BY <2>1, <2>2
<1>5. Cleared(b, t, q, w)
  BY <1>3, <1>4 DEF Cleared
<1> QED
  BY <1>4, <1>5 DEF Done, Stands

-----------------------------------------------------------------------------
(***************************************************************************)
(* A caller alone with the file system, while the others take no step that *)
(* changes it.                                                             *)
(***************************************************************************)
LEMMA AloneIs ==
    ASSUME NEW c \in Callers, NEW x \in Callers, SetTree(c, tree'), IsHistory(hist[x])
    PROVE  hist'[x].before = hist[x].before /\ (hist'[x].alone => hist[x].alone /\ x = c)
<1> DEFINE h == hist[x]
           g == hist'[x]
           p == call[x].path
           there == Place(tree', p, MaxLinks) \in DOMAIN tree'
           list == IF call[x].op = "ListAllFile" THEN Listing(tree', p) ELSE {}
           mvs == x = c /\ call[x].op = "Mv" /\ Place(tree, p, MaxLinks) \in DOMAIN tree'
           links == {q \in DOMAIN tree' : Is(tree', q, "link") /\ (q \in DOMAIN tree => tree[q] # tree'[q])}
<1>1. g = IF result[x] # {} THEN [h EXCEPT !.alone = FALSE]
          ELSE [h EXCEPT !.alone = @ /\ x = c,
                         !.linked = @ \/ (x # c /\ links # {}),
                         !.met = @ \/ there \/ mvs,
                         !.missed = @ \/ ~there,
                         !.ever = @ \cup list,
                         !.stable = @ \cap list]
  BY Zenon DEF SetTree
<1> HIDE DEF h, g, there, list, mvs, links
<1>2. h = [before |-> h.before, alone |-> h.alone, linked |-> h.linked,
           met |-> h.met, missed |-> h.missed, ever |-> h.ever, stable |-> h.stable]
  BY DEF IsHistory, h
<1>3. CASE result[x] # {}
  <2>1. g = [h EXCEPT !.alone = FALSE]
    BY <1>1, <1>3
  <2>2. g.before = h.before /\ g.alone = FALSE
    BY <1>2, <2>1
  <2> QED
    BY <2>2 DEF g, h
<1>4. CASE result[x] = {}
  <2> DEFINE a == h.alone /\ x = c
             l == h.linked \/ (x # c /\ links # {})
             e == h.met \/ there \/ mvs
             s == h.missed \/ ~there
  <2>1. g = [h EXCEPT !.alone = a, !.linked = l, !.met = e, !.missed = s,
                      !.ever = h.ever \cup list, !.stable = h.stable \cap list]
    BY <1>1, <1>4, Zenon
  <2> HIDE DEF a, l, e, s
  <2>2. g.before = h.before /\ g.alone = a
    BY <1>2, <2>1
  <2> QED
    BY <2>2, Zenon DEF a, g, h
<1> QED
  BY <1>3, <1>4

LEMMA AloneKept ==
    ASSUME FSInv, NEW c \in Callers, TreeStep(c), NEW x \in Callers
    PROVE  /\ hist'[x].before = hist[x].before
           /\ hist'[x].alone => hist[x].alone /\ (x = c \/ UNCHANGED <<tree, hist>>)
<1>1. IsHistory(hist[x])
  BY DEF FSInv, CallerInv, HistInv, IsHistory
<1>2. CASE UNCHANGED <<tree, hist>>
  BY <1>2
<1>3. CASE SetTree(c, tree')
  BY <1>1, <1>3, AloneIs
<1> QED
  BY <1>2, <1>3 DEF TreeStep

AllAlone == \A c \in Callers : AloneInv(c)

Goal(c) == Place(hist[c].before, call[c].path, MaxLinks)
Alone(c) == /\ hist[c].alone /\ Avoids(hist[c].before, call[c].path, Goal(c))

Others(c) == \A x \in Callers : x # c => calls'[x] = calls[x] /\ result'[x] = result[x] /\ call'[x] = call[x]

LEMMA OthersAlone ==
    ASSUME FSInv, NEW c \in Callers, TreeStep(c), Others(c), NEW x \in Callers, x # c, AloneInv(x)
    PROVE  AloneInv(x)'
<1>1. CASE ~hist'[x].alone
  BY <1>1 DEF AloneInv
<1>2. CASE hist'[x].alone
  <2>1. tree' = tree /\ hist' = hist
    BY <1>2, AloneKept
  <2>2. calls'[x] = calls[x] /\ result'[x] = result[x] /\ call'[x] = call[x]
    BY DEF Others
  <2> QED
    BY <2>1, <2>2 DEF AloneInv, Top
<1> QED
  BY <1>1, <1>2

\* What a step of c has to keep.
Owed(c) ==
    LET b == hist[c].before
        k == call[c]
    IN  /\ calls'[c] # <<>> /\ k.op \in {"Rm", "Mv", "Symlink"} => Removing(b, tree', k, Goal(c), calls'[c])
        /\ calls'[c] # <<>> /\ k.op = "Mkdir" => Len(calls'[c]) = 1 /\ Making(b, tree', k.path, Last(calls'[c]))
        /\ \A r \in result'[c] : Exact(b, tree', k, r)

LEMMA AloneStep ==
    ASSUME FSInv, AllAlone, NEW c \in Callers, TreeStep(c), Others(c), call'[c] = call[c],
           Alone(c) /\ IsFileSystem(hist[c].before) => Owed(c)
    PROVE  AllAlone'
<1>1. ASSUME NEW x \in Callers
      PROVE  AloneInv(x)'
  <2>1. CASE x # c
    BY <2>1, OthersAlone DEF AllAlone
  <2>2. CASE x = c
    <3> SUFFICES ASSUME hist'[c].alone, Avoids(hist[c].before, call[c].path, Goal(c))
                 PROVE  AloneInv(c)'
      <4>1. hist'[c].before = hist[c].before
        BY AloneKept
      <4> QED
        BY <2>2, <4>1 DEF AloneInv, Avoids, Goal
    <3>1. hist'[c].before = hist[c].before /\ Alone(c)
      BY AloneKept DEF Alone
    <3>2. IsFileSystem(hist[c].before)
      BY <3>1 DEF AllAlone, AloneInv, Alone, Goal
    <3>3. Owed(c)
      BY <3>1, <3>2
    <3> QED
      BY <3>1, <3>2, <3>3 DEF Owed, AloneInv, Goal, Top
  <2> QED
    BY <2>1, <2>2
<1> QED
  BY <1>1 DEF AllAlone

\* What becomes of the stack of c and of the others.
LEMMA StackStep ==
    ASSUME FSInv, NEW c \in Callers, calls[c] # <<>>, UNCHANGED call, NEW f, NEW g, NEW r
    PROVE  /\ Goes(c, f) => calls'[c] = Append(Front(calls[c]), f) /\ result'[c] = {} /\ Others(c)
           /\ Pushes(c, f, g) => calls'[c] = Pushed(calls[c], f, g) /\ result'[c] = {} /\ Others(c)
           /\ Return(c, r) => /\ calls'[c] = Popped(calls[c], r) /\ Others(c)
                              /\ result'[c] = IF Len(calls[c]) = 1 THEN {r} ELSE {}
                              /\ Len(calls[c]) = 1 => calls'[c] = <<>>
<1>1. DOMAIN calls = Callers /\ DOMAIN result = Callers
  BY DEF FSInv
<1>2. result[c] = {} /\ calls[c] \in Seq(Frames)
  BY StackFacts
<1>3. Front(calls[c]) = <<>> <=> Len(calls[c]) = 1
  BY <1>2, FrontIs
<1>4. Goes(c, f) => calls'[c] = Append(Front(calls[c]), f) /\ result'[c] = {} /\ Others(c)
  BY <1>1, <1>2 DEF Goes, Others
<1>5. Pushes(c, f, g) => calls'[c] = Pushed(calls[c], f, g) /\ result'[c] = {} /\ Others(c)
  BY <1>1, <1>2 DEF Pushes, Pushed, Others
<1>6. ASSUME Return(c, r)
      PROVE  /\ calls'[c] = Popped(calls[c], r) /\ Others(c)
             /\ result'[c] = IF Len(calls[c]) = 1 THEN {r} ELSE {}
             /\ Len(calls[c]) = 1 => calls'[c] = <<>>
  <2>1. /\ calls' = [calls EXCEPT ![c] = Popped(calls[c], r)]
        /\ result' = [result EXCEPT ![c] = IF Front(calls[c]) = <<>> THEN {r} ELSE {}]
    BY <1>6 DEF Return, Popped
  <2>2. Len(calls[c]) = 1 => Popped(calls[c], r) = <<>>
    BY <1>3 DEF Popped
  <2> QED
    BY <1>1, <1>3, <2>1, <2>2 DEF Others
<1> QED
  BY <1>4, <1>5, <1>6

RmOps == {"Rm", "Mv", "Symlink"}

\* Where the last frame is, and what it has done.
LEMMA TopStands ==
    ASSUME FSInv, AllAlone, NEW c \in Callers, calls[c] # <<>>, Alone(c), call[c].op \in RmOps
    PROVE  LET b == hist[c].before
               k == call[c]
               q == Goal(c)
               w == At(Top(c).path)
           IN  /\ Sound(b, k, q) /\ Removing(b, tree, k, q, calls[c]) /\ StackOf(calls[c], k)
               /\ Stands(b, tree, k, q, w) /\ w = Spot(Top(c).path, k.path, q)
               /\ Fits(b, tree, k, q, Top(c), {}) /\ Top(c) = Last(calls[c])
               /\ k.path \in Paths /\ q \in Places /\ IsPrefix(k.path, Top(c).path)
               /\ Len(calls[c]) = 1 => w = q
<1> DEFINE b == hist[c].before
           k == call[c]
           q == Goal(c)
           w == At(Top(c).path)
           s == calls[c]
           f == Top(c)
<1>1. /\ s \in Seq(Frames) /\ StackOf(s, k) /\ Len(s) \in Nat \ {0} /\ k \in Calls
      /\ f = Last(s) /\ f = s[Len(s)] /\ f.path \in Paths
  BY StackFacts DEF Frames
<1>2. IsFileSystem(tree)
  BY DEF FSInv
<1>3. IsFileSystem(b) /\ Removing(b, tree, k, q, s)
  <2>1. AloneInv(c)
    BY DEF AllAlone
  <2> QED
    BY <2>1 DEF AloneInv, Alone, Goal, RmOps
<1>4. Sound(b, k, q)
  BY <1>1, <1>3 DEF Sound, Goal, Alone, RmOps
<1>5. k.path \in Paths /\ q \in Places
  BY <1>4, SoundFacts
<1>6. /\ IsPrefix(k.path, f.path) /\ w = Spot(f.path, k.path, q)
      /\ Len(s) = 1 => f.path = k.path
  <2>0. Sound(b, k, q) /\ IsFileSystem(tree) /\ StackOf(s, k) /\ s # <<>> /\ Removing(b, tree, k, q, s)
    BY <1>1, <1>2, <1>3, <1>4
  <2>2. f = Last(s) /\ w = Place(tree, f.path, MaxLinks)
    BY <1>1 DEF At
  <2> HIDE DEF b, k, q, s, f, w
  <2>1. /\ IsPrefix(k.path, Last(s).path) /\ Place(tree, Last(s).path, MaxLinks) = Spot(Last(s).path, k.path, q)
        /\ Len(s) = 1 => Last(s).path = k.path
    BY <2>0, TopPlace
  <2> QED
    BY <2>1, <2>2
<1>7. Fits(b, tree, k, q, f, {})
  <2>1. Len(s) \in 1..Len(s)
    BY <1>1
  <2>2. Over(s, Len(s)) = {}
    BY <1>1, <2>1, OverIs
  <2>3. Fits(b, tree, k, q, s[Len(s)], Over(s, Len(s)))
    BY <1>3, <2>1 DEF Removing
  <2> QED
    BY <1>1, <2>2, <2>3
<1>8. w \in Places /\ (w # Nowhere => Under(q, w)) /\ Spot(k.path, k.path, q) = q
  <2> HIDE DEF b, k, q, s, f
  <2>1. CASE q = Nowhere
    BY <1>1, <1>5, <1>6, <2>1, SpotIs DEF Places
  <2>2. CASE q # Nowhere
    BY <1>1, <1>5, <1>6, <2>2, SpotIs DEF Places
  <2> QED
    BY <2>1, <2>2
<1>9. Stands(b, tree, k, q, w)
  BY <1>2, <1>3, <1>4, <1>8 DEF Stands, Removing
<1>10. Len(s) = 1 => w = q
  BY <1>6, <1>8
<1> QED
  BY <1>1, <1>3, <1>4, <1>5, <1>6, <1>7, <1>9, <1>10

\* Rm and Unlink return.
LEMMA AloneReturns ==
    ASSUME FSInv, AllAlone, NEW c \in Callers, TreeStep(c), IsFileSystem(tree'), calls[c] # <<>>,
           NEW r \in BOOLEAN, Return(c, r), UNCHANGED call, Top(c).op \in {"Rm", "Unlink"},
           Alone(c) /\ call[c].op \in RmOps =>
              /\ Shrinks(tree, tree', At(Top(c).path))
              /\ Done(hist[c].before, tree', Goal(c), At(Top(c).path), r)
    PROVE  AllAlone'
<1> DEFINE b == hist[c].before
           k == call[c]
           q == Goal(c)
           w == At(Top(c).path)
           s == calls[c]
<1>1. /\ calls'[c] = Popped(s, r) /\ Others(c) /\ result'[c] = (IF Len(s) = 1 THEN {r} ELSE {})
      /\ Len(s) = 1 => calls'[c] = <<>>
  BY StackStep
<1>2. call'[c] = k /\ Len(s) \in Nat \ {0} /\ (Len(s) = 1 => Serves(Top(c), k))
  BY StackFacts
<1>3. ASSUME Alone(c), IsFileSystem(b)
      PROVE  Owed(c)
  <2>1. CASE k.op \in RmOps
    <3>1. /\ Sound(b, k, q) /\ Removing(b, tree, k, q, s) /\ StackOf(s, k) /\ s # <<>>
          /\ w = Spot(Last(s).path, k.path, q) /\ (Len(s) = 1 => w = q) /\ q \in Places
      BY <1>3, <2>1, TopStands
    <3>2. Shrinks(tree, tree', w) /\ Done(b, tree', q, w, r) /\ IsFileSystem(tree)
      BY <1>3, <2>1 DEF FSInv
    <3>3. CASE Len(s) = 1
      <4>1. k.op = "Rm"
        BY <1>2, <2>1, <3>3 DEF Serves, RmOps
      <4>2. w = q
        BY <3>1, <3>3
      <4>3. Partly(b, tree', q) /\ Cleared(b, tree', q, q) /\ IF r THEN q \notin DOMAIN tree' ELSE q \in Kept(b, q)
        BY <3>2, <4>2 DEF Done
      <4> HIDE DEF b, k, q, w, s
      <4>4. r <=> Kept(b, q) = {}
        <5>1. ASSUME NEW x \in Kept(b, q)
              PROVE  q \in DOMAIN tree'
          <6>1. x \in DOMAIN tree' /\ Under(q, x)
            BY <1>3, <3>1, <4>3, StillThere, KeptFacts
          <6> QED
            BY <3>1, <6>1, Above
        <5> QED
          BY <4>3, <5>1
      <4>5. tree' = Removed(b, q)
        <5> DEFINE gone == Below(b, q) \ Kept(b, q)
        <5>1. ASSUME NEW x \in DOMAIN b
              PROVE  x \in DOMAIN tree' <=> x \notin gone
          BY <4>3, <5>1 DEF Partly, Cleared, Below
        <5>2. DOMAIN tree' \subseteq DOMAIN b /\ \A x \in DOMAIN tree' : tree'[x] = b[x]
          BY <4>3 DEF Partly
        <5>3. DOMAIN tree' = DOMAIN b \ gone
          BY <5>1, <5>2
        <5>4. tree' = [x \in DOMAIN tree' |-> tree'[x]]
          BY DEF IsFileSystem
        <5> HIDE DEF gone
        <5>5. tree' = [x \in DOMAIN b \ gone |-> b[x]]
          BY <5>2, <5>3, <5>4
        <5> QED
          BY <5>5 DEF Removed, Without, gone
      <4>6. Exact(b, tree', k, r)
        <5>1. Place(b, k.path, MaxLinks) = q
          BY <3>1 DEF Sound
        <5> QED
          BY <4>1, <4>4, <4>5, <5>1 DEF Exact, RmExact
      <4>7. calls'[c] = <<>> /\ result'[c] = {r}
        BY <1>1, <3>3
      <4> QED
        BY <4>6, <4>7 DEF Owed, b, k
    <3>4. CASE Len(s) # 1
      <4>1. Removing(b, tree', k, q, Popped(s, r))
        <5> HIDE DEF b, k, q, w, s
        <5>1. /\ Shrinks(tree, tree', Spot(Last(s).path, k.path, q))
              /\ Done(b, tree', q, Spot(Last(s).path, k.path, q), r)
          BY <3>1, <3>2
        <5> QED
          BY <3>1, <3>2, <3>4, <5>1, RemovingReturns
      <4>2. k.op # "Mkdir" /\ result'[c] = {}
        BY <1>1, <2>1, <3>4 DEF RmOps
      <4> QED
        BY <1>1, <4>1, <4>2 DEF Owed
    <3> QED
      BY <3>3, <3>4
  <2>2. CASE k.op \notin RmOps
    <3>1. k.op # "Mkdir"
      <4>1. k.op = "Mkdir" => Len(s) = 1
        BY <1>3 DEF AllAlone, AloneInv, Alone, Goal
      <4> QED
        BY <1>2, <4>1 DEF Serves
    <3>2. ASSUME NEW x \in result'[c]
          PROVE  Exact(b, tree', k, x)
      <4>1. Len(s) = 1
        BY <1>1, <3>2
      <4>2. k.op = "Unlink"
        BY <1>2, <2>2, <4>1 DEF Serves, RmOps
      <4> QED
        BY <4>2 DEF Exact
    <3> QED
      BY <2>2, <3>1, <3>2 DEF Owed, RmOps
  <2> QED
    BY <2>1, <2>2
<1> QED
  BY <1>1, <1>2, <1>3, AloneStep

LEMMA TopMakes ==
    ASSUME FSInv, AllAlone, NEW c \in Callers, calls[c] # <<>>, Alone(c), call[c].op = "Mkdir"
    PROVE  /\ Making(hist[c].before, tree, call[c].path, Top(c)) /\ Len(calls[c]) = 1
           /\ Top(c).op = "Mkdir" /\ Top(c).path = call[c].path /\ IsFileSystem(hist[c].before)
<1>1. Making(hist[c].before, tree, call[c].path, Top(c)) /\ Len(calls[c]) = 1 /\ IsFileSystem(hist[c].before)
  BY DEF AllAlone, AloneInv, Alone, Goal
<1>2. Serves(Top(c), call[c])
  BY <1>1, StackFacts
<1> QED
  BY <1>1, <1>2 DEF Making, Serves

\* A step that only reads, and goes on with the frame f.
LEMMA AloneGoes ==
    ASSUME FSInv, AllAlone, NEW c \in Callers, UNCHANGED <<tree, hist, call>>, calls[c] # <<>>,
           NEW f \in Frames, Goes(c, f), f.path = Top(c).path,
           Alone(c) /\ call[c].op \in RmOps =>
              Top(c).op \in {"Rm", "Unlink"} /\ Fits(hist[c].before, tree, call[c], Goal(c), f, {}),
           Alone(c) /\ call[c].op = "Mkdir" /\ Top(c).op = "Mkdir" => Making(hist[c].before, tree, call[c].path, f)
    PROVE  AllAlone'
<1> DEFINE b == hist[c].before
           k == call[c]
           q == Goal(c)
           s == calls[c]
           z == Append(Front(s), f)
<1>1. calls'[c] = z /\ result'[c] = {} /\ Others(c)
  BY StackStep
<1>2. TreeStep(c) /\ tree' = tree /\ call'[c] = k
  BY Quiet
<1>3. s \in Seq(Frames) /\ s # <<>>
  BY StackFacts
<1>4. z \in Seq(Frames) /\ Len(z) = Len(s) /\ z[Len(s)] = f /\ z # <<>>
  BY <1>3, GoesFrames
<1>5. Last(z) = f
  <2> HIDE DEF z
  <2> QED
    BY <1>4, FrontIs
<1>6. ASSUME Alone(c), IsFileSystem(b)
      PROVE  Owed(c)
  <2>1. CASE k.op \in RmOps
    <3>1. /\ Sound(b, k, q) /\ Removing(b, tree, k, q, s) /\ StackOf(s, k)
          /\ Top(c) = Last(s) /\ IsFileSystem(tree)
      BY <1>6, <2>1, TopStands DEF FSInv
    <3>2. Last(s).op \in {"Rm", "Unlink"} /\ Fits(b, tree, k, q, f, {}) /\ f.path = Last(s).path
      BY <1>6, <2>1, <3>1
    <3>3. Removing(b, tree, k, q, z)
      <4> HIDE DEF b, k, q, s
      <4> QED
        BY <1>3, <3>1, <3>2, RemovingGoes
    <3>4. k.op # "Mkdir"
      BY <2>1 DEF RmOps
    <3> QED
      BY <1>1, <1>2, <3>3, <3>4 DEF Owed
  <2>2. CASE k.op = "Mkdir"
    <3>1. Len(s) = 1 /\ Making(b, tree, k.path, f)
      BY <1>6, <2>2, TopMakes
    <3>2. Len(calls'[c]) = 1 /\ Making(b, tree', k.path, Last(calls'[c]))
      BY <1>1, <1>2, <1>4, <1>5, <3>1
    <3> QED
      BY <1>1, <2>2, <3>2 DEF Owed
  <2>3. CASE k.op \notin RmOps /\ k.op # "Mkdir"
    BY <1>1, <2>3 DEF Owed, RmOps
  <2> QED
    BY <2>1, <2>2, <2>3
<1> QED
  BY <1>1, <1>2, <1>6, AloneStep

LEMMA UnlinkLstatAlone ==
    ASSUME FSInv, AllAlone, NEW c \in Callers, UnlinkLstat(c)
    PROVE  AllAlone'
<1> DEFINE w == At(Top(c).path)
           f == [Top(c) EXCEPT !.pc = "unlink"]
<1>1. calls[c] # <<>> /\ Top(c) \in Frames /\ Top(c).op = "Unlink"
  BY InFacts DEF UnlinkLstat
<1>2. UNCHANGED <<tree, hist, call>> /\ TreeStep(c) /\ IsFileSystem(tree') /\ tree' = tree
  BY Quiet DEF UnlinkLstat
<1>3. CASE w \in DOMAIN tree
  <2>1. f \in Frames /\ f.op = "Unlink" /\ f.path = Top(c).path
    BY <1>1, FrameTo DEF Pcs
  <2>2. Goes(c, f)
    BY <1>3 DEF UnlinkLstat
  <2> HIDE DEF f
  <2>3. ASSUME Alone(c), call[c].op \in RmOps
        PROVE  Fits(hist[c].before, tree, call[c], Goal(c), f, {})
    <3>1. Fits(hist[c].before, tree, call[c], Goal(c), Top(c), {})
      BY <1>1, <2>3, TopStands
    <3> QED
      BY <1>1, <2>1, <3>1 DEF Fits
  <2> QED
    BY <1>1, <1>2, <2>1, <2>2, <2>3, AloneGoes
<1>4. CASE w \notin DOMAIN tree
  <2>1. Return(c, TRUE)
    BY <1>4 DEF UnlinkLstat
  <2>2. ASSUME Alone(c), call[c].op \in RmOps
        PROVE  Shrinks(tree, tree', w) /\ Done(hist[c].before, tree', Goal(c), w, TRUE)
    <3>1. Stands(hist[c].before, tree, call[c], Goal(c), w)
      BY <1>1, <2>2, TopStands
    <3> QED
      BY <1>2, <1>4, <3>1, MissingDone, Unshrunk
  <2> QED
    BY <1>1, <1>2, <2>1, <2>2, AloneReturns
<1> QED
  BY <1>3, <1>4

LEMMA UnlinkUnlinkAlone ==
    ASSUME FSInv, AllAlone, NEW c \in Callers, UnlinkUnlink(c)
    PROVE  AllAlone'
<1> DEFINE w == At(Top(c).path)
<1>1. calls[c] # <<>> /\ Top(c) \in Frames /\ Top(c).op = "Unlink" /\ Top(c).path \in Paths /\ UNCHANGED call
  BY InFacts DEF UnlinkUnlink
<1>2. ASSUME Alone(c), call[c].op \in RmOps
      PROVE  /\ Stands(hist[c].before, tree, call[c], Goal(c), w)
             /\ w \in DOMAIN tree /\ tree[w] \notin {Dir, Socket} /\ ~Is(tree, w, "dir")
             /\ \A r \in DOMAIN tree : Under(w, r) => r = w
  <2>1. Stands(hist[c].before, tree, call[c], Goal(c), w) /\ w \in DOMAIN tree /\ tree[w] \notin {Dir, Socket}
    BY <1>1, <1>2, TopStands DEF Fits
  <2>2. IsFileSystem(tree) /\ w \in Places
    BY <2>1 DEF Stands
  <2>3. ~Is(tree, w, "dir")
    BY <2>1, <2>2, SystemFacts
  <2> QED
    BY <2>1, <2>2, <2>3, Above
<1>3. CASE CanUnlink(w) /\ SetTree(c, Without(tree, {w})) /\ Return(c, TRUE)
  <2>1. TreeStep(c) /\ IsFileSystem(tree')
    BY <1>1, <1>3, Removes
  <2>2. ASSUME Alone(c), call[c].op \in RmOps
        PROVE  Shrinks(tree, tree', w) /\ Done(hist[c].before, tree', Goal(c), w, TRUE)
    <3>1. DOMAIN tree' = DOMAIN tree \ {w} /\ \A r \in DOMAIN tree \ {w} : tree'[r] = tree[r]
      <4>1. tree' = Without(tree, {w}) /\ IsFileSystem(tree)
        BY <1>3 DEF SetTree, FSInv
      <4> QED
        BY <1>3, <4>1, RemovedKept
    <3>2. Writable(w) /\ tree[w] # Socket /\ w \in DOMAIN tree
      BY <1>2, <1>3, <2>2 DEF CanUnlink
    <3> QED
      BY <1>2, <2>2, <3>1, <3>2, RemovedDone
  <2> QED
    BY <1>1, <1>3, <2>1, <2>2, AloneReturns
<1>4. CASE ~CanUnlink(w) /\ Return(c, FALSE) /\ UNCHANGED <<tree, hist>>
  <2>1. TreeStep(c) /\ IsFileSystem(tree') /\ tree' = tree
    BY <1>4, Quiet
  <2>2. ASSUME Alone(c), call[c].op \in RmOps
        PROVE  Shrinks(tree, tree', w) /\ Done(hist[c].before, tree', Goal(c), w, FALSE)
    <3>1. Stuck(hist[c].before, w)
      BY <1>2, <1>4, <2>2 DEF CanUnlink, Stuck
    <3>2. Done(hist[c].before, tree, Goal(c), w, FALSE)
      BY <1>2, <2>2, <3>1, StuckDone
    <3> QED
      BY <2>1, <3>2, Unshrunk
  <2> QED
    BY <1>1, <1>4, <2>1, <2>2, AloneReturns
<1> QED
  BY <1>3, <1>4 DEF UnlinkUnlink

LEMMA FrameRet ==
    ASSUME NEW f \in Frames
    PROVE  \A todo : TodoFrame(f, todo).ret = f.ret /\ ReadFrame(f, todo).ret = f.ret
BY DEF Frames, TodoFrame, ReadFrame

LEMMA RmLstatAlone ==
    ASSUME FSInv, AllAlone, NEW c \in Callers, RmLstat(c)
    PROVE  AllAlone'
<1> DEFINE p == Top(c).path
           w == At(p)
           b == hist[c].before
           k == call[c]
           q == Goal(c)
<1>1. calls[c] # <<>> /\ Top(c) \in Frames /\ Top(c).op = "Rm" /\ p \in Paths
  BY InFacts DEF RmLstat
<1>2. UNCHANGED <<tree, hist, call>> /\ TreeStep(c) /\ IsFileSystem(tree') /\ tree' = tree
  BY Quiet DEF RmLstat
<1>3. ASSUME Alone(c), k.op \in RmOps
      PROVE  /\ Stands(b, tree, k, q, w) /\ w = Spot(p, k.path, q) /\ Fits(b, tree, k, q, Top(c), {})
             /\ IsPrefix(k.path, p)
  BY <1>1, <1>3, TopStands
<1> HIDE DEF b, k, q
<1>4. CASE w \notin DOMAIN tree
  <2>1. Return(c, TRUE)
    BY <1>4 DEF RmLstat
  <2>2. ASSUME Alone(c), k.op \in RmOps
        PROVE  Shrinks(tree, tree', w) /\ Done(b, tree', q, w, TRUE)
    BY <1>2, <1>3, <1>4, <2>2, MissingDone, Unshrunk
  <2> QED
    BY <1>1, <1>2, <2>1, <2>2, AloneReturns DEF b, k, q
<1>5. CASE w \in DOMAIN tree /\ HasDirBit(w)
  <2> DEFINE f == [Top(c) EXCEPT !.pc = "opendir"]
  <2>1. Goes(c, f)
    BY <1>5 DEF RmLstat
  <2>2. f \in Frames /\ f.op = "Rm" /\ f.path = p /\ f.pc = "opendir" /\ f.ret = Top(c).ret
    <3>1. f.ret = Top(c).ret
      BY <1>1 DEF Frames
    <3> QED
      BY <1>1, <3>1, FrameTo DEF Pcs
  <2> HIDE DEF f
  <2>3. ASSUME Alone(c), k.op \in RmOps
        PROVE  Fits(b, tree, k, q, f, {})
    <3>1. w = Spot(f.path, k.path, q) /\ Fits(b, tree, k, q, Top(c), {}) /\ Top(c).path = f.path
      BY <1>3, <2>2, <2>3
    <3>2. Top(c).ret \/ \E x \in Names : Append(w, x) \in Kept(b, q)
      BY <1>1, <3>1, Zenon DEF Fits
    <3>3. w \in DOMAIN tree /\ tree[w] \in {Dir, Socket}
      BY <1>5 DEF HasDirBit
    <3> HIDE DEF w
    <3>4. f.ret \/ \E x \in Names : Append(w, x) \in Kept(b, q)
      BY <2>2, <3>2
    <3>5. /\ f.op \in Removers /\ f.op # "Unlink" /\ f.pc # "readdir" /\ f.op # "Mv" /\ f.op # "Symlink"
          /\ IsPrefix(k.path, f.path)
      BY <1>3, <2>2, <2>3 DEF Removers
    <3> QED
      BY <3>1, <3>3, <3>4, <3>5 DEF Fits
  <2> QED
    BY <1>1, <1>2, <2>1, <2>2, <2>3, AloneGoes DEF b, k, q
<1>6. CASE w \in DOMAIN tree /\ ~HasDirBit(w)
  <2> DEFINE f == Frame("Unlink", "lstat", p)
  <2>1. Goes(c, f)
    BY <1>6 DEF RmLstat
  <2>2. f \in Frames /\ f.op = "Unlink" /\ f.path = p
    BY <1>1, FrameTyped DEF Pcs, Ops
  <2> HIDE DEF f
  <2>3. ASSUME Alone(c), k.op \in RmOps
        PROVE  Fits(b, tree, k, q, f, {})
    <3>1. w = Spot(f.path, k.path, q) /\ IsPrefix(k.path, f.path)
      BY <1>3, <2>2, <2>3
    <3>2. w \in DOMAIN tree /\ tree[w] \notin {Dir, Socket}
      BY <1>6 DEF HasDirBit
    <3> QED
      BY <2>2, <3>1, <3>2 DEF Fits, Removers
  <2> QED
    BY <1>1, <1>2, <2>1, <2>2, <2>3, AloneGoes DEF b, k, q
<1> QED
  BY <1>4, <1>5, <1>6

LEMMA RmOpendirAlone ==
    ASSUME FSInv, AllAlone, NEW c \in Callers, RmOpendir(c)
    PROVE  AllAlone'
<1> DEFINE p == Top(c).path
           w == At(p)
           d == End(p)
           b == hist[c].before
           k == call[c]
           q == Goal(c)
<1>1. calls[c] # <<>> /\ Top(c) \in Frames /\ Top(c).op = "Rm" /\ Top(c).pc = "opendir" /\ p \in Paths
  BY InFacts DEF RmOpendir
<1>2. /\ UNCHANGED <<tree, hist, call>> /\ TreeStep(c) /\ IsFileSystem(tree') /\ tree' = tree
      /\ IsFileSystem(tree)
  BY Quiet DEF RmOpendir, FSInv
<1>3. ASSUME Alone(c), k.op \in RmOps
      PROVE  /\ Stands(b, tree, k, q, w) /\ w = Spot(p, k.path, q) /\ Fits(b, tree, k, q, Top(c), {})
             /\ IsPrefix(k.path, p) /\ w \in DOMAIN tree /\ tree[w] \in {Dir, Socket} /\ d = w
             /\ Top(c).ret \/ \E x \in Names : Append(w, x) \in Kept(b, q)
  <2>1. /\ Stands(b, tree, k, q, w) /\ w = Spot(p, k.path, q) /\ Fits(b, tree, k, q, Top(c), {})
        /\ IsPrefix(k.path, p)
    BY <1>1, <1>3, TopStands
  <2>2. /\ w \in DOMAIN tree /\ tree[w] \in {Dir, Socket}
        /\ Top(c).ret \/ \E x \in Names : Append(w, x) \in Kept(b, q)
    BY <1>1, <2>1, Zenon DEF Fits
  <2>3. ~Is(tree, w, "link")
    BY <2>2, NodeKinds DEF Is
  <2>4. d = w
    BY <1>1, <1>2, <2>3, TargetPlace, Constants DEF At, End
  <2> QED
    BY <2>1, <2>2, <2>4
<1> HIDE DEF b, k, q, w
<1>4. CASE ~Is(tree, d, "dir")
  <2>1. Return(c, FALSE)
    BY <1>4 DEF RmOpendir
  <2>2. ASSUME Alone(c), k.op \in RmOps
        PROVE  Shrinks(tree, tree', w) /\ Done(b, tree', q, w, FALSE)
    <3>1. Stands(b, tree, k, q, w) /\ w \in DOMAIN tree /\ ~Is(tree, w, "dir") /\ tree[w] = Socket
      BY <1>2, <1>3, <1>4, <2>2, SystemFacts
    <3>2. Stuck(b, w)
      BY <3>1, StandsFacts DEF Stuck
    <3> QED
      BY <1>2, <3>1, <3>2, StuckDone, Unshrunk
  <2> QED
    BY <1>1, <1>2, <2>1, <2>2, AloneReturns DEF b, k, q, w
<1>5. CASE Is(tree, d, "dir")
  <2> DEFINE todo == Entries(tree, d)
             f == ReadFrame(Top(c), todo)
  <2>1. Goes(c, f)
    BY <1>5, Zenon DEF RmOpendir, ReadFrame
  <2>0. d \in Paths
    BY <1>2, <1>5, SystemFacts
  <2>2. todo \in SUBSET [name : Names, kind : Kinds]
    BY <1>2, <2>0, EntriesAre
  <2>3. \A r \in DOMAIN tree : IsPrefix(d, r) /\ r # d => \E e \in todo : IsPrefix(Append(d, e.name), r)
    <3> SUFFICES ASSUME NEW r \in DOMAIN tree, IsPrefix(d, r), r # d
                 PROVE  \E e \in todo : IsPrefix(Append(d, e.name), r)
      OBVIOUS
    <3>1. r \in Paths
      BY <1>2, SystemFacts
    <3>2. PICK x \in Names : IsPrefix(Append(d, x), r)
      BY <2>0, <3>1, NextName
    <3>3. Append(d, x) \in Paths
      BY <2>0, PathFacts
    <3>4. Append(d, x) \in DOMAIN tree
      <4>1. Append(d, x) # r => Is(tree, Append(d, x), "dir")
        BY <1>2, <3>2, <3>3, Ancestors
      <4> QED
        BY <4>1 DEF Is
    <3>5. PICK e \in todo : e.name = x
      BY <1>2, <2>0, <3>4, EntriesAre
    <3> QED
      BY <3>2, <3>5
  <2> HIDE DEF todo, d
  <2>4. f \in Frames /\ f.op = "Rm" /\ f.path = p /\ f.pc = "readdir" /\ f.todo = todo /\ f.ret = Top(c).ret
    BY <1>1, <2>2, FrameTodo, FrameRet
  <2> HIDE DEF f
  <2>5. ASSUME Alone(c), k.op \in RmOps
        PROVE  Fits(b, tree, k, q, f, {})
    <3>1. w = Spot(f.path, k.path, q) /\ IsPrefix(k.path, f.path) /\ Is(tree, w, "dir")
      BY <1>3, <1>5, <2>4, <2>5
    <3>2. f.ret \/ \E x \in Names : Append(w, x) \in Kept(b, q)
      BY <1>3, <2>4, <2>5
    <3>3. \A r \in DOMAIN tree : IsPrefix(w, r) /\ r # w => \E e \in f.todo : IsPrefix(Append(w, e.name), r)
      BY <1>3, <2>3, <2>4, <2>5
    <3>5. f.op \in Removers /\ f.op # "Unlink" /\ f.pc # "opendir" /\ f.op # "Mv" /\ f.op # "Symlink"
      BY <2>4 DEF Removers
    <3> QED
      BY <3>1, <3>2, <3>3, <3>5 DEF Fits
  <2> QED
    BY <1>1, <1>2, <2>1, <2>4, <2>5, AloneGoes DEF b, k, q
<1> QED
  BY <1>4, <1>5

\* A step that only reads, and waits with f for g.
LEMMA AlonePushes ==
    ASSUME FSInv, AllAlone, NEW c \in Callers, UNCHANGED <<tree, hist, call>>, calls[c] # <<>>,
           NEW f \in Frames, NEW g \in Frames, Pushes(c, f, g), f.path = Top(c).path, f.op = "Rm", Top(c).op = "Rm",
           NEW x \in Names, g.path = Append(f.path, x),
           Alone(c) /\ call[c].op \in RmOps =>
              /\ Fits(hist[c].before, tree, call[c], Goal(c), f, {g.path})
              /\ Fits(hist[c].before, tree, call[c], Goal(c), g, {})
    PROVE  AllAlone'
<1> DEFINE b == hist[c].before
           k == call[c]
           q == Goal(c)
           s == calls[c]
           z == Pushed(s, f, g)
<1>1. calls'[c] = z /\ result'[c] = {} /\ Others(c)
  BY StackStep
<1>2. TreeStep(c) /\ tree' = tree /\ call'[c] = k
  BY Quiet
<1>6. ASSUME Alone(c), IsFileSystem(b)
      PROVE  Owed(c)
  <2>1. CASE k.op \in RmOps
    <3>1. /\ Sound(b, k, q) /\ Removing(b, tree, k, q, s) /\ StackOf(s, k) /\ s # <<>>
          /\ Top(c) = Last(s) /\ IsFileSystem(tree)
      BY <1>6, <2>1, TopStands DEF FSInv
    <3>2. Last(s).op = "Rm" /\ Fits(b, tree, k, q, f, {g.path}) /\ Fits(b, tree, k, q, g, {}) /\ f.path = Last(s).path
      BY <1>6, <2>1, <3>1
    <3>3. Removing(b, tree, k, q, z)
      <4> HIDE DEF b, k, q, s
      <4> QED
        BY <3>1, <3>2, RemovingPushes
    <3>4. k.op # "Mkdir"
      BY <2>1 DEF RmOps
    <3> QED
      BY <1>1, <1>2, <3>3, <3>4 DEF Owed
  <2>2. k.op # "Mkdir"
    BY <1>6, TopMakes
  <2>3. CASE k.op \notin RmOps
    BY <1>1, <2>2, <2>3 DEF Owed, RmOps
  <2> QED
    BY <2>1, <2>3
<1> QED
  BY <1>1, <1>2, <1>6, AloneStep

LEMMA RmReaddirAlone ==
    ASSUME FSInv, AllAlone, NEW c \in Callers, RmReaddir(c)
    PROVE  AllAlone'
<1> DEFINE p == Top(c).path
           w == At(p)
           b == hist[c].before
           k == call[c]
           q == Goal(c)
<1>1. calls[c] # <<>> /\ Top(c) \in Frames /\ Top(c).op = "Rm" /\ Top(c).pc = "readdir" /\ p \in Paths
  BY InFacts DEF RmReaddir
<1>2. UNCHANGED <<tree, hist, call>> /\ IsFileSystem(tree)
  BY DEF RmReaddir, FSInv
<1>3. PICK e \in Top(c).todo : Pushes(c, TodoFrame(Top(c), Top(c).todo \ {e}), Frame("Rm", "lstat", Append(p, e.name)))
  BY Zenon DEF RmReaddir, TodoFrame
<1> DEFINE todo == Top(c).todo \ {e}
           f == TodoFrame(Top(c), todo)
           g == Frame("Rm", "lstat", Append(p, e.name))
<1>4. todo \in SUBSET [name : Names, kind : Kinds] /\ e.name \in Names
  BY <1>1 DEF Frames
<1>5. Append(p, e.name) \in Paths
  BY <1>1, <1>4, PathFacts
<1>6. Pushes(c, f, g)
  BY <1>3
<1>7. \A y \in Top(c).todo : y \in todo \/ y = e
  OBVIOUS
<1> HIDE DEF todo
<1>8. f \in Frames /\ f.op = "Rm" /\ f.path = p /\ f.pc = "readdir" /\ f.todo = todo /\ f.ret = Top(c).ret
  BY <1>1, <1>4, FrameTodo, FrameRet
<1>9. g \in Frames /\ g.op = "Rm" /\ g.path = Append(p, e.name) /\ g.pc = "lstat" /\ g.ret
  <2> DEFINE p2 == Append(p, e.name)
  <2>1. p2 \in Paths
    BY <1>5
  <2> HIDE DEF p2
  <2>2. Frame("Rm", "lstat", p2) \in Frames /\ Frame("Rm", "lstat", p2).op = "Rm"
        /\ Frame("Rm", "lstat", p2).path = p2 /\ Frame("Rm", "lstat", p2).pc = "lstat"
    BY <2>1, FrameTyped DEF Ops, Pcs
  <2>3. Frame("Rm", "lstat", p2).ret
    BY DEF Frame
  <2> QED
    BY <2>2, <2>3 DEF p2
<1> HIDE DEF f, g
<1>10. ASSUME Alone(c), k.op \in RmOps
       PROVE  Fits(b, tree, k, q, f, {g.path}) /\ Fits(b, tree, k, q, g, {})
  <2>1. /\ Stands(b, tree, k, q, w) /\ w = Spot(p, k.path, q) /\ Fits(b, tree, k, q, Top(c), {})
        /\ IsPrefix(k.path, p) /\ k.path \in Paths /\ q \in Places
    BY <1>1, <1>10, TopStands
  <2> HIDE DEF b, k, q
  <2>2. /\ Is(tree, w, "dir")
        /\ \A r \in DOMAIN tree : IsPrefix(w, r) /\ r # w =>
              \/ r \in Kept(b, q) \/ \E y \in Top(c).todo : IsPrefix(Append(w, y.name), r)
        /\ Top(c).ret \/ \E x \in Names : Append(w, x) \in Kept(b, q)
    BY <1>1, <2>1, Zenon DEF Fits
  <2>3. q # Nowhere /\ w # Nowhere /\ w \in Paths
    BY <1>1, <1>2, <2>1, <2>2, SpotIs, SystemFacts
  <2>4. Spot(g.path, k.path, q) = Append(w, e.name) /\ Append(w, e.name) \in Paths /\ IsPrefix(k.path, g.path)
    <3>1. \A x \in Names : Spot(Append(p, x), k.path, q) = Append(w, x)
      BY <1>1, <2>1, <2>3, SpotIs
    <3>2. Append(w, e.name) \in Paths
      BY <1>4, <2>3, PathFacts
    <3>3. IsPrefix(k.path, Append(p, e.name))
      BY <1>1, <1>4, <2>1, MovedAppend
    <3>4. Spot(Append(p, e.name), k.path, q) = Append(w, e.name)
      BY <1>4, <3>1
    <3> QED
      BY <1>9, <3>2, <3>3, <3>4
  <2>5. w = Spot(f.path, k.path, q) /\ IsPrefix(k.path, f.path)
    BY <1>8, <2>1
  <2> HIDE DEF w
  <2>6. ASSUME NEW r \in DOMAIN tree, IsPrefix(w, r), r # w
        PROVE  \/ r \in Kept(b, q) \/ \E y \in f.todo : IsPrefix(Append(w, y.name), r)
               \/ \E p2 \in {g.path} : Under(Spot(p2, k.path, q), r)
    <3>1. r \in Paths
      BY <1>2, SystemFacts
    <3>2. IsPrefix(Append(w, e.name), r) => Under(Append(w, e.name), r)
      BY <2>4, <3>1, Constants DEF Under
    <3>3. r \in Kept(b, q) \/ \E y \in Top(c).todo : IsPrefix(Append(w, y.name), r)
      BY <2>2, <2>6
    <3>4. CASE \E y \in Top(c).todo : IsPrefix(Append(w, y.name), r)
      <4>1. PICK y \in Top(c).todo : IsPrefix(Append(w, y.name), r)
        BY <3>4
      <4>2. CASE y = e
        BY <2>4, <3>2, <4>1, <4>2
      <4>3. CASE y # e
        BY <1>7, <1>8, <4>1, <4>3
      <4> QED
        BY <4>2, <4>3
    <3> QED
      BY <3>3, <3>4
  <2>7. Fits(b, tree, k, q, f, {g.path})
    <3>1. f.op \in Removers /\ f.op # "Unlink" /\ f.pc # "opendir" /\ f.op # "Mv" /\ f.op # "Symlink"
      BY <1>8 DEF Removers
    <3>2. f.ret \/ \E x \in Names : Append(w, x) \in Kept(b, q)
      BY <1>8, <2>2
    <3> QED
      BY <2>2, <2>5, <2>6, <3>1, <3>2 DEF Fits
  <2>8. Fits(b, tree, k, q, g, {})
    BY <1>9, <2>4 DEF Fits, Removers
  <2> QED
    BY <2>7, <2>8
<1> QED
  BY <1>1, <1>2, <1>4, <1>6, <1>8, <1>9, <1>10, AlonePushes

LEMMA RmRmdirAlone ==
    ASSUME FSInv, AllAlone, NEW c \in Callers, RmRmdir(c)
    PROVE  AllAlone'
<1> DEFINE p == Top(c).path
           w == At(p)
           b == hist[c].before
           k == call[c]
           q == Goal(c)
<1>1. /\ calls[c] # <<>> /\ Top(c) \in Frames /\ Top(c).op = "Rm" /\ Top(c).pc = "readdir" /\ p \in Paths
      /\ Top(c).ret \in BOOLEAN /\ Top(c).todo = {} /\ UNCHANGED call /\ IsFileSystem(tree)
  BY InFacts DEF RmRmdir, FSInv
<1>2. ASSUME Alone(c), k.op \in RmOps
      PROVE  /\ Stands(b, tree, k, q, w) /\ Is(tree, w, "dir")
             /\ \A r \in DOMAIN tree : IsPrefix(w, r) /\ r # w => r \in Kept(b, q)
             /\ Top(c).ret \/ \E x \in Names : Append(w, x) \in Kept(b, q)
  <2>1. Stands(b, tree, k, q, w) /\ w = Spot(p, k.path, q) /\ Fits(b, tree, k, q, Top(c), {})
    BY <1>1, <1>2, TopStands
  <2> HIDE DEF b, k, q
  <2>2. /\ Is(tree, w, "dir")
        /\ \A r \in DOMAIN tree : IsPrefix(w, r) /\ r # w =>
              \/ r \in Kept(b, q) \/ \E y \in Top(c).todo : IsPrefix(Append(w, y.name), r)
        /\ Top(c).ret \/ \E x \in Names : Append(w, x) \in Kept(b, q)
    BY <1>1, <2>1, Zenon DEF Fits
  <2> HIDE DEF w
  <2> QED
    BY <1>1, <2>1, <2>2
<1> HIDE DEF b, k, q
<1>3. CASE CanRmdir(w) /\ SetTree(c, Without(tree, {w})) /\ Return(c, Top(c).ret)
  <2>1. TreeStep(c) /\ IsFileSystem(tree')
    BY <1>1, <1>3, Removes
  <2>2. ASSUME Alone(c), k.op \in RmOps
        PROVE  Shrinks(tree, tree', w) /\ Done(b, tree', q, w, Top(c).ret)
    <3>1. DOMAIN tree' = DOMAIN tree \ {w} /\ \A r \in DOMAIN tree \ {w} : tree'[r] = tree[r]
      <4>1. tree' = Without(tree, {w})
        BY <1>3 DEF SetTree
      <4> QED
        BY <1>1, <1>3, <4>1, RemovedKept
    <3>2. Stands(b, tree, k, q, w) /\ Is(tree, w, "dir") /\ Writable(w) /\ Below(tree, w) = {w}
      BY <1>2, <1>3, <2>2 DEF CanRmdir
    <3>3. Top(c).ret \/ \E x \in Names : Append(w, x) \in Kept(b, q)
      BY <1>2, <2>2
    <3> HIDE DEF w
    <3>4. w \in DOMAIN tree /\ tree[w] # Socket /\ \A r \in DOMAIN tree : Under(w, r) => r = w
      BY <3>2, NodeKinds DEF Is, Below
    <3>5. /\ Shrinks(tree, tree', w) /\ Done(b, tree', q, w, TRUE)
          /\ \A x \in Kept(b, q) : ~Under(w, x)
      BY <3>1, <3>2, <3>4, RemovedDone
    <3>6. Top(c).ret
      <4> SUFFICES ASSUME NEW x \in Names, Append(w, x) \in Kept(b, q)
                   PROVE  FALSE
        BY <3>3
      <4>1. w \in Paths
        BY <1>1, <3>2, SystemFacts
      <4>2. Append(w, x) \in Paths /\ Append(w, x) # <<>> /\ Front(Append(w, x)) = w
        BY <4>1, PathFacts
      <4>3. Under(w, Append(w, x))
        BY <4>2, UnderFacts
      <4> QED
        BY <3>5, <4>3
    <3> QED
      BY <1>1, <3>5, <3>6
  <2> QED
    BY <1>1, <1>3, <2>1, <2>2, AloneReturns DEF b, k, q
<1>4. CASE ~CanRmdir(w) /\ Return(c, FALSE) /\ UNCHANGED <<tree, hist>>
  <2>1. TreeStep(c) /\ IsFileSystem(tree') /\ tree' = tree
    BY <1>4, Quiet
  <2>2. ASSUME Alone(c), k.op \in RmOps
        PROVE  Shrinks(tree, tree', w) /\ Done(b, tree', q, w, FALSE)
    <3>1. ~Writable(w) \/ Below(tree, w) # {w}
      BY <1>2, <1>4, <2>2 DEF CanRmdir
    <3>2. Done(b, tree, q, w, FALSE)
      BY <1>2, <2>2, <3>1, RmdirFails
    <3> QED
      BY <2>1, <3>2, Unshrunk
  <2> QED
    BY <1>1, <1>4, <2>1, <2>2, AloneReturns DEF b, k, q
<1> QED
  BY <1>3, <1>4 DEF RmRmdir

-----------------------------------------------------------------------------
(***************************************************************************)
(* Mv and Symlink, alone.                                                  *)
(***************************************************************************)
\* The last frame returns.
LEMMA AloneEnds ==
    ASSUME FSInv, AllAlone, NEW c \in Callers, TreeStep(c), calls[c] # <<>>, Len(calls[c]) = 1,
           NEW r, Return(c, r), UNCHANGED call,
           Alone(c) /\ IsFileSystem(hist[c].before) => Exact(hist[c].before, tree', call[c], r)
    PROVE  AllAlone'
<1>1. Others(c) /\ result'[c] = {r} /\ calls'[c] = <<>>
  BY StackStep
<1>2. Alone(c) /\ IsFileSystem(hist[c].before) => Owed(c)
  BY <1>1 DEF Owed
<1> QED
  BY <1>1, <1>2, AloneStep

LEMMA PrefixesMeet ==
    ASSUME NEW p \in Paths, NEW q \in Paths, NEW r \in Paths, IsPrefix(p, r), IsPrefix(q, r)
    PROVE  IsPrefix(p, q) \/ IsPrefix(q, p)
<1>1. /\ Len(p) \in Nat /\ Len(q) \in Nat
      /\ \A i \in 1..Len(p) : p[i] = r[i]
      /\ \A i \in 1..Len(q) : q[i] = r[i]
  BY PrefixIs DEF Paths
<1>2. CASE Len(p) <= Len(q)
  <2>1. \A i \in 1..Len(p) : i \in 1..Len(q)
    BY <1>1, <1>2
  <2> QED
    BY <1>1, <1>2, <2>1, PrefixIs
<1>3. CASE Len(q) <= Len(p)
  <2>1. \A i \in 1..Len(q) : i \in 1..Len(p)
    BY <1>1, <1>3
  <2> QED
    BY <1>1, <1>3, <2>1, PrefixIs
<1> QED
  BY <1>1, <1>2, <1>3

\* What rename does with what is below f, and that it leaves nothing else there.
LEMMA RenamedMoves ==
    ASSUME IsFileSystem(tree), NEW f \in Paths, NEW q \in Paths
    PROVE  /\ \A s \in Below(tree, f) : Moved(s, f, q) \in DOMAIN Renamed(f, q) /\ Renamed(f, q)[Moved(s, f, q)] = tree[s]
           /\ \A r \in DOMAIN Renamed(f, q) : IsPrefix(f, r) => IsPrefix(q, r)
<1> DEFINE u == Renamed(f, q)
           S == {r \in DOMAIN tree : ~IsPrefix(f, r) /\ ~IsPrefix(q, r)}
           M == {Moved(r, f, q) : r \in Below(tree, f)}
<1>1. u = [r \in S \cup M |-> IF IsPrefix(q, r) THEN tree[Moved(r, q, f)] ELSE tree[r]]
  BY DEF Renamed
<1>2. \A s \in Below(tree, f) : s \in DOMAIN tree /\ s \in Paths /\ IsPrefix(f, s)
  BY SystemFacts DEF Below, Under
<1>3. ASSUME NEW s \in Below(tree, f)
      PROVE  IsPrefix(q, Moved(s, f, q)) /\ Moved(s, f, q) \in DOMAIN u /\ u[Moved(s, f, q)] = tree[s]
  <2>1. IsPrefix(q, Moved(s, f, q)) /\ Moved(Moved(s, f, q), q, f) = s
    BY <1>2, MovedFacts
  <2> QED
    BY <1>1, <2>1
<1>4. \A r \in DOMAIN u : r \in S \/ \E s \in Below(tree, f) : r = Moved(s, f, q)
  BY <1>1
<1>5. \A r \in DOMAIN u : IsPrefix(f, r) => IsPrefix(q, r)
  BY <1>3, <1>4
<1> QED
  BY <1>3, <1>5

\* What Rm has left for Mv and Symlink.
LEMMA RemovedFirst ==
    ASSUME FSInv, AllAlone, NEW c \in Callers, calls[c] # <<>>, Alone(c), Top(c).op \in {"Mv", "Symlink"}
    PROVE  LET b == hist[c].before
               q == Goal(c)
           IN  /\ Sound(b, call[c], q) /\ q \in Places /\ q = At(Top(c).path) /\ Partly(b, tree, q)
               /\ Cleared(b, tree, q, q) /\ (Top(c).ret <=> Kept(b, q) = {})
               /\ call[c].op = Top(c).op /\ call[c].arg \in Paths /\ IsFileSystem(b) /\ IsFileSystem(tree)
               /\ Kept(b, q) = {} => \A r \in DOMAIN tree : ~Under(q, r)
               /\ Kept(b, q) = {} => q \notin DOMAIN tree
<1> DEFINE b == hist[c].before
           k == call[c]
           q == Goal(c)
           w == At(Top(c).path)
<1>1. Len(calls[c]) = 1 /\ k.op = Top(c).op
  BY StackFacts DEF Serves
<1>2. k.op \in RmOps
  BY <1>1 DEF RmOps
<1>3. Sound(b, k, q) /\ Stands(b, tree, k, q, w) /\ Fits(b, tree, k, q, Top(c), {}) /\ w = q /\ q \in Places
  BY <1>1, <1>2, TopStands
<1> HIDE DEF b, k, q, w
<1>4. k.arg \in Paths /\ IsFileSystem(b)
  BY <1>1, <1>3, SoundFacts DEF Sound
<1>5. Cleared(b, tree, q, q) /\ (Top(c).ret <=> Kept(b, q) = {})
  BY <1>3 DEF Fits
<1>6. Partly(b, tree, q) /\ IsFileSystem(tree)
  BY <1>3 DEF Stands
<1>7. ASSUME Kept(b, q) = {}
      PROVE  (\A r \in DOMAIN tree : ~Under(q, r)) /\ q \notin DOMAIN tree
  <2>1. \A r \in DOMAIN tree : ~Under(q, r)
    BY <1>5, <1>7 DEF Cleared
  <2>2. q \in DOMAIN tree => q \in Paths
    BY <1>6, SystemFacts
  <2> QED
    BY <2>1, <2>2, UnderFacts
<1> QED
  BY <1>1, <1>3, <1>4, <1>5, <1>6, <1>7 DEF b, k, q, w

LEMMA SymlinkAlone ==
    ASSUME FSInv, AllAlone, NEW c \in Callers, Symlink(c)
    PROVE  AllAlone'
<1> DEFINE b == hist[c].before
           k == call[c]
           q == Goal(c)
           w == At(Top(c).path)
<1>1. /\ calls[c] # <<>> /\ Top(c) \in Frames /\ Top(c).op = "Symlink" /\ UNCHANGED call /\ Top(c).path \in Paths
      /\ Top(c).ret \in BOOLEAN
  BY InFacts DEF Symlink
<1>2. Len(calls[c]) = 1 /\ k.op = "Symlink" /\ k \in Calls
  BY <1>1, StackFacts DEF Serves
<1>3. ASSUME Alone(c)
      PROVE  /\ w = q /\ (Top(c).ret <=> Kept(b, q) = {}) /\ (Kept(b, q) = {} => q \notin DOMAIN tree)
             /\ Place(b, k.path, MaxLinks) = q
  BY <1>1, <1>3, RemovedFirst DEF Goal
<1>4. ASSUME Alone(c), NEW t, NEW r, SymlinkExact(b, t, k.arg, q, r)
      PROVE  Exact(b, t, k, r)
  BY <1>2, <1>3, <1>4 DEF Exact
<1> HIDE DEF b, k, q, w
<1>5. CASE Top(c).ret /\ CanMkdir(w) /\ SetTree(c, With(w, Link(k.arg))) /\ Return(c, TRUE)
  <2>1. k.arg \in Paths
    BY <1>2, FSAssumption
  <2>2. TreeStep(c) /\ tree' = With(w, Link(k.arg))
    <3>1. IsNode(Link(k.arg))
      BY <2>1, NodeKinds
    <3> QED
      BY <1>1, <1>5, <3>1, Makes DEF SetTree, w
  <2>3. Is(tree', w, "link") /\ tree'[w] = Link(k.arg)
    BY <2>2, NodeKinds DEF With, Is
  <2>4. ASSUME Alone(c)
        PROVE  Exact(b, tree', k, TRUE)
    <3>1. SymlinkExact(b, tree', k.arg, q, TRUE)
      BY <1>3, <1>5, <2>3, <2>4 DEF SymlinkExact, CanMkdir
    <3> QED
      BY <1>4, <2>4, <3>1
  <2> QED
    BY <1>1, <1>2, <1>5, <2>2, <2>4, AloneEnds DEF b, k
<1>6. CASE ~(Top(c).ret /\ CanMkdir(w)) /\ Return(c, FALSE) /\ UNCHANGED <<tree, hist>>
  <2>1. TreeStep(c)
    BY <1>6, Quiet
  <2>2. ASSUME Alone(c)
        PROVE  Exact(b, tree', k, FALSE)
    <3>1. SymlinkExact(b, tree', k.arg, q, FALSE)
      BY <1>3, <1>6, <2>2 DEF SymlinkExact, CanMkdir
    <3> QED
      BY <1>4, <2>2, <3>1
  <2> QED
    BY <1>1, <1>2, <1>6, <2>1, <2>2, AloneEnds DEF b, k
<1> QED
  BY <1>5, <1>6 DEF Symlink, k, w

\* Mv did rename.
LEMMA MvDone ==
    ASSUME NEW b, IsFileSystem(b), IsFileSystem(tree), NEW q \in Places, Partly(b, tree, q),
           \A r \in DOMAIN tree : ~Under(q, r), NEW p \in Paths, CanRename(At(p), q), tree' = Renamed(At(p), q)
    PROVE  MvExact(b, tree', p, q, TRUE)
<1> DEFINE f == At(p)
<1>1. f \in DOMAIN tree /\ f \in Paths /\ q \in Paths /\ (f # q => ~IsPrefix(f, q))
  BY SystemFacts DEF CanRename, Writable, Places
<1>2. Place(b, p, MaxLinks) = f
  <2>1. NoNewLinks(b, tree)
    BY DEF Partly, NoNewLinks, Is
  <2>2. SamePlace(b, tree, p, MaxLinks)
    BY <2>1, SamePlaces, Constants
  <2> QED
    BY <1>1, <2>2 DEF SamePlace, At, Partly
<1>3. tree' = Renamed(f, q)
  OBVIOUS
<1> HIDE DEF f
<1>4. f # q /\ ~IsPrefix(q, f)
  <2>1. ~Under(q, f)
    BY <1>1
  <2> QED
    BY <1>1, <2>1, PrefixFacts, Constants DEF Under
<1>5. ASSUME NEW s \in Below(b, f)
      PROVE  s \notin DOMAIN tree' /\ tree'[Moved(s, f, q)] = b[s]
  <2>1. s \in DOMAIN b /\ s \in Paths /\ IsPrefix(f, s) /\ Under(f, s)
    BY SystemFacts DEF Below, Under
  <2>2. ~IsPrefix(q, s)
    BY <1>1, <1>4, <2>1, PrefixesMeet
  <2>3. s \in DOMAIN tree /\ tree[s] = b[s]
    BY <2>1, <2>2 DEF Partly, Under
  <2>4. s \in Below(tree, f)
    BY <2>1, <2>3 DEF Below
  <2> DEFINE u == Renamed(f, q)
  <2>5. /\ u[Moved(s, f, q)] = tree[s]
        /\ \A r \in DOMAIN u : IsPrefix(f, r) => IsPrefix(q, r)
    BY <1>1, <2>4, RenamedMoves
  <2>6. tree' = u
    BY <1>3
  <2> HIDE DEF u
  <2> QED
    BY <2>1, <2>2, <2>3, <2>5, <2>6
<1> QED
  BY <1>2, <1>5 DEF MvExact

\* Mv could not rename, and has a reason.
LEMMA MvFailed ==
    ASSUME NEW b, IsFileSystem(b), IsFileSystem(tree), NEW q \in Places, Partly(b, tree, q),
           Kept(b, q) = {} => q \notin DOMAIN tree, NEW p \in Paths,
           Kept(b, q) = {} => ~CanRename(At(p), q)
    PROVE  MvExact(b, tree, p, q, FALSE)
<1> DEFINE f == Place(b, p, MaxLinks)
<1>1. \A s \in Below(b, f) \ Below(b, q) : s \in DOMAIN tree /\ tree[s] = b[s]
  BY DEF Below, Partly
<1>2. ASSUME f \in DOMAIN b, Writable(f), ~Under(f, q), ~Under(q, f), Avoids(b, p, q), Kept(b, q) = {}, Writable(q)
      PROVE  FALSE
  <2>1. q # <<>> /\ q # Nowhere /\ q \in Paths
    BY <1>2 DEF Writable, Places
  <2>2. Within(tree, b) /\ \A r \in DOMAIN b \ DOMAIN tree : Under(q, r)
    BY DEF Partly, Within
  <2>3. Place(tree, p, MaxLinks) = Place(b, p, MaxLinks)
    BY <1>2, <2>1, <2>2, AvoidsPlace
  <2>4. At(p) = f
    BY <2>3 DEF At
  <2> HIDE DEF f
  <2>5. f \in DOMAIN tree /\ q \notin DOMAIN tree
    BY <1>2, <2>2
  <2>6. ~IsPrefix(f, q)
    BY <1>2, <2>1, <2>5, SystemFacts DEF Under
  <2>7. CanRename(f, q)
    BY <1>2, <2>5, <2>6 DEF CanRename, Replaces
  <2> QED
    BY <1>2, <2>4, <2>7
<1> QED
  BY <1>1, <1>2 DEF MvExact

LEMMA MvAlone ==
    ASSUME FSInv, AllAlone, NEW c \in Callers, Mv(c)
    PROVE  AllAlone'
<1> DEFINE b == hist[c].before
           k == call[c]
           q == Goal(c)
           w == At(Top(c).path)
           f == At(k.arg)
<1>1. /\ calls[c] # <<>> /\ Top(c).op = "Mv" /\ UNCHANGED call
      /\ Top(c).ret \in BOOLEAN
  BY InFacts DEF Mv
<1>2. Len(calls[c]) = 1 /\ k.op = "Mv"
  BY <1>1, StackFacts DEF Serves
<1>3. ASSUME Alone(c)
      PROVE  /\ w = q /\ q \in Places /\ (Top(c).ret <=> Kept(b, q) = {}) /\ Partly(b, tree, q)
             /\ Place(b, k.path, MaxLinks) = q /\ k.arg \in Paths /\ IsFileSystem(b) /\ IsFileSystem(tree)
             /\ Kept(b, q) = {} => \A r \in DOMAIN tree : ~Under(q, r)
             /\ Kept(b, q) = {} => q \notin DOMAIN tree
  BY <1>1, <1>3, RemovedFirst DEF Goal
<1>4. ASSUME Alone(c), NEW t, NEW r, MvExact(b, t, k.arg, q, r)
      PROVE  Exact(b, t, k, r)
  BY <1>2, <1>3, <1>4 DEF Exact
<1> HIDE DEF b, k, q, w
<1>5. CASE Top(c).ret /\ CanRename(f, w) /\ SetTree(c, Renamed(f, w)) /\ Return(c, TRUE)
  <2>1. TreeStep(c) /\ tree' = Renamed(f, w)
    <3>1. tree' = Renamed(f, w)
      BY <1>5 DEF SetTree
    <3>2. SetTree(c, tree')
      BY <1>5, <3>1
    <3> QED
      BY <3>1, <3>2 DEF TreeStep
  <2>2. ASSUME Alone(c)
        PROVE  Exact(b, tree', k, TRUE)
    <3>1. CanRename(f, q) /\ tree' = Renamed(f, q) /\ \A r \in DOMAIN tree : ~Under(q, r)
      BY <1>3, <1>5, <2>1, <2>2
    <3>2. MvExact(b, tree', k.arg, q, TRUE)
      BY <1>3, <2>2, <3>1, MvDone
    <3> QED
      BY <1>4, <2>2, <3>2
  <2> QED
    BY <1>1, <1>2, <1>5, <2>1, <2>2, AloneEnds DEF b, k
<1>6. CASE ~(Top(c).ret /\ CanRename(f, w)) /\ Return(c, FALSE) /\ UNCHANGED <<tree, hist>>
  <2>1. TreeStep(c) /\ tree' = tree
    BY <1>6, Quiet
  <2>2. ASSUME Alone(c)
        PROVE  Exact(b, tree', k, FALSE)
    <3>1. Kept(b, q) = {} => ~CanRename(f, q)
      BY <1>3, <1>6, <2>2
    <3>2. MvExact(b, tree, k.arg, q, FALSE)
      BY <1>3, <2>2, <3>1, MvFailed
    <3> QED
      BY <1>4, <2>1, <2>2, <3>2
  <2> QED
    BY <1>1, <1>2, <1>6, <2>1, <2>2, AloneEnds DEF b, k
<1> QED
  BY <1>5, <1>6 DEF Mv, k, w

-----------------------------------------------------------------------------
(***************************************************************************)
(* Mkdir, alone.                                                           *)
(***************************************************************************)
LEMMA WayIs ==
    ASSUME NEW p \in Paths, NEW i \in 1..Len(p)
    PROVE  /\ SubSeq(p, 1, i) \in Paths /\ SubSeq(p, 1, i) \in OnTheWay(p) /\ IsPrefix(SubSeq(p, 1, i), p)
           /\ SubSeq(p, 1, i) = p <=> i = Len(p)
<1> DEFINE s == SubSeq(p, 1, i)
<1>1. p \in Seq(Names) /\ Len(p) \in Nat /\ i \in Nat /\ i <= Len(p)
  BY DEF Paths
<1>2. s \in Seq(Names) /\ Len(s) = i
  BY <1>1
<1>3. \A j \in 1..i : s[j] = p[j]
  BY <1>1
<1>4. s \in OnTheWay(p)
  BY DEF OnTheWay
<1> HIDE DEF s
<1>5. s \in Paths
  BY <1>2 DEF Paths
<1>6. IsPrefix(s, p)
  BY <1>1, <1>2, <1>3, <1>5, PrefixIs
<1>7. i = Len(p) => s = p
  BY <1>2, <1>3, <1>5, SamePath
<1>8. s \in Paths /\ s \in OnTheWay(p) /\ IsPrefix(s, p) /\ (s = p <=> i = Len(p))
  BY <1>2, <1>4, <1>5, <1>6, <1>7
<1> QED
  BY <1>8 DEF s

LEMMA OnTheWayIs ==
    ASSUME NEW p \in Paths, NEW s \in OnTheWay(p)
    PROVE  s \in Paths
<1>1. PICK i \in 1..Len(p) : s = SubSeq(p, 1, i)
  BY DEF OnTheWay
<1>2. SubSeq(p, 1, i) \in Paths
  BY WayIs
<1> QED
  BY <1>1, <1>2

\* A path leads to a directory only through directories.
LEMMA DirsOnTheWay ==
    ASSUME NEW t, IsFileSystem(t)
    PROVE  \A p \in Paths : Is(t, Target(t, p, MaxLinks), "dir") =>
              \A s \in Paths : IsPrefix(s, p) => Is(t, Target(t, s, MaxLinks), "dir")
<1> DEFINE Claim(p) == Is(t, Target(t, p, MaxLinks), "dir") =>
              \A s \in Paths : IsPrefix(s, p) => Is(t, Target(t, s, MaxLinks), "dir")
           T == {p \in Paths : Claim(p)}
<1>1. <<>> \in T
  <2>1. \A s \in Paths : IsPrefix(s, <<>>) => s = <<>>
    BY PathFacts, PrefixFacts
  <2> QED
    BY <2>1, PathFacts
<1>2. ASSUME NEW p \in Paths, p # <<>>, Front(p) \in T
      PROVE  p \in T
  <2> SUFFICES ASSUME Is(t, Target(t, p, MaxLinks), "dir"), NEW s \in Paths, IsPrefix(s, p)
               PROVE  Is(t, Target(t, s, MaxLinks), "dir")
    OBVIOUS
  <2>1. Front(p) \in Paths
    BY <1>2, PathFacts
  <2>2. Is(t, Target(t, Front(p), MaxLinks), "dir")
    <3> SUFFICES ASSUME ~Is(t, Target(t, Front(p), MaxLinks), "dir")
                 PROVE  FALSE
      OBVIOUS
    <3>1. Place(t, p, MaxLinks) = Nowhere
      BY <1>2, PlaceIs, Constants
    <3>2. Target(t, p, MaxLinks) = Nowhere
      BY <3>1, TargetPlace, SystemFacts, Constants
    <3> QED
      BY <3>2, SystemFacts
  <2>3. CASE s = p
    BY <2>3
  <2>4. CASE s # p
    <3>1. IsPrefix(s, Front(p))
      BY <1>2, <2>4, PrefixFacts
    <3>2. Claim(Front(p))
      BY <1>2
    <3> QED
      BY <2>2, <3>1, <3>2
  <2> QED
    BY <2>3, <2>4
<1> HIDE DEF T
<1>3. T \in SUBSET Paths
  BY DEF T
<1>4. T = Paths
  BY <1>1, <1>2, <1>3, PathInduction
<1> QED
  BY <1>4 DEF T

\* Making a directory on the way to p, where there is nothing, does not make p.
LEMMA NotYetThere ==
    ASSUME NEW t, IsFileSystem(t), NEW u, IsFileSystem(u), Within(t, u), NEW q, DOMAIN u \subseteq DOMAIN t \cup {q},
           NoNewLinks(t, u), NEW p \in Paths, NEW s \in Paths, IsPrefix(s, p), s # p,
           Place(t, s, MaxLinks) = q, q \notin DOMAIN t, Target(t, s, MaxLinks) \notin DOMAIN t,
           Place(t, p, MaxLinks) \notin DOMAIN t
    PROVE  Place(u, p, MaxLinks) \notin DOMAIN u
<1> SUFFICES ASSUME Place(u, p, MaxLinks) \in DOMAIN u
             PROVE  FALSE
  OBVIOUS
<1>1. SamePlace(t, u, p, MaxLinks)
  BY SamePlaces, Constants
<1>2. Place(u, p, MaxLinks) \notin DOMAIN t
  BY <1>1 DEF SamePlace
<1>3. Place(u, p, MaxLinks) = q
  BY <1>2
<1> DEFINE f == Front(p)
           d == Target(u, f, MaxLinks)
<1>4. p # <<>> /\ IsPrefix(s, f) /\ f \in Paths
  BY PrefixFacts, PathFacts
<1>5. Place(u, p, MaxLinks) # Nowhere
  BY SystemFacts
<1>6. Is(u, d, "dir") /\ q = Append(d, Last(p))
  BY <1>3, <1>4, <1>5, PlaceIs, Constants
<1>7. q # <<>> /\ Front(q) = d /\ q # Nowhere
  <2>1. d \in Paths /\ Last(p) \in Names
    BY <1>4, <1>6, SystemFacts, PathFacts
  <2> HIDE DEF d
  <2>2. Append(d, Last(p)) # <<>> /\ Front(Append(d, Last(p))) = d
    BY <2>1, PathFacts
  <2> QED
    BY <1>3, <1>5, <1>6, <2>2
<1>8. Is(t, d, "dir")
  <2>1. Is(t, Front(q), "dir")
    BY <1>7, PlaceIs, Constants
  <2> QED
    BY <1>7, <2>1
<1>9. Target(t, f, MaxLinks) = d
  <2>1. SameTarget(t, u, f, MaxLinks)
    BY <1>4, SamePlaces, Constants
  <2> QED
    BY <1>8, <2>1, SystemFacts DEF SameTarget, Is
<1>10. Is(t, Target(t, s, MaxLinks), "dir")
  BY <1>4, <1>8, <1>9, DirsOnTheWay
<1> QED
  BY <1>10 DEF Is

LEMMA GrownExact ==
    ASSUME NEW b, IsFileSystem(b), NEW t, NEW p, Grown(b, t, p), NEW r \in BOOLEAN,
           r <=> Place(t, p, MaxLinks) \in DOMAIN t,
           r \/ \E s \in OnTheWay(p) :
                   /\ Target(t, s, MaxLinks) \notin DOMAIN t
                   /\ ~Writable(Place(t, s, MaxLinks)) \/ Place(t, s, MaxLinks) \in DOMAIN t
    PROVE  MkdirExact(b, t, p, r)
<1>1. /\ \A q \in DOMAIN b : q \in DOMAIN t /\ t[q] = b[q]
      /\ \A q \in DOMAIN t \ DOMAIN b : t[q] = Dir /\ \E s \in OnTheWay(p) : Place(t, s, MaxLinks) = q
  BY DEF Grown
<1>2. Without(t, DOMAIN t \ DOMAIN b) = b
  <2>1. b = [q \in DOMAIN b |-> b[q]]
    BY DEF IsFileSystem
  <2>2. DOMAIN t \ (DOMAIN t \ DOMAIN b) = DOMAIN b
    BY <1>1
  <2>3. Without(t, DOMAIN t \ DOMAIN b) = [q \in DOMAIN b |-> t[q]]
    BY <2>2 DEF Without
  <2> QED
    BY <1>1, <2>1, <2>3
<1> QED
  BY <1>1, <1>2 DEF MkdirExact, OnTheWay

\* The frame of Mkdir returns.
LEMMA MkdirReturns ==
    ASSUME FSInv, AllAlone, NEW c \in Callers, TreeStep(c), calls[c] # <<>>, Top(c).op = "Mkdir",
           NEW r, Return(c, r), UNCHANGED call,
           Alone(c) /\ call[c].op = "Mkdir" => MkdirExact(hist[c].before, tree', call[c].path, r)
    PROVE  AllAlone'
<1> DEFINE b == hist[c].before
           k == call[c]
<1>1. /\ Others(c) /\ result'[c] = (IF Len(calls[c]) = 1 THEN {r} ELSE {})
      /\ Len(calls[c]) = 1 => calls'[c] = <<>>
  BY StackStep
<1>2. ASSUME Alone(c), IsFileSystem(b)
      PROVE  Owed(c)
  <2>1. k.op \notin RmOps
    <3> SUFFICES ASSUME k.op \in RmOps
                 PROVE  FALSE
      OBVIOUS
    <3>1. Fits(b, tree, k, Goal(c), Top(c), {})
      BY <1>2, TopStands
    <3> QED
      BY <3>1 DEF Fits, Removers
  <2>2. CASE k.op = "Mkdir"
    <3>1. Len(calls[c]) = 1
      BY <1>2, <2>2, TopMakes
    <3>2. calls'[c] = <<>> /\ result'[c] = {r}
      BY <1>1, <3>1
    <3>3. Exact(b, tree', k, r)
      BY <1>2, <2>2 DEF Exact
    <3> QED
      BY <3>2, <3>3 DEF Owed
  <2>3. CASE k.op # "Mkdir"
    <3>1. Len(calls[c]) # 1
      BY <2>1, <2>3, StackFacts DEF Serves, RmOps
    <3>2. result'[c] = {}
      BY <1>1, <3>1
    <3> QED
      BY <2>1, <2>3, <3>2 DEF Owed, RmOps
  <2> QED
    BY <2>2, <2>3
<1> QED
  BY <1>1, <1>2, AloneStep

\* The frame of Mkdir goes on.
LEMMA MkdirGoes ==
    ASSUME FSInv, AllAlone, NEW c \in Callers, TreeStep(c), calls[c] # <<>>, Top(c).op = "Mkdir",
           NEW f \in Frames, Goes(c, f), UNCHANGED call,
           Alone(c) /\ call[c].op = "Mkdir" => Making(hist[c].before, tree', call[c].path, f)
    PROVE  AllAlone'
<1> DEFINE b == hist[c].before
           k == call[c]
           z == Append(Front(calls[c]), f)
<1>1. Others(c) /\ result'[c] = {} /\ calls'[c] = z
  BY StackStep
<1>2. calls[c] \in Seq(Frames)
  BY StackFacts
<1>3. z \in Seq(Frames) /\ Len(z) = Len(calls[c]) /\ z[Len(calls[c])] = f /\ z # <<>>
  BY <1>2, GoesFrames
<1>4. Last(z) = f
  <2> HIDE DEF z
  <2> QED
    BY <1>3, FrontIs
<1>5. ASSUME Alone(c), IsFileSystem(b)
      PROVE  Owed(c)
  <2>1. k.op \notin RmOps
    <3> SUFFICES ASSUME k.op \in RmOps
                 PROVE  FALSE
      OBVIOUS
    <3>1. Fits(b, tree, k, Goal(c), Top(c), {})
      BY <1>5, TopStands
    <3> QED
      BY <3>1 DEF Fits, Removers
  <2>2. CASE k.op = "Mkdir"
    <3>1. Len(calls[c]) = 1 /\ Making(b, tree', k.path, f)
      BY <1>5, <2>2, TopMakes
    <3>2. Len(calls'[c]) = 1 /\ Making(b, tree', k.path, Last(calls'[c]))
      BY <1>1, <1>3, <1>4, <3>1
    <3> QED
      BY <1>1, <2>2, <3>2 DEF Owed
  <2>3. CASE k.op # "Mkdir"
    BY <1>1, <2>1, <2>3 DEF Owed, RmOps
  <2> QED
    BY <2>2, <2>3
<1> QED
  BY <1>1, <1>5, AloneStep

LEMMA NextPrefixAlone ==
    ASSUME FSInv, AllAlone, NEW c \in Callers, TreeStep(c), calls[c] # <<>>, Top(c).op = "Mkdir",
           NextPrefix(c), UNCHANGED call,
           Alone(c) /\ call[c].op = "Mkdir" =>
              /\ Grown(hist[c].before, tree', call[c].path)
              /\ Top(c).i = Len(Top(c).path) <=> Place(tree', call[c].path, MaxLinks) \in DOMAIN tree'
    PROVE  AllAlone'
<1>1. Top(c) \in Frames /\ Top(c).i \in Nat \ {0}
  BY StackFacts DEF Frames
<1>2. CASE Top(c).i = Len(Top(c).path)
  <2>1. Return(c, TRUE)
    BY <1>2 DEF NextPrefix
  <2>2. ASSUME Alone(c), call[c].op = "Mkdir"
        PROVE  MkdirExact(hist[c].before, tree', call[c].path, TRUE)
    BY <1>2, <2>2, TopMakes, GrownExact
  <2> QED
    BY <2>1, <2>2, MkdirReturns
<1>3. CASE Top(c).i # Len(Top(c).path)
  <2> DEFINE i == Top(c).i + 1
             f == NextFrame(Top(c), "access", i)
  <2>1. Goes(c, f)
    BY <1>3 DEF NextPrefix, NextFrame
  <2>2. i \in Nat \ {0}
    BY <1>1
  <2>3. "access" \in Pcs
    BY DEF Pcs
  <2> HIDE DEF i
  <2>4. f \in Frames /\ f.op = "Mkdir" /\ f.path = Top(c).path
    BY <1>1, <2>2, <2>3, FrameNext
  <2>5. f.pc = "access"
    BY <1>1 DEF NextFrame, Frames
  <2> HIDE DEF f
  <2>6. ASSUME Alone(c), call[c].op = "Mkdir"
        PROVE  Making(hist[c].before, tree', call[c].path, f)
    BY <1>3, <2>4, <2>5, <2>6 DEF Making
  <2> QED
    BY <2>1, <2>4, <2>6, MkdirGoes
<1> QED
  BY <1>2, <1>3

LEMMA MkdirLstatAlone ==
    ASSUME FSInv, AllAlone, NEW c \in Callers, MkdirLstat(c)
    PROVE  AllAlone'
<1> DEFINE b == hist[c].before
           k == call[c]
           p == Top(c).path
<1>1. calls[c] # <<>> /\ Top(c) \in Frames /\ Top(c).op = "Mkdir"
  BY InFacts DEF MkdirLstat
<1>2. UNCHANGED <<tree, hist, call>> /\ TreeStep(c) /\ tree' = tree
  BY Quiet DEF MkdirLstat
<1>3. ASSUME Alone(c), k.op = "Mkdir"
      PROVE  Grown(b, tree, k.path) /\ p = k.path /\ IsFileSystem(b)
  BY <1>1, <1>3, TopMakes DEF Making
<1> HIDE DEF b, k
<1>4. CASE At(p) \in DOMAIN tree
  <2>1. Return(c, TRUE)
    BY <1>4 DEF MkdirLstat
  <2>2. ASSUME Alone(c), k.op = "Mkdir"
        PROVE  MkdirExact(b, tree, k.path, TRUE)
    BY <1>3, <1>4, <2>2, GrownExact DEF At
  <2> QED
    BY <1>1, <1>2, <2>1, <2>2, MkdirReturns DEF b, k
<1>5. CASE At(p) \notin DOMAIN tree
  <2> DEFINE f == [Top(c) EXCEPT !.pc = "access"]
  <2>1. Goes(c, f)
    BY <1>5 DEF MkdirLstat
  <2>2. f \in Frames /\ f.op = "Mkdir" /\ f.pc = "access"
    BY <1>1, FrameTo DEF Pcs
  <2> HIDE DEF f
  <2>3. ASSUME Alone(c), k.op = "Mkdir"
        PROVE  Making(b, tree, k.path, f)
    BY <1>3, <1>5, <2>2, <2>3 DEF Making, At
  <2> QED
    BY <1>1, <1>2, <2>1, <2>2, <2>3, MkdirGoes DEF b, k
<1> QED
  BY <1>4, <1>5

LEMMA MkdirAccessAlone ==
    ASSUME FSInv, AllAlone, NEW c \in Callers, MkdirAccess(c)
    PROVE  AllAlone'
<1> DEFINE b == hist[c].before
           k == call[c]
           p == Top(c).path
<1>1. /\ calls[c] # <<>> /\ Top(c) \in Frames /\ Top(c).op = "Mkdir" /\ Top(c).pc = "access" /\ p \in Paths
      /\ Top(c).i \in Nat \ {0} /\ OnPath(Top(c)) /\ IsFileSystem(tree)
  BY InFacts DEF MkdirAccess, FSInv
<1>2. UNCHANGED <<tree, hist, call>> /\ TreeStep(c) /\ tree' = tree
  BY Quiet DEF MkdirAccess
<1>3. ASSUME Alone(c), k.op = "Mkdir"
      PROVE  Grown(b, tree, k.path) /\ p = k.path /\ Place(tree, k.path, MaxLinks) \notin DOMAIN tree
  BY <1>1, <1>3, TopMakes DEF Making
<1>4. Top(c).i \in 1..Len(p)
  BY <1>1 DEF OnPath, Paths
<1>5. Prefix(c) = SubSeq(p, 1, Top(c).i)
  BY DEF Prefix
<1> HIDE DEF b, k
<1>6. CASE End(Prefix(c)) \in DOMAIN tree
  <2>1. NextPrefix(c)
    BY <1>6 DEF MkdirAccess
  <2>2. ASSUME Alone(c), k.op = "Mkdir", Top(c).i = Len(p)
        PROVE  FALSE
    <3>1. Prefix(c) = p
      BY <1>1, <1>4, <1>5, <2>2, WayIs
    <3>2. Target(tree, p, MaxLinks) \in DOMAIN tree
      BY <1>6, <3>1 DEF End
    <3>3. Place(tree, p, MaxLinks) \in DOMAIN tree
      BY <1>1, <3>2, EndPlace
    <3> QED
      BY <1>3, <2>2, <3>3
  <2>3. Alone(c) /\ k.op = "Mkdir" =>
           /\ Grown(b, tree', k.path)
           /\ Top(c).i = Len(Top(c).path) <=> Place(tree', k.path, MaxLinks) \in DOMAIN tree'
    BY <1>2, <1>3, <2>2
  <2> QED
    BY <1>1, <1>2, <2>1, <2>3, NextPrefixAlone DEF b, k
<1>7. CASE End(Prefix(c)) \notin DOMAIN tree
  <2> DEFINE f == [Top(c) EXCEPT !.pc = "mkdir"]
  <2>1. Goes(c, f)
    BY <1>7 DEF MkdirAccess
  <2>2. f \in Frames /\ f.op = "Mkdir" /\ f.pc = "mkdir" /\ f.i = Top(c).i
    BY <1>1, FrameTo DEF Pcs
  <2> HIDE DEF f
  <2>3. ASSUME Alone(c), k.op = "Mkdir"
        PROVE  Making(b, tree, k.path, f)
    <3>1. Target(tree, SubSeq(k.path, 1, f.i), MaxLinks) \notin DOMAIN tree
      BY <1>3, <1>5, <1>7, <2>2, <2>3 DEF End
    <3> QED
      BY <1>3, <2>2, <2>3, <3>1 DEF Making
  <2> QED
    BY <1>1, <1>2, <2>1, <2>2, <2>3, MkdirGoes DEF b, k
<1> QED
  BY <1>6, <1>7

\* One more directory on the way to p.
LEMMA GrownMore ==
    ASSUME NEW b, NEW t, IsFileSystem(t), NEW u, IsFileSystem(u), Within(t, u), NEW p \in Paths, Grown(b, t, p),
           NEW q, DOMAIN u \subseteq DOMAIN t \cup {q}, q \in DOMAIN u => u[q] = Dir,
           NEW s \in OnTheWay(p), Place(u, s, MaxLinks) = q
    PROVE  Grown(b, u, p)
<1>1. \A r \in DOMAIN b : r \in DOMAIN u /\ u[r] = b[r]
  BY DEF Grown, Within
<1>2. ASSUME NEW r \in DOMAIN u \ DOMAIN b
      PROVE  u[r] = Dir /\ \E x \in OnTheWay(p) : Place(u, x, MaxLinks) = r
  <2>1. CASE r = q
    BY <2>1
  <2>2. CASE r # q
    <3>1. r \in DOMAIN t \ DOMAIN b
      BY <2>2
    <3>2. PICK x \in OnTheWay(p) : Place(t, x, MaxLinks) = r
      BY <3>1 DEF Grown
    <3>3. x \in Paths /\ Place(t, x, MaxLinks) # Nowhere
      BY <3>1, <3>2, OnTheWayIs, SystemFacts
    <3>4. Place(u, x, MaxLinks) = r
      BY <3>2, <3>3, GrowsPlace
    <3>5. u[r] = t[r] /\ t[r] = Dir
      BY <3>1 DEF Within, Grown
    <3> QED
      BY <3>4, <3>5
  <2> QED
    BY <2>1, <2>2
<1> QED
  BY <1>1, <1>2 DEF Grown

LEMMA MkdirMkdirAlone ==
    ASSUME FSInv, AllAlone, NEW c \in Callers, MkdirMkdir(c)
    PROVE  AllAlone'
<1> DEFINE b == hist[c].before
           k == call[c]
           p == Top(c).path
           s == Prefix(c)
           q == At(s)
<1>1. /\ calls[c] # <<>> /\ Top(c) \in Frames /\ Top(c).op = "Mkdir" /\ Top(c).pc = "mkdir" /\ p \in Paths
      /\ Top(c).i \in Nat \ {0} /\ OnPath(Top(c)) /\ IsFileSystem(tree) /\ UNCHANGED call
  BY InFacts DEF MkdirMkdir, FSInv
<1>2. Top(c).i \in 1..Len(p) /\ s = SubSeq(p, 1, Top(c).i)
  BY <1>1 DEF OnPath, Paths, Prefix
<1>3. ASSUME Alone(c), k.op = "Mkdir"
      PROVE  /\ Grown(b, tree, k.path) /\ p = k.path /\ Place(tree, k.path, MaxLinks) \notin DOMAIN tree
             /\ Target(tree, s, MaxLinks) \notin DOMAIN tree /\ IsFileSystem(b)
  BY <1>1, <1>2, <1>3, TopMakes DEF Making
<1> HIDE DEF s
<1>4. s \in Paths /\ s \in OnTheWay(p) /\ IsPrefix(s, p) /\ (s = p <=> Top(c).i = Len(p))
  BY <1>1, <1>2, WayIs
<1> HIDE DEF b, k, q, p
<1>5. CASE CanMkdir(q) /\ SetTree(c, With(q, Dir)) /\ NextPrefix(c)
  <2>1. /\ TreeStep(c) /\ IsFileSystem(tree') /\ NoNewLinks(tree, tree')
        /\ Place(tree', s, MaxLinks) \in DOMAIN tree'
        /\ Within(tree, tree')
    BY <1>4, <1>5, Makes, NodeKinds DEF q, Within
  <2>2. DOMAIN tree' = DOMAIN tree \cup {q} /\ tree'[q] = Dir /\ q \notin DOMAIN tree
    BY <1>5 DEF SetTree, With, CanMkdir
  <2>3. Place(tree', s, MaxLinks) = q /\ Place(tree, s, MaxLinks) = q
    <3>1. Place(tree, s, MaxLinks) = q
      BY DEF q, At
    <3>2. q # Nowhere
      BY <1>5 DEF CanMkdir, Writable
    <3> QED
      BY <1>1, <1>4, <2>1, <3>1, <3>2, GrowsPlace
  <2>4. ASSUME Alone(c), k.op = "Mkdir"
        PROVE  /\ Grown(b, tree', k.path)
               /\ Top(c).i = Len(p) <=> Place(tree', k.path, MaxLinks) \in DOMAIN tree'
    <3>1. /\ Grown(b, tree, p) /\ p = k.path /\ Place(tree, p, MaxLinks) \notin DOMAIN tree
          /\ Target(tree, s, MaxLinks) \notin DOMAIN tree
      BY <1>3, <2>4
    <3> DEFINE u == tree'
    <3>2. /\ IsFileSystem(u) /\ NoNewLinks(tree, u) /\ Within(tree, u) /\ Place(u, s, MaxLinks) = q
          /\ DOMAIN u \subseteq DOMAIN tree \cup {q} /\ u[q] = Dir /\ q \in DOMAIN u
      BY <2>1, <2>2, <2>3
    <3> HIDE DEF u
    <3>3. Grown(b, u, p)
      BY <1>1, <1>4, <3>1, <3>2, GrownMore DEF p
    <3>4. s # p => Place(u, p, MaxLinks) \notin DOMAIN u
      BY <1>1, <1>4, <2>2, <2>3, <3>1, <3>2, NotYetThere DEF p
    <3>5. s = p => Place(u, p, MaxLinks) \in DOMAIN u
      BY <3>2
    <3> QED
      BY <1>4, <3>1, <3>3, <3>4, <3>5 DEF u
  <2> QED
    BY <1>1, <1>5, <2>1, <2>4, NextPrefixAlone DEF b, k, p
<1>6. CASE ~CanMkdir(q) /\ Return(c, FALSE) /\ UNCHANGED <<tree, hist>>
  <2>1. TreeStep(c) /\ tree' = tree
    BY <1>6, Quiet
  <2>2. ASSUME Alone(c), k.op = "Mkdir"
        PROVE  MkdirExact(b, tree, k.path, FALSE)
    <3>1. ~Writable(Place(tree, s, MaxLinks)) \/ Place(tree, s, MaxLinks) \in DOMAIN tree
      BY <1>6 DEF CanMkdir, q, At
    <3>2. s \in OnTheWay(k.path)
      BY <1>3, <1>4, <2>2
    <3> QED
      BY <1>3, <2>2, <3>1, <3>2, GrownExact
  <2> QED
    BY <1>1, <1>6, <2>1, <2>2, MkdirReturns DEF b, k
<1> QED
  BY <1>5, <1>6 DEF MkdirMkdir, q, s

-----------------------------------------------------------------------------
(***************************************************************************)
(* The other operations, and calls.                                        *)
(***************************************************************************)
LEMMA OtherStep ==
    ASSUME FSInv, AllAlone, NEW c \in Callers, TreeStep(c), Others(c), UNCHANGED call,
           call[c].op \notin {"Rm", "Mv", "Symlink", "Mkdir"},
           \A r \in result'[c] : Exact(hist[c].before, tree', call[c], r)
    PROVE  AllAlone'
<1>1. Owed(c)
  BY DEF Owed
<1> QED
  BY <1>1, AloneStep

LEMMA ListAlone ==
    ASSUME FSInv, AllAlone, NEW c \in Callers, ListNext(c)
    PROVE  AllAlone'
<1>1. calls[c] # <<>> /\ Top(c).op = "ListAllFile" /\ UNCHANGED <<tree, hist, call>>
  BY InFacts DEF ListNext, ListAccess, ListOpendir, ListReaddir, ListReturn
<1>2. call[c].op = "ListAllFile" /\ TreeStep(c)
  BY <1>1, StackFacts, Quiet
<1>3. Others(c)
  <2>1. (\E f : Goes(c, f)) \/ (\E f, g : Pushes(c, f, g)) \/ Return(c, TRUE)
    <3>1. CASE ListAccess(c)
      BY <3>1 DEF ListAccess
    <3>2. CASE ListOpendir(c)
      BY <3>2 DEF ListOpendir
    <3>3. CASE ListReaddir(c)
      <4>1. PICK e \in Top(c).todo :
               LET p == Append(Top(c).path, e.name)
                   rest == [Top(c) EXCEPT !.todo = @ \ {e}]
               IN  IF e.kind = "dir" THEN Pushes(c, rest, Frame("ListAllFile", "access", p)) ELSE Goes(c, rest)
        BY <3>3, Zenon DEF ListReaddir
      <4> QED
        BY <4>1, Zenon
    <3>4. CASE ListReturn(c)
      BY <3>4 DEF ListReturn
    <3> QED
      BY <3>1, <3>2, <3>3, <3>4 DEF ListNext
  <2> QED
    BY <1>1, <2>1, StackStep
<1>4. \A r \in result'[c] : Exact(hist[c].before, tree', call[c], r)
  BY <1>2 DEF Exact
<1> QED
  BY <1>1, <1>2, <1>3, <1>4, OtherStep

LEMMA OpenForWriteMkdirAlone ==
    ASSUME FSInv, AllAlone, NEW c \in Callers, OpenForWriteMkdir(c)
    PROVE  AllAlone'
<1>1. calls[c] # <<>> /\ Top(c).op = "OpenForWrite" /\ UNCHANGED <<tree, hist, call>>
  BY InFacts DEF OpenForWriteMkdir
<1>2. call[c].op = "OpenForWrite" /\ TreeStep(c)
  BY <1>1, StackFacts, Quiet DEF Serves
<1>3. Others(c) /\ result'[c] = {}
  <2>1. PICK f, g : Pushes(c, f, g)
    BY DEF OpenForWriteMkdir
  <2> QED
    BY <1>1, <2>1, StackStep
<1> QED
  BY <1>1, <1>2, <1>3, OtherStep

LEMMA OpenForWriteAlone ==
    ASSUME FSInv, AllAlone, NEW c \in Callers, OpenForWrite(c)
    PROVE  AllAlone'
<1> DEFINE p == Top(c).path
           q == End(p)
           k == call[c]
<1>0. In(c, "OpenForWrite", "open") \/ In(c, "OpenForWrite", "again")
  BY DEF OpenForWrite
<1>1. /\ calls[c] # <<>> /\ Top(c).op = "OpenForWrite" /\ p \in Paths /\ UNCHANGED call /\ IsFileSystem(tree)
  BY <1>0, InFacts DEF OpenForWrite, FSInv
<1>2. k.op = "OpenForWrite" /\ k.path = p /\ Len(calls[c]) = 1
  BY <1>1, StackFacts DEF Serves
<1>3. CanOpen(q) \in BOOLEAN
  BY DEF CanOpen, Is, CanMkdir
<1>4. Return(c, CanOpen(q))
  <2>1. CASE CanOpen(q) = TRUE
    BY <2>1 DEF OpenForWrite
  <2>2. CASE CanOpen(q) # TRUE
    BY <1>3, <2>2 DEF OpenForWrite
  <2> QED
    BY <2>1, <2>2
<1>5. TreeStep(c) /\ (CanOpen(q) <=> Is(tree', Target(tree', p, MaxLinks), "file"))
  <2>1. CASE ~CanOpen(q)
    <3>1. UNCHANGED <<tree, hist>> /\ ~Is(tree, q, "file")
      BY <2>1 DEF OpenForWrite, CanOpen
    <3> QED
      BY <2>1, <3>1, Quiet DEF End
  <2>2. CASE Is(tree, q, "file")
    <3>1. SetTree(c, Opened(q)) /\ Opened(q) = tree
      BY <2>2 DEF OpenForWrite, Opened, Is, CanOpen
    <3>2. tree' = tree
      BY <3>1 DEF SetTree
    <3>3. SetTree(c, tree')
      BY <3>1, <3>2
    <3> QED
      BY <2>2, <3>2, <3>3 DEF TreeStep, End, CanOpen
  <2>3. CASE ~Is(tree, q, "file") /\ CanMkdir(q)
    <3>1. SetTree(c, With(q, NewFile))
      BY <2>3 DEF OpenForWrite, Opened, CanOpen, CanMkdir
    <3>2. TreeStep(c) /\ IsFileSystem(tree') /\ \A r \in DOMAIN tree : r \in DOMAIN tree' /\ tree'[r] = tree[r]
      BY <1>1, <2>3, <3>1, Makes, NodeKinds
    <3>3. tree' = With(q, NewFile)
      BY <3>1 DEF SetTree
    <3>4. Is(tree', q, "file") /\ q \in DOMAIN tree' /\ ~Is(tree', q, "link") /\ DOMAIN tree' = DOMAIN tree \cup {q}
      BY <3>3, NodeKinds DEF With, Is
    <3>5. NoNewLinks(tree', tree)
      BY <3>2 DEF NoNewLinks, Is
    <3>6. SameTarget(tree', tree, p, MaxLinks)
      BY <1>1, <3>2, <3>5, SamePlaces, Constants
    <3>7. Target(tree', p, MaxLinks) = q
      BY <3>4, <3>6 DEF SameTarget, End
    <3> QED
      BY <2>3, <3>2, <3>4, <3>7 DEF CanOpen
  <2> QED
    BY <2>1, <2>2, <2>3 DEF CanOpen
<1>6. Exact(hist[c].before, tree', k, CanOpen(q))
  BY <1>2, <1>5 DEF Exact
<1> QED
  BY <1>1, <1>2, <1>4, <1>5, <1>6, AloneEnds

LEMMA CallStack ==
    ASSUME FSInv, NEW c \in Callers, NEW k \in Calls, Call(c, k)
    PROVE  /\ k.op \in {"Mv", "Symlink"} => calls'[c] = <<Frame(k.op, "link", k.path), Frame("Rm", "lstat", k.path)>>
           /\ k.op \in {"Rm", "Mkdir"} => calls'[c] = <<Frame(k.op, "lstat", k.path)>>
<1>1. DOMAIN calls = Callers
  BY DEF FSInv
<1>2. calls'[c] =
          CASE k.op \in {"Mv", "Symlink"} -> <<Frame(k.op, "link", k.path), Frame("Rm", "lstat", k.path)>>
            [] k.op = "Unlink" /\ k.arg -> <<Frame("Unlink", "unlink", k.path)>>
            [] k.op = "OpenForWrite" -> <<Frame(k.op, "open", k.path)>>
            [] k.op = "ListAllFile" -> <<Frame(k.op, "access", k.path)>>
            [] OTHER -> <<Frame(k.op, "lstat", k.path)>>
  BY <1>1 DEF Call
<1> QED
  BY <1>2

LEMMA RemovingBegins ==
    ASSUME NEW t, NEW k \in Calls, NEW q, NEW s,
           \/ k.op = "Rm" /\ s = <<Frame("Rm", "lstat", k.path)>>
           \/ k.op \in {"Mv", "Symlink"} /\ s = <<Frame(k.op, "link", k.path), Frame("Rm", "lstat", k.path)>>
    PROVE  Removing(t, t, k, q, s)
<1> DEFINE f == Frame(k.op, "link", k.path)
           g == Frame("Rm", "lstat", k.path)
<1>1. k.path \in Paths /\ k.op \in Ops /\ "Rm" \in Ops /\ "link" \in Pcs /\ "lstat" \in Pcs
  BY FSAssumption DEF Ops, Pcs
<1>2. f \in Frames /\ f.op = k.op /\ f.path = k.path
  BY <1>1, FrameTyped
<1>3. g \in Frames /\ g.op = "Rm" /\ g.pc = "lstat" /\ g.path = k.path
  BY <1>1, FrameTyped
<1>4. g.ret
  BY DEF Frame
<1>5. Len(k.path) \in Nat /\ IsPrefix(k.path, k.path)
  BY <1>1, PrefixFacts DEF Paths
<1> HIDE DEF f, g
<1>6. Fits(t, t, k, q, g, {})
  BY <1>3, <1>4, <1>5 DEF Fits, Removers
<1>7. Partly(t, t, q)
  BY DEF Partly
<1>8. CASE k.op = "Rm" /\ s = <<g>>
  <2>1. s \in Seq(Frames) /\ Len(s) = 1 /\ s[1] = g
    BY <1>3, <1>8, OneFrame
  <2>2. 1 \in 1..Len(s) /\ \A j \in 1..Len(s) : j = 1
    BY <2>1
  <2>3. Over(s, 1) = {}
    BY <2>1, <2>2, OverIs
  <2>4. Depth(s, k, 1)
    BY <1>3, <1>5, <1>8, <2>1 DEF Depth
  <2> QED
    BY <1>6, <1>7, <2>1, <2>2, <2>3, <2>4 DEF Removing
<1>9. CASE k.op \in {"Mv", "Symlink"} /\ s = <<f, g>>
  <2>1. s \in Seq(Frames) /\ Len(s) = 2 /\ s[1] = f /\ s[2] = g
    BY <1>2, <1>3, <1>9, TwoFrames
  <2>2. 1 \in 1..Len(s) /\ 2 \in 1..Len(s) /\ \A j \in 1..Len(s) : j = 1 \/ j = 2
    BY <2>1
  <2>3. Over(s, 2) = {}
    <3>1. 2 = Len(s)
      BY <2>1
    <3> QED
      BY <2>1, <2>2, <3>1, OverIs
  <2>4. Over(s, 1) = {k.path}
    <3>1. 1 # Len(s) /\ s[1 + 1] = g
      BY <2>1
    <3>2. Over(s, 1) = {s[1 + 1].path}
      BY <2>1, <2>2, <3>1, OverIs
    <3> QED
      BY <1>3, <3>1, <3>2
  <2>5. Depth(s, k, 2)
    <3>1. Len(k.path) + 2 = Len(k.path) + 2
      OBVIOUS
    <3> QED
      BY <1>3, <1>9, <2>1, <3>1 DEF Depth
  <2>6. Depth(s, k, 1)
    BY <1>2, <1>9, <2>1 DEF Depth
  <2>7. Fits(t, t, k, q, f, {k.path})
    BY <1>2, <1>5, <1>9 DEF Fits, Removers
  <2> QED
    BY <1>6, <1>7, <2>1, <2>2, <2>3, <2>4, <2>5, <2>6, <2>7 DEF Removing
<1> QED
  BY <1>8, <1>9 DEF f, g

LEMMA MakingBegins ==
    ASSUME NEW t, NEW k \in Calls, k.op = "Mkdir", NEW s, s = <<Frame("Mkdir", "lstat", k.path)>>
    PROVE  Len(s) = 1 /\ Making(t, t, k.path, Last(s))
<1> DEFINE f == Frame("Mkdir", "lstat", k.path)
           z == <<f>>
<1>1. k.path \in Paths /\ "Mkdir" \in Ops /\ "lstat" \in Pcs
  BY FSAssumption DEF Ops, Pcs
<1>2. f \in Frames /\ f.op = "Mkdir" /\ f.pc = "lstat"
  BY <1>1, FrameTyped
<1> HIDE DEF f
<1>3. z \in Seq(Frames) /\ Len(z) = 1 /\ z[1] = f /\ z # <<>>
  BY <1>2, OneFrame
<1> HIDE DEF z
<1>4. Last(z) = f
  BY <1>3, FrontIs
<1>5. Grown(t, t, k.path)
  BY DEF Grown
<1>6. Making(t, t, k.path, Last(z)) /\ Len(z) = 1
  BY <1>2, <1>3, <1>4, <1>5 DEF Making
<1>7. s = z
  BY DEF z, f
<1> QED
  BY <1>6, <1>7

LEMMA CallAlone ==
    ASSUME FSInv, AllAlone, NEW c \in Callers, NEW k \in Calls, Call(c, k)
    PROVE  AllAlone'
<1> DEFINE s == calls'[c]
           q == Place(tree, k.path, MaxLinks)
<1>1. /\ IsFileSystem(tree) /\ DOMAIN calls = Callers /\ DOMAIN result = Callers
      /\ DOMAIN call = Callers /\ DOMAIN hist = Callers /\ \A x \in Callers : AloneInv(x)
  BY DEF FSInv, AllAlone
<1>2. tree' = tree /\ call'[c] = k /\ result'[c] = {}
  BY <1>1 DEF Call
<1>3. hist'[c].before = tree
  BY <1>1 DEF Call
<1>4. /\ k.op \in {"Mv", "Symlink"} => s = <<Frame(k.op, "link", k.path), Frame("Rm", "lstat", k.path)>>
      /\ k.op \in {"Rm", "Mkdir"} => s = <<Frame(k.op, "lstat", k.path)>>
  BY CallStack
<1> HIDE DEF s, q
<1>5. k.op \in {"Rm", "Mv", "Symlink"} => Removing(tree, tree, k, q, s)
  BY <1>4, RemovingBegins
<1>6. k.op = "Mkdir" => Len(s) = 1 /\ Making(tree, tree, k.path, Last(s))
  BY <1>4, MakingBegins
<1>7. AloneInv(c)'
  <2>1. Top(c)' = Last(s)
    BY DEF Top, s
  <2> QED
    BY <1>1, <1>2, <1>3, <1>5, <1>6, <2>1 DEF AloneInv, s, q
<1>8. ASSUME NEW x \in Callers, x # c
      PROVE  AloneInv(x)'
  <2>1. /\ calls'[x] = calls[x] /\ result'[x] = result[x]
        /\ call'[x] = call[x] /\ hist'[x] = hist[x]
    BY <1>1, <1>8 DEF Call
  <2> QED
    BY <1>1, <1>2, <2>1 DEF AloneInv, Top
<1> QED
  BY <1>7, <1>8 DEF AllAlone

LEMMA InitAlone == Init => AllAlone
<1> SUFFICES ASSUME Init, NEW c \in Callers
             PROVE  AloneInv(c)
  BY DEF AllAlone
<1>1. hist[c].alone = FALSE
  BY DEF Init
<1> QED
  BY <1>1 DEF AloneInv

LEMMA NextAlone == FSInv /\ AllAlone /\ [Next]_vars => AllAlone'
<1> SUFFICES ASSUME FSInv, AllAlone, [Next]_vars
             PROVE  AllAlone'
  OBVIOUS
<1>1. CASE UNCHANGED vars
  <2>1. tree' = tree /\ calls' = calls /\ result' = result /\ call' = call /\ hist' = hist
    BY <1>1 DEF vars
  <2> QED
    BY <2>1 DEF AllAlone, AloneInv, Top
<1>2. ASSUME NEW c \in Callers, NEW k \in Calls, Call(c, k)
      PROVE  AllAlone'
  BY <1>2, CallAlone
<1>3. ASSUME NEW c \in Callers, MkdirNext(c)
      PROVE  AllAlone'
  BY <1>3, MkdirLstatAlone, MkdirAccessAlone, MkdirMkdirAlone DEF MkdirNext
<1>4. ASSUME NEW c \in Callers, RmNext(c)
      PROVE  AllAlone'
  BY <1>4, UnlinkLstatAlone, UnlinkUnlinkAlone, RmLstatAlone, RmOpendirAlone, RmReaddirAlone, RmRmdirAlone DEF RmNext
<1>5. ASSUME NEW c \in Callers, Mv(c) \/ Symlink(c) \/ OpenForWrite(c) \/ OpenForWriteMkdir(c)
      PROVE  AllAlone'
  BY <1>5, MvAlone, SymlinkAlone, OpenForWriteAlone, OpenForWriteMkdirAlone
<1>6. ASSUME NEW c \in Callers, ListNext(c)
      PROVE  AllAlone'
  BY <1>6, ListAlone
<1> QED
  BY <1>1, <1>2, <1>3, <1>4, <1>5, <1>6 DEF Next

\* Whatever is at the paths it is given, links, sockets and directories that cannot be changed
\* among it: a call that no other comes between, unless its path leads through what it removes,
\* removes all that can be removed and nothing else, makes what is missing on the way to a
\* directory and nothing else, does not lose what it moves, and reports success if and only if
\* it has done what it is for; what it fails for is named.
THEOREM AloneIsExact == Spec => []AloneExact
<1>1. AllAlone => AloneExact
  BY DEF AllAlone, AloneInv, AloneExact
<1>2. Spec => []AllAlone
  BY InitAlone, NextAlone, FramesRely, PTL DEF Spec
<1> QED
  BY <1>1, <1>2, PTL
=============================================================================
