--------------------------- MODULE Variables_proofs ---------------------------
(***************************************************************************)
(* Proofs about Variables and Comparisons: lookups in any tree of nodes,   *)
(* loops and referenced cases, and comparisons of any operands.            *)
(***************************************************************************)
EXTENDS Twins, TLAPS

-----------------------------------------------------------------------------
(* The tree.                                                                 *)

LEMMA NodeTypes ==
  /\ MainCase \in Nodes /\ ChildCase \in Nodes /\ MainCase # ChildCase
  /\ TypeOf[MainCase] = "main_case" /\ TypeOf[ChildCase] = "child_case"
  /\ Inner = Nodes \ {MainCase} /\ HasRow \subseteq Inner /\ ChildCase \in HasRow
  /\ \A n \in Inner : Father[n] \in Nodes /\ TypeOf[n] # "main_case"
  /\ \A n \in Inner \ {ChildCase} : Father[n] \in Inner
<1>1. /\ MainCase \in Nodes /\ TypeOf[MainCase] = "main_case"
      /\ ChildCase \in Nodes /\ TypeOf[ChildCase] = "child_case"
  BY TreeAssumption
<1>2. Inner = Nodes \ {MainCase} /\ \A n \in Inner : Father[n] \in Nodes
  BY TreeAssumption DEF Inner
<1>3. \A n \in Inner : TypeOf[n] # "main_case"
  BY <1>2, TreeAssumption
<1>4. \A n \in Inner \ {ChildCase} : Father[n] \in Inner
  BY <1>2, TreeAssumption
<1> QED BY <1>1, <1>2, <1>3, <1>4 DEF HasRow

(* What holds of the main case and is handed down by every father holds.     *)
LEMMA NodeInduction ==
  ASSUME NEW S \in SUBSET Nodes, MainCase \in S,
         \A n \in Inner : Father[n] \in S => n \in S
  PROVE  S = Nodes
<1> SUFFICES ASSUME Nodes \ S # {} PROVE FALSE
  OBVIOUS
<1>1. PICK n \in Nodes \ S : n = MainCase \/ Father[n] \notin Nodes \ S
  BY TreeAssumption
<1> QED BY <1>1, NodeTypes

(* A recursion over the fathers that stops somewhere has a solution.         *)
Climbs(D, Stop, V, base, g) ==
  /\ D \subseteq Nodes
  /\ \A n \in D \cap Stop : base[n] \in V
  /\ \A n \in D \ Stop : /\ n # MainCase /\ Father[n] \in D
                          /\ \A v \in V : g[n][v] \in V

LEMMA ClimbEnds ==
  ASSUME NEW D, NEW Stop, NEW V, NEW base, NEW g, Climbs(D, Stop, V, base, g)
  PROVE  \E f \in [D -> V] :
           \A n \in D : f[n] = IF n \in Stop THEN base[n] ELSE g[n][f[Father[n]]]
<1> USE DEF Climbs
<1> DEFINE Closed(R) ==
             /\ \A n \in D \cap Stop : <<n, base[n]>> \in R
             /\ \A n \in D \ Stop : \A v \in V : <<Father[n], v>> \in R => <<n, g[n][v]>> \in R
           G == {x \in D \X V : \A R \in SUBSET (D \X V) : Closed(R) => x \in R}
           Of(n, v) == IF n \in Stop THEN v = base[n]
                       ELSE \E u \in V : <<Father[n], u>> \in G /\ v = g[n][u]
<1>1. Closed(G) /\ G \in SUBSET (D \X V)
  <2>1. ASSUME NEW n \in D \cap Stop PROVE <<n, base[n]>> \in G
    OBVIOUS
  <2>2. ASSUME NEW n \in D \ Stop, NEW v \in V, <<Father[n], v>> \in G
        PROVE  <<n, g[n][v]>> \in G
    <3>1. <<n, g[n][v]>> \in D \X V
      OBVIOUS
    <3>2. ASSUME NEW R \in SUBSET (D \X V), Closed(R) PROVE <<n, g[n][v]>> \in R
      <4>1. <<Father[n], v>> \in R
        BY <2>2, <3>2
      <4> QED BY <3>2, <4>1
    <3> QED BY <3>1, <3>2
  <2> QED BY <2>1, <2>2
<1>2. ASSUME NEW n \in D, NEW v \in V, <<n, v>> \in G
      PROVE  Of(n, v)
  <2> SUFFICES ASSUME ~Of(n, v) PROVE FALSE
    OBVIOUS
  <2> DEFINE R == G \ {<<n, v>>}
  <2>1. ASSUME NEW m \in D \cap Stop PROVE <<m, base[m]>> \in R
    <3>1. <<m, base[m]>> \in G
      BY <1>1
    <3>2. <<m, base[m]>> # <<n, v>>
      OBVIOUS
    <3> QED BY <3>1, <3>2
  <2>2. ASSUME NEW m \in D \ Stop, NEW u \in V, <<Father[m], u>> \in R
        PROVE  <<m, g[m][u]>> \in R
    <3>1. <<Father[m], u>> \in G
      BY <2>2
    <3>2. <<m, g[m][u]>> \in G
      BY <1>1, <3>1
    <3>3. <<m, g[m][u]>> # <<n, v>>
      BY <3>1
    <3> QED BY <3>2, <3>3
  <2>3. Closed(R) /\ R \in SUBSET (D \X V)
    BY <1>1, <2>1, <2>2
  <2>4. <<n, v>> \in R
    <3> HIDE DEF R
    <3> QED BY <1>2, <2>3
  <2> QED BY <2>4
<1> HIDE DEF G
<1> DEFINE S == {n \in Nodes : n \in D => \E v \in V : \A u \in V : <<n, u>> \in G <=> u = v}
<1>3. S = Nodes
  <2>1. ASSUME NEW n \in D \cap Stop PROVE n \in S
    <3>1. \A u \in V : <<n, u>> \in G <=> u = base[n]
      BY <1>1, <1>2
    <3> QED BY <3>1
  <2>2. ASSUME NEW n \in D \ Stop, Father[n] \in S PROVE n \in S
    <3>1. PICK v \in V : \A u \in V : <<Father[n], u>> \in G <=> u = v
      BY <2>2
    <3>2. <<n, g[n][v]>> \in G
      BY <1>1, <3>1
    <3>3. ASSUME NEW u \in V, <<n, u>> \in G PROVE u = g[n][v]
      <4>1. PICK w \in V : <<Father[n], w>> \in G /\ u = g[n][w]
        BY <1>2, <2>2, <3>3
      <4>2. w = v
        BY <3>1, <4>1
      <4> QED BY <4>1, <4>2
    <3>4. g[n][v] \in V
      OBVIOUS
    <3> HIDE DEF Of, Closed
    <3> QED BY <3>2, <3>3, <3>4
  <2>3. MainCase \in S
    BY <2>1, NodeTypes
  <2>4. ASSUME NEW n \in Inner, Father[n] \in S PROVE n \in S
    BY <2>1, <2>2, <2>4, NodeTypes
  <2> HIDE DEF S
  <2>5. S \in SUBSET Nodes
    BY DEF S
  <2> QED BY <2>3, <2>4, <2>5, NodeInduction
<1> DEFINE f == [n \in D |-> CHOOSE v \in V : <<n, v>> \in G]
<1>4. ASSUME NEW n \in D
      PROVE  f[n] \in V /\ <<n, f[n]>> \in G /\ \A u \in V : <<n, u>> \in G => u = f[n]
  <2>1. PICK v \in V : \A u \in V : <<n, u>> \in G <=> u = v
    BY <1>3
  <2> QED BY <2>1
<1>5. f \in [D -> V]
  BY <1>4
<1> HIDE DEF f
<1>6. ASSUME NEW n \in D
      PROVE  f[n] = IF n \in Stop THEN base[n] ELSE g[n][f[Father[n]]]
  <2>1. CASE n \in Stop
    BY <1>2, <1>4, <2>1
  <2>2. CASE n \notin Stop
    <3>1. Father[n] \in D
      BY <2>2
    <3>2. <<n, g[n][f[Father[n]]]>> \in G
      BY <1>1, <1>4, <2>2, <3>1
    <3>3. g[n][f[Father[n]]] \in V
      BY <1>4, <2>2, <3>1
    <3> QED BY <1>4, <2>2, <3>2, <3>3
  <2> QED BY <2>1, <2>2
<1> QED BY <1>5, <1>6

-----------------------------------------------------------------------------
(* What the lookups that do not depend on the variables find.                *)

LEMMA PathIs ==
  \A n \in Nodes :
    Path[n] = IF n \in {ChildCase, MainCase} THEN {n} ELSE {n} \cup Path[Father[n]]
<1> DEFINE V == SUBSET Nodes
           base == [n \in Nodes |-> {n}]
           g == [n \in Nodes |-> [v \in V |-> {n} \cup v]]
           Stop == {ChildCase, MainCase}
<1>1. PICK f \in [Nodes -> V] :
        \A n \in Nodes : f[n] = IF n \in Stop THEN base[n] ELSE g[n][f[Father[n]]]
  <2>1. \A n \in Nodes \cap Stop : base[n] \in V
    OBVIOUS
  <2>2. \A n \in Nodes \ Stop : /\ n # MainCase /\ Father[n] \in Nodes
                                /\ \A v \in V : g[n][v] \in V
    BY NodeTypes
  <2>3. Climbs(Nodes, Stop, V, base, g)
    BY <2>1, <2>2 DEF Climbs
  <2> HIDE DEF V, base, g, Stop
  <2> QED BY <2>3, ClimbEnds
<1>2. f = [n \in Nodes |-> IF n \in {ChildCase, MainCase} THEN {n} ELSE {n} \cup f[Father[n]]]
  <2>1. ASSUME NEW n \in Nodes
        PROVE  f[n] = IF n \in {ChildCase, MainCase} THEN {n} ELSE {n} \cup f[Father[n]]
    BY <1>1, NodeTypes
  <2> QED BY <1>1, <2>1
<1>3. Path = [n \in Nodes |-> IF n \in {ChildCase, MainCase} THEN {n}
                               ELSE {n} \cup Path[Father[n]]]
  BY <1>2 DEF Path
<1> QED BY <1>3

LEMMA PathNodes ==
  ASSUME NEW n \in Inner
  PROVE  /\ Path[n] \subseteq Inner /\ n \in Path[n] /\ ChildCase \in Path[n]
         /\ n # ChildCase => Path[Father[n]] \subseteq Path[n]
<1> DEFINE S == {m \in Nodes : m \in Inner => Path[m] \subseteq Inner /\ ChildCase \in Path[m]}
<1>1. S = Nodes
  <2>1. MainCase \in S
    BY NodeTypes
  <2>2. ASSUME NEW m \in Inner, Father[m] \in S PROVE m \in S
    <3>1. m \in Nodes /\ m # MainCase
      BY NodeTypes
    <3>2. CASE m = ChildCase
      BY <3>1, <3>2, PathIs
    <3>3. CASE m # ChildCase
      <4>1. Father[m] \in Inner /\ Path[m] = {m} \cup Path[Father[m]]
        BY <3>1, <3>3, PathIs, NodeTypes
      <4> QED BY <2>2, <3>1, <4>1
    <3> QED BY <3>2, <3>3
  <2> HIDE DEF S
  <2>3. S \in SUBSET Nodes
    BY DEF S
  <2> QED BY <2>1, <2>2, <2>3, NodeInduction
<1>2. n \in Nodes /\ n # MainCase
  BY NodeTypes
<1>3. Path[n] = IF n = ChildCase THEN {n} ELSE {n} \cup Path[Father[n]]
  BY <1>2, PathIs
<1>4. Path[n] \subseteq Inner /\ ChildCase \in Path[n]
  BY <1>1, <1>2
<1> QED BY <1>3, <1>4

LEMMA GtvIs ==
  \A n \in Inner : Gtv[n] = IF n \in HasRow THEN n ELSE Gtv[Father[n]]
<1> DEFINE base == [n \in Inner |-> n]
           g == [n \in Inner |-> [v \in Inner |-> v]]
<1>1. PICK f \in [Inner -> Inner] :
        \A n \in Inner : f[n] = IF n \in HasRow THEN base[n] ELSE g[n][f[Father[n]]]
  <2>1. \A n \in Inner \cap HasRow : base[n] \in Inner
    OBVIOUS
  <2>2. \A n \in Inner \ HasRow : /\ n # MainCase /\ Father[n] \in Inner
                                  /\ \A v \in Inner : g[n][v] \in Inner
    BY NodeTypes
  <2>3. Inner \in SUBSET Nodes
    BY NodeTypes
  <2>4. Climbs(Inner, HasRow, Inner, base, g)
    BY <2>1, <2>2, <2>3 DEF Climbs
  <2> HIDE DEF base, g
  <2> QED BY <2>4, ClimbEnds
<1>2. f = [n \in Inner |-> IF n \in HasRow THEN n ELSE f[Father[n]]]
  <2>1. ASSUME NEW n \in Inner
        PROVE  f[n] = IF n \in HasRow THEN n ELSE f[Father[n]]
    BY <1>1, NodeTypes
  <2> QED BY <1>1, <2>1
<1>3. Gtv = [n \in Inner |-> IF n \in HasRow THEN n ELSE Gtv[Father[n]]]
  BY <1>2 DEF Gtv
<1> QED BY <1>3

LEMMA GtvNodes ==
  ASSUME NEW n \in Inner
  PROVE  Gtv[n] \in HasRow \cap Path[n]
<1> DEFINE S == {m \in Nodes : m \in Inner => Gtv[m] \in HasRow \cap Path[m]}
<1>1. S = Nodes
  <2>1. MainCase \in S
    BY NodeTypes
  <2>2. ASSUME NEW m \in Inner, Father[m] \in S PROVE m \in S
    <3>1. m \in Nodes
      BY NodeTypes
    <3>2. CASE m \in HasRow
      BY <3>1, <3>2, GtvIs, PathNodes
    <3>3. CASE m \notin HasRow
      <4>1. m # ChildCase /\ Father[m] \in Inner
        BY <3>3, NodeTypes
      <4> QED BY <2>2, <3>1, <3>3, <4>1, GtvIs, PathNodes
    <3> QED BY <3>2, <3>3
  <2> HIDE DEF S
  <2>3. S \in SUBSET Nodes
    BY DEF S
  <2> QED BY <2>1, <2>2, <2>3, NodeInduction
<1>2. n \in Nodes
  BY NodeTypes
<1> QED BY <1>1, <1>2

(* Rows are on a path that the rows of the nodes further up are on too.      *)
LEMMA HomeIsNearest ==
  ASSUME NEW n \in Inner
  PROVE  \A m \in Path[n] \cap HasRow : m = Gtv[n] \/ (Gtv[n] # ChildCase /\ m \in Path[Father[Gtv[n]]])
<1> DEFINE S == {x \in Nodes : x \in Inner =>
                   \A m \in Path[x] \cap HasRow :
                     m = Gtv[x] \/ (Gtv[x] # ChildCase /\ m \in Path[Father[Gtv[x]]])}
<1>1. S = Nodes
  <2>1. MainCase \in S
    BY NodeTypes
  <2>2. ASSUME NEW x \in Inner, Father[x] \in S PROVE x \in S
    <3>1. x \in Nodes
      BY NodeTypes
    <3>2. CASE x \in HasRow
      <4>1. Gtv[x] = x
        BY <3>2, GtvIs
      <4>2. Path[x] = IF x = ChildCase THEN {x} ELSE {x} \cup Path[Father[x]]
        BY <3>1, PathIs, NodeTypes
      <4> QED BY <3>1, <4>1, <4>2
    <3>3. CASE x \notin HasRow
      <4>1. x # ChildCase /\ Father[x] \in Inner /\ Path[x] = {x} \cup Path[Father[x]]
        BY <3>1, <3>3, PathIs, NodeTypes
      <4>2. Gtv[x] = Gtv[Father[x]]
        BY <3>3, GtvIs
      <4> QED BY <2>2, <3>1, <3>3, <4>1, <4>2
    <3> QED BY <3>2, <3>3
  <2> HIDE DEF S
  <2>3. S \in SUBSET Nodes
    BY DEF S
  <2> QED BY <2>1, <2>2, <2>3, NodeInduction
<1>2. n \in Nodes
  BY NodeTypes
<1> QED BY <1>1, <1>2

LEMMA GpeIs ==
  \A n \in Nodes :
    Gpe[n] = CASE TypeOf[n] = "main_case" -> <<ProjectOf[n], EnvOf[n]>>
               [] TypeOf[n] = "case" -> <<ProjectOf[n], IF strategy[n] = "self_case" THEN EnvOf[n]
                                                        ELSE Gpe[Father[n]][2]>>
               [] TypeOf[n] = "interface" -> <<ProjectOf[n], Gpe[Father[n]][2]>>
               [] OTHER -> Gpe[Father[n]]
<1> DEFINE V == {ProjectOf[n] : n \in Nodes} \X {EnvOf[n] : n \in Nodes}
           base == [n \in Nodes |-> <<ProjectOf[n], EnvOf[n]>>]
           g == [n \in Nodes |-> [v \in V |->
                  IF TypeOf[n] \in {"case", "interface"} THEN <<ProjectOf[n], v[2]>> ELSE v]]
           Stop == {n \in Nodes : \/ TypeOf[n] = "main_case"
                                  \/ TypeOf[n] = "case" /\ strategy[n] = "self_case"}
<1>1. \E f \in [Nodes -> V] :
        \A n \in Nodes : f[n] = IF n \in Stop THEN base[n] ELSE g[n][f[Father[n]]]
  <2>1. \A n \in Nodes \cap Stop : base[n] \in V
    OBVIOUS
  <2>2. \A n \in Nodes \ Stop : /\ n # MainCase /\ Father[n] \in Nodes
                                /\ \A v \in V : g[n][v] \in V
    BY NodeTypes
  <2>3. Climbs(Nodes, Stop, V, base, g)
    BY <2>1, <2>2 DEF Climbs
  <2> HIDE DEF V, base, g, Stop
  <2> QED BY <2>3, ClimbEnds
<1>2. PICK f \in [Nodes -> V] :
        \A n \in Nodes : f[n] = IF n \in Stop THEN base[n] ELSE g[n][f[Father[n]]]
  BY <1>1
<1> DEFINE e(n) ==
             CASE TypeOf[n] = "main_case" -> <<ProjectOf[n], EnvOf[n]>>
               [] TypeOf[n] = "case" -> <<ProjectOf[n], IF strategy[n] = "self_case" THEN EnvOf[n]
                                                        ELSE f[Father[n]][2]>>
               [] TypeOf[n] = "interface" -> <<ProjectOf[n], f[Father[n]][2]>>
               [] OTHER -> f[Father[n]]
<1>3. ASSUME NEW n \in Nodes PROVE f[n] = e(n)
  <2>1. CASE n \in Stop
    BY <1>2, <2>1
  <2>2. CASE n \notin Stop
    <3>1. Father[n] \in Nodes /\ TypeOf[n] # "main_case"
      BY <2>2, NodeTypes
    <3>2. f[Father[n]] \in V
      BY <3>1
    <3>3. f[n] = IF TypeOf[n] \in {"case", "interface"} THEN <<ProjectOf[n], f[Father[n]][2]>>
                 ELSE f[Father[n]]
      BY <1>2, <2>2, <3>2
    <3> QED BY <2>2, <3>1, <3>3
  <2> QED BY <2>1, <2>2
<1>4. f = [n \in Nodes |-> e(n)]
  <2> HIDE DEF e, V
  <2> QED BY <1>3
<1>5. Gpe = [n \in Nodes |->
        CASE TypeOf[n] = "main_case" -> <<ProjectOf[n], EnvOf[n]>>
          [] TypeOf[n] = "case" -> <<ProjectOf[n], IF strategy[n] = "self_case" THEN EnvOf[n]
                                                   ELSE Gpe[Father[n]][2]>>
          [] TypeOf[n] = "interface" -> <<ProjectOf[n], Gpe[Father[n]][2]>>
          [] OTHER -> Gpe[Father[n]]]
  BY <1>4 DEF Gpe
<1> QED BY <1>5

LEMMA SearchEnvIs ==
  \A n \in Nodes :
    SearchEnv[n] = CASE TypeOf[n] = "main_case" -> EnvOf[n]
                     [] TypeOf[n] = "case" -> IF strategy[n] = "self_case" THEN EnvOf[n]
                                              ELSE EnvOf[MainCase]
                     [] OTHER -> SearchEnv[Father[n]]
<1> DEFINE V == {EnvOf[n] : n \in Nodes}
           past == CHOOSE p : p = [n \in Nodes |-> IF TypeOf[n] = "main_case" THEN EnvOf[n]
                                                    ELSE p[Father[n]]]
           Found(n) == IF TypeOf[n] = "main_case" \/ strategy[n] = "self_case" THEN EnvOf[n]
                       ELSE past[Father[n]]
           base == [n \in Nodes |-> Found(n)]
           g == [n \in Nodes |-> [v \in V |-> v]]
           Stop == {n \in Nodes : TypeOf[n] \in {"main_case", "case"}}
<1>1. \A n \in Nodes : past[n] = EnvOf[MainCase]
  <2> DEFINE p == [n \in Nodes |-> EnvOf[MainCase]]
             S == {n \in Nodes : past[n] = EnvOf[MainCase]}
  <2>1. p = [n \in Nodes |-> IF TypeOf[n] = "main_case" THEN EnvOf[n] ELSE p[Father[n]]]
    <3>1. ASSUME NEW n \in Nodes
          PROVE  p[n] = IF TypeOf[n] = "main_case" THEN EnvOf[n] ELSE p[Father[n]]
      BY NodeTypes
    <3> QED BY <3>1
  <2>2. past = [n \in Nodes |-> IF TypeOf[n] = "main_case" THEN EnvOf[n] ELSE past[Father[n]]]
    <3> HIDE DEF p
    <3> QED BY <2>1
  <2> HIDE DEF past
  <2>3. MainCase \in S
    BY <2>2, NodeTypes
  <2>4. ASSUME NEW n \in Inner, Father[n] \in S PROVE n \in S
    BY <2>2, <2>4, NodeTypes
  <2> HIDE DEF S
  <2>5. S = Nodes
    <3>1. S \in SUBSET Nodes
      BY DEF S
    <3> QED BY <2>3, <2>4, <3>1, NodeInduction
  <2> QED BY <2>5 DEF S
<1> HIDE DEF past
<1>2. PICK f \in [Nodes -> V] :
        \A n \in Nodes : f[n] = IF n \in Stop THEN base[n] ELSE g[n][f[Father[n]]]
  <2>1. \A n \in Nodes \cap Stop : base[n] \in V
    BY <1>1, NodeTypes
  <2>2. \A n \in Nodes \ Stop : /\ n # MainCase /\ Father[n] \in Nodes
                                /\ \A v \in V : g[n][v] \in V
    BY NodeTypes
  <2>3. \E f \in [Nodes -> V] :
          \A n \in Nodes : f[n] = IF n \in Stop THEN base[n] ELSE g[n][f[Father[n]]]
    <3>1. Climbs(Nodes, Stop, V, base, g)
      BY <2>1, <2>2 DEF Climbs
    <3> HIDE DEF V, base, g, Stop
    <3> QED BY <3>1, ClimbEnds
  <2> QED BY <2>3
<1> DEFINE e(n) == CASE TypeOf[n] = "main_case" -> EnvOf[n]
                     [] TypeOf[n] = "case" -> IF strategy[n] = "self_case" THEN EnvOf[n]
                                              ELSE past[Father[n]]
                     [] OTHER -> f[Father[n]]
<1>3. ASSUME NEW n \in Nodes PROVE f[n] = e(n)
  <2>1. CASE n \in Stop
    BY <1>2, <2>1
  <2>2. CASE n \notin Stop
    BY <1>2, <2>2, NodeTypes
  <2> QED BY <2>1, <2>2
<1>4. f = [n \in Nodes |-> e(n)]
  <2> HIDE DEF e, V
  <2> QED BY <1>3
<1>5. SearchEnv = [n \in Nodes |-> CASE TypeOf[n] = "main_case" -> EnvOf[n]
                     [] TypeOf[n] = "case" -> IF strategy[n] = "self_case" THEN EnvOf[n]
                                              ELSE past[Father[n]]
                     [] OTHER -> SearchEnv[Father[n]]]
  BY <1>4 DEF SearchEnv, past
<1>6. ASSUME NEW n \in Nodes, TypeOf[n] = "case" PROVE past[Father[n]] = EnvOf[MainCase]
  <2>1. Father[n] \in Nodes
    BY <1>6, NodeTypes
  <2> QED BY <1>1, <2>1
<1> QED BY <1>5, <1>6

-----------------------------------------------------------------------------
(* What the lookups of a variable find in the rows.                          *)

Own(n) == IF n \in HasRow THEN rows[rowOf[n]] ELSE Nothing

Temps ==
  CHOOSE temp : temp = [m \in Inner |-> IF m = ChildCase THEN Own(m)
                                        ELSE Merge(temp[Father[m]], Own(m))]

Stv(k) ==
  CHOOSE stv : stv = [n \in Inner |->
    IF n = ChildCase THEN GetOr(rows[rowOf[n]], k, Missing)
    ELSE IF n \in HasRow /\ k \in DOMAIN rows[rowOf[n]] THEN rows[rowOf[n]][k]
    ELSE stv[Father[n]]]

LEMMA MergeIs ==
  ASSUME NEW left, NEW right
  PROVE  /\ DOMAIN Merge(left, right) = DOMAIN left \cup DOMAIN right
         /\ \A k \in DOMAIN right : Merge(left, right)[k] = right[k]
         /\ \A k \in DOMAIN left \ DOMAIN right : Merge(left, right)[k] = left[k]
BY DEF Merge

LEMMA NothingIs == \A k : k \notin DOMAIN Nothing
BY DEF Nothing

LEMMA LookupDefs ==
  ASSUME NEW n, NEW k
  PROVE  /\ VariableMapping(n) = Merge(globals, Merge(EnvMerged(n), Temps[n]))
         /\ TempGet(n, k) = IF Stv(k)[n] # Missing THEN Stv(k)[n] ELSE EnvGet(n, k)
BY DEF VariableMapping, TempGet, Temps, Stv, Own

LEMMA TempsIs ==
  \A m \in Inner : Temps[m] = IF m = ChildCase THEN Own(m) ELSE Merge(Temps[Father[m]], Own(m))
<1> DEFINE K == UNION {DOMAIN Own(m) : m \in Inner}
           X == UNION {{Own(m)[k] : k \in DOMAIN Own(m)} : m \in Inner}
           Rows == UNION {[D -> X] : D \in SUBSET K}
           V == Rows \cup {Own(ChildCase)}
           base == [m \in Inner |-> Own(m)]
           g == [m \in Inner |-> [v \in V |-> Merge(v, Own(m))]]
           Stop == {ChildCase}
<1>1. Climbs(Inner, Stop, V, base, g)
  <2>1. \A m \in Inner \cap Stop : base[m] \in V
    <3> HIDE DEF Rows
    <3> QED OBVIOUS
  <2>2. ASSUME NEW m \in Inner \ Stop PROVE m # MainCase /\ Father[m] \in Inner
    BY NodeTypes
  <2>3. ASSUME NEW m \in Inner, NEW v \in V PROVE g[m][v] \in V
    <3>1. DOMAIN v \subseteq K /\ \A k \in DOMAIN v : v[k] \in X
      <4>1. CASE v = Own(ChildCase)
        BY <4>1, NodeTypes
      <4>2. CASE v \in Rows
        BY <4>2
      <4> HIDE DEF Rows, K, X
      <4> QED BY <4>1, <4>2
    <3>2. DOMAIN Own(m) \subseteq K /\ \A k \in DOMAIN Own(m) : Own(m)[k] \in X
      OBVIOUS
    <3>3. g[m][v] = Merge(v, Own(m))
      OBVIOUS
    <3> HIDE DEF K, X
    <3>4. Merge(v, Own(m)) \in [DOMAIN v \cup DOMAIN Own(m) -> X]
      BY <3>1, <3>2 DEF Merge
    <3>5. DOMAIN v \cup DOMAIN Own(m) \in SUBSET K
      BY <3>1, <3>2
    <3> HIDE DEF g
    <3> QED BY <3>3, <3>4, <3>5
  <2>4. Inner \subseteq Nodes
    BY NodeTypes
  <2> HIDE DEF base, g, V
  <2> QED BY <2>1, <2>2, <2>3, <2>4 DEF Climbs
<1>2. PICK f \in [Inner -> V] :
        \A m \in Inner : f[m] = IF m \in Stop THEN base[m] ELSE g[m][f[Father[m]]]
  <2> HIDE DEF V, base, g, Stop
  <2> QED BY <1>1, ClimbEnds
<1>3. ASSUME NEW m \in Inner
      PROVE  f[m] = IF m = ChildCase THEN Own(m) ELSE Merge(f[Father[m]], Own(m))
  <2>1. CASE m = ChildCase
    BY <1>2, <2>1
  <2>2. CASE m # ChildCase
    <3>1. Father[m] \in Inner
      BY <2>2, NodeTypes
    <3>2. f[Father[m]] \in V
      BY <3>1
    <3> HIDE DEF V
    <3> QED BY <1>2, <2>2, <3>2
  <2> QED BY <2>1, <2>2
<1>4. f = [m \in Inner |-> IF m = ChildCase THEN Own(m) ELSE Merge(f[Father[m]], Own(m))]
  <2> HIDE DEF V
  <2> QED BY <1>2, <1>3
<1>5. Temps = [m \in Inner |-> IF m = ChildCase THEN Own(m) ELSE Merge(Temps[Father[m]], Own(m))]
  BY <1>4 DEF Temps
<1> QED BY <1>5

LEMMA StvIs ==
  ASSUME NEW k
  PROVE  \A n \in Inner :
           Stv(k)[n] = IF n = ChildCase THEN GetOr(Own(n), k, Missing)
                       ELSE IF k \in DOMAIN Own(n) THEN Own(n)[k]
                       ELSE Stv(k)[Father[n]]
<1> DEFINE Found(n) == GetOr(Own(n), k, Missing)
           V == {Found(m) : m \in Inner}
           base == [m \in Inner |-> Found(m)]
           g == [m \in Inner |-> [v \in V |-> v]]
           Stop == {n \in Inner : n = ChildCase \/ k \in DOMAIN Own(n)}
<1>1. Climbs(Inner, Stop, V, base, g)
  BY NodeTypes DEF Climbs
<1>2. PICK f \in [Inner -> V] :
        \A m \in Inner : f[m] = IF m \in Stop THEN base[m] ELSE g[m][f[Father[m]]]
  <2> HIDE DEF V, base, g, Stop
  <2> QED BY <1>1, ClimbEnds
<1> DEFINE e(n) == IF n = ChildCase THEN GetOr(rows[rowOf[n]], k, Missing)
                   ELSE IF n \in HasRow /\ k \in DOMAIN rows[rowOf[n]] THEN rows[rowOf[n]][k]
                   ELSE f[Father[n]]
<1>3. ASSUME NEW n \in Inner PROVE f[n] = e(n)
  <2>1. CASE n \in Stop
    BY <1>2, <2>1, NodeTypes, NothingIs DEF Own, GetOr
  <2>2. CASE n \notin Stop
    <3>1. Father[n] \in Inner
      BY <2>2, NodeTypes
    <3>2. f[Father[n]] \in V /\ f[n] = f[Father[n]]
      BY <1>2, <2>2, <3>1
    <3> QED BY <2>2, <3>2 DEF Own
  <2> QED BY <2>1, <2>2
<1>4. f = [n \in Inner |-> e(n)]
  <2> HIDE DEF V, e
  <2> QED BY <1>2, <1>3
<1>5. Stv(k) = [n \in Inner |-> IF n = ChildCase THEN GetOr(rows[rowOf[n]], k, Missing)
                  ELSE IF n \in HasRow /\ k \in DOMAIN rows[rowOf[n]] THEN rows[rowOf[n]][k]
                  ELSE Stv(k)[Father[n]]]
  BY <1>4 DEF Stv
<1> HIDE DEF e
<1> QED BY <1>5, NodeTypes, NothingIs DEF Own

(* A name is in the mapping if a row on the way up has it; the nearest row   *)
(* comes first, the child case's last; and a script finds the same.          *)
LEMMA TempLookup ==
  ASSUME NEW n \in Inner, NEW k
  PROVE  /\ k \in DOMAIN Temps[n] <=> \E m \in Path[n] \cap HasRow : k \in DOMAIN Own(m)
         /\ k \in DOMAIN Own(Gtv[n]) => Temps[n][k] = Own(Gtv[n])[k]
         /\ (/\ \A m \in (Path[n] \cap HasRow) \ {ChildCase} : k \notin DOMAIN Own(m)
             /\ k \in DOMAIN Own(ChildCase)) => Temps[n][k] = Own(ChildCase)[k]
         /\ k \in DOMAIN Temps[n] =>
              \E m \in Path[n] \cap HasRow : k \in DOMAIN Own(m) /\ Temps[n][k] = Own(m)[k]
         /\ Stv(k)[n] = GetOr(Temps[n], k, Missing)
<1> DEFINE Has(x) == k \in DOMAIN Temps[x] <=> \E m \in Path[x] \cap HasRow : k \in DOMAIN Own(m)
           Near(x) == k \in DOMAIN Own(Gtv[x]) => Temps[x][k] = Own(Gtv[x])[k]
           Far(x) == (/\ \A m \in (Path[x] \cap HasRow) \ {ChildCase} : k \notin DOMAIN Own(m)
                      /\ k \in DOMAIN Own(ChildCase)) => Temps[x][k] = Own(ChildCase)[k]
           Same(x) == Stv(k)[x] = GetOr(Temps[x], k, Missing)
           From(x) == k \in DOMAIN Temps[x] =>
             \E m \in Path[x] \cap HasRow : k \in DOMAIN Own(m) /\ Temps[x][k] = Own(m)[k]
           S == {x \in Nodes : x \in Inner => Has(x) /\ Near(x) /\ Far(x) /\ Same(x) /\ From(x)}
<1>1. MainCase \in S
  BY NodeTypes
<1>2. ASSUME NEW x \in Inner, Father[x] \in S PROVE x \in S
  <2>1. x \in Nodes /\ x # MainCase /\ (x \notin HasRow => Own(x) = Nothing)
    BY NodeTypes DEF Own
  <2>2. CASE x = ChildCase
    <3>1. /\ Temps[x] = Own(x) /\ Path[x] = {x} /\ x \in HasRow /\ Gtv[x] = x
          /\ Stv(k)[x] = GetOr(Own(x), k, Missing)
      BY <2>1, <2>2, TempsIs, PathIs, GtvIs, StvIs, NodeTypes
    <3> QED BY <2>1, <2>2, <3>1
  <2>3. CASE x # ChildCase
    <3> DEFINE u == Father[x]
    <3>1. /\ u \in Inner /\ Temps[x] = Merge(Temps[u], Own(x)) /\ Path[x] = {x} \cup Path[u]
          /\ Gtv[x] = IF x \in HasRow THEN x ELSE Gtv[u]
          /\ Stv(k)[x] = IF k \in DOMAIN Own(x) THEN Own(x)[k] ELSE Stv(k)[u]
      <4>1. u \in Inner
        BY <2>3, NodeTypes
      <4>2. Temps[x] = Merge(Temps[u], Own(x))
        BY <2>3, TempsIs
      <4>3. Path[x] = {x} \cup Path[u]
        BY <2>1, <2>3, PathIs
      <4>4. Gtv[x] = IF x \in HasRow THEN x ELSE Gtv[u]
        BY GtvIs
      <4>5. Stv(k)[x] = IF k \in DOMAIN Own(x) THEN Own(x)[k] ELSE Stv(k)[u]
        BY <2>3, StvIs
      <4> QED BY <4>1, <4>2, <4>3, <4>4, <4>5
    <3>2. Has(u) /\ Near(u) /\ Far(u) /\ Same(u) /\ From(u)
      <4>1. u \in S /\ u \in Inner
        BY <1>2, <3>1
      <4> HIDE DEF Has, Near, Far, Same, From, u
      <4> QED BY <4>1
    <3>3. /\ DOMAIN Temps[x] = DOMAIN Temps[u] \cup DOMAIN Own(x)
          /\ k \in DOMAIN Own(x) => Temps[x][k] = Own(x)[k]
          /\ k \in DOMAIN Temps[u] \ DOMAIN Own(x) => Temps[x][k] = Temps[u][k]
      <4> DEFINE both == Merge(Temps[u], Own(x))
      <4>1. /\ DOMAIN both = DOMAIN Temps[u] \cup DOMAIN Own(x)
            /\ \A j \in DOMAIN Own(x) : both[j] = Own(x)[j]
            /\ \A j \in DOMAIN Temps[u] \ DOMAIN Own(x) : both[j] = Temps[u][j]
        BY MergeIs
      <4>2. Temps[x] = both
        BY <3>1
      <4> HIDE DEF both, u
      <4> QED BY <4>1, <4>2
    <3>4. k \in DOMAIN Own(x) => x \in HasRow
      <4>1. k \notin DOMAIN Nothing
        BY NothingIs
      <4> QED BY <2>1, <4>1
    <3> HIDE DEF u
    <3>5. Has(x)
      BY <3>1, <3>2, <3>3, <3>4
    <3>6. Near(x)
      <4>1. CASE x \in HasRow
        BY <3>1, <3>3, <4>1
      <4>2. CASE x \notin HasRow /\ k \in DOMAIN Own(Gtv[x])
        <5>1. Gtv[u] \in HasRow \cap Path[u]
          BY <3>1, GtvNodes
        <5>2. k \in DOMAIN Temps[u]
          BY <3>1, <3>2, <4>2, <5>1
        <5> QED BY <3>1, <3>2, <3>3, <3>4, <4>2, <5>2
      <4> QED BY <4>1, <4>2
    <3>7. Far(x)
      <4> SUFFICES ASSUME \A m \in (Path[x] \cap HasRow) \ {ChildCase} : k \notin DOMAIN Own(m),
                          k \in DOMAIN Own(ChildCase)
                   PROVE  Temps[x][k] = Own(ChildCase)[k]
        OBVIOUS
      <4>1. Temps[u][k] = Own(ChildCase)[k]
        BY <3>1, <3>2
      <4>2. k \in DOMAIN Temps[u]
        BY <3>1, <3>2, PathNodes, NodeTypes
      <4>3. k \notin DOMAIN Own(x)
        BY <2>3, <3>1, <3>4
      <4> QED BY <3>3, <4>1, <4>2, <4>3
    <3>8. Same(x)
      BY <3>1, <3>2, <3>3 DEF GetOr
    <3>9. From(x)
      BY <3>1, <3>2, <3>3, <3>4, PathNodes
    <3> HIDE DEF Has, Near, Far, Same, From
    <3> QED BY <2>1, <3>5, <3>6, <3>7, <3>8, <3>9
  <2> QED BY <2>2, <2>3
<1> HIDE DEF S
<1>3. S = Nodes
  <2>1. S \in SUBSET Nodes
    BY DEF S
  <2> QED BY <1>1, <1>2, <2>1, NodeInduction
<1>4. n \in S
  BY <1>3, NodeTypes
<1> QED BY <1>4 DEF S

-----------------------------------------------------------------------------
(* What the variables, rows and settings of a run are.                       *)

(* Cases are told which environment they are in, loops what drives them.     *)
ChoicesMade ==
  /\ strategy \in [{n \in Nodes : TypeOf[n] = "case"} -> Strategies]
  /\ \A loop \in Loops : drive[loop] \in Drives[loop]

(* Rows are there for the nodes that have been given one, by a loop above    *)
(* them that is done making, and not the keys of a dataset's entry; what no  *)
(* dataset drives makes rows of its own.                                     *)
RowsKept ==
  /\ DOMAIN rowOf = HasRow /\ rowOf[ChildCase] = <<ChildCase>>
  /\ \A n \in HasRow : rowOf[n] \notin {Missing, NoRow} => rowOf[n] \in DOMAIN rows
  /\ \A id \in DOMAIN rows : Missing \notin Range(rows[id])
  /\ NoRow \notin DOMAIN rows
  /\ \A n \in HasRow \ {ChildCase} : rowOf[n] # Missing =>
       /\ Father[n] \in made
       /\ drive[Father[n]].by = "dataset" \/ rowOf[n] = <<n>>

(* The latest setting of a variable is where it has been put, and its place  *)
(* is told by that.                                                          *)
TempKept(w) ==
  LET id == rowOf[IF w.scope = "case" THEN ChildCase ELSE Gtv[w.by]]
  IN  /\ w.place = <<"row", id>> /\ id \in DOMAIN rows
      /\ w.name \in DOMAIN rows[id] /\ rows[id][w.name] = w.value

EnvKept(w) ==
  LET at == Gpe[w.by]
  IN  /\ w.place = <<"env", at>>
      /\ at[1] \in DOMAIN envs /\ at[2] \in DOMAIN envs[at[1]]
      /\ w.name \in DOMAIN envs[at[1]][at[2]] /\ envs[at[1]][at[2]][w.name] = w.value

GlobalKept(w) ==
  /\ w.place = <<"globals", <<>>>>
  /\ w.name \in DOMAIN globals /\ globals[w.name] = w.value

SettingsKept ==
  \A w \in wrote :
    /\ w.by \in Setters /\ Reached(w.by) /\ w.value # Missing
    /\ \/ w.kind = "temp" /\ TempKept(w)
       \/ w.kind = "env" /\ EnvKept(w)
       \/ w.kind = "global" /\ GlobalKept(w)

VariablesInv == ChoicesMade /\ RowsKept /\ SettingsKept

-----------------------------------------------------------------------------
(* Environments, and operands.                                               *)

LEMMA EnvironmentsFound ==
  ASSUME strategy \in [{n \in Nodes : TypeOf[n] = "case"} -> Strategies]
  PROVE  EnvironmentsAgree
<1> DEFINE Far(n) == \/ Gpe[n][2] = EnvOf[MainCase]
                     \/ \E far \in Cases(n) : strategy[far] = "self_case"
           Agree(n) == \/ SearchEnv[n] = Gpe[n][2]
                       \/ \E near, far \in Cases(n) :
                            /\ near # far /\ far \in Cases(near)
                            /\ strategy[near] = "current_case" /\ strategy[far] = "self_case"
           S == {n \in Nodes : Far(n) /\ Agree(n)}
<1>1. MainCase \in S
  <2>1. /\ MainCase \in Nodes /\ SearchEnv[MainCase] = EnvOf[MainCase]
        /\ Gpe[MainCase] = <<ProjectOf[MainCase], EnvOf[MainCase]>>
    BY NodeTypes, GpeIs, SearchEnvIs
  <2>2. Far(MainCase) /\ Agree(MainCase)
    BY <2>1
  <2> HIDE DEF Far, Agree
  <2> QED BY <2>1, <2>2
<1>2. ASSUME NEW n \in Inner, Father[n] \in S PROVE n \in S
  <2> DEFINE u == Father[n]
  <2>1. n \in Nodes /\ u \in Nodes /\ TypeOf[n] # "main_case"
    BY NodeTypes
  <2>2. Cases(u) \subseteq Cases(n)
    <3>1. CASE n = ChildCase
      <4>1. u = MainCase
        BY <3>1, TreeAssumption
      <4>2. Path[u] = {u} /\ TypeOf[u] = "main_case"
        BY <4>1, NodeTypes, PathIs
      <4> QED BY <4>2 DEF Cases
    <3>2. CASE n # ChildCase
      BY <3>2, PathNodes DEF Cases
    <3> QED BY <3>1, <3>2
  <2>3. Far(u) /\ Agree(u)
    BY <1>2
  <2> HIDE DEF u
  <2>4. CASE TypeOf[n] = "case"
    <3>1. n \in Cases(n)
      BY <2>4, PathNodes DEF Cases
    <3>2. CASE strategy[n] = "self_case"
      <4>1. SearchEnv[n] = EnvOf[n] /\ Gpe[n] = <<ProjectOf[n], EnvOf[n]>>
        BY <2>1, <2>4, <3>2, GpeIs, SearchEnvIs
      <4> QED BY <2>1, <3>1, <3>2, <4>1
    <3>3. CASE strategy[n] # "self_case"
      <4>1. strategy[n] = "current_case"
        BY <2>1, <2>4, <3>3, ValueAssumption
      <4>2. SearchEnv[n] = EnvOf[MainCase] /\ Gpe[n] = <<ProjectOf[n], Gpe[u][2]>>
        BY <2>1, <2>4, <3>3, GpeIs, SearchEnvIs DEF u
      <4>3. Far(n)
        BY <2>2, <2>3, <4>2
      <4>4. Agree(n)
        <5>1. CASE Gpe[u][2] = EnvOf[MainCase]
          BY <4>2, <5>1
        <5>2. CASE \E far \in Cases(u) : strategy[far] = "self_case"
          <6>1. PICK far \in Cases(u) : strategy[far] = "self_case"
            BY <5>2
          <6>2. far \in Cases(n) /\ n # far
            BY <2>2, <4>1, <6>1
          <6> QED BY <3>1, <4>1, <6>1, <6>2
        <5> QED BY <2>3, <5>1, <5>2
      <4> HIDE DEF Far, Agree
      <4> QED BY <2>1, <4>3, <4>4
    <3> QED BY <3>2, <3>3
  <2>5. CASE TypeOf[n] # "case"
    <3>1. SearchEnv[n] = SearchEnv[u]
      BY <2>1, <2>5, SearchEnvIs DEF u
    <3>2. Gpe[n][2] = Gpe[u][2]
      <4>1. CASE TypeOf[n] = "interface"
        <5>1. Gpe[n] = <<ProjectOf[n], Gpe[u][2]>>
          BY <2>1, <4>1, GpeIs DEF u
        <5> QED BY <5>1
      <4>2. CASE TypeOf[n] # "interface"
        BY <2>1, <2>5, <4>2, GpeIs DEF u
      <4> QED BY <4>1, <4>2
    <3>3. Far(n)
      BY <2>2, <2>3, <3>2
    <3>4. Agree(n)
      BY <2>2, <2>3, <3>1, <3>2
    <3> HIDE DEF Far, Agree
    <3> QED BY <2>1, <3>3, <3>4
  <2> QED BY <2>4, <2>5
<1> HIDE DEF S
<1>3. S = Nodes
  <2>1. S \in SUBSET Nodes
    BY DEF S
  <2> QED BY <1>1, <1>2, <2>1, NodeInduction
<1>4. Setters \cup Loops \subseteq Nodes
  BY LoopAssumption, NodeTypes
<1> QED BY <1>3, <1>4 DEF S, EnvironmentsAgree

(* IfAssertionCore and AssertionCore know the same relations; an operand is  *)
(* in one of two opposite ones.                                              *)
LEMMA OperatorsFound == OperatorsAgree
<1>1. ASSUME NEW p \in IfPatterns, NEW key \in Texts, NEW value \in Texts
      PROVE  IfHolds(p, key, value) <=> AssertionHolds("fast", p, key, value)
  <2>1. CASE p \in {"gt", "gte", "lt", "lte"}
    BY <2>1 DEF IfHolds, AssertionHolds
  <2>2. CASE p \in {"eq", "neq", "contains", "notContains", "regex"}
    BY <2>2 DEF IfHolds, AssertionHolds
  <2> QED BY <2>1, <2>2 DEF IfPatterns
<1>2. ASSUME NEW range \in Ranges, NEW pair \in Opposites, NEW r \in Responses, NEW value \in Texts
      PROVE  LET one == Verdict(range, pair[1], r, value)
                 two == Verdict(range, pair[2], r, value)
             IN  \/ pair[1] = "exist" /\ range \in {"code", "fast"}
                 \/ (one = "passed") # (two = "passed")
                 \/ one = "raised" /\ two = "raised"
  <2>1. r.json \in BOOLEAN /\ r.found \in BOOLEAN
    BY DEF Responses
  <2>2. ASSUME NEW core, NEW key, pair[1] # "exist" \/ core = "all"
        PROVE  AssertionHolds(core, pair[1], key, value) <=> ~AssertionHolds(core, pair[2], key, value)
    BY <2>2 DEF Opposites, AssertionHolds
  <2>3. CASE range \in {"all", "code", "fast"}
    BY <2>2, <2>3 DEF Verdict, Opposites
  <2>4. CASE range = "header"
    <3>1. CASE pair[1] = "exist"
      BY <2>1, <2>4, <3>1 DEF Verdict, OnHeader, Opposites
    <3>2. CASE pair[1] # "exist"
      <4> DEFINE key == IF r.found THEN r.key ELSE None
      <4>1. pair[1] \notin {"exist", "noexist"} /\ pair[2] \notin {"exist", "noexist"}
        BY <3>2 DEF Opposites
      <4>2. /\ OnHeader(pair[1], r, value) =
                 IF AssertionHolds("header", pair[1], key, value) THEN "passed" ELSE "failed"
            /\ OnHeader(pair[2], r, value) =
                 IF AssertionHolds("header", pair[2], key, value) THEN "passed" ELSE "failed"
        BY <4>1 DEF OnHeader
      <4> HIDE DEF key
      <4> QED BY <2>2, <2>4, <3>2, <4>2 DEF Verdict
    <3> QED BY <3>1, <3>2
  <2>5. CASE range = "pattern"
    <3>1. CASE ~r.json
      BY <2>5, <3>1 DEF Verdict, OnBody
    <3>2. CASE r.json /\ ~r.found
      <4>1. pair[1] # "noexist"
        BY DEF Opposites
      <4> QED BY <2>5, <3>2, <4>1 DEF Verdict, OnBody, Opposites
    <3>3. CASE r.json /\ r.found
      <4>1. CASE pair[1] = "exist"
        <5>1. pair[1] = "exist" /\ pair[2] = "noexist"
          BY <4>1 DEF Opposites
        <5>2. AssertionHolds("jsonpath", "exist", r.key, value)
          BY DEF AssertionHolds
        <5> QED BY <2>5, <3>3, <5>1, <5>2 DEF Verdict, OnBody
      <4>2. CASE pair[1] # "exist"
        <5>1. pair[1] # "noexist" /\ pair[2] # "noexist"
          BY <4>2 DEF Opposites
        <5> QED BY <2>2, <2>5, <3>3, <4>2, <5>1 DEF Verdict, OnBody
      <4> QED BY <4>1, <4>2
    <3> QED BY <2>1, <3>1, <3>2, <3>3
  <2> QED BY <2>3, <2>4, <2>5 DEF Ranges
<1> QED BY <1>1, <1>2 DEF OperatorsAgree

-----------------------------------------------------------------------------
(* What follows for the lookups.                                             *)

(* What a variable is in the mapping of a node, and for its scripts.         *)
LEMMA MappingIs ==
  ASSUME RowsKept, NEW n \in Inner, Readable(n), NEW k
  PROVE  /\ k \in DOMAIN VariableMapping(n) <=>
              k \in DOMAIN Temps[n] \cup DOMAIN EnvMerged(n) \cup DOMAIN globals
         /\ k \in DOMAIN Temps[n] =>
              VariableMapping(n)[k] = Temps[n][k] /\ TempGet(n, k) = Temps[n][k]
         /\ k \notin DOMAIN Temps[n] => TempGet(n, k) = EnvGet(n, k)
         /\ k \notin DOMAIN Temps[n] /\ k \in DOMAIN EnvMerged(n) =>
              VariableMapping(n)[k] = EnvMerged(n)[k]
         /\ k \notin DOMAIN Temps[n] \cup DOMAIN EnvMerged(n) /\ k \in DOMAIN globals =>
              VariableMapping(n)[k] = globals[k]
<1> DEFINE local == Merge(EnvMerged(n), Temps[n])
           all == Merge(globals, local)
<1>1. /\ DOMAIN local = DOMAIN EnvMerged(n) \cup DOMAIN Temps[n]
      /\ \A j \in DOMAIN Temps[n] : local[j] = Temps[n][j]
      /\ \A j \in DOMAIN EnvMerged(n) \ DOMAIN Temps[n] : local[j] = EnvMerged(n)[j]
  BY MergeIs
<1>2. /\ DOMAIN all = DOMAIN globals \cup DOMAIN local
      /\ \A j \in DOMAIN local : all[j] = local[j]
      /\ \A j \in DOMAIN globals \ DOMAIN local : all[j] = globals[j]
  <2> HIDE DEF local
  <2> QED BY MergeIs
<1>3. VariableMapping(n) = all
  BY LookupDefs
<1>4. /\ k \in DOMAIN Temps[n] => Stv(k)[n] = Temps[n][k] /\ Temps[n][k] # Missing
      /\ k \notin DOMAIN Temps[n] => Stv(k)[n] = Missing
  <2>1. CASE k \in DOMAIN Temps[n]
    <3>1. PICK m \in Path[n] \cap HasRow : k \in DOMAIN Own(m) /\ Temps[n][k] = Own(m)[k]
      BY <2>1, TempLookup
    <3>2. rowOf[m] \in DOMAIN rows
      BY <3>1 DEF Readable, RowsKept
    <3>3. Own(m) = rows[rowOf[m]]
      BY DEF Own
    <3>4. Temps[n][k] \in Range(rows[rowOf[m]])
      BY <3>1, <3>3 DEF Range
    <3>5. Temps[n][k] # Missing
      BY <3>2, <3>4 DEF RowsKept
    <3> QED BY <2>1, <3>5, TempLookup DEF GetOr
  <2>2. CASE k \notin DOMAIN Temps[n]
    BY <2>2, TempLookup DEF GetOr
  <2> QED BY <2>1, <2>2
<1>5. TempGet(n, k) = IF Stv(k)[n] # Missing THEN Stv(k)[n] ELSE EnvGet(n, k)
  BY LookupDefs
<1> HIDE DEF local, all
<1> QED BY <1>1, <1>2, <1>3, <1>4, <1>5

LEMMA LookupsFound ==
  ASSUME RowsKept
  PROVE  LookupsAgree
<1> SUFFICES ASSUME NEW n \in Readers, NEW k \in DOMAIN VariableMapping(n), ~OnlyGlobal(n, k)
             PROVE  TempGet(n, k) = VariableMapping(n)[k]
  BY DEF LookupsAgree
<1>1. n \in Inner /\ Readable(n)
  BY LoopAssumption DEF Readers
<1>2. \A m \in Path[n] \cap HasRow : Own(m) = rows[rowOf[m]]
  BY DEF Own
<1>3. k \in DOMAIN Temps[n] <=> \E m \in Path[n] \cap HasRow : k \in DOMAIN rows[rowOf[m]]
  BY <1>1, <1>2, TempLookup
<1>4. OnlyGlobal(n, k) <=>
        k \in DOMAIN globals /\ k \notin DOMAIN EnvMerged(n) /\ k \notin DOMAIN Temps[n]
  BY <1>3 DEF OnlyGlobal
<1>5. EnvGet(n, k) = IF k \in DOMAIN EnvMerged(n) THEN EnvMerged(n)[k] ELSE Missing
  BY DEF EnvGet, GetOr
<1>6. CASE k \in DOMAIN Temps[n]
  BY <1>1, <1>4, <1>6, MappingIs
<1>7. CASE k \notin DOMAIN Temps[n]
  BY <1>1, <1>4, <1>5, <1>7, MappingIs
<1> QED BY <1>6, <1>7

(* A reference without functions is what the mapping has.                    *)
LEMMA ReferenceIs ==
  ASSUME NEW mapping, NEW k, k \in DOMAIN mapping
  PROVE  Replace(Reference(k), mapping) = <<mapping[k]>>
<1> DEFINE p == [is |-> "variable", name |-> k, pipes |-> <<>>]
           prefix == IF p.is = "variable" THEN GetOr(mapping, p.name, "") ELSE p.name
           step(i, q) == IF i = 0 THEN prefix
                         ELSE IF p.pipes[i] = "unknown" THEN "null" ELSE <<p.pipes[i], q[i - 1]>>
           Piped == CHOOSE q : q = [i \in 0..Len(p.pipes) |->
                      IF i = 0 THEN prefix
                      ELSE IF p.pipes[i] = "unknown" THEN "null" ELSE <<p.pipes[i], q[i - 1]>>]
           f == [i \in 0..0 |-> prefix]
<1>1. p.is = "variable" /\ p.name = k /\ Len(p.pipes) = 0
  OBVIOUS
<1>2. prefix = mapping[k]
  BY <1>1 DEF GetOr
<1>3. Piece(p, mapping) = Piped[0]
  <2> HIDE DEF p
  <2> QED BY <1>1 DEF Piece
<1> HIDE DEF p, prefix
<1>4. Piped = [i \in 0..Len(p.pipes) |-> step(i, Piped)]
  <2>1. f = [i \in 0..Len(p.pipes) |-> step(i, f)]
    <3>1. \A i \in 0..0 : i = 0
      OBVIOUS
    <3> QED BY <1>1, <3>1
  <2> HIDE DEF f
  <2> QED BY <2>1
<1>5. Piece(p, mapping) = mapping[k]
  <2>1. Piped[0] = prefix
    <3> HIDE DEF Piped
    <3> QED BY <1>1, <1>4
  <2> QED BY <1>2, <1>3, <2>1
<1>6. Reference(k) = <<p>>
  BY DEF Reference, p
<1>7. Replace(<<p>>, mapping) = [i \in DOMAIN <<p>> |-> Piece(<<p>>[i], mapping)]
  BY DEF Replace
<1>8. DOMAIN <<p>> = {1} /\ <<p>>[1] = p /\ DOMAIN <<mapping[k]>> = {1}
  OBVIOUS
<1> QED BY <1>5, <1>6, <1>7, <1>8

LEMMA EnvMergedIs ==
  ASSUME NEW n, NEW k, Gpe[n][1] \in DOMAIN envs, Gpe[n][2] \in DOMAIN envs[Gpe[n][1]],
         k \in DOMAIN envs[Gpe[n][1]][Gpe[n][2]]
  PROVE  k \in DOMAIN EnvMerged(n) /\ EnvMerged(n)[k] = envs[Gpe[n][1]][Gpe[n][2]][k]
<1>1. OfEnvironment(Gpe[n]) = envs[Gpe[n][1]][Gpe[n][2]]
  BY DEF OfEnvironment, GetOr
<1> DEFINE both == Merge(OfEnvironment(Gpe[MainCase]), OfEnvironment(Gpe[n]))
<1>2. /\ DOMAIN both = DOMAIN OfEnvironment(Gpe[MainCase]) \cup DOMAIN OfEnvironment(Gpe[n])
      /\ \A j \in DOMAIN OfEnvironment(Gpe[n]) : both[j] = OfEnvironment(Gpe[n])[j]
  BY MergeIs
<1>3. EnvMerged(n) = OfEnvironment(Gpe[n]) \/ EnvMerged(n) = both
  BY DEF EnvMerged
<1> HIDE DEF both
<1> QED BY <1>1, <1>2, <1>3

LEMMA WrittenIsFound ==
  ASSUME RowsKept, SettingsKept
  PROVE  WrittenIsRead
<1> SUFFICES ASSUME NEW w \in wrote
             PROVE  /\ Readable(w.by) /\ ~Hidden(w) =>
                         /\ Replace(Reference(w.name), VariableMapping(w.by)) = <<w.value>>
                         /\ w.kind # "global" => TempGet(w.by, w.name) = w.value
                    /\ w.kind = "env" => EnvGet(w.by, w.name) = w.value
                    /\ w.kind = "global" => globals[w.name] = w.value
  BY DEF WrittenIsRead
<1> DEFINE n == w.by
           k == w.name
           nearer == {m \in Path[n] \cap HasRow : k \in DOMAIN rows[rowOf[m]]}
<1>1. n \in Inner /\ w.value # Missing
  BY LoopAssumption DEF SettingsKept
<1>2. \A m \in HasRow : Own(m) = rows[rowOf[m]]
  BY DEF Own
<1>3. k \in DOMAIN Temps[n] <=> nearer # {}
  BY <1>1, <1>2, TempLookup
<1>4. ASSUME k \in DOMAIN VariableMapping(n), VariableMapping(n)[k] = w.value
      PROVE  Replace(Reference(k), VariableMapping(n)) = <<w.value>>
  BY <1>4, ReferenceIs
<1>5. CASE w.kind = "temp" /\ TempKept(w)
  <2> SUFFICES ASSUME Readable(n), ~Hidden(w)
               PROVE  k \in DOMAIN Temps[n] /\ Temps[n][k] = w.value
    BY <1>1, <1>4, <1>5, MappingIs
  <2>1. CASE w.scope = "case"
    <3>1. k \in DOMAIN Own(ChildCase) /\ Own(ChildCase)[k] = w.value
      BY <1>2, <1>5, <2>1, NodeTypes DEF TempKept
    <3>2. \A m \in (Path[n] \cap HasRow) \ {ChildCase} : k \notin DOMAIN Own(m)
      BY <1>2, <1>5, <2>1 DEF Hidden
    <3>3. ChildCase \in Path[n] \cap HasRow
      BY <1>1, PathNodes, NodeTypes
    <3> QED BY <1>1, <3>1, <3>2, <3>3, TempLookup
  <2>2. CASE w.scope # "case"
    <3>1. Gtv[n] \in HasRow \cap Path[n]
      BY <1>1, GtvNodes
    <3>2. k \in DOMAIN Own(Gtv[n]) /\ Own(Gtv[n])[k] = w.value
      BY <1>2, <1>5, <2>2, <3>1 DEF TempKept
    <3> QED BY <1>1, <3>1, <3>2, TempLookup
  <2> QED BY <2>1, <2>2
<1>6. CASE w.kind = "env" /\ EnvKept(w)
  <2>1. k \in DOMAIN EnvMerged(n) /\ EnvMerged(n)[k] = w.value
    BY <1>6, EnvMergedIs DEF EnvKept
  <2>2. EnvGet(n, k) = w.value
    BY <2>1 DEF EnvGet, GetOr
  <2>3. ~Hidden(w) => k \notin DOMAIN Temps[n]
    BY <1>3, <1>6 DEF Hidden
  <2> QED BY <1>1, <1>4, <1>6, <2>1, <2>2, <2>3, MappingIs
<1>7. CASE w.kind = "global" /\ GlobalKept(w)
  <2>1. k \in DOMAIN globals /\ globals[k] = w.value
    BY <1>7 DEF GlobalKept
  <2>2. ~Hidden(w) => k \notin DOMAIN Temps[n] /\ k \notin DOMAIN EnvMerged(n)
    BY <1>3, <1>7 DEF Hidden
  <2> QED BY <1>1, <1>4, <1>7, <2>1, <2>2, MappingIs
<1> QED BY <1>5, <1>6, <1>7 DEF SettingsKept

-----------------------------------------------------------------------------
(* The steps keep it so.                                                     *)

LEMMA InitKept == Init => VariablesInv
<1> SUFFICES ASSUME Init PROVE VariablesInv
  OBVIOUS
<1>1. ChoicesMade
  BY DEF Init, ChoicesMade
<1>2. RowsKept
  <2>1. <<ChildCase>> # NoRow
    BY DEF NoRow
  <2> QED BY <2>1, NothingIs, NodeTypes DEF Init, RowsKept, Range
<1>3. SettingsKept
  BY DEF Init, SettingsKept
<1> QED BY <1>1, <1>2, <1>3 DEF VariablesInv

(* What an iteration is given: a row of its own or one of a dataset.         *)
LEMMA NewRowsAre ==
  ASSUME NEW loop, NEW n, NEW i \in DOMAIN NewRows(loop, n)
  PROVE  /\ NewRows(loop, n)[i].id = <<Iterations[loop][i]>>
         /\ NewRows(loop, n)[i].content = Nothing
BY DEF NewRows

LEMMA NothingKept == Missing \notin Range(Nothing)
BY NothingIs DEF Range

LEMMA ScriptRowsAre ==
  ASSUME NEW loop \in Loops, NEW d \in Drives[loop], d.by = "script",
         NEW i \in DOMAIN ScriptRows(loop, d.value)
  PROVE  /\ i \in DOMAIN Iterations[loop]
         /\ ScriptRows(loop, d.value)[i].id = <<Iterations[loop][i]>>
         /\ Missing \notin Range(ScriptRows(loop, d.value)[i].content)
<1>1. i \in DOMAIN Iterations[loop]
  BY IterationsAssumption
<1> DEFINE value == d.value
           most == Least(Len(value.rows), MaxGenerated)
           set == [j \in 1..most |->
                     [id |-> <<Iterations[loop][j]>>,
                      content |-> DataSetRow(value.columns, value.rows[j])]]
<1>2. CASE value.is = "DataSet"
  <2>1. ScriptRows(loop, value) = set
    BY <1>2 DEF ScriptRows
  <2>2. i \in 1..most
    BY <2>1
  <2>3. set[i].id = <<Iterations[loop][i]>> /\ set[i].content = DataSetRow(value.columns, value.rows[i])
    BY <2>2
  <2>4. ASSUME NEW x \in Range(DataSetRow(value.columns, value.rows[i])) PROVE x # Missing
    <3> DEFINE row == value.rows[i]
    <3>1. PICK c \in Range(value.columns) : x = DataSetRow(value.columns, row)[c]
      BY <2>4 DEF DataSetRow, Range
    <3> DEFINE j == CHOOSE y \in DOMAIN value.columns : value.columns[y] = c
    <3>2. j \in DOMAIN value.columns
      BY <3>1 DEF Range
    <3>3. x = IF j <= Len(row) THEN row[j] ELSE "None"
      BY <3>1 DEF DataSetRow
    <3>4. /\ IsList(value.columns) /\ IsList(value.rows) /\ MaxGenerated \in Nat
          /\ \A y \in DOMAIN value.rows : IsList(value.rows[y]) /\ Missing \notin Range(value.rows[y])
          /\ "None" # Missing
      BY <1>2, ValueAssumption
    <3>5. i \in DOMAIN value.rows
      BY <2>2, <3>4 DEF IsList, Least
    <3> HIDE DEF j
    <3>6. j \in Nat \ {0}
      <4>1. j \in 1..Len(value.columns) /\ Len(value.columns) \in Nat
        BY <3>2, <3>4 DEF IsList
      <4> QED BY <4>1
    <3>7. CASE j <= Len(row)
      <4>1. j \in DOMAIN row /\ x = row[j]
        BY <3>3, <3>4, <3>5, <3>6, <3>7 DEF IsList
      <4> QED BY <3>4, <3>5, <4>1 DEF Range
    <3>8. CASE ~(j <= Len(row))
      BY <3>3, <3>4, <3>8
    <3> QED BY <3>7, <3>8
  <2> QED BY <1>1, <2>1, <2>3, <2>4
<1>3. CASE value.is # "DataSet"
  <2>1. \E n : ScriptRows(loop, value) = NewRows(loop, n)
    BY <1>3 DEF ScriptRows
  <2> QED BY <1>1, <2>1, NewRowsAre, NothingKept
<1> QED BY <1>2, <1>3

LEMMA LoopDataIs ==
  ASSUME ChoicesMade, NEW loop \in Loops, LoopData(loop) # Missing,
         NEW i \in DOMAIN LoopData(loop)
  PROVE  /\ i \in DOMAIN Iterations[loop]
         /\ LoopData(loop)[i].id # Missing
         /\ Missing \notin Range(LoopData(loop)[i].content)
         /\ drive[loop].by # "dataset" => LoopData(loop)[i].id = <<Iterations[loop][i]>>
<1> DEFINE d == drive[loop]
<1>1. d \in Drives[loop] /\ d.by \in {"times", "script", "dataset"}
  BY ValueAssumption DEF ChoicesMade
<1>2. ASSUME i \in DOMAIN Iterations[loop] PROVE <<Iterations[loop][i]>> # Missing
  <2>1. Iterations[loop][i] \in Nodes
    BY <1>2, LoopAssumption, NodeTypes
  <2> QED BY <2>1, ValueAssumption
<1>3. CASE d.by = "times"
  <2> DEFINE n == IF d.times < 0 THEN 0 ELSE d.times
  <2>1. d.parses /\ LoopData(loop) = NewRows(loop, n)
    BY <1>3 DEF LoopData
  <2>2. i \in 1..n
    BY <2>1 DEF NewRows
  <2>3. i \in 1..d.times
    BY <2>2
  <2>4. i \in DOMAIN Iterations[loop]
    BY <1>1, <1>3, <2>1, <2>3, IterationsAssumption
  <2> HIDE DEF n
  <2>5. LoopData(loop)[i].id = <<Iterations[loop][i]>> /\ LoopData(loop)[i].content = Nothing
    BY <2>1, NewRowsAre
  <2> HIDE DEF d
  <2> QED BY <1>2, <2>4, <2>5, NothingKept
<1>4. CASE d.by = "script"
  <2>1. LoopData(loop) = ScriptRows(loop, d.value)
    BY <1>4 DEF LoopData
  <2>2. i \in DOMAIN ScriptRows(loop, d.value)
    BY <2>1
  <2>3. /\ i \in DOMAIN Iterations[loop]
        /\ ScriptRows(loop, d.value)[i].id = <<Iterations[loop][i]>>
        /\ Missing \notin Range(ScriptRows(loop, d.value)[i].content)
    <3> HIDE DEF d
    <3> QED BY <1>1, <1>4, <2>2, ScriptRowsAre
  <2> HIDE DEF d
  <2> QED BY <1>2, <2>1, <2>3
<1>5. CASE d.by = "dataset" /\ TypeOf[loop] = "case"
  <2> DEFINE e == DatasetEnv(loop, d.name)
             content == Datasets[d.name][e].data
  <2>1. /\ d.name \in DOMAIN Datasets /\ SearchEnv[loop] \in DOMAIN Datasets[d.name]
        /\ LoopData(loop) = DatasetRows(loop, d.name)
    BY <1>5 DEF LoopData
  <2>2. e \in DOMAIN Datasets[d.name]
    BY <2>1 DEF DatasetEnv
  <2>3. LoopData(loop) = [j \in DOMAIN content |-> [id |-> <<d.name, e, j>>, content |-> content[j]]]
    BY <2>1 DEF DatasetRows
  <2> HIDE DEF e
  <2>4. /\ i \in DOMAIN content /\ LoopData(loop)[i].id = <<d.name, e, i>>
        /\ LoopData(loop)[i].content = content[i]
    <3> HIDE DEF content, d
    <3> QED BY <2>3
  <2>5. i \in DOMAIN Iterations[loop]
    BY <1>1, <1>5, <2>1, <2>2, <2>4, IterationsAssumption
  <2>6. <<d.name, e, i>> # Missing /\ Missing \notin Range(content[i])
    BY <2>1, <2>2, <2>4, ValueAssumption
  <2> QED BY <1>5, <2>4, <2>5, <2>6
<1>6. CASE d.by = "dataset" /\ TypeOf[loop] # "case"
  <2> DEFINE e == SearchEnv[loop]
             n == Cardinality(DOMAIN Datasets[d.name][e])
  <2>1. /\ d.name \in DOMAIN Datasets /\ e \in DOMAIN Datasets[d.name]
        /\ LoopData(loop) = EntryKeys(loop, d.name)
    BY <1>6 DEF LoopData
  <2>2. LoopData(loop) = [j \in 1..n |-> [id |-> NoRow, content |-> Nothing]]
    BY <2>1 DEF EntryKeys
  <2>3. 1..n \subseteq DOMAIN Iterations[loop]
    BY <1>1, <1>6, <2>1, IterationsAssumption
  <2> HIDE DEF n
  <2>4. i \in DOMAIN Iterations[loop] /\ LoopData(loop)[i].id = NoRow
        /\ LoopData(loop)[i].content = Nothing
    <3> HIDE DEF d
    <3> QED BY <2>2, <2>3
  <2>5. NoRow # Missing
    BY ValueAssumption
  <2> QED BY <1>6, <2>4, <2>5, NothingKept
<1> QED BY <1>1, <1>3, <1>4, <1>5, <1>6

(* Rows are only given: a place that has been reached stays where it is, and *)
(* a new row hides nothing an old one holds.                                 *)
LEMMA IterationsGiven ==
  ASSUME VariablesInv, NEW loop \in Loops, MakesIterations(loop)
  PROVE  /\ RowsKept'
         /\ \A n \in HasRow : rowOf[n] # Missing => rowOf'[n] = rowOf[n]
         /\ \A id \in DOMAIN rows : id \in DOMAIN rows' /\ rows'[id] = rows[id]
<1> DEFINE data == LoopData(loop)
           at(n) == {i \in DOMAIN data : Iterations[loop][i] = n}
           new == [id \in {data[i].id : i \in DOMAIN data} \ {NoRow} |->
                     data[CHOOSE i \in DOMAIN data : data[i].id = id].content]
<1>1. /\ ChoicesMade /\ RowsKept /\ loop \notin made
      /\ made' = made \cup {loop} /\ drive' = drive
  BY DEF VariablesInv, MakesIterations
<1>2. CASE data = Missing
  <2>1. rowOf' = rowOf /\ rows' = rows
    BY <1>2 DEF MakesIterations
  <2> QED BY <1>1, <2>1 DEF RowsKept
<1>3. CASE data # Missing
  <2>1. /\ rowOf' = [n \in HasRow |->
                       IF at(n) = {} THEN rowOf[n] ELSE data[CHOOSE i \in at(n) : TRUE].id]
        /\ rows' = Merge(new, rows)
    BY <1>3 DEF MakesIterations
  <2>2. \A i \in DOMAIN data :
          /\ i \in DOMAIN Iterations[loop] /\ data[i].id # Missing
          /\ Missing \notin Range(data[i].content)
          /\ drive[loop].by # "dataset" => data[i].id = <<Iterations[loop][i]>>
    BY <1>1, <1>3, LoopDataIs
  <2>3. /\ DOMAIN rows' = ({data[i].id : i \in DOMAIN data} \ {NoRow}) \cup DOMAIN rows
        /\ \A id \in DOMAIN rows : rows'[id] = rows[id]
        /\ \A id \in DOMAIN new \ DOMAIN rows : rows'[id] = new[id]
    <3>1. DOMAIN new = {data[i].id : i \in DOMAIN data} \ {NoRow}
      OBVIOUS
    <3> HIDE DEF new
    <3> DEFINE both == Merge(new, rows)
    <3>2. /\ DOMAIN both = DOMAIN new \cup DOMAIN rows
          /\ \A id \in DOMAIN rows : both[id] = rows[id]
          /\ \A id \in DOMAIN new \ DOMAIN rows : both[id] = new[id]
      BY MergeIs
    <3>3. rows' = both
      BY <2>1
    <3> HIDE DEF both, data
    <3> QED BY <3>1, <3>2, <3>3
  <2>4. ASSUME NEW id \in DOMAIN new PROVE Missing \notin Range(new[id])
    <3> DEFINE i == CHOOSE j \in DOMAIN data : data[j].id = id
    <3>1. i \in DOMAIN data /\ new[id] = data[i].content
      OBVIOUS
    <3> HIDE DEF new, data, i
    <3> QED BY <2>2, <3>1
  <2>5. ASSUME NEW n \in HasRow, at(n) # {}
        PROVE  \E i \in DOMAIN data : /\ Iterations[loop][i] = n /\ i \in DOMAIN Iterations[loop]
                                      /\ rowOf'[n] = data[i].id
    <3> DEFINE i == CHOOSE j \in at(n) : TRUE
    <3>1. i \in at(n)
      BY <2>5
    <3>2. rowOf'[n] = data[i].id
      BY <2>1, <2>5
    <3> HIDE DEF data, i
    <3> QED BY <2>2, <3>1, <3>2
  <2>6. ASSUME NEW n \in HasRow, at(n) # {}
        PROVE  n # ChildCase /\ Father[n] = loop /\ rowOf[n] = Missing
    <3>1. n # ChildCase /\ Father[n] = loop
      BY <2>5, <2>6, LoopAssumption
    <3> QED BY <1>1, <3>1 DEF RowsKept
  <2>7. ASSUME NEW n \in HasRow, at(n) = {} PROVE rowOf'[n] = rowOf[n]
    BY <2>1, <2>7
  <2> HIDE DEF at, new, data
  <2>8. \A n \in HasRow : rowOf[n] # Missing => rowOf'[n] = rowOf[n]
    BY <2>6, <2>7
  <2>9. RowsKept'
    <3>1. DOMAIN rowOf' = HasRow /\ rowOf'[ChildCase] = <<ChildCase>>
      BY <1>1, <2>1, <2>6, <2>7, NodeTypes DEF RowsKept
    <3>2. ASSUME NEW n \in HasRow, rowOf'[n] \notin {Missing, NoRow} PROVE rowOf'[n] \in DOMAIN rows'
      BY <1>1, <2>3, <2>5, <2>7, <3>2 DEF RowsKept
    <3>3. ASSUME NEW id \in DOMAIN rows' PROVE Missing \notin Range(rows'[id])
      <4>1. DOMAIN new = {data[i].id : i \in DOMAIN data} \ {NoRow}
        BY DEF new
      <4> QED BY <1>1, <2>3, <2>4, <4>1 DEF RowsKept
    <3>4. ASSUME NEW n \in HasRow \ {ChildCase}, rowOf'[n] # Missing
          PROVE  Father[n] \in made' /\ (drive'[Father[n]].by = "dataset" \/ rowOf'[n] = <<n>>)
      BY <1>1, <2>2, <2>5, <2>6, <2>7, <3>4 DEF RowsKept
    <3>5. NoRow \notin DOMAIN rows'
      BY <1>1, <2>3 DEF RowsKept
    <3> QED BY <3>1, <3>2, <3>3, <3>4, <3>5 DEF RowsKept
  <2> QED BY <2>3, <2>8, <2>9
<1> QED BY <1>2, <1>3

LEMMA ReachedKept ==
  ASSUME NEW n \in Inner, Reached(n),
         \A m \in HasRow : rowOf[m] # Missing => rowOf'[m] = rowOf[m]
  PROVE  Reached(n)' /\ rowOf[Gtv[n]] # Missing
BY GtvNodes DEF Reached

LEMMA MakesKeeps ==
  ASSUME VariablesInv, NEW loop \in Loops, MakesIterations(loop)
  PROVE  VariablesInv'
<1>1. /\ RowsKept'
      /\ \A n \in HasRow : rowOf[n] # Missing => rowOf'[n] = rowOf[n]
      /\ \A id \in DOMAIN rows : id \in DOMAIN rows' /\ rows'[id] = rows[id]
  BY IterationsGiven
<1>2. /\ strategy' = strategy /\ drive' = drive /\ envs' = envs /\ globals' = globals
      /\ wrote' = wrote
  BY DEF MakesIterations
<1>3. Gpe' = Gpe
  BY <1>2 DEF Gpe
<1>4. ChoicesMade'
  BY <1>2 DEF VariablesInv, ChoicesMade
<1>5. ASSUME NEW w \in wrote
      PROVE  /\ w.by \in Setters /\ Reached(w.by)' /\ w.value # Missing
             /\ \/ w.kind = "temp" /\ TempKept(w)'
                \/ w.kind = "env" /\ EnvKept(w)'
                \/ w.kind = "global" /\ GlobalKept(w)'
  <2>1. w.by \in Setters /\ w.by \in Inner /\ Reached(w.by) /\ w.value # Missing
    BY LoopAssumption DEF VariablesInv, SettingsKept
  <2>2. Reached(w.by)' /\ rowOf[Gtv[w.by]] # Missing
    BY <1>1, <2>1, ReachedKept
  <2>3. CASE w.kind = "temp" /\ TempKept(w)
    <3> DEFINE n == IF w.scope = "case" THEN ChildCase ELSE Gtv[w.by]
    <3>1. n \in HasRow /\ rowOf[n] # Missing
      BY <2>1, <2>2, GtvNodes, NodeTypes, ValueAssumption DEF VariablesInv, RowsKept
    <3>2. rowOf[n] \in DOMAIN rows /\ rowOf'[n] = rowOf[n]
      BY <1>1, <2>3, <3>1 DEF TempKept
    <3>3. rows'[rowOf'[n]] = rows[rowOf[n]]
      BY <1>1, <3>2
    <3>4. TempKept(w)'
      BY <1>1, <2>3, <3>2, <3>3 DEF TempKept
    <3> QED BY <2>1, <2>2, <2>3, <3>4
  <2>4. CASE w.kind = "env" /\ EnvKept(w)
    <3>1. EnvKept(w)'
      BY <1>2, <1>3, <2>4 DEF EnvKept
    <3> QED BY <2>1, <2>2, <2>4, <3>1
  <2>5. CASE w.kind = "global" /\ GlobalKept(w)
    <3>1. GlobalKept(w)'
      BY <1>2, <2>5 DEF GlobalKept
    <3> QED BY <2>1, <2>2, <2>5, <3>1
  <2> QED BY <2>3, <2>4, <2>5 DEF VariablesInv, SettingsKept
<1>6. SettingsKept'
  BY <1>2, <1>5 DEF SettingsKept
<1> QED BY <1>1, <1>4, <1>6 DEF VariablesInv

HasPut(new, mapping, k, v) ==
  /\ DOMAIN new = DOMAIN mapping \cup {k} /\ new[k] = v
  /\ \A x \in DOMAIN mapping \ {k} : new[x] = mapping[x]

LEMMA PutIs ==
  ASSUME NEW mapping, NEW k, NEW v
  PROVE  HasPut(Put(mapping, k, v), mapping, k, v)
BY DEF Put, HasPut, Merge

(* The object a setting changes is the place it is known by.                 *)
LEMMA PlaceIsTarget ==
  ASSUME RowsKept, NEW s \in Inner, Reached(s), NEW setting
  PROVE  Place(s, setting) = Target(s, setting)
<1> DEFINE home == Gtv[s]
<1>1. home \in HasRow /\ rowOf[home] # Missing
  BY GtvNodes DEF Reached
<1>2. rowOf[ChildCase] = <<ChildCase>>
  BY DEF RowsKept
<1>3. CASE setting.kind # "temp"
  BY <1>3 DEF Place
<1>4. CASE setting.kind = "temp" /\ (setting.scope = "case" \/ home = ChildCase)
  BY <1>2, <1>4 DEF Place, Target
<1>5. CASE setting.kind = "temp" /\ setting.scope # "case" /\ home # ChildCase
  <2>1. drive[Father[home]].by = "dataset" \/ rowOf[home] = <<home>>
    BY <1>1, <1>5 DEF RowsKept
  <2> QED BY <1>5, <2>1 DEF Place, Target
<1> QED BY <1>3, <1>4, <1>5

(* A setting changes one variable of one object and leaves the others.       *)
SetsOne(target, k, v) ==
  /\ /\ DOMAIN rows' = DOMAIN rows
     /\ \A id \in DOMAIN rows :
          /\ \A x \in DOMAIN rows[id] :
               /\ x \in DOMAIN rows'[id]
               /\ target # <<"row", id>> \/ x # k => rows'[id][x] = rows[id][x]
          /\ target = <<"row", id>> => k \in DOMAIN rows'[id] /\ rows'[id][k] = v
          /\ Missing \notin Range(rows[id]) => Missing \notin Range(rows'[id])
  /\ \A p \in DOMAIN envs : \A e \in DOMAIN envs[p] :
       /\ p \in DOMAIN envs' /\ e \in DOMAIN envs'[p]
       /\ \A x \in DOMAIN envs[p][e] :
            /\ x \in DOMAIN envs'[p][e]
            /\ target # <<"env", <<p, e>>>> \/ x # k => envs'[p][e][x] = envs[p][e][x]
       /\ target = <<"env", <<p, e>>>> => k \in DOMAIN envs'[p][e] /\ envs'[p][e][k] = v
  /\ /\ \A x \in DOMAIN globals :
          /\ x \in DOMAIN globals'
          /\ target # <<"globals", <<>>>> \/ x # k => globals'[x] = globals[x]
     /\ target = <<"globals", <<>>>> => k \in DOMAIN globals' /\ globals'[k] = v

LEMMA RowSet ==
  ASSUME NEW id \in DOMAIN rows, NEW k, NEW v, v # Missing,
         rows' = [rows EXCEPT ![id] = Put(@, k, v)], envs' = envs, globals' = globals
  PROVE  SetsOne(<<"row", id>>, k, v)
<1> DEFINE row == Put(rows[id], k, v)
<1>1. /\ DOMAIN rows' = DOMAIN rows /\ rows'[id] = row
      /\ \A other \in DOMAIN rows \ {id} : rows'[other] = rows[other]
  <2> HIDE DEF row
  <2> QED BY DEF row
<1>2. /\ DOMAIN row = DOMAIN rows[id] \cup {k} /\ row[k] = v
      /\ \A x \in DOMAIN rows[id] \ {k} : row[x] = rows[id][x]
  <2>1. HasPut(row, rows[id], k, v)
    BY PutIs
  <2> QED BY <2>1 DEF HasPut
<1> HIDE DEF row
<1>3. ASSUME Missing \notin Range(rows[id]) PROVE Missing \notin Range(row)
  BY <1>2, <1>3 DEF Range
<1>4. ASSUME NEW other \in DOMAIN rows
      PROVE  /\ \A x \in DOMAIN rows[other] :
                  /\ x \in DOMAIN rows'[other]
                  /\ <<"row", id>> # <<"row", other>> \/ x # k => rows'[other][x] = rows[other][x]
             /\ <<"row", id>> = <<"row", other>> => k \in DOMAIN rows'[other] /\ rows'[other][k] = v
             /\ Missing \notin Range(rows[other]) => Missing \notin Range(rows'[other])
  <2>1. CASE other = id
    BY <1>1, <1>2, <1>3, <2>1
  <2>2. CASE other # id
    BY <1>1, <2>2
  <2> QED BY <2>1, <2>2
<1> QED BY <1>1, <1>4 DEF SetsOne

LEMMA EnvSet ==
  ASSUME NEW at, at = <<at[1], at[2]>>, at[1] \in DOMAIN envs, at[2] \in DOMAIN envs[at[1]],
         NEW k, NEW v,
         envs' = [envs EXCEPT ![at[1]][at[2]] = Put(@, k, v)], rows' = rows, globals' = globals
  PROVE  SetsOne(<<"env", at>>, k, v)
<1> DEFINE env == Put(envs[at[1]][at[2]], k, v)
<1>1. /\ DOMAIN env = DOMAIN envs[at[1]][at[2]] \cup {k} /\ env[k] = v
      /\ \A x \in DOMAIN envs[at[1]][at[2]] \ {k} : env[x] = envs[at[1]][at[2]][x]
  <2>1. HasPut(env, envs[at[1]][at[2]], k, v)
    BY PutIs
  <2> QED BY <2>1 DEF HasPut
<1>2. /\ DOMAIN envs' = DOMAIN envs /\ envs'[at[1]] = [envs[at[1]] EXCEPT ![at[2]] = env]
      /\ \A p \in DOMAIN envs \ {at[1]} : envs'[p] = envs[p]
  <2> HIDE DEF env
  <2> QED BY DEF env
<1> HIDE DEF env
<1>3. /\ DOMAIN envs'[at[1]] = DOMAIN envs[at[1]] /\ envs'[at[1]][at[2]] = env
      /\ \A e \in DOMAIN envs[at[1]] \ {at[2]} : envs'[at[1]][e] = envs[at[1]][e]
  BY <1>2
<1>4. ASSUME NEW p \in DOMAIN envs, NEW e \in DOMAIN envs[p]
      PROVE  /\ p \in DOMAIN envs' /\ e \in DOMAIN envs'[p]
             /\ \A x \in DOMAIN envs[p][e] :
                  /\ x \in DOMAIN envs'[p][e]
                  /\ <<"env", at>> # <<"env", <<p, e>>>> \/ x # k => envs'[p][e][x] = envs[p][e][x]
             /\ <<"env", at>> = <<"env", <<p, e>>>> => k \in DOMAIN envs'[p][e] /\ envs'[p][e][k] = v
  <2>1. CASE p = at[1] /\ e = at[2]
    BY <1>1, <1>2, <1>3, <2>1
  <2>2. CASE ~(p = at[1] /\ e = at[2])
    <3>1. at # <<p, e>>
      BY <2>2
    <3>2. p \in DOMAIN envs' /\ e \in DOMAIN envs'[p] /\ envs'[p][e] = envs[p][e]
      BY <1>2, <1>3, <2>2
    <3> QED BY <3>1, <3>2
  <2> QED BY <2>1, <2>2
<1>5. \A id : <<"env", at>> # <<"row", id>>
  OBVIOUS
<1>6. <<"env", at>> # <<"globals", <<>>>>
  OBVIOUS
<1> QED BY <1>4, <1>5, <1>6 DEF SetsOne

LEMMA GlobalSet ==
  ASSUME NEW k, NEW v, globals' = Put(globals, k, v), rows' = rows, envs' = envs
  PROVE  SetsOne(<<"globals", <<>>>>, k, v)
<1> DEFINE all == Put(globals, k, v)
<1>1. /\ DOMAIN all = DOMAIN globals \cup {k} /\ all[k] = v
      /\ \A x \in DOMAIN globals \ {k} : all[x] = globals[x]
  <2>1. HasPut(all, globals, k, v)
    BY PutIs
  <2> QED BY <2>1 DEF HasPut
<1>2. \A id : <<"globals", <<>>>> # <<"row", id>> /\ <<"globals", <<>>>> # <<"env", id>>
  OBVIOUS
<1>3. globals' = all
  OBVIOUS
<1> HIDE DEF all
<1> QED BY <1>1, <1>2, <1>3 DEF SetsOne

LEMMA GpePairs ==
  ASSUME NEW n \in Nodes
  PROVE  Gpe[n] = <<Gpe[n][1], Gpe[n][2]>>
<1> DEFINE S == {m \in Nodes : Gpe[m] = <<Gpe[m][1], Gpe[m][2]>>}
<1>1. MainCase \in S
  <2>1. Gpe[MainCase] = <<ProjectOf[MainCase], EnvOf[MainCase]>>
    BY GpeIs, NodeTypes
  <2> QED BY <2>1, NodeTypes
<1>2. ASSUME NEW m \in Inner, Father[m] \in S PROVE m \in S
  <2>1. m \in Nodes /\ TypeOf[m] # "main_case"
    BY NodeTypes
  <2>2. CASE TypeOf[m] = "case" \/ TypeOf[m] = "interface"
    <3>1. PICK e : Gpe[m] = <<ProjectOf[m], e>>
      BY <2>1, <2>2, GpeIs
    <3> QED BY <2>1, <3>1
  <2>3. CASE TypeOf[m] \notin {"case", "interface"}
    <3>1. Gpe[m] = Gpe[Father[m]]
      BY <2>1, <2>3, GpeIs
    <3> QED BY <1>2, <2>1, <3>1
  <2> QED BY <2>2, <2>3
<1> HIDE DEF S
<1>3. S = Nodes
  <2>1. S \in SUBSET Nodes
    BY DEF S
  <2> QED BY <1>1, <1>2, <2>1, NodeInduction
<1> QED BY <1>3 DEF S

LEMMA SetsDoes ==
  ASSUME VariablesInv, NEW s \in Setters, NEW setting \in Actions[s], Sets(s, setting)
  PROVE  \/ rows' = rows /\ envs' = envs /\ globals' = globals /\ wrote' = wrote
         \/ LET v == ValueOf(setting, Tokens[writes + 1])
                target == Target(s, setting)
            IN  /\ v # Missing
                /\ SetsOne(target, setting.name, v)
                /\ Known(s, setting)
                /\ target[1] = "row" => target[2] \in DOMAIN rows
                /\ wrote' = {w \in wrote : w.name # setting.name \/ w.place # target}
                              \cup {[by |-> s, name |-> setting.name, place |-> target,
                                     value |-> v, kind |-> setting.kind, scope |-> setting.scope]}
<1> DEFINE v == ValueOf(setting, Tokens[writes + 1])
           target == Target(s, setting)
           k == setting.name
<1>1. s \in Inner /\ s \in Nodes /\ Reached(s) /\ RowsKept
  BY LoopAssumption, NodeTypes DEF VariablesInv, Sets
<1>2. Place(s, setting) = target
  BY <1>1, PlaceIsTarget
<1>3. CASE v = Missing \/ ~Settles(s, setting)
  BY <1>3 DEF Sets
<1>4. CASE ~(v = Missing \/ ~Settles(s, setting))
  <2>1. /\ rows' = IF target[1] = "row" THEN [rows EXCEPT ![target[2]] = Put(@, k, v)] ELSE rows
        /\ envs' = IF target[1] = "env"
                   THEN [envs EXCEPT ![target[2][1]][target[2][2]] = Put(@, k, v)] ELSE envs
        /\ globals' = IF target[1] = "globals" THEN Put(globals, k, v) ELSE globals
        /\ wrote' = {w \in wrote : w.name # k \/ w.place # target}
                      \cup {[by |-> s, name |-> k, place |-> target, value |-> v,
                             kind |-> setting.kind, scope |-> setting.scope]}
    BY <1>2, <1>4 DEF Sets
  <2>2. /\ setting.kind \in {"temp", "env", "global"}
        /\ v # Missing /\ Known(s, setting) /\ target # <<"row", NoRow>>
    BY <1>4, ValueAssumption DEF Settles
  <2>3. CASE setting.kind = "temp"
    <3> DEFINE n == IF setting.scope = "case" THEN ChildCase ELSE Gtv[s]
    <3>1. n \in HasRow /\ rowOf[n] # Missing
      BY <1>1, GtvNodes, PathNodes, NodeTypes DEF Reached
    <3>2. target = <<"row", rowOf[n]>> /\ rowOf[n] \in DOMAIN rows
      <4>1. target = <<"row", rowOf[n]>>
        BY <2>3 DEF Target
      <4>2. rowOf[n] # NoRow
        BY <2>2, <4>1
      <4> QED BY <1>1, <3>1, <4>1, <4>2 DEF RowsKept
    <3>3. target[1] = "row" /\ target[2] = rowOf[n]
      BY <3>2
    <3> HIDE DEF v, target, k, n
    <3>4. rows' = [rows EXCEPT ![rowOf[n]] = Put(@, k, v)] /\ envs' = envs /\ globals' = globals
      BY <2>1, <3>3
    <3>5. SetsOne(target, k, v)
      BY <1>4, <3>2, <3>4, RowSet
    <3> QED BY <2>1, <2>2, <3>2, <3>3, <3>5 DEF v, target, k
  <2>4. CASE setting.kind = "env"
    <3> DEFINE at == Gpe[s]
    <3>1. /\ at = <<at[1], at[2]>> /\ target = <<"env", at>>
          /\ at[1] \in DOMAIN envs /\ at[2] \in DOMAIN envs[at[1]]
      BY <1>1, <2>2, <2>4, GpePairs DEF Target, Known
    <3>2. target[1] = "env" /\ target[2] = at
      BY <3>1
    <3> HIDE DEF v, target, k, at
    <3>3. rows' = rows /\ envs' = [envs EXCEPT ![at[1]][at[2]] = Put(@, k, v)] /\ globals' = globals
      BY <2>1, <3>2
    <3>4. SetsOne(target, k, v)
      BY <3>1, <3>3, EnvSet
    <3> QED BY <2>1, <2>2, <3>2, <3>4 DEF v, target, k
  <2>5. CASE setting.kind = "global"
    <3>1. target = <<"globals", <<>>>>
      BY <2>5 DEF Target
    <3>2. target[1] = "globals"
      BY <3>1
    <3> HIDE DEF v, target, k
    <3>3. rows' = rows /\ envs' = envs /\ globals' = Put(globals, k, v)
      BY <2>1, <3>2
    <3>4. SetsOne(target, k, v)
      BY <3>1, <3>3, GlobalSet
    <3> QED BY <2>1, <2>2, <3>2, <3>4 DEF v, target, k
  <2> QED BY <2>2, <2>3, <2>4, <2>5
<1> QED BY <1>3, <1>4

LEMMA SetsKeeps ==
  ASSUME VariablesInv, NEW s \in Setters, NEW setting \in Actions[s], Sets(s, setting)
  PROVE  VariablesInv'
<1> DEFINE v == ValueOf(setting, Tokens[writes + 1])
           target == Target(s, setting)
           k == setting.name
           latest == [by |-> s, name |-> k, place |-> target, value |-> v,
                      kind |-> setting.kind, scope |-> setting.scope]
<1>1. /\ strategy' = strategy /\ drive' = drive /\ made' = made /\ rowOf' = rowOf
      /\ ChoicesMade /\ RowsKept /\ SettingsKept
  BY DEF Sets, VariablesInv
<1>2. Gpe' = Gpe
  BY <1>1 DEF Gpe
<1>3. \A n : Reached(n)' <=> Reached(n)
  BY <1>1 DEF Reached
<1>4. ChoicesMade'
  BY <1>1 DEF ChoicesMade
<1>5. CASE rows' = rows /\ envs' = envs /\ globals' = globals /\ wrote' = wrote
  <2>1. RowsKept'
    BY <1>1, <1>5 DEF RowsKept
  <2>2. SettingsKept'
    BY <1>1, <1>2, <1>3, <1>5 DEF SettingsKept, TempKept, EnvKept, GlobalKept
  <2> QED BY <1>4, <2>1, <2>2 DEF VariablesInv
<1>6. CASE /\ v # Missing /\ SetsOne(target, k, v) /\ Known(s, setting)
           /\ target[1] = "row" => target[2] \in DOMAIN rows
           /\ wrote' = {w \in wrote : w.name # k \/ w.place # target} \cup {latest}
  <2>1. RowsKept'
    <3>1. /\ DOMAIN rows' = DOMAIN rows
          /\ \A id \in DOMAIN rows : Missing \notin Range(rows[id]) => Missing \notin Range(rows'[id])
      BY <1>6 DEF SetsOne
    <3> QED BY <1>1, <3>1 DEF RowsKept
  <2>2. ASSUME NEW w \in wrote, w.name # k \/ w.place # target
        PROVE  /\ w.by \in Setters /\ Reached(w.by)' /\ w.value # Missing
               /\ \/ w.kind = "temp" /\ TempKept(w)'
                  \/ w.kind = "env" /\ EnvKept(w)'
                  \/ w.kind = "global" /\ GlobalKept(w)'
    <3>1. w.by \in Setters /\ w.by \in Inner /\ Reached(w.by) /\ w.value # Missing
      BY <1>1, LoopAssumption DEF SettingsKept
    <3>2. CASE w.kind = "temp" /\ TempKept(w)
      <4> DEFINE n == IF w.scope = "case" THEN ChildCase ELSE Gtv[w.by]
      <4>1. n \in HasRow /\ rowOf[n] # Missing
        BY <3>1, GtvNodes, PathNodes, NodeTypes DEF Reached
      <4>2. rowOf[n] \in DOMAIN rows
        BY <3>2 DEF TempKept
      <4>3. /\ w.place = <<"row", rowOf[n]>> /\ w.name \in DOMAIN rows[rowOf[n]]
            /\ rows[rowOf[n]][w.name] = w.value
        BY <3>2 DEF TempKept
      <4>4. /\ w.name \in DOMAIN rows'[rowOf[n]] /\ rows'[rowOf[n]][w.name] = w.value
            /\ rowOf[n] \in DOMAIN rows'
        BY <1>6, <2>2, <4>2, <4>3 DEF SetsOne
      <4>5. TempKept(w)'
        BY <1>1, <4>3, <4>4 DEF TempKept
      <4> QED BY <1>3, <3>1, <3>2, <4>5
    <3>3. CASE w.kind = "env" /\ EnvKept(w)
      <4> DEFINE at == Gpe[w.by]
      <4>1. /\ w.place = <<"env", at>> /\ at[1] \in DOMAIN envs /\ at[2] \in DOMAIN envs[at[1]]
            /\ w.name \in DOMAIN envs[at[1]][at[2]] /\ envs[at[1]][at[2]][w.name] = w.value
        BY <3>3 DEF EnvKept
      <4>2. at = <<at[1], at[2]>>
        BY <3>1, GpePairs, NodeTypes
      <4> HIDE DEF at, target, v, k
      <4>3. target # <<"env", <<at[1], at[2]>>>> \/ w.name # k
        BY <2>2, <4>1, <4>2
      <4>4. /\ at[1] \in DOMAIN envs' /\ at[2] \in DOMAIN envs'[at[1]]
            /\ w.name \in DOMAIN envs'[at[1]][at[2]] /\ envs'[at[1]][at[2]][w.name] = w.value
        BY <1>6, <4>1, <4>3 DEF SetsOne
      <4>5. EnvKept(w)'
        BY <1>2, <4>1, <4>4 DEF EnvKept, at
      <4> QED BY <1>3, <3>1, <3>3, <4>5
    <3>4. CASE w.kind = "global" /\ GlobalKept(w)
      <4>1. GlobalKept(w)'
        BY <1>6, <2>2, <3>4 DEF SetsOne, GlobalKept
      <4> QED BY <1>3, <3>1, <3>4, <4>1
    <3> QED BY <1>1, <3>2, <3>3, <3>4 DEF SettingsKept
  <2> PICK u : u = latest
    OBVIOUS
  <2>3. /\ u.by \in Setters /\ Reached(u.by)' /\ u.value # Missing
        /\ \/ u.kind = "temp" /\ TempKept(u)'
           \/ u.kind = "env" /\ EnvKept(u)'
           \/ u.kind = "global" /\ GlobalKept(u)'
    <3>1. /\ u.by = s /\ u.name = k /\ u.place = target /\ u.value = v
          /\ u.kind = setting.kind /\ u.scope = setting.scope
      OBVIOUS
    <3>2. Reached(s)' /\ s \in Inner
      BY <1>3, LoopAssumption DEF Sets
    <3>3. setting.kind \in {"temp", "env", "global"}
      BY ValueAssumption
    <3>4. CASE setting.kind = "temp"
      <4> DEFINE id == rowOf[IF setting.scope = "case" THEN ChildCase ELSE Gtv[s]]
      <4>1. target = <<"row", id>>
        BY <3>4 DEF Target
      <4>2. target[1] = "row" /\ target[2] = id
        BY <4>1
      <4> HIDE DEF id, target, v, k
      <4>3. k \in DOMAIN rows'[id] /\ rows'[id][k] = v /\ id \in DOMAIN rows'
        BY <1>6, <4>1, <4>2 DEF SetsOne
      <4>4. TempKept(u)'
        BY <1>1, <3>1, <4>1, <4>3 DEF TempKept, id
      <4> QED BY <1>6, <3>1, <3>2, <3>4, <4>4
    <3>5. CASE setting.kind = "env"
      <4> DEFINE at == Gpe[s]
      <4>1. /\ target = <<"env", at>> /\ at[1] \in DOMAIN envs /\ at[2] \in DOMAIN envs[at[1]]
        BY <1>6, <3>5 DEF Target, Known
      <4>2. at = <<at[1], at[2]>>
        BY <3>2, GpePairs, NodeTypes
      <4> HIDE DEF at, target, v, k
      <4>3. /\ at[1] \in DOMAIN envs' /\ at[2] \in DOMAIN envs'[at[1]]
            /\ k \in DOMAIN envs'[at[1]][at[2]] /\ envs'[at[1]][at[2]][k] = v
        BY <1>6, <4>1, <4>2 DEF SetsOne
      <4>4. EnvKept(u)'
        BY <1>2, <3>1, <4>1, <4>3 DEF EnvKept, at
      <4> QED BY <1>6, <3>1, <3>2, <3>5, <4>4
    <3>6. CASE setting.kind = "global"
      <4>1. target = <<"globals", <<>>>>
        BY <3>6 DEF Target
      <4>2. GlobalKept(u)'
        BY <1>6, <3>1, <4>1 DEF SetsOne, GlobalKept
      <4> QED BY <1>6, <3>1, <3>2, <3>6, <4>2
    <3> QED BY <3>3, <3>4, <3>5, <3>6
  <2>4. SettingsKept'
    <3> HIDE DEF latest, target, v, k
    <3> QED BY <1>6, <2>2, <2>3 DEF SettingsKept
  <2> QED BY <1>4, <2>1, <2>4 DEF VariablesInv
<1> QED BY <1>5, <1>6, SetsDoes

(* In any task a row belongs to whom it was made for, no value goes missing, *)
(* and the latest setting of each variable is where it was put.              *)
THEOREM VariablesStayKept == Spec => []VariablesInv
<1>1. ASSUME VariablesInv, [Next]_vars PROVE VariablesInv'
  <2>1. CASE Next
    BY <1>1, <2>1, MakesKeeps, SetsKeeps DEF Next
  <2>2. CASE UNCHANGED vars
    <3>1. /\ strategy' = strategy /\ drive' = drive /\ made' = made /\ rowOf' = rowOf
          /\ rows' = rows /\ envs' = envs /\ globals' = globals /\ wrote' = wrote
      BY <2>2 DEF vars
    <3>2. Gpe' = Gpe
      BY <3>1 DEF Gpe
    <3>3. \A n : Reached(n)' <=> Reached(n)
      BY <3>1 DEF Reached
    <3>4. ChoicesMade' /\ RowsKept'
      BY <1>1, <3>1 DEF VariablesInv, ChoicesMade, RowsKept
    <3>5. SettingsKept'
      BY <1>1, <3>1, <3>2, <3>3 DEF VariablesInv, SettingsKept, TempKept, EnvKept, GlobalKept
    <3> QED BY <3>4, <3>5 DEF VariablesInv
  <2> QED BY <1>1, <2>1, <2>2
<1> QED BY <1>1, InitKept, PTL DEF Spec

(* A text and a script find the same variable where a row or the environment *)
(* has it (a global one only the text finds), datasets come from the         *)
(* environment of the variables unless a case in its caller's environment is *)
(* inside one that has its own, and two steps compare alike: in any tree of  *)
(* cases, loops and interfaces, with any operands.                           *)
THEOREM TwinsAlwaysAgree == Spec => []TwinsAgree
<1>1. ASSUME VariablesInv PROVE TwinsAgree
  <2>1. LookupsAgree
    BY <1>1, LookupsFound DEF VariablesInv
  <2>2. EnvironmentsAgree
    BY <1>1, EnvironmentsFound DEF VariablesInv, ChoicesMade
  <2> QED BY <2>1, <2>2, OperatorsFound DEF TwinsAgree
<1> QED BY <1>1, VariablesStayKept, PTL

(* What a step has set is what it reads until it is set anew at its place:   *)
(* no loop, and no setting of another step, takes it away; unless the step   *)
(* is in an iteration of a multitasker over a dataset and can read nothing.  *)
THEOREM SettingsAreRead == Spec => []WrittenIsRead
<1>1. ASSUME VariablesInv PROVE WrittenIsRead
  BY <1>1, WrittenIsFound DEF VariablesInv
<1> QED BY <1>1, VariablesStayKept, PTL
=============================================================================
