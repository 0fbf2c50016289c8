---------------------- MODULE EntityResolution_proofs ----------------------
(***************************************************************************)
(* Theorems about EntityResolution: types, that the works are the          *)
(* connected components of the merge decisions, and that their keys tell   *)
(* identified works apart.                                                 *)
(*                                                                         *)
(* A set of papers is linked if no parent link leads into it or out of it. *)
(* The argument rests on one equivalence: the linked sets are the sets no  *)
(* merge decision leads out of.  Halving a path does not change which sets *)
(* are linked, and a union excludes exactly those that part the two papers *)
(* of the decision.                                                        *)
(***************************************************************************)
EXTENDS EntityResolution, NaturalsInduction, WellFoundedInduction, TLAPS

Linked(set) == \A x \in found : x \in set <=> parent[x] \in set

\* The decision being carried out.
Pending(set) ==
  step \in {"left", "right"} =>
    \A pair \in todo : Reached(pair) => (pair[1] \in set <=> pair[2] \in set)

Roots == {x \in found : parent[x] = x}

Together(x, y) == \A set \in SUBSET found : Linked(set) => (x \in set <=> y \in set)

\* Whoever follows the links comes to a root, and two roots can be parted.
Forest ==
  /\ \A set \in SUBSET found :
       set # {} /\ (\A x \in set : parent[x] \in set) => \E r \in set : r \in Roots
  /\ \A a, b \in Roots :
       a # b => \E set \in SUBSET found : Linked(set) /\ a \in set /\ b \notin set

Merged ==
  \A set \in SUBSET found : Linked(set) /\ Pending(set) <=> Closed(set)

\* Between two walks nothing stands anywhere.
Resting ==
  /\ step \in {"compare", "done"} => item = NONE /\ root = NONE
  /\ step = "group" => (item = NONE <=> root = NONE)

\* Where the walk stands, relative to where it began.
Standing ==
  /\ \A pair \in todo : Reached(pair) =>
       /\ step = "left" => Together(item, pair[1])
       /\ step = "right" => Together(item, pair[2]) /\ Together(root, pair[1]) /\ root \in Roots
  /\ step = "group" /\ item # NONE => Together(item, root)
  /\ step = "group" \/ DOMAIN group = {} \/ step = "done"
  /\ step = "group" => \A r \in DOMAIN group : Together(r, group[r]) /\ group[r] \in Roots

EInv == TypeOK /\ Resting /\ Forest /\ Merged /\ Standing

-----------------------------------------------------------------------------
(* Types *)

LEMMA FoundTypes ==
  ASSUME NEW set \in Answers
  PROVE  set \subseteq Records
  BY DEF Answers

LEMMA DecisionValues ==
  ASSUME NEW l, NEW r
  PROVE  Decision(l, r) \in {"MERGE", "REVIEW", "KEEP_SEPARATE"}
  BY DEF Decision, duplicate_decision

LEMMA TypeInit == Init => TypeOK /\ Resting
<1> SUFFICES ASSUME Init PROVE TypeOK /\ Resting
  OBVIOUS
<1>1. found \subseteq Records /\ parent \in [found -> found] /\ DOMAIN group = {}
      /\ group \in [DOMAIN group -> found]
  BY FoundTypes DEF Init
<1> QED
  BY <1>1, RoundsAssumption DEF Init, TypeOK, Resting

LEMMA TypeNext == TypeOK /\ Resting /\ [Next]_vars => TypeOK' /\ Resting'
<1> SUFFICES ASSUME TypeOK, Resting, [Next]_vars PROVE TypeOK' /\ Resting'
  OBVIOUS
<1> USE DEF TypeOK, Resting
<1>1. ASSUME NEW pair \in todo, Compare(pair) PROVE TypeOK' /\ Resting'
  <2>1. pair \in Pairs(found) /\ pair[1] \in found /\ pair[1] # NONE
    BY NoneAssumption DEF Pairs
  <2> DEFINE decision == Decision(pair[1], pair[2])
  <2>2. decision \in {"MERGE", "REVIEW", "KEEP_SEPARATE"}
    BY DecisionValues
  <2> HIDE DEF decision
  <2>3. Noted(pair, decision) \subseteq (Pairs(found) \X {"MERGE", "REVIEW"})
    BY <2>1, <2>2 DEF Noted
  <2>4. decisions' = decisions \cup Noted(pair, decision)
    BY <1>1 DEF Compare, decision
  <2>5. \/ step' = "left" /\ item' = pair[1] /\ UNCHANGED todo
        \/ todo' = todo \ {pair} /\ UNCHANGED <<step, item>> /\ step = "compare"
    BY <1>1 DEF Compare, decision
  <2>6. UNCHANGED <<paper, found, parent, root, group, works, rounds>>
    BY <1>1 DEF Compare
  <2>7. decisions' \subseteq (Pairs(found') \X {"MERGE", "REVIEW"}) /\ todo' \subseteq Pairs(found')
    BY <2>3, <2>4, <2>5, <2>6
  <2>8. step = "compare"
    BY <1>1 DEF Compare
  <2> QED
    BY <2>1, <2>5, <2>6, <2>7, <2>8
<1>2. CASE Halve
  <2>1. parent' \in [found -> found] /\ item' \in found
    BY <1>2, NoneAssumption DEF Halve
  <2> QED
    BY <1>2, <2>1, NoneAssumption DEF Halve
<1>3. ASSUME NEW pair \in todo, LeftFound(pair) PROVE TypeOK' /\ Resting'
  <2>1. pair[2] \in found /\ pair[2] # NONE
    BY NoneAssumption DEF Pairs
  <2> QED
    BY <1>3, <2>1 DEF LeftFound
<1>4. ASSUME NEW pair \in todo, Union(pair) PROVE TypeOK' /\ Resting'
  <2>1. parent' \in [found -> found]
    BY <1>4 DEF Union
  <2> QED
    BY <1>4, <2>1 DEF Union
<1>5. CASE Group
  <2>1. PICK r \in found \ DOMAIN group : item' = r /\ root' = r
    BY <1>5 DEF Group
  <2>2. step' = "group" /\ r \in found /\ r # NONE
    BY <1>5, <2>1, NoneAssumption DEF Group
  <2>3. UNCHANGED <<paper, found, parent, todo, decisions, group, works, rounds>>
    BY <1>5 DEF Group
  <2> QED
    BY <2>1, <2>2, <2>3
<1>6. CASE Grouped
  <2>1. root \in found /\ item \in found
    BY <1>6 DEF Grouped
  <2>2. DOMAIN group' \subseteq found /\ group' \in [DOMAIN group' -> found]
    BY <1>6, <2>1 DEF Grouped
  <2> QED
    BY <1>6, <2>2 DEF Grouped
<1>7. CASE Persist
  BY <1>7 DEF Persist, Ready
<1>8. CASE Replay
  <2>1. found' \subseteq Records /\ parent' \in [found' -> found'] /\ DOMAIN group' = {}
        /\ group' \in [DOMAIN group' -> found']
    BY <1>8, FoundTypes DEF Replay
  <2>2. rounds' \in 1 .. MaxRounds /\ item' = NONE /\ root' = NONE
    BY <1>8, RoundsAssumption DEF Replay
  <2> QED
    BY <1>8, <2>1, <2>2 DEF Replay
<1>9. CASE UNCHANGED vars
  BY <1>9 DEF vars
<1> QED
  BY <1>1, <1>2, <1>3, <1>4, <1>5, <1>6, <1>7, <1>8, <1>9 DEF Next

\* Every variable of the resolution keeps its type, over every execution.
THEOREM ResolutionTypeCorrect == Spec => []TypeOK
<1>1. TypeOK /\ Resting /\ [Next]_vars => (TypeOK /\ Resting)'
  BY TypeNext
<1> QED
  BY TypeInit, <1>1, PTL DEF Spec

-----------------------------------------------------------------------------
(* The walk and the union *)

\* The loops reach one pair at a time.
LEMMA ReachedOnce ==
  ASSUME TypeOK, NEW p \in todo, NEW q \in todo, Reached(p), Reached(q)
  PROVE  p = q
<1>1. /\ p = <<p[1], p[2]>> /\ q = <<q[1], q[2]>>
      /\ p[1] \in Int /\ p[2] \in Int /\ q[1] \in Int /\ q[2] \in Int
  BY SizeAssumption DEF TypeOK, Pairs, Records
<1>2. p[1] < q[1] \/ (p[1] = q[1] /\ p[2] <= q[2])
  BY DEF Reached
<1>3. q[1] < p[1] \/ (q[1] = p[1] /\ q[2] <= p[2])
  BY DEF Reached
<1>4. p[1] = q[1] /\ p[2] = q[2]
  BY <1>1, <1>2, <1>3
<1> QED
  BY <1>1, <1>4

\* Nobody but a root is its own grandparent.
LEMMA NoCycle ==
  ASSUME TypeOK, Forest, NEW x \in found, parent[x] # x
  PROVE  parent[parent[x]] # x
<1> SUFFICES ASSUME parent[parent[x]] = x PROVE FALSE
  OBVIOUS
<1> DEFINE cycle == {x, parent[x]}
<1>1. cycle \in SUBSET found /\ cycle # {} /\ \A y \in cycle : parent[y] \in cycle
  BY DEF TypeOK
<1>2. PICK r \in cycle : r \in Roots
  BY <1>1 DEF Forest
<1> QED
  BY <1>2 DEF Roots

\* Halving changes neither the roots nor which sets are linked.
LEMMA HalveLinks ==
  ASSUME EInv, Halve
  PROVE  /\ found' = found /\ Roots' = Roots
         /\ \A set \in SUBSET found : Linked(set)' <=> Linked(set)
         /\ Forest'
<1> DEFINE up == parent[item]
<1>1. /\ parent \in [found -> found] /\ item \in found /\ up \in found /\ up # item
      /\ parent' = [parent EXCEPT ![item] = parent[up]] /\ found' = found
  BY DEF EInv, TypeOK, Halve
<1>2. parent[up] # item
  BY <1>1, NoCycle DEF EInv
<1>3. /\ parent' \in [found -> found] /\ parent'[item] = parent[up] /\ parent'[up] = parent[up]
      /\ \A x \in found \ {item} : parent'[x] = parent[x]
  BY <1>1
<1>u. up = parent[item]
  OBVIOUS
<1> HIDE DEF up
<1>4. Roots' = Roots
  BY <1>1, <1>2, <1>3, <1>u DEF Roots
<1>5. ASSUME NEW set \in SUBSET found PROVE Linked(set)' <=> Linked(set)
  <2>1. ASSUME Linked(set) PROVE \A x \in found : x \in set <=> parent'[x] \in set
    BY <1>1, <1>3, <1>u, <2>1 DEF Linked
  <2>2. ASSUME \A x \in found : x \in set <=> parent'[x] \in set PROVE Linked(set)
    BY <1>1, <1>3, <1>u, <2>2 DEF Linked
  <2> QED
    BY <1>1, <2>1, <2>2 DEF Linked
<1>6. ASSUME NEW set \in SUBSET found, set # {}, \A x \in set : parent'[x] \in set
      PROVE  \E r \in set : r \in Roots
  <2> DEFINE more == IF item \in set THEN set \cup {up} ELSE set
  <2>1. more \in SUBSET found /\ more # {} /\ \A x \in more : parent[x] \in more
    BY <1>1, <1>3, <1>6, <1>u
  <2>2. PICK r \in more : r \in Roots
    BY <2>1 DEF EInv, Forest
  <2>3. CASE r \in set
    BY <2>2, <2>3
  <2>4. CASE r \notin set
    <3>1. item \in set /\ r = up
      BY <2>2, <2>4
    <3>2. parent[up] = up
      BY <2>2, <3>1 DEF Roots
    <3> QED
      BY <1>3, <1>6, <2>2, <3>1, <3>2
  <2> QED
    BY <2>3, <2>4
<1>7. \A a, b \in Roots :
        a # b => \E set \in SUBSET found : Linked(set)' /\ a \in set /\ b \notin set
  BY <1>5 DEF EInv, Forest
<1>8. Forest'
  BY <1>1, <1>4, <1>6, <1>7 DEF Forest
<1> QED
  BY <1>1, <1>4, <1>5, <1>8

\* What halving, and every step that leaves the links alone, keeps.
LEMMA SameLinks ==
  ASSUME EInv, UNCHANGED <<found, parent>>
  PROVE  /\ Roots' = Roots
         /\ \A set \in SUBSET found : Linked(set)' <=> Linked(set)
         /\ Forest'
<1>1. Roots' = Roots /\ \A set \in SUBSET found : Linked(set)' <=> Linked(set)
  BY DEF Roots, Linked
<1> QED
  BY <1>1 DEF EInv, Forest

\* A union keeps the linked sets that do not part the two roots, and one of them.
LEMMA UnionLinks ==
  ASSUME EInv, NEW pair \in todo, Union(pair)
  PROVE  /\ found' = found /\ item \in Roots /\ root \in Roots
         /\ \A set \in SUBSET found :
              Linked(set)' <=> Linked(set) /\ (item \in set <=> root \in set)
         /\ Forest'
<1>1. /\ parent \in [found -> found] /\ item \in Roots /\ root \in Roots
      /\ item \in found /\ root \in found
      /\ parent' = [parent EXCEPT ![item] = root] /\ found' = found
  BY DEF EInv, TypeOK, Standing, Union, Roots
<1>2. /\ parent'[item] = root /\ parent' \in [found -> found]
      /\ \A x \in found \ {item} : parent'[x] = parent[x]
  BY <1>1
<1>3. parent[item] = item /\ parent[root] = root /\ parent'[root] = root
  BY <1>1, <1>2 DEF Roots
<1>4. \A x \in Roots' : x \in Roots /\ (x # root => x # item)
  BY <1>1, <1>2, <1>3 DEF Roots
<1>5. ASSUME NEW set \in SUBSET found
      PROVE  Linked(set)' <=> Linked(set) /\ (item \in set <=> root \in set)
  BY <1>1, <1>2, <1>3 DEF Linked
<1>6. ASSUME NEW set \in SUBSET found, set # {}, \A x \in set : parent'[x] \in set
      PROVE  \E r \in set : r \in Roots'
  <2>1. CASE item \in set
    <3>1. root \in set /\ root \in Roots'
      BY <1>1, <1>2, <1>3, <1>6, <2>1 DEF Roots
    <3> QED
      BY <3>1
  <2>2. CASE item \notin set
    <3>1. \A x \in set : parent[x] \in set
      BY <1>1, <1>2, <1>6, <2>2
    <3>2. PICK r \in set : r \in Roots
      BY <1>6, <3>1 DEF EInv, Forest
    <3>3. r \in Roots'
      BY <1>1, <1>2, <2>2, <3>2 DEF Roots
    <3> QED
      BY <3>3
  <2> QED
    BY <2>1, <2>2
<1>7. ASSUME NEW a \in Roots', NEW b \in Roots', a # b
      PROVE  \E set \in SUBSET found :
               Linked(set) /\ (item \in set <=> root \in set) /\ a \in set /\ b \notin set
  <2>1. a \in Roots /\ b \in Roots /\ a \in found /\ b \in found
    BY <1>4 DEF Roots
  <2>s. \A x, y \in Roots :
          x # y => \E set \in SUBSET found : Linked(set) /\ x \in set /\ y \notin set
    BY DEF EInv, Forest
  <2>2. CASE item = root
    BY <1>7, <2>1, <2>2, <2>s
  <2>3. CASE item # root /\ a # root
    <3>1. a # item
      BY <1>4, <2>3
    <3>2. PICK p \in SUBSET found : Linked(p) /\ a \in p /\ b \notin p
      BY <1>7, <2>1, <2>s
    <3>3. PICK q \in SUBSET found : Linked(q) /\ a \in q /\ root \notin q
      BY <1>1, <2>1, <2>3, <2>s
    <3>4. PICK t \in SUBSET found : Linked(t) /\ a \in t /\ item \notin t
      BY <1>1, <2>1, <3>1, <2>s
    <3> DEFINE both == p \cap q \cap t
    <3>5. Linked(both) /\ both \in SUBSET found
      BY <3>2, <3>3, <3>4 DEF Linked
    <3> QED
      BY <3>2, <3>3, <3>4, <3>5
  <2>4. CASE item # root /\ a = root
    <3>1. b # root /\ b # item
      BY <1>4, <1>7, <2>4
    <3>2. PICK q \in SUBSET found : Linked(q) /\ b \in q /\ root \notin q
      BY <1>1, <2>1, <3>1, <2>s
    <3>3. PICK t \in SUBSET found : Linked(t) /\ b \in t /\ item \notin t
      BY <1>1, <2>1, <3>1, <2>s
    <3> DEFINE rest == found \ (q \cap t)
    <3>4. Linked(rest) /\ rest \in SUBSET found
      BY <1>1, <3>2, <3>3 DEF Linked
    <3> QED
      BY <1>1, <2>4, <3>2, <3>3, <3>4
  <2> QED
    BY <2>2, <2>3, <2>4
<1>8. \A a, b \in Roots' :
        a # b => \E set \in SUBSET found : Linked(set)' /\ a \in set /\ b \notin set
  BY <1>5, <1>7
<1>9. Forest'
  BY <1>1, <1>6, <1>8 DEF Forest
<1> QED
  BY <1>1, <1>5, <1>9

-----------------------------------------------------------------------------
(* Every step keeps the equivalence *)

\* A union-find whose papers are all roots.
Fresh ==
  /\ TypeOK /\ Resting
  /\ parent = [r \in found |-> r] /\ decisions = {} /\ step = "compare" /\ DOMAIN group = {}

LEMMA FreshInv == Fresh => EInv
<1> SUFFICES ASSUME Fresh PROVE EInv
  OBVIOUS
<1> USE DEF Fresh
<1>1. Roots = found /\ \A set \in SUBSET found : Linked(set)
  BY DEF Roots, Linked
<1>2. Forest
  <2>1. ASSUME NEW a \in Roots, NEW b \in Roots, a # b
        PROVE  \E set \in SUBSET found : Linked(set) /\ a \in set /\ b \notin set
    <3>1. {a} \in SUBSET found /\ Linked({a}) /\ a \in {a} /\ b \notin {a}
      BY <1>1, <2>1
    <3> QED
      BY <3>1
  <2>2. \A set \in SUBSET found :
          set # {} /\ (\A x \in set : parent[x] \in set) => \E r \in set : r \in Roots
    BY <1>1
  <2> QED
    BY <2>1, <2>2 DEF Forest
<1>3. Merged
  BY <1>1 DEF Merged, Pending, Closed
<1>4. Standing
  BY DEF Standing
<1> QED
  BY <1>2, <1>3, <1>4 DEF EInv

LEMMA CompareInv ==
  ASSUME EInv, NEW pair \in todo, Compare(pair), TypeOK', Resting'
  PROVE  EInv'
<1> DEFINE decision == Decision(pair[1], pair[2])
<1>1. /\ step = "compare" /\ Reached(pair)
      /\ decisions' = decisions \cup Noted(pair, decision)
      /\ IF decision = "MERGE" THEN step' = "left" /\ item' = pair[1] /\ UNCHANGED todo
         ELSE todo' = todo \ {pair} /\ UNCHANGED <<step, item>>
      /\ UNCHANGED <<paper, found, parent, root, group, works, rounds>>
  BY DEF Compare
<1> HIDE DEF decision
<1>2. /\ Roots' = Roots /\ Forest'
      /\ \A set \in SUBSET found : Linked(set)' <=> Linked(set)
  BY <1>1, SameLinks
<1>3. \A set \in SUBSET found : Linked(set) <=> Closed(set)
  BY <1>1 DEF EInv, Merged, Pending
<1>4. CASE decision = "MERGE"
  <2>1. decisions' = decisions \cup {<<pair, "MERGE">>}
    BY <1>1, <1>4 DEF Noted
  <2>2. \A set \in SUBSET found :
          Closed(set)' <=> Closed(set) /\ (pair[1] \in set <=> pair[2] \in set)
    <3> DEFINE new == <<pair, "MERGE">>
    <3>1. new[1] = pair /\ new[2] = "MERGE" /\ decisions' = decisions \cup {new}
      BY <2>1
    <3> HIDE DEF new
    <3> QED
      BY <3>1 DEF Closed
  <2>3. \A p \in todo' : Reached(p)' <=> p = pair
    <3>1. \A p \in todo : Reached(p) => p = pair
      BY <1>1, ReachedOnce DEF EInv
    <3> QED
      BY <1>1, <1>4, <3>1 DEF Reached
  <2>4. step' = "left" /\ todo' = todo /\ found' = found /\ item' = pair[1] /\ UNCHANGED group
    BY <1>1, <1>4
  <2>5. \A set \in SUBSET found : Pending(set)' <=> (pair[1] \in set <=> pair[2] \in set)
    BY <2>3, <2>4 DEF Pending
  <2>6. Merged'
    BY <1>2, <1>3, <2>2, <2>4, <2>5 DEF Merged
  <2>7. Standing'
    BY <1>1, <2>3, <2>4 DEF Standing, Together, EInv
  <2> QED
    BY <1>2, <2>6, <2>7 DEF EInv
<1>5. CASE decision # "MERGE"
  <2>1. \A set \in SUBSET found : Closed(set)' <=> Closed(set)
    BY <1>1, <1>5 DEF Closed, Noted
  <2>2. step' = "compare" /\ found' = found /\ UNCHANGED group
    BY <1>1, <1>5
  <2>3. Merged'
    BY <1>2, <1>3, <2>1, <2>2 DEF Merged, Pending
  <2>4. Standing'
    BY <1>1, <2>2 DEF Standing, EInv
  <2> QED
    BY <1>2, <2>3, <2>4 DEF EInv
<1> QED
  BY <1>4, <1>5

LEMMA HalveInv ==
  ASSUME EInv, Halve, TypeOK', Resting'
  PROVE  EInv'
<1>1. /\ UNCHANGED <<found, todo, decisions, step, root, group>>
      /\ parent \in [found -> found] /\ item \in found
      /\ item' = parent[parent[item]] /\ parent[item] \in found /\ item' \in found
      /\ step \in {"left", "right", "group"} /\ item # NONE
  BY DEF EInv, TypeOK, Halve
<1>2. /\ Roots' = Roots /\ Forest'
      /\ \A set \in SUBSET found : Linked(set)' <=> Linked(set)
  BY HalveLinks
<1>3. /\ \A set \in SUBSET found : Closed(set)' <=> Closed(set)
      /\ \A p \in todo : Reached(p)' <=> Reached(p)
      /\ \A set \in SUBSET found : Pending(set)' <=> Pending(set)
  BY <1>1 DEF Closed, Reached, Pending
<1>4. \A set \in SUBSET found : Linked(set) => (item' \in set <=> item \in set)
  BY <1>1 DEF Linked
<1>5. Merged'
  BY <1>1, <1>2, <1>3 DEF EInv, Merged
<1>6. \A x : Together(item, x) => Together(item, x)'
  BY <1>1, <1>2, <1>4 DEF Together
<1>7. \A x, y : Together(x, y) => Together(x, y)'
  BY <1>1, <1>2 DEF Together
<1>8. Standing'
  BY <1>1, <1>2, <1>3, <1>6, <1>7 DEF EInv, Standing, TypeOK, Resting
<1> QED
  BY <1>2, <1>5, <1>8 DEF EInv

LEMMA LeftFoundInv ==
  ASSUME EInv, NEW pair \in todo, LeftFound(pair), TypeOK', Resting'
  PROVE  EInv'
<1>1. /\ UNCHANGED <<found, parent, todo, decisions, group>>
      /\ step = "left" /\ step' = "right" /\ Reached(pair)
      /\ root' = item /\ item' = pair[2] /\ item \in found /\ item \in Roots
  BY DEF EInv, TypeOK, LeftFound, Roots
<1>2. /\ Roots' = Roots /\ Forest'
      /\ \A set \in SUBSET found : Linked(set)' <=> Linked(set)
  BY <1>1, SameLinks
<1>3. /\ \A set \in SUBSET found : Closed(set)' <=> Closed(set)
      /\ \A p \in todo : Reached(p)' <=> Reached(p)
  BY <1>1 DEF Closed, Reached
<1>4. Merged'
  BY <1>1, <1>2, <1>3 DEF EInv, Merged, Pending
<1>5. \A p \in todo : Reached(p) => p = pair
  BY <1>1, ReachedOnce DEF EInv
<1>6. Together(item, pair[1])
  BY <1>1 DEF EInv, Standing
<1>7. Together(root, pair[1])' /\ Together(item, pair[2])'
  BY <1>1, <1>2, <1>6 DEF Together
<1>8. Standing'
  BY <1>1, <1>2, <1>3, <1>5, <1>7 DEF EInv, Standing
<1> QED
  BY <1>2, <1>4, <1>8 DEF EInv

LEMMA UnionInv ==
  ASSUME EInv, NEW pair \in todo, Union(pair), TypeOK', Resting'
  PROVE  EInv'
<1>1. /\ UNCHANGED <<found, decisions, group>>
      /\ step = "right" /\ step' = "compare" /\ Reached(pair)
  BY DEF Union
<1>2. /\ Forest'
      /\ \A set \in SUBSET found :
           Linked(set)' <=> Linked(set) /\ (item \in set <=> root \in set)
  BY UnionLinks
<1>3. Together(item, pair[2]) /\ Together(root, pair[1])
  BY <1>1 DEF EInv, Standing
<1>4. \A p \in todo : Reached(p) => p = pair
  BY <1>1, ReachedOnce DEF EInv
<1>5. \A set \in SUBSET found : Pending(set) <=> (pair[1] \in set <=> pair[2] \in set)
  BY <1>1, <1>4 DEF Pending
<1>6. \A set \in SUBSET found : Linked(set)' <=> Closed(set)
  BY <1>2, <1>3, <1>5 DEF EInv, Merged, Together
<1>7. \A set \in SUBSET found : Closed(set)' <=> Closed(set)
  BY <1>1 DEF Closed
<1>8. Merged'
  BY <1>1, <1>6, <1>7 DEF Merged, Pending
<1>9. Standing'
  BY <1>1 DEF EInv, Standing
<1> QED
  BY <1>2, <1>8, <1>9 DEF EInv

\* The steps that leave the links and the decisions alone.
LEMMA KeptMerged ==
  ASSUME EInv, UNCHANGED <<found, parent, decisions>>,
         step \notin {"left", "right"}, step' \notin {"left", "right"}
  PROVE  Forest' /\ Merged' /\ Roots' = Roots /\ \A x, y : Together(x, y)' <=> Together(x, y)
<1>1. /\ Roots' = Roots /\ Forest'
      /\ \A set \in SUBSET found : Linked(set)' <=> Linked(set)
  BY SameLinks
<1>2. \A set \in SUBSET found : Closed(set)' <=> Closed(set)
  BY DEF Closed
<1>3. Merged'
  BY <1>1, <1>2 DEF EInv, Merged, Pending
<1> QED
  BY <1>1, <1>3 DEF Together

LEMMA ResolutionNext == EInv /\ [Next]_vars => EInv'
<1> SUFFICES ASSUME EInv, [Next]_vars PROVE EInv'
  OBVIOUS
<1>t. TypeOK' /\ Resting'
  BY TypeNext DEF EInv
<1>1. ASSUME NEW pair \in todo, Compare(pair) \/ LeftFound(pair) \/ Union(pair) PROVE EInv'
  BY <1>1, <1>t, CompareInv, LeftFoundInv, UnionInv
<1>2. CASE Halve
  BY <1>2, <1>t, HalveInv
<1>3. CASE Group
  <2>1. PICK r \in found \ DOMAIN group : item' = r /\ root' = r
    BY <1>3 DEF Group
  <2>2. /\ UNCHANGED <<found, parent, decisions, group>> /\ step' = "group"
        /\ step \in {"compare", "group"}
    BY <1>3 DEF Group
  <2>3. Forest' /\ Merged' /\ Roots' = Roots /\ \A x, y : Together(x, y)' <=> Together(x, y)
    BY <2>2, KeptMerged
  <2>4. Together(item', root')
    BY <2>1 DEF Together
  <2>5. Standing'
    BY <2>1, <2>2, <2>3, <2>4 DEF EInv, Standing
  <2> QED
    BY <1>t, <2>3, <2>5 DEF EInv
<1>4. CASE Grouped
  <2>1. /\ UNCHANGED <<found, parent, decisions, step>> /\ step = "group" /\ item' = NONE
        /\ group' = [r \in DOMAIN group \cup {root} |-> IF r = root THEN item ELSE group[r]]
        /\ item \in Roots /\ Together(item, root)
    BY <1>4 DEF EInv, Grouped, Standing, Roots, TypeOK
  <2>2. Forest' /\ Merged' /\ Roots' = Roots /\ \A x, y : Together(x, y)' <=> Together(x, y)
    BY <2>1, KeptMerged
  <2>3. \A r \in DOMAIN group' : Together(r, group'[r]) /\ group'[r] \in Roots
    BY <2>1 DEF EInv, Standing, Together
  <2>4. Standing'
    BY <2>1, <2>2, <2>3 DEF Standing
  <2> QED
    BY <1>t, <2>2, <2>4 DEF EInv
<1>5. CASE Persist
  <2>1. /\ UNCHANGED <<found, parent, decisions>> /\ step' = "done"
        /\ step \in {"compare", "group"}
    BY <1>5 DEF Persist, Ready
  <2>2. Forest' /\ Merged'
    BY <2>1, KeptMerged
  <2>3. Standing'
    BY <2>1 DEF Standing
  <2> QED
    BY <1>t, <2>2, <2>3 DEF EInv
<1>6. CASE Replay
  <2>1. /\ parent' = [r \in found' |-> r] /\ decisions' = {} /\ step' = "compare"
        /\ DOMAIN group' = {}
    BY <1>6 DEF Replay
  <2>2. Fresh'
    BY <1>t, <2>1 DEF Fresh
  <2>3. Fresh' => EInv'
    BY FreshInv, PTL
  <2> QED
    BY <2>2, <2>3
<1>7. CASE UNCHANGED vars
  <2>1. Roots' = Roots /\ Forest' /\ \A set \in SUBSET found : Linked(set)' <=> Linked(set)
    BY <1>7, SameLinks DEF vars
  <2>2. Merged'
    BY <1>7, <2>1 DEF vars, EInv, Merged, Pending, Reached, Closed
  <2>3. Standing'
    BY <1>7, <2>1 DEF vars, EInv, Standing, Together, Reached
  <2> QED
    BY <1>t, <2>1, <2>2, <2>3 DEF EInv
<1> QED
  BY <1>1, <1>2, <1>3, <1>4, <1>5, <1>6, <1>7 DEF Next

\* When every paper has been grouped, two papers share a root exactly if a chain of
\* merges joins them.
LEMMA GroupedComponents == EInv => ClustersAreComponents
<1> SUFFICES ASSUME EInv, step = "group", DOMAIN group = found, NEW r \in found, NEW s \in found
             PROVE  group[r] = group[s] <=> Connected(r, s)
  BY DEF ClustersAreComponents
<1>1. \A set \in SUBSET found : Linked(set) <=> Closed(set)
  BY DEF EInv, Merged, Pending
<1>2. /\ Together(r, group[r]) /\ group[r] \in Roots
      /\ Together(s, group[s]) /\ group[s] \in Roots
  BY DEF EInv, Standing
<1>3. ASSUME group[r] = group[s] PROVE Connected(r, s)
  BY <1>1, <1>2, <1>3 DEF Connected, Together
<1>4. ASSUME Connected(r, s), group[r] # group[s] PROVE FALSE
  <2>1. PICK set \in SUBSET found : Linked(set) /\ group[r] \in set /\ group[s] \notin set
    BY <1>2, <1>4 DEF EInv, Forest
  <2>2. r \in set /\ s \notin set
    BY <1>2, <2>1 DEF Together
  <2> QED
    BY <1>1, <1>4, <2>1, <2>2 DEF Connected
<1> QED
  BY <1>3, <1>4

\* The works are the connected components of the merge decisions, for any number of
\* records and any similarity of titles, however the union-find is compressed.
THEOREM WorksAreComponents == Spec => []ClustersAreComponents
<1>1. Init => EInv
  BY TypeInit, FreshInv DEF Init, Fresh
<1> QED
  BY <1>1, ResolutionNext, GroupedComponents, PTL DEF Spec

-----------------------------------------------------------------------------
(* The preferred paper of a cluster *)

LEMMA Ranks ==
  ASSUME TypeOK, NEW r \in Records
  PROVE  VersionPriority(paper[r]) \in Int /\ DateOf(paper[r]) \in Int /\ r \in Nat
<1>1. paper[r] \in Kinds /\ r \in Nat
  BY SizeAssumption DEF TypeOK, Records
<1>2. DateOf(paper[r]) \in Int
  BY <1>1, YearsAssumption DEF DateOf
<1>3. VersionPriority(paper[r]) \in {0, 1, 2, 3, 4}
  BY DEF VersionPriority
<1> QED
  BY <1>1, <1>2, <1>3

LEMMA AboveIsTotal ==
  ASSUME TypeOK, NEW r \in Records, NEW s \in Records
  PROVE  /\ Above(r, r) /\ (Above(r, s) \/ Above(s, r))
         /\ \A t \in Records : Above(r, s) /\ Above(s, t) => Above(r, t)
<1> DEFINE v(x) == VersionPriority(paper[x])
           d(x) == DateOf(paper[x])
<1>1. \A x \in Records : v(x) \in Int /\ d(x) \in Int /\ x \in Nat
  BY Ranks
<1>2. ASSUME NEW x \in Records, NEW y \in Records
      PROVE  Above(x, y) <=> \/ v(x) > v(y)
                             \/ v(x) = v(y) /\ d(x) > d(y)
                             \/ v(x) = v(y) /\ d(x) = d(y) /\ x <= y
  BY Zenon DEF Above
<1> HIDE DEF v, d
<1>3. Above(r, r) /\ (Above(r, s) \/ Above(s, r))
  BY <1>1, <1>2
<1>4. ASSUME NEW t \in Records, Above(r, s), Above(s, t) PROVE Above(r, t)
  BY <1>1, <1>2, <1>4
<1> QED
  BY <1>3, <1>4

Best(r, set) == r \in set /\ \A s \in set : Above(r, s)

\* Every cluster has one: a smallest number below which some set of papers had none
\* would leave a set that has one, and one paper more.
LEMMA BestExists ==
  ASSUME TypeOK, NEW cluster \in SUBSET Records, cluster # {}
  PROVE  \E r \in cluster : Best(r, cluster)
<1> DEFINE Below(set, n) == \A r \in set : r <= n
           Lacking(set) == set # {} /\ \A r \in set : ~Best(r, set)
           Bad == {n \in Nat : \E set \in SUBSET Records : Below(set, n) /\ Lacking(set)}
<1> SUFFICES ASSUME Lacking(cluster) PROVE FALSE
  OBVIOUS
<1>1. \A r \in Records : r \in Nat /\ r >= 1 /\ r <= Size
  BY SizeAssumption DEF Records
<1>2. Size \in Bad
  BY <1>1, SizeAssumption
<1>3. PICK n \in Bad : \A m \in Bad : ~(<<m, n>> \in OpToRel(<, Nat))
  <2>1. Bad \in SUBSET Nat /\ Bad # {}
    BY <1>2
  <2> HIDE DEF Bad
  <2> QED
    BY <2>1, NatLessThanWellFounded, WFMin
<1>4. n \in Nat /\ \A m \in Bad : m >= n
  <2>1. ASSUME NEW m \in Bad, m < n PROVE FALSE
    <3>1. m \in Nat /\ n \in Nat
      OBVIOUS
    <3>2. <<m, n>> \in Nat \X Nat /\ <<m, n>>[1] < <<m, n>>[2]
      BY <2>1, <3>1
    <3> QED
      BY <1>3, <3>2 DEF OpToRel
  <2> QED
    BY <2>1
<1>5. PICK set \in SUBSET Records : Below(set, n) /\ Lacking(set)
  OBVIOUS
<1>6. n >= 1
  BY <1>1, <1>4, <1>5
<1>7. n - 1 \in Nat /\ n - 1 \notin Bad
  BY <1>4, <1>6
<1> DEFINE rest == set \ {n}
<1>8. Below(rest, n - 1) /\ rest \in SUBSET Records
  BY <1>1, <1>4, <1>5
<1>9. ~Lacking(rest)
  BY <1>7, <1>8
<1>10. n \in set
  <2>1. n \notin set => rest = set
    OBVIOUS
  <2> QED
    BY <1>5, <1>9, <2>1
<1>11. CASE rest = {}
  <2>1. set = {n} /\ n \in Records
    BY <1>10, <1>11
  <2> QED
    BY <1>5, <2>1, AboveIsTotal DEF Best
<1>12. CASE rest # {}
  <2>1. PICK b \in rest : Best(b, rest)
    BY <1>9, <1>12
  <2>2. b \in Records /\ n \in Records /\ b \in set
    BY <1>10, <2>1
  <2>3. CASE Above(b, n)
    <3>1. Best(b, set)
      BY <2>1, <2>2, <2>3 DEF Best
    <3> QED
      BY <1>5, <2>2, <3>1
  <2>4. CASE ~Above(b, n)
    <3>1. Above(n, b) /\ Above(n, n)
      BY <2>2, <2>4, AboveIsTotal
    <3>2. \A s \in rest : Above(n, s)
      BY <2>1, <2>2, <3>1, AboveIsTotal DEF Best
    <3>3. Best(n, set)
      BY <1>10, <3>1, <3>2 DEF Best
    <3> QED
      BY <1>5, <1>10, <3>3
  <2> QED
    BY <2>3, <2>4
<1> QED
  BY <1>11, <1>12

LEMMA PreferredIsMember ==
  ASSUME TypeOK, NEW cluster \in SUBSET Records, cluster # {}
  PROVE  Preferred(cluster) \in cluster
  BY BestExists DEF Best, Preferred

-----------------------------------------------------------------------------
(* No two works under one identifier *)

\* Every pair that was compared and is to be merged was decided to be, the one whose
\* papers are being united included; nothing is grouped before all were compared.
Compared ==
  /\ \A pair \in Pairs(found) :
       /\ pair \notin todo \/ (step \in {"left", "right"} /\ Reached(pair))
       /\ Decision(pair[1], pair[2]) = "MERGE"
       => <<pair, "MERGE">> \in decisions
  /\ step = "group" => todo = {}

LEMMA ComparedNext == EInv /\ Compared /\ [Next]_vars => Compared'
<1> SUFFICES ASSUME EInv, Compared, [Next]_vars PROVE Compared'
  OBVIOUS
<1> DEFINE Known(pair) == <<pair, "MERGE">> \in decisions
           Due(pair) == Decision(pair[1], pair[2]) = "MERGE"
<1>1. ASSUME NEW pair \in todo, Compare(pair) PROVE Compared'
  <2>1. /\ step = "compare" /\ Reached(pair) /\ UNCHANGED <<paper, found>>
        /\ decisions' = decisions \cup Noted(pair, Decision(pair[1], pair[2]))
        /\ IF Due(pair) THEN step' = "left" /\ UNCHANGED todo
           ELSE todo' = todo \ {pair} /\ UNCHANGED step
    BY <1>1 DEF Compare
  <2>2. \A p : Due(p)' <=> Due(p)
    BY <2>1 DEF Decision
  <2>3. \A p : Known(p) => Known(p)'
    BY <2>1
  <2>4. Due(pair) => Known(pair)'
    BY <2>1 DEF Noted
  <2>5. CASE Due(pair)
    <3>1. \A p \in todo : Reached(p)' => p = pair
      <4>1. todo' = todo
        BY <2>1, <2>5
      <4>2. \A p \in todo : Reached(p)' <=> Reached(p)
        BY <4>1 DEF Reached
      <4> QED
        BY <2>1, <4>2, ReachedOnce DEF EInv
    <3> QED
      BY <2>1, <2>2, <2>3, <2>4, <2>5, <3>1 DEF Compared
  <2>6. CASE ~Due(pair)
    BY <2>1, <2>2, <2>3, <2>6 DEF Compared
  <2> QED
    BY <2>5, <2>6
<1>2. ASSUME NEW pair \in todo, LeftFound(pair) PROVE Compared'
  BY <1>2 DEF LeftFound, Compared, Decision, Reached
<1>3. ASSUME NEW pair \in todo, Union(pair) PROVE Compared'
  BY <1>3 DEF Union, Compared, Decision
<1>4. CASE Halve
  BY <1>4 DEF Halve, Compared, Decision, Reached
<1>5. CASE Group
  BY <1>5 DEF Group, Compared, Decision
<1>6. CASE Grouped
  BY <1>6 DEF Grouped, Compared, Decision
<1>7. CASE Persist
  BY <1>7 DEF Persist, Ready, Compared, Decision
<1>8. CASE Replay
  BY <1>8 DEF Replay, Compared
<1>9. CASE UNCHANGED vars
  BY <1>9 DEF vars, Compared, Decision, Reached
<1> QED
  BY <1>1, <1>2, <1>3, <1>4, <1>5, <1>6, <1>7, <1>8, <1>9 DEF Next

\* Two papers with one identifier are in one group.
LEMMA IdentifiedTogether ==
  ASSUME EInv, Compared, step = "group", DOMAIN group = found,
         NEW r \in found, NEW s \in found, SameIdentifier(paper[r], paper[s])
  PROVE  group[r] = group[s]
<1>1. ASSUME NEW x \in found, NEW y \in found, x < y, SameIdentifier(paper[x], paper[y])
      PROVE  group[x] = group[y]
  <2>1. <<x, y>> \in Pairs(found) /\ Decision(x, y) = "MERGE"
    BY <1>1 DEF Pairs, Decision, duplicate_decision
  <2>2. <<<<x, y>>, "MERGE">> \in decisions
    BY <2>1 DEF Compared
  <2>3. Connected(x, y)
    <3>1. ASSUME NEW set \in SUBSET found, Closed(set) PROVE x \in set <=> y \in set
      BY <2>2, <3>1 DEF Closed
    <3> QED
      BY <3>1 DEF Connected
  <2> QED
    BY <2>3, GroupedComponents DEF ClustersAreComponents
<1>2. r \in Int /\ s \in Int /\ SameIdentifier(paper[s], paper[r])
  BY SizeAssumption DEF EInv, TypeOK, Records, SameIdentifier
<1>3. r < s \/ s < r \/ r = s
  BY <1>2
<1> QED
  BY <1>1, <1>2, <1>3

LEMMA IdentifiersTell == EInv /\ Compared => KeysIdentify
<1> SUFFICES ASSUME EInv, Compared, step = "group", DOMAIN group = found,
                    NEW c \in Clusters, NEW d \in Clusters,
                    c # d, cluster_key(c) = cluster_key(d)
             PROVE  paper[Preferred(c)].doi = NONE /\ paper[Preferred(c)].arxiv = NONE
  BY DEF KeysIdentify
<1> DEFINE i == Preferred(c)
           j == Preferred(d)
           p == paper[i]
           q == paper[j]
<1>1. PICK x \in found : c = {r \in found : group[r] = group[x]}
  BY DEF Clusters
<1>2. PICK y \in found : d = {r \in found : group[r] = group[y]}
  BY DEF Clusters
<1>3. i \in c /\ j \in d
  <2>1. c \subseteq Records /\ d \subseteq Records /\ c # {} /\ d # {}
    BY <1>1, <1>2 DEF EInv, TypeOK
  <2> QED
    BY <2>1, PreferredIsMember DEF EInv
<1>4. i \in found /\ j \in found /\ group[i] # group[j]
  <2>1. group[i] = group[x] /\ group[j] = group[y]
    BY <1>1, <1>2, <1>3
  <2>2. group[x] # group[y]
    BY <1>1, <1>2
  <2> QED
    BY <1>1, <1>2, <1>3, <2>1, <2>2
<1>5. ~SameIdentifier(p, q)
  BY <1>4, IdentifiedTogether
<1>6. p \in Kinds /\ q \in Kinds
  BY <1>4 DEF EInv, TypeOK
<1>7. /\ cluster_key(c) = IF p.doi # NONE THEN p.doi ELSE IF p.arxiv # NONE THEN p.arxiv ELSE p.title
      /\ cluster_key(d) = IF q.doi # NONE THEN q.doi ELSE IF q.arxiv # NONE THEN q.arxiv ELSE q.title
  BY DEF cluster_key
<1> HIDE DEF p, q
<1>8. p.doi = NONE /\ p.arxiv = NONE
  BY <1>5, <1>6, <1>7, NameSpacesAssumption DEF SameIdentifier
<1> QED
  BY <1>8 DEF p

\* A paper identified by a DOI or an arXiv identifier is never dropped for the work of
\* another: no two clusters of one execution have one key unless neither is identified.
THEOREM KeysAreIdentifying == Spec => []KeysIdentify
<1>1. Init => EInv /\ Compared
  BY TypeInit, FreshInv DEF Init, Fresh, Compared
<1>2. EInv /\ Compared /\ [Next]_vars => (EInv /\ Compared)'
  BY ResolutionNext, ComparedNext
<1> QED
  BY <1>1, <1>2, IdentifiersTell, PTL DEF Spec

=============================================================================
