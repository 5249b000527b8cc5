---------------------------- MODULE NetworkProofs ----------------------------
(***************************************************************************)
(* The types of Network, what its connections, calls and answers say of    *)
(* each other, and that the nodes implement RequestService.                *)
(*                                                                         *)
(* TypeInv, WireInv and LeafInv make the inductive invariant NetInv.  A    *)
(* request is done by the last server of a chain of servers that wait for  *)
(* each other; LeafInv says which node that may be, and that whoever has   *)
(* an answer has the one the domain gave.                                  *)
(***************************************************************************)
EXTENDS Network, FiniteSetTheorems, SequenceTheorems, WellFoundedInduction, TLAPS

-----------------------------------------------------------------------------
(***************************************************************************)
(* Sequences and tables.  Kept is defined by recursion over a sequence:    *)
(* what it keeps follows from induction with the set of the lengths a fact *)
(* holds for.                                                              *)
(***************************************************************************)
\* A set of numbers that is not empty has a least element.
LEMMA LeastNatural ==
  ASSUME NEW S, S \subseteq Nat, S # {}
  PROVE  \E x \in S : \A y \in S : x <= y
<1>1. PICK x \in S : \A y \in S : <<y, x>> \notin OpToRel(<, Nat)
  BY WFMin, NatLessThanWellFounded, Zenon
<1>2. \A y \in S : y \in Nat /\ x \in Nat /\ ~(y < x)
  BY <1>1, Zenon DEF OpToRel
<1>3. \A y \in S : x <= y
  BY <1>2
<1> QED BY <1>3

\* Induction over an interval, with the set of the numbers it holds for.
LEMMA InductionOver ==
  ASSUME NEW n \in Nat, NEW S, 0 \in S,
         \A i \in 1 .. n : i - 1 \in S => i \in S
  PROVE  \A i \in 0 .. n : i \in S
<1> DEFINE R == (0 .. n) \ S
<1>1. CASE R # {}
  <2>1. R \subseteq Nat
    OBVIOUS
  <2>2. PICK x \in R : \A y \in R : x <= y
    <3> HIDE DEF R
    <3> QED BY <1>1, <2>1, LeastNatural
  <2>3. x \in 1 .. n /\ x - 1 \in 0 .. n /\ ~(x <= x - 1)
    OBVIOUS
  <2> QED BY <2>2, <2>3
<1> QED BY <1>1

\* The recursive function that Kept is defined with exists, and satisfies its
\* equation.
LEMMA KeptIsRecursive ==
  ASSUME NEW S, NEW T, NEW s \in Seq(T)
  PROVE  \E f : /\ f = [i \in 0 .. Len(s) |->
                    IF i = 0 THEN <<>>
                    ELSE IF s[i] \in S THEN Append(f[i - 1], s[i]) ELSE f[i - 1]]
                /\ Kept(s, S) = f[Len(s)]
<1> DEFINE Step(f, i) == IF i = 0 THEN <<>>
             ELSE IF s[i] \in S THEN Append(f[i - 1], s[i]) ELSE f[i - 1]
           Is(f, n) == f = [i \in 0 .. n |-> Step(f, i)]
           Good == {n \in 0 .. Len(s) : \E f : Is(f, n)}
<1>0. Len(s) \in Nat
  OBVIOUS
<1>1. 0 \in Good
  <2> DEFINE g == [i \in 0 .. 0 |-> <<>>]
  <2>1. Is(g, 0)
    OBVIOUS
  <2>2. \E f : Is(f, 0)
    <3> HIDE DEF Is
    <3> QED BY <2>1
  <2> HIDE DEF Is
  <2> QED BY <1>0, <2>2
<1>2. ASSUME NEW n \in 1 .. Len(s), n - 1 \in Good
      PROVE  n \in Good
  <2>1. PICK f : Is(f, n - 1)
    BY <1>2
  <2> DEFINE g == [i \in 0 .. n |-> IF i = n THEN Step(f, n) ELSE f[i]]
  <2>2. \A i \in 0 .. n - 1 : g[i] = f[i] /\ f[i] = Step(f, i)
    <3>1. \A i \in 0 .. n - 1 : f[i] = Step(f, i)
      BY <2>1
    <3>2. \A i \in 0 .. n - 1 : i # n /\ i \in 0 .. n
      OBVIOUS
    <3>3. \A i \in 0 .. n - 1 : g[i] = f[i]
      <4> HIDE DEF Step
      <4> QED BY <3>2
    <3> HIDE DEF g
    <3> QED BY <3>1, <3>3
  <2>3. \A i \in 0 .. n : g[i] = Step(g, i)
    <3> SUFFICES ASSUME NEW i \in 0 .. n PROVE g[i] = Step(g, i)
      OBVIOUS
    <3>1. i = 0 \/ i - 1 \in 0 .. n - 1
      OBVIOUS
    <3>0. g[i] = IF i = n THEN Step(f, n) ELSE f[i]
      <4> HIDE DEF Step
      <4> QED OBVIOUS
    <3> HIDE DEF g
    <3>2. Step(g, i) = Step(f, i)
      BY <2>2, <3>1
    <3>3. CASE i = n
      <4> HIDE DEF Step
      <4> QED BY <3>0, <3>2, <3>3
    <3>4. CASE i # n
      <4>1. f[i] = Step(f, i)
        BY <2>2, <3>4
      <4> HIDE DEF Step
      <4> QED BY <3>0, <3>2, <3>4, <4>1
    <3> QED BY <3>3, <3>4
  <2>4. Is(g, n)
    <3>1. g = [i \in 0 .. n |-> g[i]]
      <4> HIDE DEF Step
      <4> QED OBVIOUS
    <3>2. [i \in 0 .. n |-> g[i]] = [i \in 0 .. n |-> Step(g, i)]
      <4> HIDE DEF Step, g
      <4> QED BY <2>3
    <3> QED BY <3>1, <3>2
  <2>5. \E x : Is(x, n)
    <3> HIDE DEF Is, g
    <3> QED BY <2>4
  <2> HIDE DEF Is
  <2> QED BY <2>5
<1>3. Len(s) \in Good
  <2>1. \A i \in 1 .. Len(s) : i - 1 \in Good => i \in Good
    <3> HIDE DEF Good
    <3> QED BY <1>2
  <2> HIDE DEF Good
  <2>2. \A i \in 0 .. Len(s) : i \in Good
    BY <1>0, <1>1, <2>1, InductionOver
  <2> QED BY <1>0, <2>2
<1>4. \E f : Is(f, Len(s))
  BY <1>3
<1> DEFINE h == CHOOSE f : Is(f, Len(s))
<1>5. Is(h, Len(s))
  <2> HIDE DEF Is
  <2> QED BY <1>4
<1>6. Kept(s, S) = h[Len(s)]
  BY DEF Kept
<1> HIDE DEF h
<1> QED BY <1>5, <1>6

LEMMA ElementsAppend ==
  ASSUME NEW T, NEW s \in Seq(T), NEW x \in T
  PROVE  /\ Append(s, x) \in Seq(T)
         /\ Elements(Append(s, x)) = Elements(s) \cup {x}
<1>1. DOMAIN Append(s, x) = 1 .. Len(s) + 1 /\ DOMAIN s = 1 .. Len(s)
  OBVIOUS
<1>2. Append(s, x)[Len(s) + 1] = x /\ Len(s) + 1 \in 1 .. Len(s) + 1
  OBVIOUS
<1>3. \A i \in 1 .. Len(s) : Append(s, x)[i] = s[i] /\ i \in 1 .. Len(s) + 1
  OBVIOUS
<1>4. \A i \in 1 .. Len(s) + 1 : i \in 1 .. Len(s) \/ i = Len(s) + 1
  OBVIOUS
<1>5. Append(s, x) \in Seq(T)
  OBVIOUS
<1>6. Elements(Append(s, x)) = Elements(s) \cup {x}
  BY <1>1, <1>2, <1>3, <1>4, Zenon DEF Elements
<1> QED BY <1>5, <1>6

\* Kept returns the elements of s that are in S, and no other.
LEMMA KeptElements ==
  ASSUME NEW T, NEW S, NEW s \in Seq(T)
  PROVE  /\ Kept(s, S) \in Seq(T)
         /\ Elements(Kept(s, S)) = Elements(s) \cap S
<1>0. Len(s) \in Nat
  OBVIOUS
<1>1. PICK f : /\ f = [i \in 0 .. Len(s) |->
                    IF i = 0 THEN <<>>
                    ELSE IF s[i] \in S THEN Append(f[i - 1], s[i]) ELSE f[i - 1]]
              /\ Kept(s, S) = f[Len(s)]
  BY KeptIsRecursive
<1> DEFINE Prefix(i) == {s[j] : j \in 1 .. i}
           Good == {i \in 0 .. Len(s) : /\ f[i] \in Seq(T)
                                        /\ Elements(f[i]) = Prefix(i) \cap S}
<1>2. 0 \in Good
  <2>1. f[0] = <<>>
    BY <1>0, <1>1
  <2>2. Elements(<<>>) = {} /\ Prefix(0) = {}
    BY DEF Elements
  <2>3. <<>> \in Seq(T) /\ 0 \in 0 .. Len(s)
    BY <1>0
  <2> HIDE DEF Prefix
  <2>4. f[0] \in Seq(T) /\ Elements(f[0]) = Prefix(0) \cap S
    BY <2>1, <2>2, <2>3
  <2> QED BY <2>3, <2>4
<1>3. ASSUME NEW i \in 1 .. Len(s), i - 1 \in Good
      PROVE  i \in Good
  <2>1. f[i] = IF s[i] \in S THEN Append(f[i - 1], s[i]) ELSE f[i - 1]
    <3>1. i \in 0 .. Len(s) /\ i # 0
      BY <1>0
    <3> QED BY <1>1, <3>1, Zenon
  <2>2. s[i] \in T /\ i \in 0 .. Len(s)
    BY <1>0
  <2>3. Prefix(i) = Prefix(i - 1) \cup {s[i]}
    BY <1>0
  <2>4. /\ f[i - 1] \in Seq(T)
        /\ Elements(f[i - 1]) = Prefix(i - 1) \cap S
    BY <1>3
  <2> HIDE DEF Prefix
  <2>5. CASE s[i] \in S
    <3>1. f[i] = Append(f[i - 1], s[i])
      BY <2>1, <2>5
    <3>2. f[i] \in Seq(T) /\ Elements(f[i]) = Elements(f[i - 1]) \cup {s[i]}
      BY <2>2, <2>4, <3>1, ElementsAppend
    <3> QED BY <2>2, <2>3, <2>4, <2>5, <3>2
  <2>6. CASE s[i] \notin S
    BY <2>1, <2>2, <2>3, <2>4, <2>6
  <2> QED BY <2>5, <2>6
<1>4. Len(s) \in Good
  <2>1. \A i \in 1 .. Len(s) : i - 1 \in Good => i \in Good
    <3> HIDE DEF Good
    <3> QED BY <1>3
  <2> HIDE DEF Good
  <2>2. \A i \in 0 .. Len(s) : i \in Good
    BY <1>0, <1>2, <2>1, InductionOver
  <2> QED BY <1>0, <2>2
<1>5. Prefix(Len(s)) = Elements(s)
  BY DEF Elements
<1> QED BY <1>1, <1>4, <1>5

\* Nothing else changes when every element is kept.
LEMMA KeptAll ==
  ASSUME NEW T, NEW S, NEW s \in Seq(T), Elements(s) \subseteq S
  PROVE  Kept(s, S) = s
<1>0. Len(s) \in Nat
  OBVIOUS
<1>1. PICK f : /\ f = [i \in 0 .. Len(s) |->
                    IF i = 0 THEN <<>>
                    ELSE IF s[i] \in S THEN Append(f[i - 1], s[i]) ELSE f[i - 1]]
              /\ Kept(s, S) = f[Len(s)]
  BY KeptIsRecursive
<1> DEFINE Good == {i \in 0 .. Len(s) : f[i] = SubSeq(s, 1, i)}
<1>2. 0 \in Good
  <2>1. f[0] = <<>> /\ 0 \in 0 .. Len(s)
    BY <1>0, <1>1
  <2>2. SubSeq(s, 1, 0) = <<>>
    OBVIOUS
  <2> QED BY <2>1, <2>2
<1>3. ASSUME NEW i \in 1 .. Len(s), i - 1 \in Good
      PROVE  i \in Good
  <2>1. f[i] = IF s[i] \in S THEN Append(f[i - 1], s[i]) ELSE f[i - 1]
    <3>1. i \in 0 .. Len(s) /\ i # 0
      BY <1>0
    <3> QED BY <1>1, <3>1, Zenon
  <2>2. s[i] \in S /\ i \in 0 .. Len(s)
    BY <1>0 DEF Elements
  <2>3. Append(SubSeq(s, 1, i - 1), s[i]) = SubSeq(s, 1, i)
    BY <1>0
  <2> QED BY <1>3, <2>1, <2>2, <2>3
<1>4. Len(s) \in Good
  <2>1. \A i \in 1 .. Len(s) : i - 1 \in Good => i \in Good
    <3> HIDE DEF Good
    <3> QED BY <1>3
  <2> HIDE DEF Good
  <2>2. \A i \in 0 .. Len(s) : i \in Good
    BY <1>0, <1>2, <2>1, InductionOver
  <2> QED BY <1>0, <2>2
<1>5. SubSeq(s, 1, Len(s)) = s
  OBVIOUS
<1> QED BY <1>1, <1>4, <1>5

LEMMA HeadElement ==
  ASSUME NEW T, NEW s \in Seq(T), s # <<>>
  PROVE  Head(s) \in Elements(s) /\ Elements(s) \subseteq T
BY DEF Elements

LEMMA ElementsConcat ==
  ASSUME NEW T, NEW s \in Seq(T), NEW u \in Seq(T)
  PROVE  s \o u \in Seq(T) /\ Elements(s \o u) = Elements(s) \cup Elements(u)
<1>1. s \o u \in Seq(T)
  OBVIOUS
<1>2. /\ DOMAIN s = 1 .. Len(s) /\ DOMAIN u = 1 .. Len(u)
      /\ DOMAIN (s \o u) = 1 .. Len(s) + Len(u)
      /\ Len(s) \in Nat /\ Len(u) \in Nat
  OBVIOUS
<1>3. \A i \in 1 .. Len(s) : (s \o u)[i] = s[i] /\ i \in 1 .. Len(s) + Len(u)
  OBVIOUS
<1>4. \A i \in 1 .. Len(u) :
        (s \o u)[Len(s) + i] = u[i] /\ Len(s) + i \in 1 .. Len(s) + Len(u)
  OBVIOUS
<1>5. \A i \in 1 .. Len(s) + Len(u) :
        \/ i \in 1 .. Len(s)
        \/ \E j \in 1 .. Len(u) : i = Len(s) + j
  <2> SUFFICES ASSUME NEW i \in 1 .. Len(s) + Len(u), i \notin 1 .. Len(s)
               PROVE  \E j \in 1 .. Len(u) : i = Len(s) + j
    OBVIOUS
  <2>1. i - Len(s) \in 1 .. Len(u) /\ i = Len(s) + (i - Len(s))
    BY <1>2
  <2> QED BY <2>1
<1> DEFINE w == s \o u
<1>6. Elements(w) = Elements(s) \cup Elements(u)
  <2>1. \A x \in Elements(w) : x \in Elements(s) \cup Elements(u)
    <3> SUFFICES ASSUME NEW i \in 1 .. Len(s) + Len(u)
                 PROVE  w[i] \in Elements(s) \cup Elements(u)
      BY <1>2 DEF Elements
    <3> HIDE DEF w
    <3> QED BY <1>2, <1>3, <1>4, <1>5 DEF Elements, w
  <2>2. \A x \in Elements(s) \cup Elements(u) : x \in Elements(w)
    BY <1>2, <1>3, <1>4 DEF Elements
  <2> QED BY <2>1, <2>2
<1> QED BY <1>1, <1>6

LEMMA PlacedElements ==
  ASSUME NEW index \in Seq(WeightedGateway), NEW wg \in WeightedGateway
  PROVE  /\ Placed(index, wg) \in Seq(WeightedGateway)
         /\ Placed(index, wg) # <<>>
         /\ Elements(Placed(index, wg)) = Elements(index) \cup {wg}
<1> DEFINE low == {x \in WeightedGateway : x.weight <= wg.weight}
           high == {x \in WeightedGateway : x.weight > wg.weight}
           before == Kept(index, low)
           after == Kept(index, high)
           one == <<wg>>
<1>1. /\ before \in Seq(WeightedGateway) /\ after \in Seq(WeightedGateway)
      /\ Elements(before) = Elements(index) \cap low
      /\ Elements(after) = Elements(index) \cap high
  <2> HIDE DEF low, high
  <2> QED BY KeptElements
<1>2. Elements(index) \subseteq low \cup high
  <2>1. Elements(index) \subseteq WeightedGateway
    BY DEF Elements
  <2>2. \A x \in WeightedGateway : x.weight \in Nat
    BY DEF WeightedGateway
  <2> QED BY <2>1, <2>2
<1>3. one \in Seq(WeightedGateway) /\ Elements(one) = {wg}
  BY DEF Elements
<1>4. Placed(index, wg) = (before \o one) \o after
  BY DEF Placed
<1> HIDE DEF low, high, before, after, one
<1>5. /\ before \o one \in Seq(WeightedGateway)
      /\ Elements(before \o one) = Elements(before) \cup {wg}
  BY <1>1, <1>3, ElementsConcat
<1>6. /\ Placed(index, wg) \in Seq(WeightedGateway)
      /\ Elements(Placed(index, wg)) = Elements(before) \cup {wg} \cup Elements(after)
  <2> DEFINE start == before \o one
  <2>1. start \in Seq(WeightedGateway) /\ Placed(index, wg) = start \o after
    BY <1>4, <1>5
  <2> HIDE DEF start
  <2>2. Elements(start \o after) = Elements(start) \cup Elements(after)
        /\ start \o after \in Seq(WeightedGateway)
    BY <1>1, <2>1, ElementsConcat
  <2> QED BY <1>5, <2>1, <2>2 DEF start
<1>7. Placed(index, wg) # <<>>
  <2>1. Elements(<<>>) = {}
    BY DEF Elements
  <2> QED BY <1>6, <2>1
<1> QED BY <1>1, <1>2, <1>6, <1>7

\* What insert_route adds to a table.
LEMMA InsertRoute ==
  ASSUME NEW t, IsTable(t), NEW d \in Node, NEW g \in Node, NEW w \in Nat,
         NEW u, u = insert_route(t, d, g, w)
  PROVE  /\ IsTable(u)
         /\ DOMAIN u = DOMAIN t \cup {d}
         /\ \A e \in DOMAIN t \ {d} : u[e] = t[e]
         /\ u[d] = Placed(GatewaysTo(t, d),
                          [weight |-> w, gateway |-> g])
         /\ Elements(u[d]) = Elements(GatewaysTo(t, d))
                              \cup {[weight |-> w, gateway |-> g]}
<1> DEFINE index == GatewaysTo(t, d)
           wg == [weight |-> w, gateway |-> g]
<1>1. index \in Seq(WeightedGateway) /\ wg \in WeightedGateway
  <2>1. <<>> \in Seq(WeightedGateway)
    OBVIOUS
  <2>2. index \in Seq(WeightedGateway)
    BY <2>1, Zenon DEF IsTable, GatewaysTo
  <2>3. wg \in WeightedGateway
    BY DEF WeightedGateway
  <2> QED BY <2>2, <2>3
<1>2. /\ DOMAIN u = DOMAIN t \cup {d}
      /\ \A e \in DOMAIN t \ {d} : u[e] = t[e]
      /\ u[d] = Placed(index, wg)
  BY DEF insert_route
<1> HIDE DEF index, wg
<1>4. /\ u[d] \in Seq(WeightedGateway) /\ u[d] # <<>>
      /\ Elements(u[d]) = Elements(index) \cup {wg}
  BY <1>1, <1>2, PlacedElements
<1>5. IsTable(u)
  BY <1>2, <1>4 DEF IsTable
<1> QED BY <1>2, <1>4, <1>5 DEF index, wg

-----------------------------------------------------------------------------
(***************************************************************************)
(* Threads, calls and connections.                                         *)
(***************************************************************************)
LEMMA ActorIs ==
  \A a : a \in Actor <=> \/ \E n \in Node : a \in Own(n)
                         \/ \E u \in User : a = Outside(u)
<1> DEFINE own == {Own(n) : n \in Node}
           threads == UNION own
           senders == {Outside(u) : u \in User}
<1>1. \A a : a \in threads <=> \E n \in Node : a \in Own(n)
  <2>1. \A S : S \in own <=> \E n \in Node : S = Own(n)
    OBVIOUS
  <2> HIDE DEF own
  <2> QED BY <2>1
<1>2. \A a : a \in senders <=> \E u \in User : a = Outside(u)
  OBVIOUS
<1>3. Actor = threads \cup senders
  BY Zenon DEF Actor
<1> HIDE DEF own, threads, senders
<1> QED BY <1>1, <1>2, <1>3

LEMMA Actors ==
  /\ \A n \in Node : Main(n) \in Actor /\ Server(n) \in Actor
  /\ \A u \in User : Outside(u) \in Actor
  /\ \A m, n \in Node : /\ Main(m) # Server(n)
                        /\ Main(m) = Main(n) => m = n
                        /\ Server(m) = Server(n) => m = n
  /\ \A n \in Node, u \in User : Outside(u) # Main(n) /\ Outside(u) # Server(n)
  /\ \A u, v \in User : Outside(u) = Outside(v) => u = v
  /\ NoActor \notin Actor
  /\ \A a \in Actor, n \in Node : a \in Own(n) <=> a = Main(n) \/ a = Server(n)
<1>1. \A n \in Node : Main(n) \in Actor /\ Server(n) \in Actor
  <2>1. \A n \in Node : Main(n) \in Own(n) /\ Server(n) \in Own(n)
    BY DEF Own
  <2> QED BY <2>1, ActorIs
<1>2. \A u \in User : Outside(u) \in Actor
  BY ActorIs
<1>3. \A m, n \in Node : /\ Main(m) # Server(n)
                         /\ Main(m) = Main(n) => m = n
                         /\ Server(m) = Server(n) => m = n
  BY DEF Main, Server
<1>4. \A n \in Node, u \in User : Outside(u) # Main(n) /\ Outside(u) # Server(n)
  BY DEF Main, Server, Outside
<1>5. \A u, v \in User : Outside(u) = Outside(v) => u = v
  BY DEF Outside
<1>6. NoActor \notin Actor
  <2>1. ASSUME NEW a \in Actor PROVE a # NoActor
    <3>1. \/ \E n \in Node : a = Main(n) \/ a = Server(n)
          \/ \E u \in User : a = Outside(u)
      BY ActorIs DEF Own
    <3>2. \A n \in Node : Main(n) # NoActor /\ Server(n) # NoActor
      BY DEF Main, Server, NoActor
    <3>3. \A u \in User : Outside(u) # NoActor
      BY DEF Outside, NoActor
    <3> QED BY <3>1, <3>2, <3>3
  <2> QED BY <2>1
<1>7. \A a \in Actor, n \in Node : a \in Own(n) <=> a = Main(n) \/ a = Server(n)
  BY DEF Own
<1> QED BY <1>1, <1>2, <1>3, <1>4, <1>5, <1>6, <1>7

LEMMA Calls ==
  /\ NoCall \in Call \cup {NoCall}
  /\ [kind |-> "hello"] \in Call /\ [kind |-> "reach_master"] \in Call
  /\ \A c \in Call \cup {NoCall} :
       /\ c = NoCall <=> c.kind = "none"
       /\ c.kind \in RequestKind => c \in Request
       /\ c.kind \in RequestKind \cup {"hello", "reach_master", "none"}
  /\ \A c \in Request : c.kind \in RequestKind
  /\ RequestKind \cap {"hello", "reach_master", "none"} = {}
BY DEF Call, NoCall, Request, RequestKind

LEMMA Answers ==
  /\ NoAnswer \in Answer
  /\ \A x \in {"none", "ok", "ex_routing", "ex_job", "ex_node", "ex_processing",
             "broken"} :
       /\ Said(x) \in Answer /\ Said(x).result = x
       /\ \A m \in Node \cup {NoNode} :
            /\ [Said(x) EXCEPT !.name = m] \in Answer
            /\ [Said(x) EXCEPT !.name = m].result = x
  /\ \A r \in Answer :
       /\ r.name \in Node \cup {NoNode} /\ r.hops \in Nat
       /\ r.result \in {"none", "ok", "ex_routing", "ex_job", "ex_node",
                        "ex_processing", "broken"}
BY RouterAssumption DEF NoAnswer, Answer, Said

\* The connection a uses, and whether it is one of those at n.
Link(a) == [who |-> a, used |-> TRUE]
Uses(a, n) == Link(a) \in Elements(line[n])

LEMMA Links ==
  ASSUME NEW a \in Actor
  PROVE  /\ Link(a) \in Connection /\ [who |-> a, used |-> FALSE] \in Connection
         /\ Link(a).who = a /\ Link(a).used
         /\ \A b \in Actor : Link(a) = Link(b) => a = b
         /\ \A b \in Actor : Link(b) # [who |-> a, used |-> FALSE]
BY DEF Link, Connection

LEMMA AbandonedLinks ==
  ASSUME line \in [Node -> Seq(Connection)], NEW a \in Actor
  PROVE  /\ Abandoned(a) \in [Node -> Seq(Connection)]
         /\ \A b \in Actor, m \in Node :
              Link(b) \in Elements(Abandoned(a)[m]) <=> b # a /\ Uses(b, m)
<1> SUFFICES ASSUME NEW m \in Node
             PROVE  /\ Abandoned(a)[m] \in Seq(Connection)
                    /\ \A b \in Actor :
                         Link(b) \in Elements(Abandoned(a)[m]) <=> b # a /\ Uses(b, m)
  BY DEF Abandoned
<1> DEFINE s == line[m]
           t == Abandoned(a)[m]
           off == [who |-> a, used |-> FALSE]
<1>1. /\ s \in Seq(Connection)
      /\ t = [i \in DOMAIN s |-> IF s[i].who = a THEN off ELSE s[i]]
  BY DEF Abandoned
<1>2. DOMAIN s = 1 .. Len(s) /\ Len(s) \in Nat /\ \A i \in DOMAIN s : s[i] \in Connection
  BY <1>1
<1> HIDE DEF s, t
<1>3. DOMAIN t = DOMAIN s
      /\ \A i \in DOMAIN s : t[i] = IF s[i].who = a THEN off ELSE s[i]
  BY <1>1
<1>4. \A i \in DOMAIN s : t[i] \in Connection
  BY <1>2, <1>3, Links
<1>5. t \in Seq(Connection)
  <2>1. t = [i \in 1 .. Len(s) |-> t[i]]
    BY <1>1, <1>2
  <2>2. [i \in 1 .. Len(s) |-> t[i]] \in [1 .. Len(s) -> Connection]
    BY <1>2, <1>4
  <2>3. t \in [1 .. Len(s) -> Connection]
    BY <2>1, <2>2
  <2> QED BY <1>2, <2>3, SeqDef
<1>6. ASSUME NEW b \in Actor
      PROVE  Link(b) \in Elements(t) <=> b # a /\ Link(b) \in Elements(s)
  <2>1. Link(b) # off /\ Link(b).who = b
    BY Links
  <2> HIDE DEF off
  <2> QED BY <1>3, <2>1 DEF Elements, Link
<1> QED BY <1>5, <1>6 DEF Uses, s, t

LEMMA OpenedLinks ==
  ASSUME line \in [Node -> Seq(Connection)], NEW a \in Actor, NEW n \in Node
  PROVE  /\ Opened(a, n) \in [Node -> Seq(Connection)]
         /\ \A b \in Actor, m \in Node :
              Link(b) \in Elements(Opened(a, n)[m]) <=>
                \/ b # a /\ Uses(b, m)
                \/ b = a /\ m = n /\ process[n] = "serving"
<1> DEFINE off == Abandoned(a)
           added == Append(off[n], Link(a))
<1>1. /\ off \in [Node -> Seq(Connection)]
      /\ \A b \in Actor, m \in Node :
           Link(b) \in Elements(off[m]) <=> b # a /\ Uses(b, m)
  BY AbandonedLinks
<1>2. Opened(a, n) = IF process[n] = "serving" THEN [off EXCEPT ![n] = added]
                     ELSE off
  BY DEF Opened, Link
<1> HIDE DEF off
<1>3. /\ added \in Seq(Connection)
      /\ Elements(added) = Elements(off[n]) \cup {Link(a)}
  <2>1. off[n] \in Seq(Connection) /\ Link(a) \in Connection
    BY <1>1, Links
  <2> DEFINE x == Link(a)
             u == off[n]
  <2> HIDE DEF x, u
  <2>2. u \in Seq(Connection) /\ x \in Connection
    BY <2>1 DEF x, u
  <2>3. Append(u, x) \in Seq(Connection) /\ Elements(Append(u, x)) = Elements(u) \cup {x}
    BY <2>2, ElementsAppend
  <2> QED BY <2>3 DEF x, u
<1> HIDE DEF added
<1>4. CASE process[n] = "serving"
  <2>1. /\ Opened(a, n) \in [Node -> Seq(Connection)]
        /\ Opened(a, n)[n] = added
        /\ \A m \in Node \ {n} : Opened(a, n)[m] = off[m]
    BY <1>1, <1>2, <1>3, <1>4
  <2>2. \A b \in Actor, m \in Node :
          Link(b) \in Elements(Opened(a, n)[m]) <=>
            \/ b # a /\ Uses(b, m)
            \/ b = a /\ m = n /\ process[n] = "serving"
    <3> SUFFICES ASSUME NEW b \in Actor, NEW m \in Node
                 PROVE  Link(b) \in Elements(Opened(a, n)[m]) <=>
                          \/ b # a /\ Uses(b, m)
                          \/ b = a /\ m = n
      BY <1>4
    <3>1. Link(b) = Link(a) <=> b = a
      BY Links
    <3>2. CASE m = n
      <4>1. Link(b) \in Elements(Opened(a, n)[m]) <=>
              Link(b) \in Elements(off[n]) \/ Link(b) = Link(a)
        BY <1>3, <2>1, <3>2
      <4> QED BY <1>1, <3>1, <3>2, <4>1
    <3>3. CASE m # n
      BY <1>1, <2>1, <3>3
    <3> QED BY <3>2, <3>3
  <2> QED BY <2>1, <2>2
<1>5. CASE process[n] # "serving"
  BY <1>1, <1>2, <1>5
<1> QED BY <1>4, <1>5

LEMMA OpenedUses ==
  ASSUME line \in [Node -> Seq(Connection)], NEW a \in Actor, NEW n \in Node,
         line' = Opened(a, n)
  PROVE  \A b \in Actor, m \in Node :
           Uses(b, m)' <=> \/ b # a /\ Uses(b, m)
                           \/ b = a /\ m = n /\ process[n] = "serving"
<1>1. \A b \in Actor, m \in Node :
        Link(b) \in Elements(Opened(a, n)[m]) <=>
          \/ b # a /\ Uses(b, m)
          \/ b = a /\ m = n /\ process[n] = "serving"
  BY OpenedLinks
<1>2. \A b, m : Uses(b, m)' <=> Link(b) \in Elements(Opened(a, n)[m])
  BY DEF Uses
<1> QED BY <1>1, <1>2

LEMMA ClosedLinks ==
  ASSUME line \in [Node -> Seq(Connection)], NEW a \in Actor
  PROVE  /\ Closed(a) \in [Node -> Seq(Connection)]
         /\ \A b \in Actor, m \in Node :
              Link(b) \in Elements(Closed(a)[m]) <=> b # a /\ Uses(b, m)
<1> DEFINE others == Connection \ {[who |-> a, used |-> TRUE]}
<1>1. \A m \in Node : Closed(a)[m] = Kept(line[m], others)
  BY DEF Closed
<1>2. \A b \in Actor : Link(b) \in others <=> b # a
  BY Links DEF Link
<1>3. Closed(a) = [m \in Node |-> Kept(line[m], others)]
  BY DEF Closed
<1> HIDE DEF others
<1>4. \A m \in Node : /\ Closed(a)[m] \in Seq(Connection)
                      /\ Elements(Closed(a)[m]) = Elements(line[m]) \cap others
  BY <1>1, KeptElements
<1> HIDE DEF Closed
<1>5. Closed(a) \in [Node -> Seq(Connection)]
  BY <1>3, <1>4
<1> QED BY <1>2, <1>4, <1>5 DEF Uses

LEMMA ClosedUses ==
  ASSUME line \in [Node -> Seq(Connection)], NEW a \in Actor, line' = Closed(a)
  PROVE  \A b \in Actor, m \in Node : Uses(b, m)' <=> b # a /\ Uses(b, m)
<1>1. \A b \in Actor, m \in Node :
        Link(b) \in Elements(Closed(a)[m]) <=> b # a /\ Uses(b, m)
  BY ClosedLinks
<1>2. \A b, m : Uses(b, m)' <=> Link(b) \in Elements(Closed(a)[m])
  BY DEF Uses
<1> QED BY <1>1, <1>2

\* The connections that are left at m when the process of n ends.
Remaining(n, m) ==
  IF m = n THEN <<>> ELSE Kept(line[m], {c \in Connection : c.who \notin Own(n)})

LEMMA RemainingLinks ==
  ASSUME line \in [Node -> Seq(Connection)], NEW n \in Node, NEW m \in Node
  PROVE  /\ Remaining(n, m) \in Seq(Connection)
         /\ \A b \in Actor :
              Link(b) \in Elements(Remaining(n, m)) <=>
                m # n /\ b \notin Own(n) /\ Uses(b, m)
<1> DEFINE others == {c \in Connection : c.who \notin Own(n)}
<1>1. CASE m = n
  <2>1. Remaining(n, m) = <<>>
    BY <1>1 DEF Remaining
  <2> QED BY <1>1, <2>1 DEF Elements
<1>2. CASE m # n
  <2>1. \A b \in Actor : Link(b) \in others <=> b \notin Own(n)
    BY Links
  <2>2. Remaining(n, m) = Kept(line[m], others)
    BY <1>2 DEF Remaining
  <2> HIDE DEF others
  <2>3. /\ Remaining(n, m) \in Seq(Connection)
        /\ Elements(Remaining(n, m)) = Elements(line[m]) \cap others
    BY <2>2, KeptElements
  <2> QED BY <1>2, <2>1, <2>3 DEF Uses
<1> QED BY <1>1, <1>2

-----------------------------------------------------------------------------
(***************************************************************************)
(* Types.                                                                  *)
(***************************************************************************)
Final == {"ok", "ex_routing", "ex_job", "ex_node", "ex_processing"}

RouterTypes ==
  /\ process \in [Node -> {"down", "discovering", "serving"}]
  /\ DOMAIN table = Node /\ \A n \in Node : IsTable(table[n])
  /\ hosts \in [Node -> SUBSET Node]
  /\ master \in [Node -> Node \cup {NoNode}]
  /\ read \in [Node -> Nat]
  /\ left \in [Node -> SUBSET Node]

RpcTypes ==
  /\ line \in [Node -> Seq(Connection)]
  /\ call \in [Actor -> Call \cup {NoCall}]
  /\ answer \in [Actor -> Answer]
  /\ serves \in [Node -> Actor \cup {NoActor}]

HistoryTypes ==
  /\ sent \in Seq(Requests) /\ Len(sent) \in 0 .. MaxRequests
  /\ done \in [DOMAIN sent -> Seq(Node)]
  /\ told \in [DOMAIN sent -> Final \cup {"none", "broken"}]

OtherTypes == mode \in Modes /\ kills \in 0 .. MaxKills

\* The main thread of a process calls only while the process discovers, and
\* then on behalf of a peer that is in the file, or not asked yet.
Discovering(n) ==
  /\ process[n] = "discovering" => n \notin Masters
  /\ call[Main(n)] # NoCall =>
       /\ process[n] = "discovering"
       /\ call[Main(n)].kind \in {"hello", "reach_master"}
  /\ call[Main(n)].kind = "hello" => read[n] < Len(Peers[n])
  /\ call[Main(n)].kind = "reach_master" => left[n] # {}
  /\ read[n] > 0 => left[n] # {}
  /\ left[n] \subseteq hosts[n]

ClientsDiscover == \A n \in Node : Discovering(n)

Types == RouterTypes /\ RpcTypes /\ HistoryTypes /\ OtherTypes

TypeInv == Types /\ ClientsDiscover

LEMMA TypesTypeOK == Types => TypeOK
BY DEF Types, RouterTypes, RpcTypes, HistoryTypes, OtherTypes, TypeOK

LEMMA InitTypes == Init => TypeInv
<1> SUFFICES ASSUME Init PROVE TypeInv
  OBVIOUS
<1>1. RouterTypes
  <2>1. IsTable(NoRoutes)
    BY DEF IsTable, NoRoutes
  <2> QED BY <2>1 DEF Init, RouterTypes
<1>2. RpcTypes
  BY Calls, Answers DEF Init, RpcTypes
<1>3. HistoryTypes
  <2>1. /\ sent = <<>> /\ done = <<>> /\ told = <<>> /\ Len(sent) = 0
        /\ DOMAIN sent = {} /\ 0 \in 0 .. MaxRequests
    BY NetworkAssumption DEF Init
  <2> QED BY <2>1 DEF HistoryTypes
<1>4. OtherTypes
  BY NetworkAssumption DEF Init, OtherTypes
<1>5. ClientsDiscover
  <2> SUFFICES ASSUME NEW n \in Node PROVE Discovering(n)
    BY DEF ClientsDiscover
  <2>1. process[n] = "down" /\ call[Main(n)] = NoCall /\ read[n] = 0 /\ left[n] = {}
    BY Actors DEF Init
  <2> QED BY <2>1 DEF Discovering, NoCall
<1> QED BY <1>1, <1>2, <1>3, <1>4, <1>5 DEF TypeInv, Types

\* The main threads of the others see nothing of what a process does.
LEMMA FrameDiscover ==
  ASSUME NEW n \in Node, TypeInv, Discovering(n),
         process'[n] = process[n], call'[Main(n)] = call[Main(n)],
         read'[n] = read[n], left'[n] = left[n], hosts'[n] = hosts[n]
  PROVE  Discovering(n)'
BY DEF Discovering

LEMMA LeastIn ==
  ASSUME NEW S, S \subseteq Node, S # {}
  PROVE  Least(S) \in S
<1>1. S \subseteq Nat
  BY RouterAssumption
<1>2. \E x \in S : \A y \in S : x <= y
  BY <1>1, LeastNatural
<1> QED BY <1>2 DEF Least

LEMMA ListedTypes ==
  ASSUME RouterTypes, process' = process, NEW n \in Node, NEW peer \in Node,
         NEW found \in Node \cup {NoNode}, Listed(n, peer, found)
  PROVE  /\ RouterTypes'
         /\ left'[n] # {} /\ left'[n] = hosts'[n] /\ read'[n] = read[n] + 1
         /\ hosts'[n] = hosts[n] \cup {peer}
         /\ \A m \in Node \ {n} : /\ read'[m] = read[m] /\ left'[m] = left[m]
                                   /\ hosts'[m] = hosts[m]
<1>1. /\ hosts' \in [Node -> SUBSET Node] /\ hosts'[n] = hosts[n] \cup {peer}
      /\ \A m \in Node \ {n} : hosts'[m] = hosts[m]
  BY DEF RouterTypes, Listed
<1>2. /\ left' \in [Node -> SUBSET Node] /\ left'[n] = hosts'[n]
      /\ \A m \in Node \ {n} : left'[m] = left[m]
  <2>1. left' = [left EXCEPT ![n] = hosts'[n]] /\ left \in [Node -> SUBSET Node]
    BY DEF RouterTypes, Listed
  <2> QED BY <1>1, <2>1
<1>3. /\ read' \in [Node -> Nat] /\ read'[n] = read[n] + 1
      /\ \A m \in Node \ {n} : read'[m] = read[m]
  BY DEF RouterTypes, Listed
<1>4. DOMAIN table' = Node /\ \A m \in Node : IsTable(table'[m])
  <2> DEFINE new == insert_route(table[n], peer, peer, 0)
  <2>1. IsTable(new)
    BY InsertRoute DEF RouterTypes
  <2>2. table' = [table EXCEPT ![n] = new] /\ DOMAIN table = Node
    BY DEF Listed, RouterTypes
  <2> HIDE DEF new
  <2> QED BY <2>1, <2>2 DEF RouterTypes
<1>5. master' \in [Node -> Node \cup {NoNode}]
  BY DEF RouterTypes, Listed, set_master_node
<1> QED BY <1>1, <1>2, <1>3, <1>4, <1>5 DEF RouterTypes

LEMMA SendsTypes ==
  ASSUME RpcTypes, NEW a \in Actor, NEW n \in Node, NEW c \in Call,
         Sends(a, n, c)
  PROVE  /\ line' \in [Node -> Seq(Connection)]
         /\ call' \in [Actor -> Call \cup {NoCall}]
         /\ call'[a] = c /\ \A b \in Actor \ {a} : call'[b] = call[b]
<1>1. Opened(a, n) \in [Node -> Seq(Connection)]
  BY OpenedLinks DEF RpcTypes
<1> QED BY <1>1 DEF RpcTypes, Sends

LEMMA ReturnedTypes ==
  ASSUME RpcTypes, NEW a \in Actor, Returned(a)
  PROVE  /\ call' \in [Actor -> Call \cup {NoCall}] /\ answer' \in [Actor -> Answer]
         /\ call'[a] = NoCall /\ answer'[a] = NoAnswer
         /\ \A b \in Actor \ {a} : call'[b] = call[b] /\ answer'[b] = answer[b]
BY Answers DEF RpcTypes, Returned

LEMMA StartTypes ==
  ASSUME TypeInv, NEW n \in Node, Start(n) \/ Serve(n)
  PROVE  TypeInv'
<1>1. RouterTypes'
  BY DEF TypeInv, Types, RouterTypes, Start, Serve, routerVars
<1>2. RpcTypes' /\ HistoryTypes' /\ OtherTypes'
  BY DEF TypeInv, Types, RpcTypes, HistoryTypes, OtherTypes, Start, Serve,
         rpcVars, historyVars
<1>3. ASSUME NEW m \in Node PROVE Discovering(m)'
  <2>1. /\ call' = call /\ read' = read /\ left' = left /\ hosts' = hosts
        /\ \A k \in Node \ {n} : process'[k] = process[k]
        /\ Discovering(m)
    BY DEF TypeInv, Types, RouterTypes, ClientsDiscover, Start, Serve, routerVars,
           rpcVars
  <2>2. CASE m # n
    BY <2>1, <2>2 DEF Discovering
  <2>3. CASE m = n
    <3>1. call[Main(n)] = NoCall
      BY <2>1, <2>3 DEF Discovering, Start, Serve, Discovers
    <3>2. process'[n] = "discovering" => n \notin Masters
      BY DEF TypeInv, Types, RouterTypes, Start, Serve
    <3> QED BY <2>1, <2>3, <3>1, <3>2 DEF Discovering, NoCall
  <2> QED BY <2>2, <2>3
<1> QED BY <1>1, <1>2, <1>3 DEF TypeInv, Types, ClientsDiscover

LEMMA DiesTypes ==
  ASSUME TypeInv, NEW n \in Node, Dies(n), kills' \in 0 .. MaxKills
  PROVE  TypeInv'
<1>1. RouterTypes'
  <2>1. IsTable(NoRoutes)
    BY DEF IsTable, NoRoutes
  <2>2. DOMAIN table' = Node /\ \A m \in Node : IsTable(table'[m])
    BY <2>1 DEF TypeInv, Types, RouterTypes, Dies
  <2>3. /\ process' \in [Node -> {"down", "discovering", "serving"}]
        /\ hosts' \in [Node -> SUBSET Node]
        /\ master' \in [Node -> Node \cup {NoNode}]
        /\ read' \in [Node -> Nat]
        /\ left' \in [Node -> SUBSET Node]
    BY DEF TypeInv, Types, RouterTypes, Dies
  <2> QED BY <2>2, <2>3 DEF RouterTypes
<1>2. RpcTypes'
  <2>1. line' = [m \in Node |-> Remaining(n, m)]
    BY DEF Dies, Remaining
  <2>2. line' \in [Node -> Seq(Connection)]
    BY <2>1, RemainingLinks DEF TypeInv, Types, RpcTypes
  <2>3. call' \in [Actor -> Call \cup {NoCall}]
    BY DEF TypeInv, Types, RpcTypes, Dies
  <2>4. answer' \in [Actor -> Answer]
    BY Answers DEF TypeInv, Types, RpcTypes, Dies
  <2>5. serves' \in [Node -> Actor \cup {NoActor}]
    BY DEF TypeInv, Types, RpcTypes, Dies
  <2> QED BY <2>2, <2>3, <2>4, <2>5 DEF RpcTypes
<1>3. HistoryTypes' /\ OtherTypes'
  BY DEF TypeInv, Types, HistoryTypes, OtherTypes, Dies, historyVars
<1>4. ASSUME NEW m \in Node PROVE Discovering(m)'
  <2>1. CASE m = n
    <3>1. process'[n] = "down" /\ read'[n] = 0 /\ left'[n] = {}
      BY DEF TypeInv, Types, RouterTypes, Dies
    <3>2. call'[Main(n)] = NoCall
      BY Actors DEF Dies
    <3> QED BY <2>1, <3>1, <3>2 DEF Discovering, NoCall
  <2>2. CASE m # n
    <3>1. /\ process'[m] = process[m] /\ read'[m] = read[m] /\ left'[m] = left[m]
          /\ hosts'[m] = hosts[m]
      BY <2>2 DEF TypeInv, Types, RouterTypes, Dies
    <3>2. call'[Main(m)] = call[Main(m)]
      BY <2>2, Actors DEF Dies
    <3> QED BY <3>1, <3>2, FrameDiscover DEF TypeInv, ClientsDiscover
  <2> QED BY <2>1, <2>2
<1> QED BY <1>1, <1>2, <1>3, <1>4 DEF TypeInv, Types, ClientsDiscover

LEMMA SayHelloTypes ==
  ASSUME TypeInv, NEW n \in Node, SayHello(n)
  PROVE  TypeInv'
<1> DEFINE peer == Peers[n][read[n] + 1]
<1>1. /\ n \in Node \ Masters /\ process[n] = "discovering"
      /\ read[n] < Len(Peers[n]) /\ read[n] \in Nat /\ call[Main(n)] = NoCall
  BY DEF SayHello, Discovers, TypeInv, Types, RouterTypes, ClientsDiscover,
         Discovering
<1>2. peer \in Node
  BY <1>1, NetworkAssumption
<1> HIDE DEF peer
<1>3. /\ HistoryTypes' /\ OtherTypes' /\ process' = process
      /\ answer' \in [Actor -> Answer]
      /\ serves' \in [Node -> Actor \cup {NoActor}]
  BY DEF SayHello, TypeInv, Types, HistoryTypes, OtherTypes, RpcTypes, historyVars
<1>4. CASE process[peer] = "serving"
  <2>1. /\ Sends(Main(n), peer, [kind |-> "hello"])
        /\ UNCHANGED routerVars
    BY <1>4 DEF SayHello, peer
  <2>2. RouterTypes'
    BY <1>3, <2>1 DEF TypeInv, Types, RouterTypes, routerVars
  <2>3. /\ line' \in [Node -> Seq(Connection)]
        /\ call' \in [Actor -> Call \cup {NoCall}]
        /\ call'[Main(n)] = [kind |-> "hello"]
        /\ \A b \in Actor \ {Main(n)} : call'[b] = call[b]
    BY <1>2, <2>1, SendsTypes, Calls, Actors DEF TypeInv, Types
  <2>4. ASSUME NEW m \in Node PROVE Discovering(m)'
    <3>1. /\ process'[m] = process[m] /\ read'[m] = read[m] /\ left'[m] = left[m]
          /\ hosts'[m] = hosts[m] /\ Discovering(m)
      BY <1>3, <2>1 DEF routerVars, TypeInv, ClientsDiscover
    <3>2. CASE m = n
      BY <1>1, <2>3, <3>1, <3>2 DEF Discovering
    <3>3. CASE m # n
      BY <2>3, <3>1, <3>3, Actors, FrameDiscover
    <3> QED BY <3>2, <3>3
  <2> QED BY <1>3, <2>2, <2>3, <2>4 DEF TypeInv, Types, RpcTypes, ClientsDiscover
<1>5. CASE process[peer] # "serving"
  <2>1. /\ line' = Opened(Main(n), peer) /\ Listed(n, peer, NoNode)
        /\ call' = call
    BY <1>5 DEF SayHello, peer
  <2>2. /\ RouterTypes'
        /\ left'[n] # {} /\ left'[n] = hosts'[n] /\ read'[n] = read[n] + 1
        /\ \A m \in Node \ {n} : /\ read'[m] = read[m] /\ left'[m] = left[m]
                                  /\ hosts'[m] = hosts[m]
    BY <1>2, <1>3, <2>1, ListedTypes DEF TypeInv, Types
  <2>3. line' \in [Node -> Seq(Connection)] /\ call' \in [Actor -> Call \cup {NoCall}]
    BY <1>2, <2>1, OpenedLinks, Actors DEF TypeInv, Types, RpcTypes
  <2>4. ASSUME NEW m \in Node PROVE Discovering(m)'
    <3>1. Discovering(m)
      BY DEF TypeInv, ClientsDiscover
    <3>2. CASE m = n
      BY <1>1, <1>3, <2>1, <2>2, <3>1, <3>2 DEF Discovering, NoCall
    <3>3. CASE m # n
      BY <1>3, <2>1, <2>2, <3>1, <3>3, FrameDiscover
    <3> QED BY <3>2, <3>3
  <2> QED BY <1>3, <2>2, <2>3, <2>4 DEF TypeInv, Types, RpcTypes, ClientsDiscover
<1> QED BY <1>4, <1>5

LEMMA HelloReturnsTypes ==
  ASSUME TypeInv, NEW n \in Node, HelloReturns(n)
  PROVE  TypeInv'
<1> DEFINE peer == Peers[n][read[n] + 1]
           found == answer[Main(n)].name
<1>1. /\ n \in Node \ Masters /\ read[n] < Len(Peers[n]) /\ read[n] \in Nat
      /\ process[n] = "discovering"
  BY DEF HelloReturns, TypeInv, Types, RouterTypes, ClientsDiscover,
         Discovering, Answered
<1>2. peer \in Node /\ found \in Node \cup {NoNode} /\ Main(n) \in Actor
  <2>1. peer \in Node
    BY <1>1, NetworkAssumption
  <2> QED BY <2>1, Actors, Answers DEF TypeInv, Types, RpcTypes
<1> HIDE DEF peer, found
<1>3. /\ Listed(n, peer, found) /\ Returned(Main(n))
      /\ line' = line /\ serves' = serves /\ process' = process
      /\ UNCHANGED <<mode, kills, historyVars>>
  BY DEF HelloReturns, peer, found
<1>4. HistoryTypes' /\ OtherTypes'
  BY <1>3 DEF TypeInv, Types, HistoryTypes, OtherTypes, historyVars
<1>5. /\ RouterTypes'
      /\ left'[n] # {} /\ left'[n] = hosts'[n] /\ read'[n] = read[n] + 1
      /\ \A m \in Node \ {n} : /\ read'[m] = read[m] /\ left'[m] = left[m]
                                /\ hosts'[m] = hosts[m]
  BY <1>2, <1>3, ListedTypes DEF TypeInv, Types
<1>6. /\ call' \in [Actor -> Call \cup {NoCall}] /\ answer' \in [Actor -> Answer]
      /\ call'[Main(n)] = NoCall
      /\ \A b \in Actor \ {Main(n)} : call'[b] = call[b]
  BY <1>2, <1>3, ReturnedTypes DEF TypeInv, Types
<1>7. RpcTypes'
  BY <1>3, <1>6 DEF TypeInv, Types, RpcTypes
<1>8. ASSUME NEW m \in Node PROVE Discovering(m)'
  <2>1. Discovering(m)
    BY DEF TypeInv, ClientsDiscover
  <2>2. CASE m = n
    BY <1>1, <1>3, <1>5, <1>6, <2>1, <2>2 DEF Discovering, NoCall
  <2>3. CASE m # n
    BY <1>3, <1>5, <1>6, <2>1, <2>3, Actors, FrameDiscover
  <2> QED BY <2>2, <2>3
<1> QED BY <1>4, <1>5, <1>7, <1>8 DEF TypeInv, Types, ClientsDiscover

LEMMA ReachMasterTypes ==
  ASSUME TypeInv, NEW n \in Node, ReachMaster(n)
  PROVE  TypeInv'
<1> DEFINE peer == Least(left[n])
<1>1. /\ n \in Node \ Masters /\ process[n] = "discovering"
      /\ read[n] = Len(Peers[n]) /\ call[Main(n)] = NoCall /\ read[n] > 0
      /\ left[n] # {}
  <2>1. /\ n \in Node \ Masters /\ process[n] = "discovering"
        /\ read[n] = Len(Peers[n]) /\ call[Main(n)] = NoCall
    BY DEF ReachMaster, Discovers, TypeInv, ClientsDiscover, Discovering
  <2>2. read[n] > 0
    BY <2>1, NetworkAssumption
  <2> QED BY <2>1, <2>2 DEF TypeInv, ClientsDiscover, Discovering
<1>2. peer \in left[n] /\ peer \in Node
  BY <1>1, LeastIn DEF TypeInv, Types, RouterTypes
<1> HIDE DEF peer
<1>3. CASE process[peer] = "serving"
  <2>1. /\ Sends(Main(n), peer, [kind |-> "reach_master"])
        /\ UNCHANGED <<mode, process, routerVars, answer, serves, historyVars, kills>>
    BY <1>3 DEF ReachMaster, peer
  <2>2. RouterTypes' /\ HistoryTypes' /\ OtherTypes'
    BY <2>1 DEF TypeInv, Types, RouterTypes, HistoryTypes, OtherTypes, routerVars,
                historyVars
  <2>3. /\ line' \in [Node -> Seq(Connection)]
        /\ call' \in [Actor -> Call \cup {NoCall}]
        /\ call'[Main(n)] = [kind |-> "reach_master"]
        /\ \A b \in Actor \ {Main(n)} : call'[b] = call[b]
    BY <1>2, <2>1, SendsTypes, Calls, Actors DEF TypeInv, Types
  <2>4. RpcTypes'
    BY <2>1, <2>3 DEF TypeInv, Types, RpcTypes
  <2>5. ASSUME NEW m \in Node PROVE Discovering(m)'
    <3>1. /\ process'[m] = process[m] /\ read'[m] = read[m] /\ left'[m] = left[m]
          /\ hosts'[m] = hosts[m] /\ Discovering(m)
      BY <2>1 DEF routerVars, TypeInv, ClientsDiscover
    <3>2. CASE m = n
      BY <1>1, <2>3, <3>1, <3>2 DEF Discovering
    <3>3. CASE m # n
      BY <2>3, <3>1, <3>3, Actors, FrameDiscover
    <3> QED BY <3>2, <3>3
  <2> QED BY <2>2, <2>4, <2>5 DEF TypeInv, Types, ClientsDiscover
<1>4. CASE process[peer] # "serving"
  <2>1. Dies(n) /\ kills' \in 0 .. MaxKills
    BY <1>4 DEF ReachMaster, peer, TypeInv, Types, OtherTypes
  <2> QED BY <2>1, DiesTypes
<1> QED BY <1>3, <1>4

LEMMA ReachReturnsTypes ==
  ASSUME TypeInv, NEW n \in Node, ReachReturns(n)
  PROVE  TypeInv'
<1> DEFINE peer == Least(left[n])
           result == answer[Main(n)]
<1>1. /\ n \in Node \ Masters /\ process[n] = "discovering"
      /\ left[n] # {}
      /\ call[Main(n)].kind = "reach_master"
      /\ Main(n) \in Actor
  BY Actors DEF ReachReturns, Answered, TypeInv, ClientsDiscover, Discovering
<1>2. /\ peer \in left[n] /\ peer \in Node
      /\ result.name \in Node \cup {NoNode} /\ result.hops \in Nat
  BY <1>1, LeastIn, Answers DEF TypeInv, Types, RouterTypes, RpcTypes
<1>3. CASE result.result # "ok"
  <2>1. Dies(n) /\ kills' \in 0 .. MaxKills
    BY <1>3 DEF ReachReturns, TypeInv, Types, OtherTypes
  <2> QED BY <2>1, DiesTypes
<1>4. CASE result.result = "ok"
  <2>1. /\ \/ /\ result.name # NoNode
              /\ master' = [master EXCEPT ![n] = set_master_node(@, result.name)]
              /\ table' = [table EXCEPT ![n] =
                             insert_route(@, result.name, peer, result.hops)]
              /\ UNCHANGED left
           \/ /\ left' = [left EXCEPT ![n] =
                            IF @ = {peer} THEN hosts[n] ELSE @ \ {peer}]
              /\ UNCHANGED <<master, table>>
        /\ Returned(Main(n))
        /\ UNCHANGED <<mode, process, hosts, read, line, serves, historyVars>>
        /\ UNCHANGED kills
    BY <1>4 DEF ReachReturns, Learned
  <2> HIDE DEF result, peer
  <2>2. RouterTypes'
    <3>1. /\ left' \in [Node -> SUBSET Node]
          /\ master' \in [Node -> Node \cup {NoNode}]
      BY <1>2, <2>1 DEF TypeInv, Types, RouterTypes, set_master_node
    <3>2. DOMAIN table' = Node /\ \A m \in Node : IsTable(table'[m])
      <4>1. CASE table' = table
        BY <4>1 DEF TypeInv, Types, RouterTypes
      <4>2. CASE /\ result.name # NoNode
                 /\ table' = [table EXCEPT ![n] =
                                insert_route(@, result.name, peer, result.hops)]
        <5> DEFINE new == insert_route(table[n], result.name, peer, result.hops)
        <5>1. IsTable(new)
          BY <1>2, <4>2, InsertRoute DEF TypeInv, Types, RouterTypes
        <5>2. table' = [table EXCEPT ![n] = new] /\ DOMAIN table = Node
          BY <4>2 DEF TypeInv, Types, RouterTypes
        <5> HIDE DEF new
        <5> QED BY <5>1, <5>2 DEF TypeInv, Types, RouterTypes
      <4> QED BY <2>1, <4>1, <4>2
    <3> QED BY <2>1, <3>1, <3>2 DEF TypeInv, Types, RouterTypes
  <2>3. HistoryTypes' /\ OtherTypes'
    BY <2>1 DEF TypeInv, Types, HistoryTypes, OtherTypes, historyVars
  <2>4. /\ call' \in [Actor -> Call \cup {NoCall}] /\ answer' \in [Actor -> Answer]
        /\ call'[Main(n)] = NoCall
        /\ \A b \in Actor \ {Main(n)} : call'[b] = call[b]
    BY <1>1, <2>1, ReturnedTypes DEF TypeInv, Types
  <2>5. RpcTypes'
    BY <2>1, <2>4 DEF TypeInv, Types, RpcTypes
  <2>6. ASSUME NEW m \in Node PROVE Discovering(m)'
    <3>1. /\ process'[m] = process[m] /\ read'[m] = read[m] /\ Discovering(m)
          /\ hosts'[m] = hosts[m]
          /\ m # n => left'[m] = left[m]
      BY <2>1 DEF TypeInv, Types, RouterTypes, ClientsDiscover
    <3>2. CASE m = n
      <4>1. left'[n] # {} /\ left'[n] \subseteq hosts[n]
        BY <1>1, <1>2, <2>1, <3>1, <3>2 DEF TypeInv, Types, RouterTypes, Discovering
      <4> QED BY <1>1, <2>4, <3>1, <3>2, <4>1 DEF Discovering, NoCall
    <3>3. CASE m # n
      BY <2>4, <3>1, <3>3, Actors, FrameDiscover
    <3> QED BY <3>2, <3>3
  <2> QED BY <2>2, <2>3, <2>5, <2>6 DEF TypeInv, Types, ClientsDiscover
<1> QED BY <1>3, <1>4

\* Who a server reads a call from uses a connection with it.
LEMMA Reader ==
  ASSUME RpcTypes, NEW n \in Node, Reads(n)
  PROVE  Client(n) \in Actor /\ Uses(Client(n), n)
<1>1. /\ line[n] \in Seq(Connection) /\ line[n] # <<>> /\ Head(line[n]).used
  BY DEF RpcTypes, Reads
<1>2. Head(line[n]) \in Elements(line[n]) /\ Head(line[n]) \in Connection
  BY <1>1, HeadElement
<1>3. Client(n) \in Actor /\ Head(line[n]) = Link(Client(n))
  BY <1>1, <1>2 DEF Connection, Link, Client
<1> QED BY <1>2, <1>3 DEF Uses

LEMMA ReplyTypes ==
  ASSUME TypeInv, NEW n \in Node, Reads(n), NEW x \in Answer, Replies(n, x),
         process' = process, UNCHANGED routerVars,
         call' = call, line' \in [Node -> Seq(Connection)], serves' = serves,
         HistoryTypes', OtherTypes'
  PROVE  TypeInv'
<1>1. RouterTypes'
  BY DEF TypeInv, Types, RouterTypes, routerVars
<1>2. RpcTypes'
  BY Reader DEF TypeInv, Types, RpcTypes, Replies
<1>3. ClientsDiscover'
  BY DEF TypeInv, ClientsDiscover, Discovering, routerVars
<1> QED BY <1>1, <1>2, <1>3 DEF TypeInv, Types

LEMMA RouteToMasterType ==
  ASSUME RouterTypes, NEW n \in Node
  PROVE  /\ RouteToMaster(n) \in Answer
         /\ RouteToMaster(n).result \in {"ok", "ex_routing"}
<1>1. CASE n \in Masters
  BY <1>1, Answers DEF RouteToMaster
<1>2. CASE n \notin Masters /\ master[n] \in DOMAIN table[n]
  <2> DEFINE route == get_route(table[n], master[n])
  <2>1. table[n][master[n]] \in Seq(WeightedGateway) /\ table[n][master[n]] # <<>>
    BY <1>2 DEF RouterTypes, IsTable
  <2>2. route \in WeightedGateway
    BY <2>1, HeadElement DEF get_route
  <2>3. RouteToMaster(n) =
          [result |-> "ok", name |-> route.gateway, hops |-> route.weight]
    BY <1>2 DEF RouteToMaster
  <2> HIDE DEF route
  <2> QED BY <2>2, <2>3 DEF WeightedGateway, Answer
<1>3. CASE n \notin Masters /\ master[n] \notin DOMAIN table[n]
  BY <1>3, Answers DEF RouteToMaster
<1> QED BY <1>1, <1>2, <1>3

LEMMA CheckedIs ==
  ASSUME NEW n, NEW r
  PROVE  Checked(n, r) \in {"none", "ex_routing", "ex_job", "ex_node"}
BY DEF Checked

\* What the Domain leaves undone when it throws is what the exception denies.
LEMMA ThrownTruth ==
  ASSUME NEW n \in Node, NEW r, NEW result \in {"ok"} \cup Throws(n, r.kind)
  PROVE  /\ result \in {"ok", "ex_job", "ex_node", "ex_processing", "broken"}
         /\ Works(r, result) => result \notin Denials(r)
BY DEF Throws, Works, Denials

LEMMA HandlerTypes ==
  ASSUME TypeInv, NEW n \in Node,
         HandleHello(n) \/ HandleReachMaster(n) \/ Refuse(n) \/ Do(n)
  PROVE  TypeInv'
<1>1. /\ process' = process /\ UNCHANGED routerVars
      /\ call' = call /\ line' \in [Node -> Seq(Connection)] /\ serves' = serves
      /\ sent' = sent /\ told' = told /\ mode' = mode /\ kills' = kills
      /\ Reads(n)
  BY DEF HandleHello, HandleReachMaster, Refuse, Do, historyVars, TypeInv, Types,
         RpcTypes, IsRequest
<1>2. OtherTypes'
  BY <1>1 DEF TypeInv, Types, OtherTypes
<1>3. HistoryTypes'
  <2>1. CASE done' = done
    BY <1>1, <2>1 DEF TypeInv, Types, HistoryTypes
  <2>2. CASE done' = [done EXCEPT ![Asked(n).id] = Append(@, n)]
    <3>1. done \in [DOMAIN sent -> Seq(Node)]
      BY DEF TypeInv, Types, HistoryTypes
    <3>2. \A i \in DOMAIN sent : Append(done[i], n) \in Seq(Node)
      BY <3>1
    <3>3. done' \in [DOMAIN sent -> Seq(Node)]
      BY <2>2, <3>1, <3>2
    <3> QED BY <1>1, <3>3 DEF TypeInv, Types, HistoryTypes
  <2>3. done' = done \/ done' = [done EXCEPT ![Asked(n).id] = Append(@, n)]
    BY DEF HandleHello, HandleReachMaster, Refuse, Do, historyVars
  <2> QED BY <2>1, <2>2, <2>3
<1>4. \E x \in Answer : Replies(n, x)
  <2>1. CASE HandleHello(n)
    BY <2>1, Answers DEF HandleHello
  <2>2. CASE HandleReachMaster(n)
    BY <2>2, RouteToMasterType DEF HandleReachMaster, TypeInv, Types
  <2>3. CASE Refuse(n)
    BY <2>3, Answers, CheckedIs DEF Refuse
  <2>4. CASE Do(n)
    <3>1. \E result \in {"ok", "ex_job", "ex_node", "ex_processing", "broken"} :
            Replies(n, Said(result))
      BY <2>4, ThrownTruth DEF Do
    <3> QED BY <3>1, Answers
  <2> QED BY <2>1, <2>2, <2>3, <2>4
<1> QED BY <1>1, <1>2, <1>3, <1>4, ReplyTypes

LEMMA GatewayIs ==
  ASSUME NEW t, IsTable(t), NEW d
  PROVE  get_gateway(t, d) \in Node \cup {NoNode}
<1>1. CASE d \in DOMAIN t
  <2>1. Head(t[d]) \in WeightedGateway
    BY <1>1, HeadElement DEF IsTable
  <2> QED BY <1>1, <2>1 DEF get_gateway, WeightedGateway
<1>2. CASE d \notin DOMAIN t
  BY <1>2 DEF get_gateway
<1> QED BY <1>1, <1>2

\* The four outcomes of Forward.
Crashes(n) == Dies(n) /\ kills' = kills
RoutingFails(n) ==
  /\ Replies(n, Said("ex_routing"))
  /\ UNCHANGED <<mode, process, routerVars, line, call, serves, kills, historyVars>>
GatewayFails(n, gateway) ==
  /\ line' = Opened(Server(n), gateway) /\ process[gateway] # "serving"
  /\ Replies(n, Said("broken"))
  /\ UNCHANGED <<mode, process, routerVars, call, serves, kills, historyVars>>
PassesOn(n, gateway) ==
  /\ Sends(Server(n), gateway, Asked(n)) /\ process[gateway] = "serving"
  /\ serves' = [serves EXCEPT ![n] = Client(n)]
  /\ UNCHANGED <<mode, process, routerVars, answer, kills, historyVars>>

LEMMA ForwardIs ==
  ASSUME RouterTypes, NEW n \in Node, Forward(n)
  PROVE  /\ IsRequest(n)
         /\ \/ Crashes(n) \/ RoutingFails(n)
            \/ \E g \in Node : GatewayFails(n, g) \/ PassesOn(n, g)
<1> DEFINE gateway == get_gateway(table[n], Destination(n, Asked(n)))
           tested == Asked(n).kind \in {"add_job", "update_job"}
<1>1. IsRequest(n) /\ kills' = kills
  BY DEF Forward
<1>2. gateway \in Node \cup {NoNode}
  BY GatewayIs DEF RouterTypes
<1>3. CASE gateway = NoNode /\ ~tested
  BY <1>1, <1>3 DEF Forward, Crashes
<1>4. CASE gateway = NoNode /\ tested
  BY <1>1, <1>4 DEF Forward, RoutingFails, historyVars
<1>5. CASE gateway # NoNode /\ process[gateway] # "serving"
  BY <1>1, <1>2, <1>5 DEF Forward, GatewayFails, historyVars
<1>6. CASE gateway # NoNode /\ process[gateway] = "serving"
  BY <1>1, <1>2, <1>6 DEF Forward, PassesOn, historyVars
<1> QED BY <1>1, <1>3, <1>4, <1>5, <1>6

LEMMA ForwardTypes ==
  ASSUME TypeInv, NEW n \in Node, Forward(n)
  PROVE  TypeInv'
<1>1. IsRequest(n) /\ Reads(n) /\ Client(n) \in Actor
  BY ForwardIs, Reader DEF TypeInv, Types, IsRequest
<1>2. CASE Crashes(n)
  BY <1>2, DiesTypes DEF Crashes, TypeInv, Types, OtherTypes
<1>3. CASE RoutingFails(n)
  <2>1. /\ HistoryTypes' /\ OtherTypes' /\ line' \in [Node -> Seq(Connection)]
        /\ process' = process /\ UNCHANGED routerVars /\ call' = call
        /\ serves' = serves
    BY <1>3 DEF RoutingFails, TypeInv, Types, RpcTypes, HistoryTypes, OtherTypes, historyVars
  <2>2. Said("ex_routing") \in Answer /\ Replies(n, Said("ex_routing"))
    BY <1>3, Answers DEF RoutingFails
  <2> QED BY <1>1, <2>1, <2>2, ReplyTypes
<1>4. ASSUME NEW g \in Node, GatewayFails(n, g) PROVE TypeInv'
  <2>1. /\ HistoryTypes' /\ OtherTypes'
        /\ process' = process /\ UNCHANGED routerVars /\ call' = call
        /\ serves' = serves
    BY <1>4 DEF GatewayFails, TypeInv, Types, RpcTypes, HistoryTypes, OtherTypes, historyVars
  <2>2. Said("broken") \in Answer /\ Replies(n, Said("broken"))
    BY <1>4, Answers DEF GatewayFails
  <2>3. line' \in [Node -> Seq(Connection)]
    BY <1>4, Actors, OpenedLinks DEF GatewayFails, TypeInv, Types, RpcTypes
  <2> QED BY <1>1, <2>1, <2>2, <2>3, ReplyTypes
<1>5. ASSUME NEW g \in Node, PassesOn(n, g) PROVE TypeInv'
  <2>1. /\ HistoryTypes' /\ OtherTypes' /\ RouterTypes'
        /\ process' = process /\ UNCHANGED routerVars
    BY <1>5 DEF PassesOn, TypeInv, Types, RouterTypes, HistoryTypes, OtherTypes,
                historyVars, routerVars
  <2>2. Asked(n) \in Call
    BY <1>1, Calls DEF TypeInv, Types, RpcTypes, IsRequest, Asked
  <2>3. /\ line' \in [Node -> Seq(Connection)]
        /\ call' \in [Actor -> Call \cup {NoCall}]
        /\ \A b \in Actor \ {Server(n)} : call'[b] = call[b]
    BY <1>5, <2>2, Actors, SendsTypes DEF PassesOn, TypeInv, Types
  <2>4. RpcTypes'
    BY <1>1, <1>5, <2>3 DEF PassesOn, TypeInv, Types, RpcTypes
  <2>5. ASSUME NEW m \in Node PROVE Discovering(m)'
    <3>1. call'[Main(m)] = call[Main(m)] /\ Discovering(m)
      BY <2>3, Actors DEF TypeInv, ClientsDiscover
    <3> QED BY <2>1, <3>1, FrameDiscover DEF routerVars
  <2> QED BY <2>1, <2>4, <2>5 DEF TypeInv, Types, ClientsDiscover
<1> QED BY <1>2, <1>3, <1>4, <1>5, ForwardIs DEF TypeInv, Types

LEMMA ForwardReturnsTypes ==
  ASSUME TypeInv, NEW n \in Node, ForwardReturns(n)
  PROVE  TypeInv'
<1>1. /\ HistoryTypes' /\ OtherTypes' /\ RouterTypes'
      /\ process' = process /\ UNCHANGED routerVars
  BY DEF ForwardReturns, TypeInv, Types, RouterTypes, HistoryTypes, OtherTypes,
         historyVars, routerVars
<1>2. /\ call' \in [Actor -> Call \cup {NoCall}]
      /\ \A b \in Actor \ {Server(n)} : call'[b] = call[b]
  BY Actors DEF ForwardReturns, TypeInv, Types, RpcTypes
<1>3. line' \in [Node -> Seq(Connection)]
  BY Actors, ClosedLinks DEF ForwardReturns, TypeInv, Types, RpcTypes
<1>4. answer' \in [Actor -> Answer] /\ serves' \in [Node -> Actor \cup {NoActor}]
  BY Actors, Answers DEF ForwardReturns, TypeInv, Types, RpcTypes
<1>5. ASSUME NEW m \in Node PROVE Discovering(m)'
  <2>1. call'[Main(m)] = call[Main(m)] /\ Discovering(m)
    BY <1>2, Actors DEF TypeInv, ClientsDiscover
  <2> QED BY <1>1, <2>1, FrameDiscover DEF routerVars
<1> QED BY <1>1, <1>2, <1>3, <1>4, <1>5 DEF TypeInv, Types, RpcTypes, ClientsDiscover

LEMMA AppendTable ==
  ASSUME NEW T, NEW k \in Nat, NEW f, f \in Seq(T), Len(f) = k, NEW x \in T
  PROVE  /\ Append(f, x) \in [1 .. k + 1 -> T]
         /\ Append(f, x)[k + 1] = x
         /\ \A i \in 1 .. k : Append(f, x)[i] = f[i]
<1>2. /\ Append(f, x) \in Seq(T) /\ Len(Append(f, x)) = k + 1
      /\ Append(f, x)[k + 1] = x
      /\ \A i \in 1 .. k : Append(f, x)[i] = f[i]
  BY AppendProperties
<1> DEFINE u == Append(f, x)
<1>3. u \in [1 .. k + 1 -> T]
  <2> HIDE DEF u
  <2> QED BY <1>2, LenProperties DEF u
<1> QED BY <1>2, <1>3

\* The new request.
Fresh(u, n, r) ==
  /\ call[Outside(u)] = NoCall /\ Len(sent) < MaxRequests
  /\ Sends(Outside(u), n, [r EXCEPT !.id = Len(sent) + 1])
  /\ sent' = Append(sent, r)
  /\ done' = Append(done, <<>>) /\ told' = Append(told, "none")
  /\ UNCHANGED <<mode, process, routerVars, answer, serves, kills>>

LEMMA HistoryGrows ==
  ASSUME TypeInv, NEW u \in User, NEW n \in Node, NEW r \in Requests, Fresh(u, n, r)
  PROVE  /\ HistoryTypes'
         /\ DOMAIN sent = 1 .. Len(sent) /\ DOMAIN sent' = 1 .. Len(sent) + 1
         /\ Len(sent) \in Nat
         /\ sent'[Len(sent) + 1] = r /\ done'[Len(sent) + 1] = <<>>
         /\ told'[Len(sent) + 1] = "none"
         /\ \A i \in DOMAIN sent : /\ i \in DOMAIN sent' /\ i # Len(sent) + 1
                                   /\ sent'[i] = sent[i] /\ done'[i] = done[i]
                                   /\ told'[i] = told[i]
<1> DEFINE k == Len(sent)
<1>1. /\ sent \in Seq(Requests) /\ k \in Nat /\ k < MaxRequests
      /\ DOMAIN sent = 1 .. k /\ MaxRequests \in Nat
      /\ done \in [1 .. k -> Seq(Node)]
      /\ told \in [1 .. k -> Final \cup {"none", "broken"}]
      /\ sent' = Append(sent, r)
      /\ done' = Append(done, <<>>) /\ told' = Append(told, "none")
  BY NetworkAssumption DEF Fresh, TypeInv, Types, HistoryTypes
<1>2. /\ sent' \in Seq(Requests) /\ Len(sent') = k + 1 /\ DOMAIN sent' = 1 .. k + 1
      /\ sent'[k + 1] = r /\ \A i \in 1 .. k : sent'[i] = sent[i]
  BY <1>1
<1>3. <<>> \in Seq(Node)
  OBVIOUS
<1> HIDE DEF k
<1>4. /\ done' \in [1 .. k + 1 -> Seq(Node)] /\ done'[k + 1] = <<>>
      /\ \A i \in 1 .. k : done'[i] = done[i]
  <2> DEFINE e == <<>>
  <2>1. e \in Seq(Node) /\ done' = Append(done, e)
    BY <1>1, <1>3
  <2> HIDE DEF e
  <2>2. /\ done' \in [1 .. k + 1 -> Seq(Node)] /\ done'[k + 1] = e
        /\ \A i \in 1 .. k : done'[i] = done[i]
    <3> DEFINE Places == Seq(Node)
    <3> HIDE DEF Places
    <3>1. e \in Places /\ done \in Seq(Places) /\ Len(done) = k
      <4>1. done \in [1 .. k -> Places] /\ e \in Places
        BY <1>1, <2>1 DEF Places
      <4> QED BY <1>1, <4>1, SeqDef
    <3>2. /\ done' \in [1 .. k + 1 -> Places] /\ done'[k + 1] = e
          /\ \A i \in 1 .. k : done'[i] = done[i]
      BY <1>1, <2>1, <3>1, AppendTable
    <3> QED BY <3>2 DEF Places
  <2> QED BY <2>2 DEF e
<1>5. /\ told' \in [1 .. k + 1 -> Final \cup {"none", "broken"}]
      /\ told'[k + 1] = "none" /\ \A i \in 1 .. k : told'[i] = told[i]
  <2> DEFINE Results == Final \cup {"none", "broken"}
  <2>1. "none" \in Results
    OBVIOUS
  <2> HIDE DEF Results
  <2>2. told \in Seq(Results) /\ Len(told) = k
    BY <1>1, SeqDef DEF Results
  <2>3. /\ told' \in [1 .. k + 1 -> Results]
        /\ told'[k + 1] = "none" /\ \A i \in 1 .. k : told'[i] = told[i]
    BY <1>1, <2>1, <2>2, AppendTable
  <2> QED BY <2>3 DEF Results
<1>6. \A i \in 1 .. k : i \in 1 .. k + 1 /\ i # k + 1
  BY <1>1
<1>7. k + 1 \in 0 .. MaxRequests
  BY <1>1
<1>8. HistoryTypes'
  BY <1>2, <1>4, <1>5, <1>7 DEF HistoryTypes
<1> QED BY <1>1, <1>2, <1>4, <1>5, <1>6, <1>8 DEF k

LEMMA RequestIsCall ==
  ASSUME NEW r \in Requests, NEW k \in Nat
  PROVE  /\ [r EXCEPT !.id = k] \in Request
         /\ [r EXCEPT !.id = k].id = k
         /\ [r EXCEPT !.id = k].kind = r.kind
         /\ [r EXCEPT !.id = k].kind \in RequestKind
         /\ [r EXCEPT !.id = k].calling = r.calling
         /\ [r EXCEPT !.id = k].target = r.target
         /\ [r EXCEPT !.id = k] \in Call
BY NetworkAssumption DEF Request, Call

LEMMA AskTypes ==
  ASSUME TypeInv, NEW u \in User, Ask(u)
  PROVE  TypeInv'
<1>1. PICK n \in Node, r \in Requests : Fresh(u, n, r)
  BY DEF Ask, Fresh
<1>2. HistoryTypes' /\ Len(sent) + 1 \in Nat
  BY <1>1, HistoryGrows
<1>3. RouterTypes' /\ OtherTypes' /\ process' = process /\ UNCHANGED routerVars
  BY <1>1 DEF Fresh, TypeInv, Types, RouterTypes, OtherTypes, routerVars
<1>4. /\ line' \in [Node -> Seq(Connection)]
      /\ call' \in [Actor -> Call \cup {NoCall}]
      /\ \A b \in Actor \ {Outside(u)} : call'[b] = call[b]
  <2> DEFINE c == [r EXCEPT !.id = Len(sent) + 1]
  <2>1. c \in Call /\ Sends(Outside(u), n, c) /\ Outside(u) \in Actor
    BY <1>1, <1>2, Actors, RequestIsCall DEF Fresh
  <2> HIDE DEF c
  <2> QED BY <2>1, SendsTypes DEF TypeInv, Types
<1>5. RpcTypes'
  BY <1>1, <1>4 DEF Fresh, TypeInv, Types, RpcTypes
<1>6. ASSUME NEW m \in Node PROVE Discovering(m)'
  <2>1. call'[Main(m)] = call[Main(m)] /\ Discovering(m)
    BY <1>4, Actors DEF TypeInv, ClientsDiscover
  <2> QED BY <1>3, <2>1, FrameDiscover DEF routerVars
<1> QED BY <1>2, <1>3, <1>5, <1>6 DEF TypeInv, Types, ClientsDiscover

LEMMA IsToldTypes ==
  ASSUME TypeInv, NEW u \in User, IsTold(u)
  PROVE  TypeInv'
<1>1. RouterTypes' /\ OtherTypes' /\ process' = process /\ UNCHANGED routerVars
  BY DEF IsTold, TypeInv, Types, RouterTypes, OtherTypes, routerVars
<1>2. /\ call' \in [Actor -> Call \cup {NoCall}] /\ answer' \in [Actor -> Answer]
      /\ \A b \in Actor \ {Outside(u)} : call'[b] = call[b]
  BY Actors, ReturnedTypes DEF IsTold, TypeInv, Types
<1>3. RpcTypes'
  BY <1>2, Actors, ClosedLinks DEF IsTold, TypeInv, Types, RpcTypes
<1>4. HistoryTypes'
  BY Actors, Answers DEF IsTold, TypeInv, Types, RpcTypes, HistoryTypes, Final
<1>5. ASSUME NEW m \in Node PROVE Discovering(m)'
  <2>1. call'[Main(m)] = call[Main(m)] /\ Discovering(m)
    BY <1>2, Actors DEF TypeInv, ClientsDiscover
  <2> QED BY <1>1, <2>1, FrameDiscover DEF routerVars
<1> QED BY <1>1, <1>3, <1>4, <1>5 DEF TypeInv, Types, ClientsDiscover

LEMMA StepTypes ==
  ASSUME TypeInv, [Next]_vars
  PROVE  TypeInv'
<1>1. CASE UNCHANGED vars
  <2>1. RouterTypes' /\ RpcTypes' /\ HistoryTypes' /\ OtherTypes'
    BY <1>1 DEF vars, routerVars, rpcVars, historyVars, TypeInv, Types,
                RouterTypes, RpcTypes, HistoryTypes, OtherTypes
  <2>2. ClientsDiscover'
    BY <1>1 DEF vars, routerVars, rpcVars, TypeInv, ClientsDiscover, Discovering
  <2> QED BY <2>1, <2>2 DEF TypeInv, Types
<1>2. ASSUME NEW n \in Node, Start(n) \/ MainStep(n) PROVE TypeInv'
  BY <1>2, StartTypes, SayHelloTypes, HelloReturnsTypes, ReachMasterTypes,
     ReachReturnsTypes DEF MainStep
<1>3. ASSUME NEW n \in Node, ServerStep(n) PROVE TypeInv'
  BY <1>3, HandlerTypes, ForwardTypes, ForwardReturnsTypes DEF ServerStep
<1>4. ASSUME NEW n \in Node, Kill(n) PROVE TypeInv'
  <2>1. kills' \in 0 .. MaxKills
    BY <1>4, NetworkAssumption DEF Kill, TypeInv, Types, OtherTypes
  <2> QED BY <1>4, <2>1, DiesTypes DEF Kill
<1>5. ASSUME NEW u \in User, Ask(u) \/ IsTold(u) PROVE TypeInv'
  BY <1>5, AskTypes, IsToldTypes
<1> QED BY <1>1, <1>2, <1>3, <1>4, <1>5 DEF Next

LEMMA TypesInvariant == Spec => []TypeInv
<1>1. Init => TypeInv
  BY InitTypes
<1>2. TypeInv /\ [Next]_vars => TypeInv'
  BY StepTypes
<1> QED BY <1>1, <1>2, PTL DEF Spec

\* Every variable of the nodes keeps the type it is declared with, through
\* every discovery, forwarding, answer and death (router.cpp, rpc_server.cpp).
THEOREM NetworkTypes == Spec => []TypeOK
<1>1. TypeInv => TypeOK
  BY TypesTypeOK DEF TypeInv
<1> QED BY <1>1, TypesInvariant, PTL

-----------------------------------------------------------------------------
(***************************************************************************)
(* A request on its way.                                                   *)
(*                                                                         *)
(* A thread waits for the answer to a request.  When a server has passed   *)
(* the request on, its own thread waits too: the last of the threads that  *)
(* wait for a request, the leaf, is the one on whose behalf the request    *)
(* may still be done.  There is one leaf at most, and none any more when   *)
(* the request has been done, or when someone got an answer of the domain. *)
(***************************************************************************)
Waits(a) == call[a].kind \in RequestKind /\ answer[a] = NoAnswer

Leaf(a) == Waits(a) /\ \A n \in Node : serves[n] # a

Settled(i) == \A a \in Actor : Leaf(a) => call[a].id # i

Truth(result, i) ==
  /\ result = "ok" /\ sent[i].kind # "get_node" => done[i] # <<>>
  /\ result \in Denials(sent[i]) => done[i] = <<>>

CallsAreSent ==
  \A a \in Actor :
    /\ call[a].kind \in RequestKind =>
         /\ call[a].id \in DOMAIN sent
         /\ call[a] = [sent[call[a].id] EXCEPT !.id = call[a].id]
    /\ call[a] = NoCall \/ answer[a].result = "none" => answer[a] = NoAnswer
    /\ call[a].kind \in {"hello", "reach_master"} => \E n \in Node : a = Main(n)

OneSender ==
  \A u \in User : call[Outside(u)] # NoCall =>
    /\ told[call[Outside(u)].id] = "none"
    /\ \A v \in User :
         /\ call[Outside(v)] # NoCall
         /\ call[Outside(v)].id = call[Outside(u)].id
         => u = v

OneLink ==
  \A a \in Actor : \A m, n \in Node : Uses(a, m) /\ Uses(a, n) => m = n

PassedOn ==
  \A n \in Node : serves[n] # NoActor =>
    /\ Waits(serves[n]) /\ call[Server(n)] = call[serves[n]]
    /\ Uses(serves[n], n)

WireInv == CallsAreSent /\ OneSender /\ OneLink /\ PassedOn

OneLeaf ==
  \A a, b \in Actor :
    Leaf(a) /\ Leaf(b) /\ call[a].id = call[b].id => a = b

DoneSettled ==
  \A i \in DOMAIN sent : done[i] # <<>> =>
    /\ Settled(i)
    /\ \E n \in Node : n \in RightPlaces(sent[i]) /\ done[i] = <<n>>

AnswersSettled ==
  \A a \in Actor :
    call[a].kind \in RequestKind /\ answer[a].result \in Final =>
      Settled(call[a].id) /\ Truth(answer[a].result, call[a].id)

ToldSettled ==
  \A i \in DOMAIN sent :
    told[i] \in Final => Settled(i) /\ Truth(told[i], i)

LeafInv == OneLeaf /\ DoneSettled /\ AnswersSettled /\ ToldSettled

NetInv == TypeInv /\ WireInv /\ LeafInv

LEMMA InitNet == Init => NetInv
<1> SUFFICES ASSUME Init PROVE NetInv
  OBVIOUS
<1>1. TypeInv
  BY InitTypes
<1>2. /\ \A a \in Actor : call[a] = NoCall /\ answer[a] = NoAnswer
      /\ \A n \in Node : serves[n] = NoActor /\ line[n] = <<>>
      /\ DOMAIN sent = {}
  BY DEF Init
<1>3. /\ NoCall.kind = "none" /\ "none" \notin RequestKind
      /\ \A a \in Actor : ~Leaf(a)
  BY <1>2, Calls DEF Leaf, Waits, NoCall
<1>4. \A a \in Actor, n \in Node : ~Uses(a, n)
  BY <1>2 DEF Uses, Elements
<1>5. WireInv
  BY <1>2, <1>3, <1>4, Actors DEF WireInv, CallsAreSent, OneSender, OneLink, PassedOn
<1>6. LeafInv
  BY <1>2, <1>3 DEF LeafInv, OneLeaf, DoneSettled, AnswersSettled, ToldSettled
<1> QED BY <1>1, <1>5, <1>6 DEF NetInv

\* What has been settled stays so, as long as a leaf comes from a leaf of the
\* same request and an answer from an answer to the same request.
LEMMA FrameSettled ==
  ASSUME LeafInv, OneLeaf',
         sent' = sent, done' = done,
         \A a \in Actor : Leaf(a)' =>
           \E b \in Actor : Leaf(b) /\ call[b].id = call'[a].id,
         \A a \in Actor :
           call'[a].kind \in RequestKind /\ answer'[a].result \in Final =>
             \E b \in Actor :
               /\ call[b].kind \in RequestKind
               /\ answer[b].result = answer'[a].result
               /\ call[b].id = call'[a].id,
         \A i \in DOMAIN sent :
           \/ told'[i] = told[i]
           \/ \E b \in Actor :
                /\ call[b].kind \in RequestKind /\ answer[b].result = told'[i]
                /\ call[b].id = i
  PROVE  LeafInv'
<1>1. ASSUME NEW i, Settled(i) PROVE Settled(i)'
  BY <1>1 DEF Settled
<1>2. \A result, i : Truth(result, i) => Truth(result, i)'
  BY DEF Truth
<1>3. DoneSettled'
  BY <1>1 DEF LeafInv, DoneSettled, RightPlaces
<1>4. AnswersSettled'
  BY <1>1, <1>2 DEF LeafInv, AnswersSettled
<1>5. ToldSettled'
  BY <1>1, <1>2 DEF LeafInv, AnswersSettled, ToldSettled
<1> QED BY <1>3, <1>4, <1>5 DEF LeafInv

\* Who a server reads a request from is the leaf of this request.
LEMMA ReaderIsLeaf ==
  ASSUME RpcTypes, WireInv, NEW n \in Node, IsRequest(n)
  PROVE  /\ Client(n) \in Actor /\ Uses(Client(n), n) /\ Leaf(Client(n))
         /\ call[Server(n)] = NoCall /\ Asked(n) = call[Client(n)]
         /\ Client(n) # Server(n) /\ serves[n] = NoActor
<1>1. /\ Client(n) \in Actor /\ Uses(Client(n), n) /\ call[Server(n)] = NoCall
      /\ Asked(n) = call[Client(n)] /\ Waits(Client(n))
  BY Reader DEF IsRequest, Asked, Waits, Reads
<1>2. NoCall.kind \notin RequestKind
  BY Calls DEF NoCall
<1>3. Client(n) # Server(n)
  BY <1>1, <1>2 DEF Waits
<1>4. serves[n] = NoActor
  BY <1>1, <1>2, Actors DEF WireInv, PassedOn, Waits
<1>5. ASSUME NEW m \in Node, serves[m] = Client(n) PROVE FALSE
  <2>1. Uses(Client(n), m) /\ serves[m] # NoActor
    BY <1>1, <1>5, Actors DEF WireInv, PassedOn
  <2>2. m = n
    BY <1>1, <2>1 DEF WireInv, OneLink
  <2> QED BY <1>4, <2>1, <2>2
<1> QED BY <1>1, <1>3, <1>4, <1>5 DEF Leaf

LEMMA MainAsksNothing ==
  ASSUME TypeInv, NEW n \in Node
  PROVE  call[Main(n)].kind \notin RequestKind
BY Calls DEF TypeInv, ClientsDiscover, Discovering, NoCall

\* What the main thread of a node does has no effect on the requests.
LEMMA FrameMain ==
  ASSUME NetInv, TypeInv', NEW n \in Node,
         sent' = sent, done' = done, told' = told, serves' = serves,
         \A b \in Actor \ {Main(n)} : call'[b] = call[b] /\ answer'[b] = answer[b],
         call'[Main(n)] = NoCall \/ answer'[Main(n)].result = "none" =>
           answer'[Main(n)] = NoAnswer,
         \A b \in Actor \ {Main(n)}, m \in Node : Uses(b, m)' <=> Uses(b, m),
         \A m, k \in Node : Uses(Main(n), m)' /\ Uses(Main(n), k)' => m = k
  PROVE  NetInv'
<1>1. /\ call[Main(n)].kind \notin RequestKind /\ call'[Main(n)].kind \notin RequestKind
      /\ Main(n) \in Actor
  BY Actors, Calls DEF NetInv, TypeInv, ClientsDiscover, Discovering, NoCall
<1>2. \A a \in Actor : Waits(a)' <=> Waits(a)
  BY <1>1 DEF Waits
<1>3. \A a \in Actor : Leaf(a)' <=> Leaf(a)
  BY <1>2 DEF Leaf
<1>4. \A a \in Actor : Waits(a) => a # Main(n)
  BY <1>1 DEF Waits
<1>5. CallsAreSent'
  BY <1>1 DEF NetInv, WireInv, CallsAreSent
<1>6. OneSender'
  BY Actors DEF NetInv, WireInv, OneSender
<1>7. OneLink'
  BY DEF NetInv, WireInv, OneLink
<1>8. PassedOn'
  <2> SUFFICES ASSUME NEW k \in Node, serves[k] # NoActor
               PROVE  /\ Waits(serves[k])' /\ call'[Server(k)] = call'[serves[k]]
                      /\ Uses(serves[k], k)'
    BY DEF PassedOn
  <2>1. /\ serves[k] \in Actor /\ Waits(serves[k]) /\ serves[k] # Main(n)
        /\ call[Server(k)] = call[serves[k]] /\ Uses(serves[k], k)
    BY <1>4 DEF NetInv, WireInv, PassedOn, TypeInv, Types, RpcTypes
  <2> QED BY <1>2, <2>1, Actors
<1>9. OneLeaf'
  BY <1>3, <1>4 DEF NetInv, LeafInv, OneLeaf, Leaf
<1>10. LeafInv'
  <2>1. \A a \in Actor : Leaf(a)' => Leaf(a) /\ call[a].id = call'[a].id
    BY <1>3, <1>4 DEF Leaf
  <2>2. \A a \in Actor : call'[a].kind \in RequestKind =>
          call'[a] = call[a] /\ answer'[a] = answer[a]
    BY <1>1
  <2> QED BY <1>9, <2>1, <2>2, FrameSettled DEF NetInv
<1> QED BY <1>5, <1>6, <1>7, <1>8, <1>10 DEF NetInv, WireInv

LEMMA MainNet ==
  ASSUME NetInv, TypeInv', NEW n \in Node,
         \/ Start(n) \/ Serve(n) \/ SayHello(n) \/ HelloReturns(n)
         \/ ReachMaster(n) /\ ~Dies(n)
         \/ ReachReturns(n) /\ ~Dies(n)
         \/ UNCHANGED vars
  PROVE  NetInv'
<1>1. /\ Main(n) \in Actor /\ RpcTypes /\ RpcTypes' /\ RouterTypes
      /\ call[Main(n)] = NoCall => answer[Main(n)] = NoAnswer
      /\ answer[Main(n)].result = "none" => answer[Main(n)] = NoAnswer
  BY Actors DEF NetInv, TypeInv, Types, WireInv, CallsAreSent
<1>2. CASE Start(n) \/ Serve(n) \/ UNCHANGED vars
  <2>1. /\ sent' = sent /\ done' = done /\ told' = told /\ serves' = serves
        /\ call' = call /\ answer' = answer /\ line' = line
    BY <1>2 DEF Start, Serve, vars, rpcVars, historyVars
  <2>2. \A b \in Actor, m \in Node : Uses(b, m)' <=> Uses(b, m)
    BY <2>1 DEF Uses
  <2> QED BY <1>1, <2>1, <2>2, FrameMain DEF NetInv, WireInv, OneLink
<1>3. ASSUME NEW peer \in Node, line' = Opened(Main(n), peer)
      PROVE  /\ \A b \in Actor \ {Main(n)}, m \in Node : Uses(b, m)' <=> Uses(b, m)
             /\ \A m, k \in Node : Uses(Main(n), m)' /\ Uses(Main(n), k)' => m = k
  <2>1. line \in [Node -> Seq(Connection)] /\ Main(n) \in Actor
    BY <1>1 DEF RpcTypes
  <2> QED BY <1>3, <2>1, OpenedUses
<1>4. ASSUME NEW peer \in Node, NEW c \in {"hello", "reach_master"},
             Sends(Main(n), peer, [kind |-> c]), call[Main(n)] = NoCall,
             UNCHANGED <<answer, serves, historyVars>>
      PROVE  NetInv'
  <2>1. /\ sent' = sent /\ done' = done /\ told' = told /\ serves' = serves
        /\ answer' = answer /\ line' = Opened(Main(n), peer)
        /\ \A b \in Actor \ {Main(n)} : call'[b] = call[b]
    BY <1>1, <1>4, SendsTypes, Calls DEF Sends, historyVars, RpcTypes
  <2>2. answer'[Main(n)] = NoAnswer
    BY <1>1, <1>4, <2>1
  <2> QED BY <1>3, <2>1, <2>2, FrameMain
<1>5. CASE SayHello(n)
  <2> DEFINE peer == Peers[n][read[n] + 1]
  <2>1. /\ peer \in Node /\ call[Main(n)] = NoCall
    <3>1. /\ n \in Node \ Masters /\ read[n] < Len(Peers[n]) /\ read[n] \in Nat
          /\ call[Main(n)] = NoCall
      BY <1>5 DEF SayHello, Discovers, NetInv, TypeInv, Types, RouterTypes,
                  ClientsDiscover, Discovering
    <3> QED BY <3>1, NetworkAssumption
  <2>2. /\ UNCHANGED <<answer, serves, historyVars>>
        /\ \/ Sends(Main(n), peer, [kind |-> "hello"])
           \/ line' = Opened(Main(n), peer) /\ UNCHANGED call
    BY <1>5 DEF SayHello
  <2> HIDE DEF peer
  <2>3. CASE Sends(Main(n), peer, [kind |-> "hello"])
    BY <1>4, <2>1, <2>2, <2>3
  <2>4. CASE line' = Opened(Main(n), peer) /\ UNCHANGED call
    BY <1>1, <1>3, <2>1, <2>2, <2>4, FrameMain DEF historyVars
  <2> QED BY <2>2, <2>3, <2>4
<1>6. CASE ReachMaster(n) /\ ~Dies(n)
  <2>1. /\ n \in Node \ Masters /\ left[n] # {} /\ call[Main(n)] = NoCall
    <3>1. /\ n \in Node \ Masters /\ read[n] = Len(Peers[n])
          /\ call[Main(n)] = NoCall
      BY <1>6 DEF ReachMaster, Discovers, NetInv, TypeInv, ClientsDiscover,
                  Discovering
    <3>2. read[n] > 0
      BY <3>1, NetworkAssumption
    <3> QED BY <3>1, <3>2 DEF NetInv, TypeInv, ClientsDiscover, Discovering
  <2> DEFINE peer == Least(left[n])
  <2>2. peer \in Node
    BY <1>1, <2>1, LeastIn DEF RouterTypes
  <2>3. /\ UNCHANGED <<answer, serves, historyVars>>
        /\ Sends(Main(n), peer, [kind |-> "reach_master"])
    BY <1>6 DEF ReachMaster
  <2> HIDE DEF peer
  <2> QED BY <1>4, <2>1, <2>2, <2>3
<1>7. ASSUME Returned(Main(n)), UNCHANGED <<line, serves, historyVars>>
      PROVE  NetInv'
  <2>1. /\ sent' = sent /\ done' = done /\ told' = told /\ serves' = serves
        /\ line' = line /\ answer'[Main(n)] = NoAnswer
        /\ \A b \in Actor \ {Main(n)} : call'[b] = call[b] /\ answer'[b] = answer[b]
    BY <1>1, <1>7, ReturnedTypes DEF historyVars
  <2>2. \A b \in Actor, m \in Node : Uses(b, m)' <=> Uses(b, m)
    BY <2>1 DEF Uses
  <2> QED BY <1>1, <2>1, <2>2, FrameMain DEF NetInv, WireInv, OneLink
<1>8. CASE HelloReturns(n) \/ (ReachReturns(n) /\ ~Dies(n))
  <2>1. Returned(Main(n)) /\ UNCHANGED <<line, serves, historyVars>>
    BY <1>8 DEF HelloReturns, ReachReturns
  <2> QED BY <1>7, <2>1
<1> QED BY <1>2, <1>5, <1>6, <1>8

\* Answering a request settles it.
LEMMA ReplyNet ==
  ASSUME NetInv, TypeInv', NEW n \in Node, IsRequest(n),
         NEW c, c = Client(n), NEW id, id = call[c].id,
         NEW x \in Answer, x.result # "none", Replies(n, x),
         call' = call, serves' = serves, sent' = sent, told' = told,
         \A b \in Actor, m \in Node : Uses(b, m)' => Uses(b, m),
         \A b \in Actor \ {Server(n)}, m \in Node : Uses(b, m) => Uses(b, m)',
         \A i \in DOMAIN sent :
           \/ done'[i] = done[i]
           \/ /\ i = id
              /\ \E k \in Node : k \in RightPlaces(sent[i]) /\ done'[i] = <<k>>,
         x.result \in Final => Truth(x.result, id)'
  PROVE  NetInv'
<1>1. /\ c \in Actor /\ Leaf(c) /\ c # Server(n)
      /\ call[Server(n)] = NoCall /\ id \in DOMAIN sent
      /\ call[c].kind \in RequestKind
  BY ReaderIsLeaf DEF NetInv, TypeInv, Types, WireInv, CallsAreSent, Leaf, Waits
<1>2. /\ answer'[c] = x /\ x # NoAnswer
      /\ \A a \in Actor \ {c} : answer'[a] = answer[a]
  BY <1>1 DEF Replies, NetInv, TypeInv, Types, RpcTypes, NoAnswer, Said
<1>3. \A a \in Actor : Leaf(a)' <=> Leaf(a) /\ a # c
  BY <1>1, <1>2 DEF Leaf, Waits
<1>4. Settled(id)' /\ ~Settled(id) /\ \A i : Settled(i) => Settled(i)'
  BY <1>1, <1>3 DEF Settled, NetInv, LeafInv, OneLeaf
<1>5. OneLeaf'
  BY <1>3 DEF NetInv, LeafInv, OneLeaf
<1>6. /\ done[id] = <<>> /\ told[id] \notin Final
      /\ \A a \in Actor :
           call[a].kind \in RequestKind /\ answer[a].result \in Final => call[a].id # id
  BY <1>1, <1>4 DEF NetInv, LeafInv, DoneSettled, ToldSettled, AnswersSettled
<1>7. ASSUME NEW i \in DOMAIN sent, i # id, NEW result, Truth(result, i)
      PROVE  Truth(result, i)'
  BY <1>1, <1>7 DEF Truth
<1>8. DoneSettled'
  BY <1>1, <1>4, <1>6 DEF NetInv, LeafInv, DoneSettled, RightPlaces
<1>9. AnswersSettled'
  <2> SUFFICES ASSUME NEW a \in Actor, call[a].kind \in RequestKind,
                      NEW result \in Final, result = answer'[a].result,
                      NEW i, i = call[a].id
               PROVE  Settled(i)' /\ Truth(result, i)'
    BY DEF AnswersSettled
  <2>1. CASE a = c
    BY <1>1, <1>2, <1>4, <2>1
  <2>2. CASE a # c
    <3>1. /\ answer'[a] = answer[a] /\ i # id /\ i \in DOMAIN sent
          /\ Settled(i) /\ Truth(result, i)
      BY <1>2, <1>6, <2>2 DEF NetInv, LeafInv, AnswersSettled, WireInv, CallsAreSent
    <3> QED BY <1>4, <1>7, <3>1
  <2> QED BY <2>1, <2>2
<1>10. ToldSettled'
  <2> SUFFICES ASSUME NEW i \in DOMAIN sent, told[i] \in Final
               PROVE  Settled(i)' /\ Truth(told[i], i)'
    BY DEF ToldSettled
  <2>1. i # id /\ Settled(i) /\ Truth(told[i], i)
    BY <1>6 DEF NetInv, LeafInv, ToldSettled
  <2> QED BY <1>4, <1>7, <2>1
<1>11. CallsAreSent'
  BY <1>1, <1>2, Calls DEF NetInv, WireInv, CallsAreSent, NoCall
<1>12. OneSender' /\ OneLink'
  BY DEF NetInv, WireInv, OneSender, OneLink
<1>13. PassedOn'
  <2> SUFFICES ASSUME NEW k \in Node, serves[k] # NoActor
               PROVE  /\ Waits(serves[k])' /\ call[Server(k)] = call[serves[k]]
                      /\ Uses(serves[k], k)'
    BY DEF PassedOn
  <2>1. /\ serves[k] \in Actor /\ Waits(serves[k]) /\ Uses(serves[k], k)
        /\ call[Server(k)] = call[serves[k]] /\ serves[k] # c
    BY <1>1 DEF NetInv, WireInv, PassedOn, TypeInv, Types, RpcTypes, Leaf
  <2>2. serves[k] # Server(n)
    BY <1>1, <2>1, Calls DEF Waits, NoCall
  <2> QED BY <1>2, <2>1, <2>2 DEF Waits
<1> QED BY <1>5, <1>8, <1>9, <1>10, <1>11, <1>12, <1>13 DEF NetInv, WireInv, LeafInv

LEMMA HelloNet ==
  ASSUME NetInv, TypeInv', NEW n \in Node, HandleHello(n) \/ HandleReachMaster(n)
  PROVE  NetInv'
<1>1. /\ Reads(n) /\ call[Client(n)].kind \in {"hello", "reach_master"}
      /\ UNCHANGED <<call, line, serves, sent, done, told>>
  BY DEF HandleHello, HandleReachMaster, historyVars
<1>2. \E x \in Answer : x.result # "none" /\ Replies(n, x)
  <2>1. CASE HandleHello(n)
    BY <2>1, Answers DEF HandleHello
  <2>2. CASE HandleReachMaster(n)
    BY <2>2, RouteToMasterType DEF HandleReachMaster, NetInv, TypeInv, Types
  <2> QED BY <2>1, <2>2
<1>3. PICK x \in Answer : x.result # "none" /\ Replies(n, x)
  BY <1>2
<1>4. PICK k \in Node : Client(n) = Main(k)
  BY <1>1, Reader DEF NetInv, TypeInv, Types, WireInv, CallsAreSent
<1>5. /\ answer' = [answer EXCEPT ![Main(k)] = x] /\ Main(k) \in Actor
      /\ call'[Main(k)].kind # "none"
      /\ answer \in [Actor -> Answer]
  BY <1>1, <1>3, <1>4, Actors DEF Replies, NetInv, TypeInv, Types, RpcTypes
<1>6. \A b \in Actor, m \in Node : Uses(b, m)' <=> Uses(b, m)
  BY <1>1 DEF Uses
<1>7. call'[Main(k)] # NoCall /\ answer'[Main(k)].result # "none"
  BY <1>3, <1>5 DEF NoCall
<1>8. \A b \in Actor \ {Main(k)} : call'[b] = call[b] /\ answer'[b] = answer[b]
  BY <1>1, <1>5
<1>9. \A m, j \in Node : Uses(Main(k), m)' /\ Uses(Main(k), j)' => m = j
  BY <1>5, <1>6 DEF NetInv, WireInv, OneLink
<1> QED BY <1>1, <1>6, <1>7, <1>8, <1>9, FrameMain

\* The request a server reads, and what its state is.
LEMMA AskedIs ==
  ASSUME NetInv, NEW n \in Node, IsRequest(n), NEW id, id = call[Client(n)].id
  PROVE  /\ Client(n) \in Actor /\ Asked(n) = call[Client(n)]
         /\ id \in DOMAIN sent /\ sent[id] \in Requests /\ sent[id] \in Request
         /\ Asked(n).kind = sent[id].kind /\ Asked(n).target = sent[id].target
         /\ Asked(n).calling = sent[id].calling
         /\ Asked(n) \in Request
         /\ done[id] = <<>> /\ told[id] \notin Final
<1>1. /\ Client(n) \in Actor /\ Leaf(Client(n)) /\ Asked(n) = call[Client(n)]
      /\ Asked(n).kind \in RequestKind
  BY ReaderIsLeaf DEF NetInv, TypeInv, Types, IsRequest
<1>2. /\ id \in DOMAIN sent /\ Asked(n) = [sent[id] EXCEPT !.id = id]
  BY <1>1 DEF NetInv, WireInv, CallsAreSent
<1>3. sent[id] \in Requests /\ sent[id] \in Request
  BY <1>2, NetworkAssumption DEF NetInv, TypeInv, Types, HistoryTypes
<1>4. /\ Asked(n).kind = sent[id].kind /\ Asked(n).target = sent[id].target
      /\ Asked(n).calling = sent[id].calling
  BY <1>2, <1>3 DEF Request
<1>5. Asked(n) \in Request
  BY <1>1, Calls DEF NetInv, TypeInv, Types, RpcTypes
<1>6. ~Settled(id)
  BY <1>1 DEF Settled
<1>7. done[id] = <<>> /\ told[id] \notin Final
  BY <1>2, <1>6 DEF NetInv, LeafInv, DoneSettled, ToldSettled
<1> QED BY <1>1, <1>2, <1>3, <1>4, <1>5, <1>7

LEMMA RefuseNet ==
  ASSUME NetInv, TypeInv', NEW n \in Node, Refuse(n)
  PROVE  NetInv'
<1> DEFINE x == Said(Checked(n, Asked(n)))
<1>1. PICK id : id = call[Client(n)].id
  OBVIOUS
<1>2. /\ IsRequest(n) /\ Replies(n, x)
      /\ UNCHANGED <<call, line, serves, sent, done, told>>
      /\ Checked(n, Asked(n)) \in {"ex_routing", "ex_job", "ex_node"}
  BY CheckedIs DEF Refuse, historyVars
<1>3. x \in Answer /\ x.result \in {"ex_routing", "ex_job", "ex_node"}
  BY <1>2, Answers
<1> HIDE DEF x
<1>4. done[id] = <<>> /\ id \in DOMAIN sent
  BY <1>1, <1>2, AskedIs
<1>5. \A result : result # "ok" => Truth(result, id)'
  BY <1>2, <1>4 DEF Truth
<1>6. \A b \in Actor, m \in Node : Uses(b, m)' <=> Uses(b, m)
  BY <1>2 DEF Uses
<1>7. PICK y \in Answer : y = x
  BY <1>3
<1>8. y.result \notin {"none", "ok"} /\ Replies(n, y)
  BY <1>2, <1>3, <1>7
<1>9. Truth(y.result, id)'
  BY <1>5, <1>8
<1> QED BY <1>1, <1>2, <1>6, <1>8, <1>9, ReplyNet

LEMMA HereIsRight ==
  ASSUME NEW n \in Node, NEW r \in Request, Checked(n, r) = "none", Here(n, r),
         ~(Passive(n) /\ r.kind = "get_node")
  PROVE  n \in RightPlaces(r)
<1>1. CASE r.kind = "planning"
  <2>1. ~Passive(n)
    BY <1>1 DEF Checked
  <2>2. n \in Masters
    BY <1>1, <2>1, RouterAssumption DEF Here, Destination
  <2> QED BY <1>1, <2>2 DEF RightPlaces
<1>2. CASE r.kind # "planning" /\ ~Passive(n)
  <2>1. n = r.target
    BY <1>2 DEF Here, Destination
  <2> QED BY <1>2, <2>1 DEF RightPlaces
<1>3. CASE r.kind # "planning" /\ Passive(n)
  <2>1. r.kind # "get_node"
    BY <1>3
  <2>2. n = r.target
    BY <1>3, <2>1 DEF Checked
  <2> QED BY <1>3, <2>2 DEF RightPlaces
<1> QED BY <1>1, <1>2, <1>3

LEMMA DoNet ==
  ASSUME NetInv, TypeInv', NEW n \in Node, Do(n)
  PROVE  NetInv'
<1>1. PICK id : id = call[Client(n)].id
  OBVIOUS
<1>2. PICK result :
        /\ result \in {"ok", "ex_job", "ex_node", "ex_processing", "broken"}
        /\ Replies(n, Said(result))
        /\ \/ /\ ~(Passive(n) /\ Asked(n).kind = "get_node")
              /\ result \notin Denials(Asked(n))
              /\ done' = [done EXCEPT ![Asked(n).id] = Append(@, n)]
           \/ /\ UNCHANGED done
              /\ result = "ok" => Asked(n).kind = "get_node"
  <2>1. CASE Passive(n) /\ Asked(n).kind = "get_node"
    BY <2>1 DEF Do
  <2>2. CASE ~(Passive(n) /\ Asked(n).kind = "get_node")
    <3>1. PICK result \in {"ok"} \cup Throws(n, Asked(n).kind) :
            /\ Replies(n, Said(result))
            /\ \/ /\ Works(Asked(n), result)
                  /\ done' = [done EXCEPT ![Asked(n).id] = Append(@, n)]
               \/ ~Works(Asked(n), result) /\ UNCHANGED done
               \/ result = "ex_processing" /\ UNCHANGED done
      BY <2>2 DEF Do
    <3>2. result = "ok" => Works(Asked(n), result)
      BY DEF Works
    <3> QED BY <2>2, <3>1, <3>2, ThrownTruth
  <2> QED BY <2>1, <2>2
<1>3. /\ IsRequest(n) /\ UNCHANGED <<call, line, serves, sent, told>>
      /\ Checked(n, Asked(n)) = "none" /\ Here(n, Asked(n))
  BY DEF Do
<1>4. /\ id = Asked(n).id /\ id \in DOMAIN sent /\ done[id] = <<>>
      /\ Asked(n).kind = sent[id].kind /\ Asked(n).target = sent[id].target
      /\ Asked(n) \in Request /\ id \in DOMAIN done
  BY <1>1, <1>3, AskedIs DEF NetInv, TypeInv, Types, HistoryTypes
<1>5. \A b \in Actor, m \in Node : Uses(b, m)' <=> Uses(b, m)
  BY <1>3 DEF Uses
<1>6. Said(result) \in Answer /\ Said(result).result = result
  BY <1>2, Answers
<1>7. /\ Truth(result, id)'
      /\ \A i \in DOMAIN sent :
           \/ done'[i] = done[i]
           \/ i = id /\ \E k \in Node : k \in RightPlaces(sent[i]) /\ done'[i] = <<k>>
  <2>1. CASE /\ ~(Passive(n) /\ Asked(n).kind = "get_node")
             /\ result \notin Denials(Asked(n))
             /\ done' = [done EXCEPT ![Asked(n).id] = Append(@, n)]
    <3>1. n \in RightPlaces(Asked(n))
      BY <1>3, <1>4, <2>1, HereIsRight
    <3>2. /\ RightPlaces(Asked(n)) = RightPlaces(sent[id])
          /\ Denials(Asked(n)) = Denials(sent[id])
      BY <1>4 DEF RightPlaces, Denials
    <3>3. done'[id] = <<n>> /\ \A i \in DOMAIN done \ {id} : done'[i] = done[i]
      <4>1. Append(<<>>, n) = <<n>>
        OBVIOUS
      <4> QED BY <1>4, <2>1, <4>1
    <3>4. <<n>> # <<>>
      OBVIOUS
    <3>5. Truth(result, id)'
      BY <1>3, <2>1, <3>2, <3>3, <3>4 DEF Truth
    <3>6. DOMAIN done = DOMAIN sent
      BY DEF NetInv, TypeInv, Types, HistoryTypes
    <3> QED BY <3>1, <3>2, <3>3, <3>5, <3>6
  <2>2. CASE /\ UNCHANGED done
             /\ result = "ok" => Asked(n).kind = "get_node"
    BY <1>3, <1>4, <2>2 DEF Truth
  <2> QED BY <1>2, <2>1, <2>2
<1> QED BY <1>1, <1>2, <1>3, <1>5, <1>6, <1>7, ReplyNet

LEMMA ForwardFailsNet ==
  ASSUME NetInv, TypeInv', NEW n \in Node, IsRequest(n),
         RoutingFails(n) \/ \E g \in Node : GatewayFails(n, g)
  PROVE  NetInv'
<1>1. PICK id : id = call[Client(n)].id
  OBVIOUS
<1>2. done[id] = <<>> /\ id \in DOMAIN sent /\ Server(n) \in Actor
  BY <1>1, AskedIs, Actors
<1>3. UNCHANGED <<call, serves, sent, done, told>>
  BY DEF RoutingFails, GatewayFails, historyVars
<1>4. PICK x \in Answer : Replies(n, x) /\ x.result \in {"ex_routing", "broken"}
  <2>1. \E x \in Answer : Replies(n, x) /\ x.result \in {"ex_routing", "broken"}
    BY Answers DEF RoutingFails, GatewayFails
  <2> QED BY <2>1
<1>5. Truth(x.result, id)'
  BY <1>2, <1>3, <1>4 DEF Truth
<1>6. /\ \A b \in Actor, m \in Node : Uses(b, m)' => Uses(b, m)
      /\ \A b \in Actor \ {Server(n)}, m \in Node : Uses(b, m) => Uses(b, m)'
  <2>1. CASE line' = line
    BY <2>1 DEF Uses
  <2>2. ASSUME NEW g \in Node, line' = Opened(Server(n), g), process[g] # "serving"
        PROVE  \A b \in Actor, m \in Node : Uses(b, m)' <=> b # Server(n) /\ Uses(b, m)
    BY <1>2, <2>2, OpenedUses DEF NetInv, TypeInv, Types, RpcTypes
  <2> QED BY <2>1, <2>2 DEF RoutingFails, GatewayFails
<1> QED BY <1>1, <1>3, <1>4, <1>5, <1>6, ReplyNet

LEMMA PassesOnNet ==
  ASSUME NetInv, TypeInv', NEW n \in Node, IsRequest(n),
         NEW g \in Node, PassesOn(n, g)
  PROVE  NetInv'
<1>1. PICK s, c : s = Server(n) /\ c = Client(n)
  OBVIOUS
<1>2. /\ s \in Actor /\ c \in Actor /\ Leaf(c) /\ c # s /\ Uses(c, n)
      /\ call[s] = NoCall /\ call[c].kind \in RequestKind /\ answer[s] = NoAnswer
      /\ serves[n] = NoActor /\ Asked(n) = call[c] /\ c # NoActor
  BY <1>1, ReaderIsLeaf, Actors
     DEF NetInv, TypeInv, Types, WireInv, CallsAreSent, Leaf, Waits
<1>3. /\ call'[s] = call[c] /\ \A b \in Actor \ {s} : call'[b] = call[b]
      /\ answer' = answer /\ sent' = sent /\ done' = done /\ told' = told
      /\ serves'[n] = c /\ \A k \in Node \ {n} : serves'[k] = serves[k]
  BY <1>1, <1>2 DEF PassesOn, Sends, historyVars, NetInv, TypeInv, Types, RpcTypes
<1>4. \A b \in Actor, m \in Node :
        Uses(b, m)' <=> \/ b # s /\ Uses(b, m)
                        \/ b = s /\ m = g
  BY <1>1, <1>2, OpenedUses DEF PassesOn, Sends, NetInv, TypeInv, Types, RpcTypes
<1>5. NoCall.kind \notin RequestKind /\ NoAnswer.result \notin Final
  BY Calls DEF NoCall, NoAnswer, Said, Final
<1>6. \A k \in Node : serves[k] # NoActor =>
        /\ serves[k] \in Actor /\ Waits(serves[k]) /\ serves[k] # s /\ serves[k] # c
        /\ call[Server(k)] = call[serves[k]] /\ Uses(serves[k], k)
  BY <1>2, <1>5 DEF NetInv, WireInv, PassedOn, TypeInv, Types, RpcTypes, Waits, Leaf
<1>7. \A a \in Actor : Leaf(a)' => a = s \/ (Leaf(a) /\ a # c)
  <2> SUFFICES ASSUME NEW a \in Actor, Leaf(a)', a # s
               PROVE  Leaf(a) /\ a # c
    OBVIOUS
  <2>1. a # c /\ \A k \in Node : serves[k] # a
    BY <1>2, <1>3, Actors DEF Leaf
  <2> QED BY <1>3, <2>1 DEF Leaf, Waits
<1>8. OneLeaf'
  BY <1>2, <1>3, <1>7 DEF NetInv, LeafInv, OneLeaf
<1>9. LeafInv'
  <2>1. \A a \in Actor : Leaf(a)' =>
          \E b \in Actor : Leaf(b) /\ call[b].id = call'[a].id
    BY <1>2, <1>3, <1>7
  <2>2. \A a \in Actor :
          call'[a].kind \in RequestKind /\ answer'[a].result \in Final =>
            call'[a] = call[a] /\ answer'[a] = answer[a]
    BY <1>2, <1>3, <1>5
  <2> QED BY <1>3, <1>8, <2>1, <2>2, FrameSettled DEF NetInv
<1>10. CallsAreSent'
  <2> SUFFICES ASSUME NEW a \in Actor
               PROVE  /\ call'[a].kind \in RequestKind =>
                           /\ call'[a].id \in DOMAIN sent
                           /\ call'[a] = [sent[call'[a].id] EXCEPT !.id = call'[a].id]
                      /\ call'[a] = NoCall \/ answer'[a].result = "none" =>
                           answer'[a] = NoAnswer
                      /\ call'[a].kind \in {"hello", "reach_master"} =>
                           \E k \in Node : a = Main(k)
    BY <1>3 DEF CallsAreSent
  <2>1. CASE a = s
    BY <1>2, <1>3, <2>1, Calls DEF NetInv, WireInv, CallsAreSent
  <2>2. CASE a # s
    BY <1>3, <2>2 DEF NetInv, WireInv, CallsAreSent
  <2> QED BY <2>1, <2>2
<1>11. OneSender'
  BY <1>1, <1>3, Actors DEF NetInv, WireInv, OneSender
<1>12. OneLink'
  BY <1>4 DEF NetInv, WireInv, OneLink
<1>13. PassedOn'
  <2> SUFFICES ASSUME NEW k \in Node, NEW b, b = serves'[k], b # NoActor
               PROVE  /\ Waits(b)' /\ call'[Server(k)] = call'[b]
                      /\ Uses(b, k)'
    BY DEF PassedOn
  <2>1. CASE k = n
    BY <1>1, <1>2, <1>3, <1>4, <2>1 DEF Waits, Leaf
  <2>2. CASE k # n
    <3>1. Server(k) # s /\ Server(k) \in Actor /\ serves'[k] = serves[k]
      BY <1>1, <1>3, <2>2, Actors
    <3> QED BY <1>3, <1>4, <1>6, <3>1 DEF Waits
  <2> QED BY <2>1, <2>2
<1> QED BY <1>9, <1>10, <1>11, <1>12, <1>13 DEF NetInv, WireInv

LEMMA ForwardReturnsNet ==
  ASSUME NetInv, TypeInv', NEW n \in Node, ForwardReturns(n)
  PROVE  NetInv'
<1>1. PICK s, c : s = Server(n) /\ c = serves[n]
  OBVIOUS
<1>2. /\ s \in Actor /\ call[s] # NoCall /\ answer[s] # NoAnswer /\ NoActor \notin Actor
      /\ call[s].kind \in RequestKind /\ c \in Actor \cup {NoActor}
      /\ NoCall.kind \notin RequestKind /\ NoAnswer.result \notin Final
  <2>1. /\ s \in Actor /\ call[s] # NoCall /\ answer[s] # NoAnswer
        /\ NoActor \notin Actor /\ \A k \in Node : s # Main(k)
        /\ call[s] \in Call \cup {NoCall} /\ c \in Actor \cup {NoActor}
    BY <1>1, Actors DEF ForwardReturns, Answered, NetInv, TypeInv, Types, RpcTypes
  <2>2. call[s].kind \in RequestKind
    BY <2>1, Calls DEF NetInv, WireInv, CallsAreSent
  <2> QED BY <2>1, <2>2, Calls DEF NoCall, NoAnswer, Said, Final
<1>3. /\ call'[s] = NoCall /\ \A b \in Actor \ {s} : call'[b] = call[b]
      /\ answer'[s] = NoAnswer
      /\ \A b \in Actor \ {s} : answer'[b] = IF b = c THEN answer[s] ELSE answer[b]
      /\ sent' = sent /\ done' = done /\ told' = told
      /\ serves'[n] = NoActor /\ \A k \in Node \ {n} : serves'[k] = serves[k]
  BY <1>1, <1>2 DEF ForwardReturns, historyVars, NetInv, TypeInv, Types, RpcTypes
<1>4. /\ \A b \in Actor, m \in Node : Uses(b, m)' => Uses(b, m)
      /\ \A b \in Actor \ {s}, m \in Node : Uses(b, m) => Uses(b, m)'
  <2>1. CASE line' = line
    BY <2>1 DEF Uses
  <2>2. CASE line' = Closed(s)
    BY <1>2, <2>2, ClosedUses DEF NetInv, TypeInv, Types, RpcTypes
  <2> QED BY <1>1, <2>1, <2>2 DEF ForwardReturns
<1>5. \A k \in Node : serves[k] # NoActor =>
        /\ serves[k] \in Actor /\ Waits(serves[k]) /\ serves[k] # s
        /\ call[Server(k)] = call[serves[k]] /\ Uses(serves[k], k)
  BY <1>2 DEF NetInv, WireInv, PassedOn, TypeInv, Types, RpcTypes, Waits
<1>6. c \in Actor => c # s /\ Waits(c) /\ call[c] = call[s] /\ Uses(c, n)
  BY <1>1, <1>2, <1>5
<1>7. \A a \in Actor : Leaf(a)' => Leaf(a) /\ a # s
  <2> SUFFICES ASSUME NEW a \in Actor, Leaf(a)'
               PROVE  Leaf(a) /\ a # s
    OBVIOUS
  <2>1. a # s /\ a # c
    BY <1>2, <1>3 DEF Leaf, Waits
  <2> QED BY <1>1, <1>3, <2>1 DEF Leaf, Waits
<1>8. OneLeaf'
  BY <1>3, <1>7 DEF NetInv, LeafInv, OneLeaf
<1>9. LeafInv'
  <2>1. \A a \in Actor : Leaf(a)' =>
          \E b \in Actor : Leaf(b) /\ call[b].id = call'[a].id
    BY <1>3, <1>7
  <2>2. ASSUME NEW a \in Actor, call'[a].kind \in RequestKind, answer'[a].result \in Final
        PROVE  \E b \in Actor :
                 /\ call[b].kind \in RequestKind
                 /\ answer[b].result = answer'[a].result
                 /\ call[b].id = call'[a].id
    <3>1. a # s
      BY <1>2, <1>3, <2>2
    <3>2. CASE a = c
      BY <1>2, <1>3, <1>6, <3>1, <3>2
    <3>3. CASE a # c
      BY <1>3, <2>2, <3>1, <3>3
    <3> QED BY <3>2, <3>3
  <2> QED BY <1>3, <1>8, <2>1, <2>2, FrameSettled DEF NetInv
<1>10. CallsAreSent'
  <2> SUFFICES ASSUME NEW a \in Actor
               PROVE  /\ call'[a].kind \in RequestKind =>
                           /\ call'[a].id \in DOMAIN sent
                           /\ call'[a] = [sent[call'[a].id] EXCEPT !.id = call'[a].id]
                      /\ call'[a] = NoCall \/ answer'[a].result = "none" =>
                           answer'[a] = NoAnswer
                      /\ call'[a].kind \in {"hello", "reach_master"} =>
                           \E k \in Node : a = Main(k)
    BY <1>3 DEF CallsAreSent
  <2>1. CASE a = s
    BY <1>2, <1>3, <2>1, Calls DEF NoCall
  <2>2. CASE a # s /\ a = c
    BY <1>2, <1>3, <1>6, <2>2 DEF NetInv, WireInv, CallsAreSent, Waits
  <2>3. CASE a # s /\ a # c
    BY <1>3, <2>3 DEF NetInv, WireInv, CallsAreSent
  <2> QED BY <2>1, <2>2, <2>3
<1>11. OneSender'
  BY <1>1, <1>3, Actors DEF NetInv, WireInv, OneSender
<1>12. OneLink'
  BY <1>4 DEF NetInv, WireInv, OneLink
<1>13. PassedOn'
  <2> SUFFICES ASSUME NEW k \in Node, NEW b, b = serves'[k], b # NoActor
               PROVE  /\ Waits(b)' /\ call'[Server(k)] = call'[b]
                      /\ Uses(b, k)'
    BY DEF PassedOn
  <2>1. k # n /\ serves'[k] = serves[k] /\ Server(k) # s /\ Server(k) \in Actor
    BY <1>1, <1>3, Actors
  <2>2. serves[k] # c
    BY <1>1, <1>5, <2>1 DEF NetInv, WireInv, OneLink
  <2> QED BY <1>3, <1>4, <1>5, <2>1, <2>2 DEF Waits
<1> QED BY <1>9, <1>10, <1>11, <1>12, <1>13 DEF NetInv, WireInv

LEMMA RemainingUses ==
  ASSUME line \in [Node -> Seq(Connection)], NEW n \in Node,
         line' = [m \in Node |-> Remaining(n, m)]
  PROVE  \A b \in Actor, m \in Node :
           Uses(b, m)' <=> m # n /\ b \notin Own(n) /\ Uses(b, m)
<1> SUFFICES ASSUME NEW b \in Actor, NEW m \in Node
             PROVE  Uses(b, m)' <=> m # n /\ b \notin Own(n) /\ Uses(b, m)
  OBVIOUS
<1>1. line'[m] = Remaining(n, m)
  OBVIOUS
<1>2. Link(b) \in Elements(Remaining(n, m)) <=> m # n /\ b \notin Own(n) /\ Uses(b, m)
  BY RemainingLinks
<1>3. Uses(b, m)' <=> Link(b) \in Elements(line'[m])
  BY DEF Uses
<1> QED BY <1>1, <1>2, <1>3

LEMMA DiesNet ==
  ASSUME NetInv, TypeInv', NEW n \in Node, Dies(n)
  PROVE  NetInv'
<1>1. \A b \in Actor, m \in Node :
        Uses(b, m)' <=> m # n /\ b \notin Own(n) /\ Uses(b, m)
  <2>1. line' = [m \in Node |-> Remaining(n, m)]
    BY DEF Dies, Remaining
  <2> QED BY <2>1, RemainingUses DEF NetInv, TypeInv, Types, RpcTypes
<1>2. /\ sent' = sent /\ done' = done /\ told' = told
      /\ \A a \in Actor : call'[a] = IF a \in Own(n) THEN NoCall ELSE call[a]
      /\ \A m \in Node : serves'[m] = IF m = n \/ serves[m] \in Own(n)
                                      THEN NoActor ELSE serves[m]
  BY DEF Dies, historyVars
<1>3. /\ \A a \in Actor : a \in Own(n) => answer'[a] = NoAnswer
      /\ \A a \in Actor \ Own(n) :
           IF Uses(a, n) /\ call[a] # NoCall /\ answer[a] = NoAnswer
           THEN answer'[a] = Said("broken") ELSE answer'[a] = answer[a]
  BY DEF Dies, Uses, Link
<1>4. /\ NoCall.kind = "none" /\ "none" \notin RequestKind
      /\ NoAnswer.result = "none" /\ Said("broken").result = "broken"
      /\ "none" \notin Final /\ "broken" \notin Final
  BY Calls DEF NoCall, NoAnswer, Said, Final
<1>5. \A k \in Node : serves[k] # NoActor =>
        /\ serves[k] \in Actor /\ Waits(serves[k])
        /\ call[Server(k)] = call[serves[k]] /\ Uses(serves[k], k)
  BY DEF NetInv, WireInv, PassedOn, TypeInv, Types, RpcTypes
<1>6. \A a \in Actor : Leaf(a)' => Leaf(a) /\ a \notin Own(n)
  <2> SUFFICES ASSUME NEW a \in Actor, Leaf(a)'
               PROVE  Leaf(a) /\ a \notin Own(n)
    OBVIOUS
  <2>1. a \notin Own(n) /\ call'[a] = call[a] /\ call[a].kind \in RequestKind
    BY <1>2, <1>4 DEF Leaf, Waits
  <2>2. ~(Uses(a, n) /\ answer[a] = NoAnswer) /\ answer[a] = NoAnswer
    BY <1>3, <1>4, <2>1 DEF Leaf, Waits
  <2>3. ASSUME NEW m \in Node, serves[m] = a PROVE FALSE
    <3>1. Uses(a, m) /\ serves[m] # NoActor
      BY <1>5, <2>3, Actors
    <3>2. serves'[m] # a
      BY DEF Leaf
    <3> QED BY <1>2, <2>1, <2>2, <2>3, <3>1, <3>2
  <2> QED BY <2>1, <2>2, <2>3 DEF Leaf, Waits
<1>7. OneLeaf'
  BY <1>2, <1>6 DEF NetInv, LeafInv, OneLeaf
<1>8. LeafInv'
  <2>1. \A a \in Actor : Leaf(a)' =>
          \E b \in Actor : Leaf(b) /\ call[b].id = call'[a].id
    BY <1>2, <1>6
  <2>2. \A a \in Actor :
          call'[a].kind \in RequestKind /\ answer'[a].result \in Final =>
            call'[a] = call[a] /\ answer'[a] = answer[a]
    BY <1>2, <1>3, <1>4
  <2> QED BY <1>2, <1>7, <2>1, <2>2, FrameSettled DEF NetInv
<1>9. CallsAreSent'
  <2> SUFFICES ASSUME NEW a \in Actor
               PROVE  /\ call'[a].kind \in RequestKind =>
                           /\ call'[a].id \in DOMAIN sent
                           /\ call'[a] = [sent[call'[a].id] EXCEPT !.id = call'[a].id]
                      /\ call'[a] = NoCall \/ answer'[a].result = "none" =>
                           answer'[a] = NoAnswer
                      /\ call'[a].kind \in {"hello", "reach_master"} =>
                           \E k \in Node : a = Main(k)
    BY <1>2 DEF CallsAreSent
  <2>1. CASE a \in Own(n)
    BY <1>2, <1>3, <1>4, <2>1
  <2>2. CASE a \notin Own(n)
    BY <1>2, <1>3, <1>4, <2>2 DEF NetInv, WireInv, CallsAreSent
  <2> QED BY <2>1, <2>2
<1>10. OneSender'
  BY <1>2, Actors DEF NetInv, WireInv, OneSender
<1>11. OneLink'
  BY <1>1 DEF NetInv, WireInv, OneLink
<1>12. PassedOn'
  <2> SUFFICES ASSUME NEW k \in Node, NEW b, b = serves'[k], b # NoActor
               PROVE  /\ Waits(b)' /\ call'[Server(k)] = call'[b]
                      /\ Uses(b, k)'
    BY DEF PassedOn
  <2>1. /\ k # n /\ b = serves[k] /\ b \notin Own(n) /\ b \in Actor
        /\ Waits(b) /\ call[Server(k)] = call[b] /\ Uses(b, k)
    BY <1>2, <1>5
  <2>2. Server(k) \notin Own(n) /\ Server(k) \in Actor
    BY <2>1, Actors
  <2>3. ~Uses(b, n)
    BY <2>1 DEF NetInv, WireInv, OneLink
  <2> QED BY <1>1, <1>2, <1>3, <2>1, <2>2, <2>3 DEF Waits
<1> QED BY <1>8, <1>9, <1>10, <1>11, <1>12 DEF NetInv, WireInv

LEMMA AskNet ==
  ASSUME NetInv, TypeInv', NEW u \in User, Ask(u)
  PROVE  NetInv'
<1>1. PICK n \in Node, r \in Requests : Fresh(u, n, r)
  BY DEF Ask, Fresh
<1>2. PICK o, k, c : o = Outside(u) /\ k = Len(sent) + 1 /\ c = [r EXCEPT !.id = k]
  OBVIOUS
<1>3. /\ k \notin DOMAIN sent /\ k \in DOMAIN sent' /\ k \in Nat
      /\ \A i \in DOMAIN sent' : i = k \/ i \in DOMAIN sent
      /\ sent'[k] = r /\ done'[k] = <<>> /\ told'[k] = "none"
      /\ \A i \in DOMAIN sent : /\ i \in DOMAIN sent' /\ i # k
                                /\ sent'[i] = sent[i] /\ done'[i] = done[i]
                                /\ told'[i] = told[i]
  BY <1>1, <1>2, HistoryGrows DEF NetInv
<1>4. /\ o \in Actor /\ call[o] = NoCall /\ answer[o] = NoAnswer
      /\ c \in Call /\ c.id = k /\ c.kind \in RequestKind
  BY <1>1, <1>2, <1>3, Actors, RequestIsCall DEF Fresh, NetInv, WireInv, CallsAreSent
<1>5. /\ call'[o] = c /\ \A b \in Actor \ {o} : call'[b] = call[b]
      /\ answer' = answer /\ serves' = serves
  BY <1>1, <1>2, <1>4 DEF Fresh, Sends, NetInv, TypeInv, Types, RpcTypes
<1>6. \A b \in Actor, m \in Node :
        Uses(b, m)' <=> \/ b # o /\ Uses(b, m)
                        \/ b = o /\ m = n /\ process[n] = "serving"
  BY <1>1, <1>2, <1>4, OpenedUses DEF Fresh, Sends, NetInv, TypeInv, Types, RpcTypes
<1>7. /\ NoCall.kind = "none" /\ "none" \notin RequestKind
      /\ NoAnswer.result = "none" /\ "none" \notin Final
  BY Calls DEF NoCall, NoAnswer, Said, Final
<1>8. \A j \in Node : serves[j] # NoActor =>
        /\ serves[j] \in Actor /\ Waits(serves[j]) /\ serves[j] # o
        /\ call[Server(j)] = call[serves[j]] /\ Uses(serves[j], j)
  BY <1>4, <1>7 DEF NetInv, WireInv, PassedOn, TypeInv, Types, RpcTypes, Waits
<1>9. \A a \in Actor : call[a].kind \in RequestKind =>
        a # o /\ call[a].id \in DOMAIN sent /\ call[a].id # k
  <2> SUFFICES ASSUME NEW a \in Actor, call[a].kind \in RequestKind
               PROVE  a # o /\ call[a].id \in DOMAIN sent /\ call[a].id # k
    OBVIOUS
  <2>1. a # o
    BY <1>4, <1>7
  <2>2. call[a].id \in DOMAIN sent
    BY DEF NetInv, WireInv, CallsAreSent
  <2> QED BY <1>3, <2>1, <2>2
<1>10. \A a \in Actor \ {o} : Leaf(a)' => Leaf(a)
  BY <1>5 DEF Leaf, Waits
<1>11. ASSUME NEW i \in DOMAIN sent, Settled(i) PROVE Settled(i)'
  BY <1>3, <1>4, <1>5, <1>10, <1>11 DEF Settled
<1>12. ASSUME NEW i \in DOMAIN sent, NEW result, Truth(result, i) PROVE Truth(result, i)'
  BY <1>3, <1>12 DEF Truth
<1>13. OneLeaf'
  <2>1. \A a \in Actor \ {o} : Leaf(a)' => Leaf(a) /\ call'[a] = call[a] /\ call'[a].id # k
    BY <1>5, <1>9, <1>10 DEF Leaf, Waits
  <2>2. call'[o].id = k
    BY <1>4, <1>5
  <2> QED BY <2>1, <2>2 DEF NetInv, LeafInv, OneLeaf
<1>14. DoneSettled'
  BY <1>3, <1>11 DEF NetInv, LeafInv, DoneSettled, RightPlaces
<1>15. AnswersSettled'
  <2> SUFFICES ASSUME NEW a \in Actor, NEW result \in Final, NEW i,
                      call'[a].kind \in RequestKind, result = answer'[a].result,
                      i = call'[a].id
               PROVE  Settled(i)' /\ Truth(result, i)'
    BY DEF AnswersSettled
  <2>1. a # o
    BY <1>4, <1>5, <1>7
  <2>2. /\ call[a].kind \in RequestKind /\ answer[a].result = result /\ call[a].id = i
        /\ i \in DOMAIN sent
    BY <1>5, <1>9, <2>1
  <2>3. Settled(i) /\ Truth(result, i)
    BY <2>2 DEF NetInv, LeafInv, AnswersSettled
  <2> QED BY <1>11, <1>12, <2>2, <2>3
<1>16. ToldSettled'
  <2> SUFFICES ASSUME NEW i \in DOMAIN sent', NEW result \in Final, result = told'[i]
               PROVE  Settled(i)' /\ Truth(result, i)'
    BY DEF ToldSettled
  <2>1. i \in DOMAIN sent /\ told[i] = result
    BY <1>3, <1>7
  <2>2. Settled(i) /\ Truth(result, i)
    BY <2>1 DEF NetInv, LeafInv, ToldSettled
  <2> QED BY <1>11, <1>12, <2>1, <2>2
<1>17. CallsAreSent'
  <2> SUFFICES ASSUME NEW a \in Actor
               PROVE  /\ call'[a].kind \in RequestKind =>
                           /\ call'[a].id \in DOMAIN sent'
                           /\ call'[a] = [sent'[call'[a].id] EXCEPT !.id = call'[a].id]
                      /\ call'[a] = NoCall \/ answer'[a].result = "none" =>
                           answer'[a] = NoAnswer
                      /\ call'[a].kind \in {"hello", "reach_master"} =>
                           \E j \in Node : a = Main(j)
    BY DEF CallsAreSent
  <2>1. CASE a = o
    BY <1>2, <1>3, <1>4, <1>5, <2>1, Calls
  <2>2. CASE a # o
    <3>1. call'[a] = call[a] /\ answer'[a] = answer[a]
      BY <1>5, <2>2
    <3>2. /\ call[a] = NoCall \/ answer[a].result = "none" => answer[a] = NoAnswer
          /\ call[a].kind \in {"hello", "reach_master"} => \E j \in Node : a = Main(j)
      BY DEF NetInv, WireInv, CallsAreSent
    <3>3. ASSUME call[a].kind \in RequestKind
          PROVE  /\ call[a].id \in DOMAIN sent'
                 /\ call[a] = [sent'[call[a].id] EXCEPT !.id = call[a].id]
      <4>1. PICK i : i = call[a].id
        OBVIOUS
      <4>2. i \in DOMAIN sent /\ call[a] = [sent[i] EXCEPT !.id = i]
        BY <3>3, <4>1 DEF NetInv, WireInv, CallsAreSent
      <4> QED BY <1>3, <4>1, <4>2
    <3> QED BY <3>1, <3>2, <3>3
  <2> QED BY <2>1, <2>2
<1>18. OneSender'
  <2>1. ASSUME NEW v \in User, v # u, call'[Outside(v)] # NoCall
        PROVE  /\ call'[Outside(v)] = call[Outside(v)]
               /\ call[Outside(v)].id \in DOMAIN sent
               /\ told'[call[Outside(v)].id] = "none"
               /\ call[Outside(v)].id # k
    <3>1. /\ Outside(v) \in Actor /\ Outside(v) # o
          /\ \A m \in Node : Outside(v) # Main(m)
      BY <1>2, <2>1, Actors
    <3>2. /\ call'[Outside(v)] = call[Outside(v)]
          /\ call[Outside(v)].kind \in RequestKind
      BY <1>5, <2>1, <3>1, Calls DEF NetInv, WireInv, CallsAreSent, TypeInv, Types, RpcTypes
    <3>3. told[call[Outside(v)].id] = "none"
      BY <2>1, <3>2 DEF NetInv, WireInv, OneSender
    <3> QED BY <1>3, <1>9, <3>1, <3>2, <3>3
  <2>2. call'[Outside(u)].id = k /\ told'[k] = "none"
    BY <1>2, <1>3, <1>4, <1>5
  <2> SUFFICES ASSUME NEW v \in User, call'[Outside(v)] # NoCall
               PROVE  /\ told'[call'[Outside(v)].id] = "none"
                      /\ \A w \in User :
                           /\ call'[Outside(w)] # NoCall
                           /\ call'[Outside(w)].id = call'[Outside(v)].id
                           => v = w
    BY DEF OneSender
  <2>3. CASE v = u
    BY <2>1, <2>2, <2>3
  <2>4. CASE v # u
    BY <2>1, <2>2, <2>4 DEF NetInv, WireInv, OneSender
  <2> QED BY <2>3, <2>4
<1>19. OneLink'
  BY <1>6 DEF NetInv, WireInv, OneLink
<1>20. PassedOn'
  <2> SUFFICES ASSUME NEW j \in Node, NEW b, b = serves[j], b # NoActor
               PROVE  /\ Waits(b)' /\ call'[Server(j)] = call'[b]
                      /\ Uses(b, j)'
    BY <1>5 DEF PassedOn
  <2>1. Server(j) \in Actor /\ Server(j) # o
    BY <1>2, Actors
  <2> QED BY <1>5, <1>6, <1>8, <2>1 DEF Waits
<1> QED BY <1>13, <1>14, <1>15, <1>16, <1>17, <1>18, <1>19, <1>20
       DEF NetInv, WireInv, LeafInv

LEMMA IsToldNet ==
  ASSUME NetInv, TypeInv', NEW u \in User, IsTold(u)
  PROVE  NetInv'
<1>1. PICK o, id : o = Outside(u) /\ id = call[o].id
  OBVIOUS
<1>2. /\ o \in Actor /\ call[o] # NoCall /\ answer[o] # NoAnswer
      /\ call[o].kind \in RequestKind /\ id \in DOMAIN sent
      /\ NoCall.kind \notin RequestKind /\ NoAnswer.result \notin Final
  <2>1. /\ o \in Actor /\ call[o] # NoCall /\ answer[o] # NoAnswer
        /\ \A k \in Node : o # Main(k)
        /\ call[o] \in Call \cup {NoCall}
    BY <1>1, Actors DEF IsTold, Answered, NetInv, TypeInv, Types, RpcTypes
  <2>2. call[o].kind \in RequestKind
    BY <2>1, Calls DEF NetInv, WireInv, CallsAreSent
  <2>3. id \in DOMAIN sent
    BY <1>1, <2>1, <2>2 DEF NetInv, WireInv, CallsAreSent
  <2> QED BY <2>1, <2>2, <2>3, Calls DEF NoCall, NoAnswer, Said, Final
<1>3. /\ call'[o] = NoCall /\ answer'[o] = NoAnswer
      /\ \A b \in Actor \ {o} : call'[b] = call[b] /\ answer'[b] = answer[b]
      /\ sent' = sent /\ done' = done /\ serves' = serves
  BY <1>1, <1>2, ReturnedTypes DEF IsTold, NetInv, TypeInv, Types
<1>4. /\ told'[id] = answer[o].result
      /\ \A i \in DOMAIN sent \ {id} : told'[i] = told[i]
  BY <1>1, <1>2 DEF IsTold, NetInv, TypeInv, Types, HistoryTypes
<1>5. \A b \in Actor, m \in Node : Uses(b, m)' <=> b # o /\ Uses(b, m)
  BY <1>1, <1>2, ClosedUses DEF IsTold, NetInv, TypeInv, Types, RpcTypes
<1>6. \A k \in Node : serves[k] # NoActor =>
        /\ serves[k] \in Actor /\ Waits(serves[k]) /\ serves[k] # o
        /\ call[Server(k)] = call[serves[k]] /\ Uses(serves[k], k)
  BY <1>2 DEF NetInv, WireInv, PassedOn, TypeInv, Types, RpcTypes, Waits
<1>7. \A a \in Actor : Leaf(a)' => Leaf(a) /\ a # o
  BY <1>2, <1>3 DEF Leaf, Waits
<1>8. OneLeaf'
  BY <1>3, <1>7 DEF NetInv, LeafInv, OneLeaf
<1>9. LeafInv'
  <2>1. \A a \in Actor : Leaf(a)' =>
          \E b \in Actor : Leaf(b) /\ call[b].id = call'[a].id
    BY <1>3, <1>7
  <2>2. \A a \in Actor :
          call'[a].kind \in RequestKind /\ answer'[a].result \in Final =>
            call'[a] = call[a] /\ answer'[a] = answer[a]
    BY <1>2, <1>3
  <2>3. \A i \in DOMAIN sent :
          \/ told'[i] = told[i]
          \/ \E b \in Actor :
               /\ call[b].kind \in RequestKind /\ answer[b].result = told'[i]
               /\ call[b].id = i
    BY <1>1, <1>2, <1>4
  <2> QED BY <1>3, <1>8, <2>1, <2>2, <2>3, FrameSettled DEF NetInv
<1>10. CallsAreSent'
  <2> SUFFICES ASSUME NEW a \in Actor
               PROVE  /\ call'[a].kind \in RequestKind =>
                           /\ call'[a].id \in DOMAIN sent
                           /\ call'[a] = [sent[call'[a].id] EXCEPT !.id = call'[a].id]
                      /\ call'[a] = NoCall \/ answer'[a].result = "none" =>
                           answer'[a] = NoAnswer
                      /\ call'[a].kind \in {"hello", "reach_master"} =>
                           \E k \in Node : a = Main(k)
    BY <1>3 DEF CallsAreSent
  <2>1. CASE a = o
    BY <1>3, <2>1, Calls DEF NoCall
  <2>2. CASE a # o
    BY <1>3, <2>2 DEF NetInv, WireInv, CallsAreSent
  <2> QED BY <2>1, <2>2
<1>11. OneSender'
  <2> SUFFICES ASSUME NEW v \in User, call'[Outside(v)] # NoCall
               PROVE  /\ told'[call'[Outside(v)].id] = "none"
                      /\ \A w \in User :
                           /\ call'[Outside(w)] # NoCall
                           /\ call'[Outside(w)].id = call'[Outside(v)].id
                           => v = w
    BY DEF OneSender
  <2>1. \A w \in User : call'[Outside(w)] # NoCall =>
          Outside(w) # o /\ w # u /\ call'[Outside(w)] = call[Outside(w)]
    BY <1>1, <1>3, Actors
  <2>2. /\ told[call[Outside(v)].id] = "none" /\ call[Outside(v)].id # id
        /\ \A w \in User :
             /\ call[Outside(w)] # NoCall
             /\ call[Outside(w)].id = call[Outside(v)].id
             => v = w
    BY <1>1, <1>2, <2>1 DEF NetInv, WireInv, OneSender
  <2>3. call[Outside(v)].id \in DOMAIN sent
    <3>1. /\ Outside(v) \in Actor /\ \A k \in Node : Outside(v) # Main(k)
          /\ call[Outside(v)] \in Call \cup {NoCall} /\ call[Outside(v)] # NoCall
      BY <2>1, Actors DEF NetInv, TypeInv, Types, RpcTypes
    <3>2. call[Outside(v)].kind \in RequestKind
      BY <3>1, Calls DEF NetInv, WireInv, CallsAreSent
    <3> QED BY <3>1, <3>2 DEF NetInv, WireInv, CallsAreSent
  <2> QED BY <1>4, <2>1, <2>2, <2>3
<1>12. OneLink'
  BY <1>5 DEF NetInv, WireInv, OneLink
<1>13. PassedOn'
  <2> SUFFICES ASSUME NEW j \in Node, NEW b, b = serves[j], b # NoActor
               PROVE  /\ Waits(b)' /\ call'[Server(j)] = call'[b]
                      /\ Uses(b, j)'
    BY <1>3 DEF PassedOn
  <2>1. Server(j) \in Actor /\ Server(j) # o
    BY <1>1, Actors
  <2> QED BY <1>3, <1>5, <1>6, <2>1 DEF Waits
<1> QED BY <1>9, <1>10, <1>11, <1>12, <1>13 DEF NetInv, WireInv

LEMMA StepNet ==
  ASSUME NetInv, [Next]_vars
  PROVE  NetInv'
<1>1. TypeInv'
  BY StepTypes DEF NetInv
<1>2. CASE UNCHANGED vars
  <2>1. CASE Node = {}
    <3>1. UNCHANGED <<call, answer, serves, line, sent, done, told>>
      BY <1>2 DEF vars, rpcVars, historyVars
    <3>2. \A a : Leaf(a)' <=> Leaf(a)
      BY <3>1 DEF Leaf, Waits
    <3>3. \A a, n : Uses(a, n)' <=> Uses(a, n)
      BY <3>1 DEF Uses
    <3>4. WireInv'
      BY <3>1, <3>3 DEF NetInv, WireInv, CallsAreSent, OneSender, OneLink, PassedOn, Waits
    <3>5. OneLeaf'
      BY <3>1, <3>2 DEF NetInv, LeafInv, OneLeaf
    <3>6. LeafInv'
      BY <3>1, <3>2, <3>5, FrameSettled DEF NetInv
    <3> QED BY <1>1, <3>4, <3>6 DEF NetInv
  <2>2. CASE Node # {}
    BY <1>1, <1>2, <2>2, MainNet
  <2> QED BY <2>1, <2>2
<1>3. ASSUME NEW n \in Node, Start(n) \/ MainStep(n) PROVE NetInv'
  <2>1. CASE Dies(n)
    BY <1>1, <2>1, DiesNet
  <2>2. CASE ~Dies(n)
    BY <1>1, <1>3, <2>2, MainNet DEF MainStep
  <2> QED BY <2>1, <2>2
<1>4. ASSUME NEW n \in Node, ServerStep(n) PROVE NetInv'
  <2>1. CASE HandleHello(n) \/ HandleReachMaster(n)
    BY <1>1, <2>1, HelloNet
  <2>2. CASE Refuse(n) \/ Do(n)
    BY <1>1, <2>2, RefuseNet, DoNet
  <2>3. CASE Forward(n)
    <3>1. /\ IsRequest(n)
          /\ \/ Dies(n) \/ RoutingFails(n)
             \/ \E g \in Node : GatewayFails(n, g) \/ PassesOn(n, g)
      BY <2>3, ForwardIs DEF NetInv, TypeInv, Types, Crashes
    <3> QED BY <1>1, <3>1, DiesNet, ForwardFailsNet, PassesOnNet
  <2>4. CASE ForwardReturns(n)
    BY <1>1, <2>4, ForwardReturnsNet
  <2> QED BY <1>4, <2>1, <2>2, <2>3, <2>4 DEF ServerStep
<1>5. ASSUME NEW n \in Node, Kill(n) PROVE NetInv'
  BY <1>1, <1>5, DiesNet DEF Kill
<1>6. ASSUME NEW u \in User, Ask(u) \/ IsTold(u) PROVE NetInv'
  BY <1>1, <1>6, AskNet, IsToldNet
<1> QED BY <1>2, <1>3, <1>4, <1>5, <1>6 DEF Next

LEMMA NetInvariant == Spec => []NetInv
<1>1. Init => NetInv
  BY InitNet
<1>2. NetInv /\ [Next]_vars => NetInv'
  BY StepNet
<1> QED BY <1>1, <1>2, PTL DEF Spec

\* Whatever fails on the way, a request is done at most once (rpc_server.cpp:
\* every handler that forwards breaks out of its loop after the call).
THEOREM RequestsDoneOnce == Spec => []DoneOnce
<1>1. NetInv => DoneOnce
  <2> SUFFICES ASSUME NetInv, NEW i \in DOMAIN done PROVE Len(done[i]) <= 1
    BY DEF DoneOnce
  <2>1. i \in DOMAIN sent
    BY DEF NetInv, TypeInv, Types, HistoryTypes
  <2>2. CASE done[i] = <<>>
    BY <2>2
  <2>3. CASE done[i] # <<>>
    <3>1. PICK n \in Node : done[i] = <<n>>
      BY <2>1, <2>3 DEF NetInv, LeafInv, DoneSettled
    <3> QED BY <3>1
  <2> QED BY <2>2, <2>3
<1> QED BY <1>1, NetInvariant, PTL

\* The sender of a request who is told of a success, or by an exception that
\* nothing was done, is told the truth, through all the nodes that passed the
\* answer on (rpc_server.cpp: what a call returns or throws is returned or
\* thrown).  Not every exception tells that: see Denials.
THEOREM AnswersTrue == Spec => []AnswerIsTrue
<1>1. NetInv => AnswerIsTrue
  <2> SUFFICES ASSUME NetInv, NEW i \in DOMAIN told, NEW result, result = told[i]
               PROVE  /\ (result = "ok" /\ sent[i].kind # "get_node") =>
                           \E n \in Node :
                             done[i] = <<n>> /\ n \in RightPlaces(sent[i])
                      /\ result \in Denials(sent[i]) => done[i] = <<>>
    BY DEF AnswerIsTrue
  <2>1. i \in DOMAIN sent
    BY DEF NetInv, TypeInv, Types, HistoryTypes
  <2>2. result \in Final => Truth(result, i)
    BY <2>1 DEF NetInv, LeafInv, ToldSettled
  <2>3. done[i] # <<>> =>
          \E n \in Node : done[i] = <<n>> /\ n \in RightPlaces(sent[i])
    BY <2>1 DEF NetInv, LeafInv, DoneSettled
  <2>4. "ok" \in Final /\ Denials(sent[i]) \subseteq Final
    BY DEF Final, Denials
  <2> QED BY <2>2, <2>3, <2>4 DEF Truth
<1> QED BY <1>1, NetInvariant, PTL

-----------------------------------------------------------------------------
(***************************************************************************)
(* The domain implements RequestService: Ask is its Send, Do its Perform,  *)
(* IsTold its Tell, and everything else happens inside.                    *)
(***************************************************************************)
LEMMA AskIsSend ==
  ASSUME NEW u \in User, Ask(u)
  PROVE  Service!Send
BY DEF Ask, Service!Send

LEMMA DoIsPerform ==
  ASSUME NetInv, NEW n \in Node, Do(n)
  PROVE  \/ UNCHANGED <<sent, done, told>>
         \/ \E i \in DOMAIN sent : Service!Perform(i)
<1>1. PICK id : id = call[Client(n)].id
  OBVIOUS
<1>2. /\ IsRequest(n) /\ UNCHANGED <<sent, told>>
      /\ Checked(n, Asked(n)) = "none" /\ Here(n, Asked(n))
      /\ \/ UNCHANGED done
         \/ /\ done' = [done EXCEPT ![Asked(n).id] = Append(@, n)]
            /\ ~(Passive(n) /\ Asked(n).kind = "get_node")
  BY DEF Do
<1>3. /\ id = Asked(n).id /\ id \in DOMAIN sent /\ done[id] = <<>>
      /\ Asked(n).kind = sent[id].kind /\ Asked(n).target = sent[id].target
      /\ Asked(n) \in Request /\ id \in DOMAIN done
      /\ told[id] \in {"none", "broken"}
  <2>1. /\ id = Asked(n).id /\ id \in DOMAIN sent /\ done[id] = <<>>
        /\ Asked(n).kind = sent[id].kind /\ Asked(n).target = sent[id].target
        /\ Asked(n) \in Request /\ told[id] \notin Final
    BY <1>1, <1>2, AskedIs
  <2>2. id \in DOMAIN done /\ told[id] \in Final \cup {"none", "broken"}
    BY <2>1 DEF NetInv, TypeInv, Types, HistoryTypes
  <2> QED BY <2>1, <2>2
<1>4. CASE /\ done' = [done EXCEPT ![Asked(n).id] = Append(@, n)]
           /\ ~(Passive(n) /\ Asked(n).kind = "get_node")
  <2>1. n \in RightPlaces(Asked(n))
    BY <1>2, <1>3, <1>4, HereIsRight
  <2>2. RightPlaces(Asked(n)) = RightPlaces(sent[id])
    BY <1>3 DEF RightPlaces
  <2>3. done' = [done EXCEPT ![id] = <<n>>]
    <3>1. Append(<<>>, n) = <<n>>
      OBVIOUS
    <3> QED BY <1>3, <1>4, <3>1
  <2>4. Service!Perform(id)
    BY <1>2, <1>3, <2>1, <2>2, <2>3 DEF Service!Perform
  <2> QED BY <1>3, <2>4
<1> QED BY <1>2, <1>4

LEMMA IsToldIsTell ==
  ASSUME NetInv, NEW u \in User, IsTold(u)
  PROVE  \E i \in DOMAIN sent : Service!Tell(i)
<1>1. PICK o, id, result :
        o = Outside(u) /\ id = call[o].id /\ result = answer[o].result
  OBVIOUS
<1>2. /\ o \in Actor /\ call[o] # NoCall /\ answer[o] # NoAnswer
      /\ answer[o] \in Answer /\ call[o] \in Call \cup {NoCall}
      /\ \A k \in Node : o # Main(k)
  BY <1>1, Actors DEF IsTold, Answered, NetInv, TypeInv, Types, RpcTypes
<1>3. call[o].kind \in RequestKind /\ id \in DOMAIN sent
  <2>1. call[o].kind \in RequestKind
    BY <1>2, Calls DEF NetInv, WireInv, CallsAreSent
  <2> QED BY <1>1, <1>2, <2>1 DEF NetInv, WireInv, CallsAreSent
<1>4. result \in Final \cup {"broken"}
  <2>1. result # "none"
    BY <1>1, <1>2 DEF NetInv, WireInv, CallsAreSent
  <2>2. result \in Final \cup {"none", "broken"}
    BY <1>1, <1>2 DEF Answer, Final
  <2> QED BY <2>1, <2>2
<1>5. told[id] = "none"
  BY <1>1, <1>2 DEF NetInv, WireInv, OneSender
<1>6. result \in Final => Truth(result, id)
  BY <1>1, <1>2, <1>3 DEF NetInv, LeafInv, AnswersSettled
<1>7. sent[id] \in Requests
  BY <1>3 DEF NetInv, TypeInv, Types, HistoryTypes
<1>8. /\ result = "ok" =>
           done[id] # <<>> \/ sent[id] \in {r \in Requests : r.kind = "get_node"}
      /\ result \in Denials(sent[id]) => done[id] = <<>>
  <2>1. "ok" \in Final /\ Denials(sent[id]) \subseteq Final
    BY DEF Final, Denials
  <2> QED BY <1>6, <1>7, <2>1 DEF Truth
<1>9. told' = [told EXCEPT ![id] = result] /\ UNCHANGED <<sent, done>>
  BY <1>1 DEF IsTold
<1>10. result \in {"ok", "broken"} \cup Service!Exceptions
  BY <1>4 DEF Final, Service!Exceptions
<1>11. Service!Tell(id)
  BY <1>5, <1>8, <1>9, <1>10 DEF Service!Tell
<1> QED BY <1>3, <1>11

LEMMA StepService ==
  ASSUME NetInv, [Next]_vars
  PROVE  [Service!Next]_(Service!vars)
<1> DEFINE Inside == UNCHANGED <<sent, done, told>>
<1>1. SUFFICES Inside \/ Service!Next
  BY DEF Service!vars
<1>2. CASE UNCHANGED vars
  BY <1>2 DEF vars, historyVars
<1>3. ASSUME NEW n \in Node, Start(n) \/ MainStep(n) \/ Kill(n) PROVE Inside
  BY <1>3 DEF Start, MainStep, SayHello, HelloReturns, ReachMaster, ReachReturns,
              Serve, Kill, Dies, historyVars
<1>4. ASSUME NEW n \in Node, ServerStep(n) PROVE Inside \/ Service!Next
  <2>1. CASE HandleHello(n) \/ HandleReachMaster(n) \/ Refuse(n) \/ ForwardReturns(n)
    BY <2>1 DEF HandleHello, HandleReachMaster, Refuse, ForwardReturns, historyVars
  <2>2. CASE Forward(n)
    BY <2>2, ForwardIs DEF NetInv, TypeInv, Types, Crashes, Dies, RoutingFails,
                           GatewayFails, PassesOn, historyVars
  <2>3. CASE Do(n)
    BY <2>3, DoIsPerform DEF Service!Next
  <2> QED BY <1>4, <2>1, <2>2, <2>3 DEF ServerStep
<1>5. ASSUME NEW u \in User, Ask(u) \/ IsTold(u) PROVE Service!Next
  BY <1>5, AskIsSend, IsToldIsTell DEF Service!Next
<1> QED BY <1>2, <1>3, <1>4, <1>5 DEF Next

\* Through whatever gateways a request goes and whoever dies on the way, its
\* sender sees what RequestService promises: the request is done once at most,
\* by a node it is for, and never after an answer that excludes it
\* (rpc_server.cpp and rpc_client.cpp against model.thrift).
THEOREM ServiceRefined == Spec => ServiceImplemented
<1>1. Init => Service!Init
  BY DEF Init, Service!Init
<1>2. NetInv /\ [Next]_vars => [Service!Next]_(Service!vars)
  BY StepService
<1> QED BY <1>1, <1>2, NetInvariant, PTL DEF Spec, ServiceImplemented, Service!Spec

=============================================================================
