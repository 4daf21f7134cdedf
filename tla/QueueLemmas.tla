---------------------------- MODULE QueueLemmas ----------------------------
(***************************************************************************)
(* What std::queue's push, front and pop do to the sequence of its items.  *)
(***************************************************************************)
EXTENDS Integers, Sequences, TLAPS

(* push keeps the items and their positions and adds one behind them.      *)
LEMMA AppendFacts ==
    ASSUME NEW S, NEW q \in Seq(S), NEW e \in S
    PROVE  /\ Append(q, e) \in Seq(S)
           /\ Len(q) \in Nat
           /\ Len(Append(q, e)) = Len(q) + 1
           /\ \A i \in 1 .. Len(q) : Append(q, e)[i] = q[i]
           /\ Append(q, e)[Len(q) + 1] = e
  OBVIOUS

(* front and pop take the first item; the others move up by one.           *)
LEMMA TailFacts ==
    ASSUME NEW S, NEW q \in Seq(S), q # <<>>
    PROVE  /\ Len(q) \in Nat \ {0}
           /\ Head(q) = q[1]
           /\ Head(q) \in S
           /\ Tail(q) \in Seq(S)
           /\ Len(Tail(q)) = Len(q) - 1
           /\ \A i \in 1 .. Len(q) - 1 : Tail(q)[i] = q[i + 1]
  OBVIOUS
-----------------------------------------------------------------------------
(* A queue q and the hands of its workers, held: where an item of X is.    *)

Holds(q, held, x) ==
    \/ \E i \in 1 .. Len(q) : q[i] = x
    \/ \E w \in DOMAIN held : held[w] = x

(* No item of X is in two places.                                          *)
Once(q, held, X) ==
    /\ \A i, j \in 1 .. Len(q) : q[i] \in X /\ q[i] = q[j] => i = j
    /\ \A v, w \in DOMAIN held : held[v] \in X /\ held[v] = held[w] => v = w
    /\ \A i \in 1 .. Len(q), w \in DOMAIN held : held[w] \in X => q[i] # held[w]

(* push adds its item to what is held.                                     *)
LEMMA PushPlaces ==
    ASSUME NEW T, NEW q \in Seq(T), NEW e \in T, NEW held, NEW X,
           Once(q, held, X), e \in X => ~Holds(q, held, e)
    PROVE  /\ Once(Append(q, e), held, X)
           /\ \A x : Holds(Append(q, e), held, x) <=> Holds(q, held, x) \/ x = e
<1> DEFINE r == Append(q, e)
<1>1. /\ Len(q) \in Nat
      /\ Len(r) = Len(q) + 1
      /\ \A i \in 1 .. Len(q) : r[i] = q[i]
      /\ r[Len(q) + 1] = e
  BY AppendFacts
<1> HIDE DEF r
<1>2. \A i \in 1 .. Len(r) : i \in 1 .. Len(q) \/ i = Len(q) + 1
  BY <1>1
<1>3. /\ \A i \in 1 .. Len(q) : i \in 1 .. Len(r)
      /\ Len(q) + 1 \in 1 .. Len(r)
  BY <1>1
<1>4. Once(r, held, X)
  BY <1>1, <1>2, <1>3 DEF Once, Holds
<1>5. \A x : Holds(r, held, x) <=> Holds(q, held, x) \/ x = e
  BY <1>1, <1>2, <1>3 DEF Holds
<1> QED
  BY <1>4, <1>5 DEF r

(* pop alone loses at most the first item.                                 *)
LEMMA LosePlaces ==
    ASSUME NEW T, NEW q \in Seq(T), q # <<>>, NEW held, NEW X,
           Once(q, held, X)
    PROVE  /\ Once(Tail(q), held, X)
           /\ \A x : Holds(Tail(q), held, x) => Holds(q, held, x)
           /\ \A x : Holds(q, held, x) /\ x # Head(q) => Holds(Tail(q), held, x)
<1> DEFINE r == Tail(q)
<1>1. /\ Len(q) \in Nat \ {0}
      /\ Head(q) = q[1]
      /\ Len(r) = Len(q) - 1
      /\ \A i \in 1 .. Len(q) - 1 : r[i] = q[i + 1]
  BY TailFacts
<1> HIDE DEF r
<1>2. \A i \in 1 .. Len(r) : i + 1 \in 1 .. Len(q) /\ r[i] = q[i + 1]
  BY <1>1
<1>3. \A i \in 1 .. Len(q) :
          \/ i = 1
          \/ i - 1 \in 1 .. Len(r) /\ r[i - 1] = q[i]
  BY <1>1
<1>4. \A i, j \in 1 .. Len(r) : i + 1 = j + 1 => i = j
  BY <1>1
<1>5. Once(r, held, X)
  BY <1>2, <1>4 DEF Once
<1>6. \A x : Holds(r, held, x) => Holds(q, held, x)
  BY <1>2 DEF Holds
<1>7. \A x : Holds(q, held, x) /\ x # Head(q) => Holds(r, held, x)
  BY <1>1, <1>3 DEF Holds
<1> QED
  BY <1>5, <1>6, <1>7 DEF r

(* A worker with an empty hand takes the first item.                       *)
LEMMA TakePlaces ==
    ASSUME NEW T, NEW q \in Seq(T), q # <<>>,
           NEW D, NEW V, NEW held \in [D -> V], NEW w \in D, NEW X,
           held[w] \notin X, Once(q, held, X)
    PROVE  LET hand == [held EXCEPT ![w] = Head(q)]
           IN  /\ Once(Tail(q), hand, X)
               /\ \A x \in X : Holds(Tail(q), hand, x) <=> Holds(q, held, x)
<1> DEFINE r == Tail(q)
           hand == [held EXCEPT ![w] = Head(q)]
<1>1. /\ Len(q) \in Nat \ {0}
      /\ Head(q) = q[1]
      /\ Len(r) = Len(q) - 1
      /\ \A i \in 1 .. Len(q) - 1 : r[i] = q[i + 1]
  BY TailFacts
<1>h. /\ DOMAIN hand = D /\ DOMAIN held = D
      /\ hand[w] = q[1]
      /\ \A v \in D \ {w} : hand[v] = held[v]
  BY <1>1
<1> HIDE DEF r, hand
<1>2. \A i \in 1 .. Len(r) :
          /\ i + 1 \in 1 .. Len(q) /\ r[i] = q[i + 1]
          /\ i + 1 # 1
  BY <1>1
<1>3. \A i \in 1 .. Len(q) :
          \/ i = 1
          \/ i - 1 \in 1 .. Len(r) /\ r[i - 1] = q[i]
  BY <1>1
<1>4. \A i, j \in 1 .. Len(r) : i + 1 = j + 1 => i = j
  BY <1>1
<1>5. 1 \in 1 .. Len(q)
  BY <1>1
<1>6. \A i, j \in 1 .. Len(r) : r[i] \in X /\ r[i] = r[j] => i = j
  BY <1>2, <1>4 DEF Once
<1>7. \A v, u \in D : hand[v] \in X /\ hand[v] = hand[u] => v = u
  BY <1>h, <1>5 DEF Once
<1>8. \A i \in 1 .. Len(r), v \in D : hand[v] \in X => r[i] # hand[v]
  BY <1>h, <1>2, <1>5 DEF Once
<1>9. ASSUME NEW x \in X
      PROVE  Holds(r, hand, x) <=> Holds(q, held, x)
  <2>1. ASSUME Holds(r, hand, x) PROVE Holds(q, held, x)
    BY <1>h, <1>2, <1>5, <2>1 DEF Holds
  <2>2. ASSUME Holds(q, held, x) PROVE Holds(r, hand, x)
    <3>1. CASE \E i \in 1 .. Len(q) : q[i] = x
      BY <1>h, <1>3, <3>1 DEF Holds
    <3>2. CASE \E v \in D : held[v] = x
      BY <1>h, <3>2 DEF Holds
    <3> QED
      BY <1>h, <2>2, <3>1, <3>2 DEF Holds
  <2> QED
    BY <2>1, <2>2
<1> QED
  BY <1>h, <1>6, <1>7, <1>8, <1>9 DEF r, hand, Once

(* A worker is done with what it holds.                                    *)
LEMMA DropPlaces ==
    ASSUME NEW q, NEW D, NEW V, NEW held \in [D -> V], NEW w \in D, NEW X,
           NEW n, n \notin X, Once(q, held, X)
    PROVE  LET hand == [held EXCEPT ![w] = n]
           IN  /\ Once(q, hand, X)
               /\ \A x \in X : Holds(q, hand, x)
                                <=> Holds(q, held, x) /\ x # held[w]
<1> DEFINE hand == [held EXCEPT ![w] = n]
<1>h. /\ DOMAIN hand = D /\ DOMAIN held = D
      /\ hand[w] = n
      /\ \A v \in D \ {w} : hand[v] = held[v]
  OBVIOUS
<1> HIDE DEF hand
<1>1. Once(q, hand, X)
  BY <1>h DEF Once
<1>2. \A x \in X : Holds(q, hand, x) <=> Holds(q, held, x) /\ x # held[w]
  BY <1>h DEF Once, Holds
<1> QED
  BY <1>1, <1>2 DEF hand
=============================================================================
