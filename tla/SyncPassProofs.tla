---------------------------- MODULE SyncPassProofs ----------------------------
(***************************************************************************)
(* Proofs about Planning and SyncPass, for any backlog, window, history,   *)
(* set of datasets and usage points.  The first part is the greedy plan:   *)
(* the windows end far enough from one another that no plan has fewer, and *)
(* that no stretching makes two of them meet.                              *)
(***************************************************************************)
EXTENDS SyncPass, Induction

Spans == [start : Int, end : Int]

\* The windows that cover the days of s, the newest first.
Greedy(ws, s, max) ==
    /\ ws \in Seq(Spans)
    /\ \A i \in 1..Len(ws) :
        /\ ws[i].start \in s /\ ws[i].end - 1 \in s
        /\ ws[i].start < ws[i].end /\ ws[i].end - ws[i].start <= max
    /\ \A i, j \in 1..Len(ws) :
        i < j => ws[j].end <= ws[i].start /\ ws[j].end <= ws[i].end - max
    /\ \A d \in s : \E i \in 1..Len(ws) : Holds(ws[i], d)
    /\ s # {} => ws # <<>> /\ \A d \in s : d < ws[1].end

LEMMA CoverStep ==
    ASSUME NEW s \in SUBSET Int, NEW ws, NEW max \in Nat \ {0}, NEW d \in Int,
           Greedy(ws, s, max), \A e \in s : d < e
    PROVE  Greedy(Cover(ws, d, max), s \union {d}, max)
  <1> DEFINE n == Len(ws)
             t == s \union {d}
             new == Cover(ws, d, max)
  <1>1. /\ ws \in Seq(Spans) /\ n \in Nat
        /\ \A i \in 1..n : ws[i] \in Spans /\ ws[i].start \in Int /\ ws[i].end \in Int
        /\ ws # <<>> => n \in 1..n /\ Last(ws) = ws[n]
        /\ ws = <<>> => n = 0 /\ s = {}
    <2>1. ws \in Seq(Spans) /\ (s # {} => ws # <<>>)
      BY DEF Greedy
    <2>2. n \in Nat /\ \A i \in 1..n : ws[i] \in Spans
      BY <2>1
    <2>3. ws # <<>> => n \in 1..n /\ Last(ws) = ws[n]
      BY <2>1, <2>2 DEF Last
    <2>4. \A w \in Spans : w.start \in Int /\ w.end \in Int
      BY DEF Spans
    <2>5. QED
      BY <2>1, <2>2, <2>3, <2>4
  <1>2. CASE ws # <<>> /\ d >= Last(ws).end - max
    <2> DEFINE grown == [start |-> d, end |-> ws[n].end]
    <2>1. new = [ws EXCEPT ![n] = grown]
      <3>1. \A w \in Spans : [w EXCEPT !.start = d] = [start |-> d, end |-> w.end]
        BY DEF Spans
      <3>2. [ws[n] EXCEPT !.start = d] = grown
        BY <1>1, <1>2, <3>1
      <3>3. new = [ws EXCEPT ![n] = [ws[n] EXCEPT !.start = d]]
        BY <1>2 DEF Cover
      <3>4. QED
        BY <3>2, <3>3
    <2>2. /\ new \in Seq(Spans) /\ Len(new) = n
          /\ new[n] = grown /\ \A i \in 1..n : i # n => new[i] = ws[i]
      <3>1. grown \in Spans
        BY <1>1, <1>2 DEF Spans
      <3>2. QED
        BY <1>1, <1>2, <2>1, <3>1
    <2> HIDE DEF new
    <2>3. d >= ws[n].end - max /\ ws[n].start \in s /\ d < ws[n].start /\ d < ws[n].end
          /\ n \in 1..n /\ ws[n].start < ws[n].end /\ ws[n].end \in Int /\ ws[n].start \in Int
      BY <1>1, <1>2 DEF Greedy
    <2>4. ASSUME NEW i \in 1..n
          PROVE  /\ new[i].start \in t /\ new[i].end - 1 \in t
                 /\ new[i].start < new[i].end /\ new[i].end - new[i].start <= max
                 /\ new[i].end = ws[i].end /\ new[i].start <= ws[i].start
                 /\ i # n => new[i].start = ws[i].start
      <3>1. ws[i].start \in s /\ ws[i].end - 1 \in s
             /\ ws[i].start < ws[i].end /\ ws[i].end - ws[i].start <= max
        BY <1>1 DEF Greedy
      <3>2. CASE i = n
        BY <2>2, <2>3, <3>1, <3>2
      <3>3. CASE i # n
        BY <2>2, <1>1, <3>1, <3>3
      <3>4. QED
        BY <3>2, <3>3
    <2>5. ASSUME NEW i \in 1..n, NEW j \in 1..n, i < j
          PROVE  new[j].end <= new[i].start /\ new[j].end <= new[i].end - max
      <3>1. ws[j].end <= ws[i].start /\ ws[j].end <= ws[i].end - max
        BY <2>5 DEF Greedy
      <3>2. i # n
        BY <2>5, <1>1
      <3>3. QED
        BY <2>4, <3>1, <3>2
    <2>6. \A e \in t : \E i \in 1..n : Holds(new[i], e)
      <3> SUFFICES ASSUME NEW e \in t PROVE \E i \in 1..n : Holds(new[i], e)
        OBVIOUS
      <3>1. CASE e = d
        BY <2>2, <2>3, <3>1 DEF Holds
      <3>2. CASE e \in s
        <4>1. PICK i \in 1..n : Holds(ws[i], e)
          BY <3>2 DEF Greedy
        <4>2. new[i].start <= ws[i].start /\ new[i].end = ws[i].end
              /\ ws[i].start \in Int /\ new[i].start \in Int
          BY <2>4, <1>1
        <4>3. Holds(new[i], e)
          BY <4>1, <4>2, <3>2 DEF Holds
        <4>4. QED
          BY <4>3
      <3>3. QED
        BY <3>1, <3>2
    <2>7. \A e \in t : e < new[1].end
      <3>1. 1 \in 1..n /\ new[1].end = ws[1].end /\ ws[1].end \in Int
        BY <2>3, <2>4, <1>1
      <3>2. ws[n].end <= ws[1].end
        BY <2>3, <1>1 DEF Greedy
      <3>3. \A e \in s : e < ws[1].end
        BY DEF Greedy
      <3>4. d < ws[1].end
        BY <3>1, <3>2, <2>3
      <3>5. QED
        BY <3>1, <3>3, <3>4
    <2>8. new # <<>>
      BY <2>2, <2>3
    <2>9. Greedy(new, t, max)
      <3>1. Len(new) = n
        BY <2>2
      <3>2. QED
        BY <2>2, <2>4, <2>5, <2>6, <2>7, <2>8, <3>1 DEF Greedy
    <2>10. QED
      BY <2>9 DEF new
  <1>3. CASE ~(ws # <<>> /\ d >= Last(ws).end - max)
    <2> DEFINE one == [start |-> d, end |-> d + 1]
    <2>1. new = Append(ws, one)
      BY <1>3 DEF Cover, Window
    <2>2. one \in Spans
      BY DEF Spans
    <2>3. /\ new \in Seq(Spans) /\ Len(new) = n + 1
          /\ new[n + 1] = one /\ \A i \in 1..n : new[i] = ws[i]
          /\ new # <<>>
      BY <1>1, <2>1, <2>2
    <2> HIDE DEF new
    <2>4. \A i \in 1..(n + 1) : i = n + 1 \/ i \in 1..n
      BY <1>1
    <2>5. ASSUME NEW i \in 1..n
          PROVE  /\ ws[i].start \in s /\ ws[i].end - 1 \in s
                 /\ ws[i].start < ws[i].end /\ ws[i].end - ws[i].start <= max
                 /\ d < ws[i].start /\ d + 1 <= ws[i].end - max
      <3>1. /\ ws[i].start \in s /\ ws[i].end - 1 \in s
            /\ ws[i].start < ws[i].end /\ ws[i].end - ws[i].start <= max
        BY DEF Greedy
      <3>2. ws # <<>> /\ n \in 1..n /\ Last(ws) = ws[n] /\ ws[n].end \in Int /\ ws[i].end \in Int
            /\ ws[i].start \in Int
        BY <1>1
      <3>3. ws[n].end <= ws[i].end
        <4>1. CASE i = n
          BY <4>1, <3>2
        <4>2. CASE i # n
          <5>1. i < n
            BY <4>2, <1>1
          <5>2. ws[n].end <= ws[i].start
            BY <5>1, <3>2 DEF Greedy
          <5>3. QED
            BY <5>2, <3>1, <3>2
        <4>3. QED
          BY <4>1, <4>2
      <3>4. d < ws[n].end - max
        BY <1>3, <3>2
      <3>5. QED
        BY <3>1, <3>2, <3>3, <3>4
    <2>6. \A i \in 1..(n + 1) :
              /\ new[i].start \in t /\ new[i].end - 1 \in t
              /\ new[i].start < new[i].end /\ new[i].end - new[i].start <= max
      <3> SUFFICES ASSUME NEW i \in 1..(n + 1)
                   PROVE  /\ new[i].start \in t /\ new[i].end - 1 \in t
                          /\ new[i].start < new[i].end /\ new[i].end - new[i].start <= max
        OBVIOUS
      <3>1. CASE i = n + 1
        BY <3>1, <2>3
      <3>2. CASE i \in 1..n
        BY <3>2, <2>3, <2>5
      <3>3. QED
        BY <3>1, <3>2, <2>4
    <2>7. \A i, j \in 1..(n + 1) :
              i < j => new[j].end <= new[i].start /\ new[j].end <= new[i].end - max
      <3> SUFFICES ASSUME NEW i \in 1..(n + 1), NEW j \in 1..(n + 1), i < j
                   PROVE  new[j].end <= new[i].start /\ new[j].end <= new[i].end - max
        OBVIOUS
      <3>1. i \in 1..n /\ new[i] = ws[i]
        BY <1>1, <2>3
      <3>2. CASE j = n + 1
        <4>1. d < ws[i].start /\ d + 1 <= ws[i].end - max /\ ws[i].start \in Int /\ new[j].end = d + 1
          BY <3>1, <3>2, <2>3, <2>5, <1>1
        <4>2. QED
          BY <4>1, <3>1
      <3>3. CASE j \in 1..n
        BY <3>1, <3>3, <2>3 DEF Greedy
      <3>4. QED
        BY <3>2, <3>3, <2>4
    <2>8. \A e \in t : \E i \in 1..(n + 1) : Holds(new[i], e)
      <3> SUFFICES ASSUME NEW e \in t PROVE \E i \in 1..(n + 1) : Holds(new[i], e)
        OBVIOUS
      <3>1. CASE e = d
        <4>1. Holds(new[n + 1], e) /\ n + 1 \in 1..(n + 1)
          BY <2>3, <3>1, <1>1 DEF Holds
        <4>2. QED
          BY <4>1
      <3>2. CASE e \in s
        <4>1. PICK i \in 1..n : Holds(ws[i], e)
          BY <3>2 DEF Greedy
        <4>2. i \in 1..(n + 1) /\ new[i] = ws[i]
          BY <1>1, <2>3
        <4>3. QED
          BY <4>1, <4>2
      <3>3. QED
        BY <3>1, <3>2
    <2>9. \A e \in t : e < new[1].end
      <3>1. CASE n = 0
        BY <3>1, <1>1, <2>3
      <3>2. CASE n # 0
        <4>1. 1 \in 1..n /\ new[1] = ws[1] /\ d < ws[1].start /\ ws[1].start < ws[1].end
              /\ ws[1].start \in Int /\ ws[1].end \in Int
          BY <3>2, <1>1, <2>3, <2>5
        <4>2. \A e \in s : e < ws[1].end
          BY DEF Greedy
        <4>3. QED
          BY <4>1, <4>2
      <3>3. QED
        BY <3>1, <3>2
    <2>10. Greedy(new, t, max)
      BY <2>3, <2>6, <2>7, <2>8, <2>9 DEF Greedy
    <2>11. QED
      BY <2>10 DEF new
  <1>4. QED
    BY <1>2, <1>3

LEMMA CoverType ==
    ASSUME NEW ws \in Seq(Spans), NEW max \in Nat \ {0}, NEW d \in Int
    PROVE  Cover(ws, d, max) \in Seq(Spans)
  <1> DEFINE n == Len(ws)
             one == [start |-> d, end |-> d + 1]
             grown == [start |-> d, end |-> ws[n].end]
  <1>1. one \in Spans
    BY DEF Spans
  <1>2. ws # <<>> => grown \in Spans /\ [ws[n] EXCEPT !.start = d] = grown
    <2>1. \A w \in Spans : /\ [start |-> d, end |-> w.end] \in Spans
                           /\ [w EXCEPT !.start = d] = [start |-> d, end |-> w.end]
      BY DEF Spans
    <2>2. ws # <<>> => ws[n] \in Spans
      OBVIOUS
    <2>3. QED
      BY <2>1, <2>2
  <1>3. CASE ws # <<>> /\ d >= Last(ws).end - max
    <2>1. Cover(ws, d, max) = [ws EXCEPT ![n] = [ws[n] EXCEPT !.start = d]]
      BY <1>3 DEF Cover
    <2>2. QED
      BY <1>2, <1>3, <2>1
  <1>4. CASE ~(ws # <<>> /\ d >= Last(ws).end - max)
    <2>1. Cover(ws, d, max) = Append(ws, one)
      BY <1>4 DEF Cover, Window
    <2>2. QED
      BY <1>1, <2>1
  <1>5. QED
    BY <1>3, <1>4

\* Min picks a member of every non-empty set of days.
LEMMA MinPicks ==
    ASSUME NEW s \in SUBSET Nat, s # {}
    PROVE  Min(s) \in s /\ Min(s) \in Nat /\ \A d \in s \ {Min(s)} : Min(s) < d
  <1>1. Min(s) \in s /\ \A d \in s : Min(s) <= d
    BY LeastExists
  <1>2. ASSUME NEW d \in s, d # Min(s) PROVE Min(s) < d
    <2>1. d \in Nat /\ Min(s) \in Nat /\ Min(s) <= d
      BY <1>1
    <2>2. QED
      BY <1>2, <2>1
  <1>3. QED
    BY <1>1, <1>2

LEMMA CoveringIsGreedy ==
    ASSUME NEW S \in SUBSET Nat, IsFiniteSet(S), NEW max \in Nat \ {0}
    PROVE  Greedy(Covering(S, max), S, max)
  <1> DEFINE pick == [s \in SUBSET S |-> Min(s)]
             step == [p \in S \X Seq(Spans) |-> Cover(p[2], p[1], max)]
             fold(g) == [s \in SUBSET S |->
                            IF s = {} THEN <<>> ELSE Cover(g[s \ {Min(s)}], Min(s), max)]
             it == CHOOSE g : g = fold(g)
  <1>1. \A s \in SUBSET S : s # {} =>
            /\ pick[s] = Min(s) /\ pick[s] \in s
            /\ Min(s) \in s /\ Min(s) \in Nat /\ \A d \in s \ {Min(s)} : Min(s) < d
    <2>1. ASSUME NEW s \in SUBSET S PROVE s \in SUBSET Nat
      <3>1. S \subseteq Nat /\ s \subseteq S
        OBVIOUS
      <3>2. QED
        BY <3>1, Zenon
    <2>2. QED
      BY <2>1, MinPicks
  <1>2. step \in [S \X Seq(Spans) -> Seq(Spans)]
    <2>1. ASSUME NEW p \in S \X Seq(Spans) PROVE Cover(p[2], p[1], max) \in Seq(Spans)
      <3>1. \A d \in S : d \in Int
        OBVIOUS
      <3>2. p[1] \in S /\ p[2] \in Seq(Spans)
        <4> DEFINE T == Seq(Spans)
        <4>1. p \in S \X T
          OBVIOUS
        <4> HIDE DEF T
        <4>2. p[1] \in S /\ p[2] \in T
          BY <4>1
        <4>3. QED
          BY <4>2 DEF T
      <3>3. QED
        BY <3>1, <3>2, CoverType
    <2>2. QED
      BY <2>1
  <1>3. \E g : g = fold(g)
    <2> DEFINE base == <<>>
               W == Seq(Spans)
    <2>1. base \in Seq(Spans)
      OBVIOUS
    <2>2. \A d \in S, ws \in Seq(Spans) : step[<<d, ws>>] = Cover(ws, d, max)
      OBVIOUS
    <2> HIDE DEF step, pick, base, W
    <2>3. PICK g : IsFold(g, S, W, base, step, pick)
      <3>1. Foldable(S, W, base, step, pick)
        BY <1>1, <1>2, <2>1 DEF W, Foldable
      <3>2. QED
        BY <3>1, FoldExists
    <2>4. ASSUME NEW s \in SUBSET S, s # {}
          PROVE  step[<<pick[s], g[s \ {pick[s]}]>>] = Cover(g[s \ {Min(s)}], Min(s), max)
      <3>1. pick[s] = Min(s) /\ Min(s) \in S /\ s \ {Min(s)} \in SUBSET S
        BY <1>1, <2>4
      <3>2. g[s \ {Min(s)}] \in Seq(Spans)
        BY <2>3, <3>1 DEF W, IsFold
      <3>3. QED
        BY <2>2, <3>1, <3>2
    <2>5. g = fold(g)
      BY <2>3, <2>4 DEF base, IsFold
    <2>6. QED
      BY <2>5
  <1>4. it = fold(it)
    <2> HIDE DEF fold
    <2>1. QED
      BY <1>3
  <1>5. Covering(S, max) = it[S]
    BY Zenon DEF Covering, MapThenFoldSet
  <1>6. /\ it[{}] = <<>>
        /\ \A s \in SUBSET S : s # {} => it[s] = Cover(it[s \ {Min(s)}], Min(s), max)
    <2> HIDE DEF it
    <2>1. QED
      BY <1>4
  <1> HIDE DEF it, pick
  <1> DEFINE Q == {s \in SUBSET S : Greedy(it[s], s, max)}
  <1>7. {} \in Q
    <2>1. <<>> \in Seq(Spans) /\ Len(<<>>) = 0 /\ 1..0 = {}
      OBVIOUS
    <2>2. Greedy(<<>>, {}, max)
      BY <2>1 DEF Greedy
    <2>3. QED
      BY <1>6, <2>2
  <1>8. \A s \in SUBSET S : s # {} => \E x \in s : s \ {x} \in Q => s \in Q
    <2> SUFFICES ASSUME NEW s \in SUBSET S, s # {}
                 PROVE  \E x \in s : s \ {x} \in Q => s \in Q
      OBVIOUS
    <2>1. Min(s) \in s /\ Min(s) \in Int /\ \A d \in s \ {Min(s)} : Min(s) < d
      BY <1>1
    <2>2. ASSUME s \ {Min(s)} \in Q PROVE s \in Q
      <3> DEFINE r == s \ {Min(s)}
      <3>1. r \in SUBSET Int /\ Greedy(it[r], r, max) /\ r \union {Min(s)} = s
        <4>1. r \in Q /\ r \union {Min(s)} = s
          BY <2>1, <2>2
        <4>2. r \in SUBSET Int
          <5>1. \A d \in S : d \in Int
            OBVIOUS
          <5>2. r \subseteq S
            OBVIOUS
          <5> HIDE DEF r
          <5>3. QED
            BY <5>1, <5>2
        <4> HIDE DEF r
        <4>3. QED
          BY <4>1, <4>2
      <3>2. Greedy(Cover(it[r], Min(s), max), r \union {Min(s)}, max)
        <4> HIDE DEF r
        <4>1. \A e \in r : Min(s) < e
          BY <2>1 DEF r
        <4>2. QED
          BY <2>1, <3>1, <4>1, CoverStep
      <3>3. Greedy(it[s], s, max)
        BY <1>6, <3>1, <3>2
      <3>4. QED
        BY <3>3
    <2>3. QED
      BY <2>1, <2>2
  <1>9. SUBSET S \subseteq Q
    <2> HIDE DEF Q
    <2>1. QED
      BY <1>7, <1>8, Subsets
  <1>10. QED
    BY <1>5, <1>9

------------------------------------------------------------------------------
(***************************************************************************)
(* Stretching: from a window's start to the end of any newer one is more   *)
(* than `max` (planning.py, _stretch_to), so no stretched window reaches   *)
(* another.                                                                *)
(***************************************************************************)

Spread(ws, max) ==
    /\ ws \in Seq(Spans)
    /\ \A i \in 1..Len(ws) : ws[i].start < ws[i].end /\ ws[i].end - ws[i].start <= max
    /\ \A i, j \in 1..Len(ws) :
        i < j => ws[j].end <= ws[i].start /\ ws[i].end - ws[j].start > max

Grown(old, new) ==
    /\ Len(new) = Len(old)
    /\ \A i \in 1..Len(old) : new[i].start <= old[i].start /\ old[i].end <= new[i].end

HeldIn(ws, d) == \E i \in 1..Len(ws) : Holds(ws[i], d)

LEMMA GreedyIsSpread ==
    ASSUME NEW s \in SUBSET Int, NEW ws, NEW max \in Nat \ {0}, Greedy(ws, s, max)
    PROVE  Spread(ws, max) /\ Grown(ws, ws)
  <1>1. ws \in Seq(Spans) /\ \A i \in 1..Len(ws) : ws[i].start \in Int /\ ws[i].end \in Int
    <2>1. ws \in Seq(Spans)
      BY DEF Greedy
    <2>2. \A i \in 1..Len(ws) : ws[i] \in Spans
      BY <2>1
    <2>3. QED
      BY <2>1, <2>2 DEF Spans
  <1>2. ASSUME NEW i \in 1..Len(ws), NEW j \in 1..Len(ws), i < j
        PROVE  ws[j].end <= ws[i].start /\ ws[i].end - ws[j].start > max
    <2>1. /\ ws[j].end <= ws[i].start /\ ws[j].end <= ws[i].end - max
          /\ ws[j].start < ws[j].end
      BY <1>2 DEF Greedy
    <2>2. QED
      BY <1>1, <2>1
  <1>3. QED
    BY <1>1, <1>2 DEF Greedy, Spread, Grown

LEMMA GrownHolds ==
    ASSUME NEW old \in Seq(Spans), NEW new \in Seq(Spans), Grown(old, new),
           NEW d \in Int, HeldIn(old, d)
    PROVE  HeldIn(new, d)
  <1>1. PICK i \in 1..Len(old) : Holds(old[i], d)
    BY DEF HeldIn
  <1>2. old[i] \in Spans /\ new[i] \in Spans /\ i \in 1..Len(new)
    BY DEF Grown
  <1>3. Holds(new[i], d)
    BY <1>1, <1>2 DEF Grown, Holds, Spans
  <1>4. QED
    BY <1>2, <1>3 DEF HeldIn

LEMMA StretchedIs ==
    ASSUME NEW w \in Spans, NEW d \in Int, ~Holds(w, d), w.start < w.end
    PROVE  LET new == Stretched(w, d)
           IN  /\ new \in Spans /\ Length(new) = new.end - new.start
               /\ \/ d < w.start /\ new.start = d /\ new.end = w.end
                  \/ d >= w.end /\ new.start = w.start /\ new.end = d + 1
               /\ new.start <= w.start /\ w.end <= new.end /\ Holds(new, d)
  BY DEF Stretched, Window, Holds, Spans, Length

LEMMA RefreshStep ==
    ASSUME NEW ws, NEW max \in Nat \ {0}, NEW d \in Int, Spread(ws, max)
    PROVE  LET new == Refresh(ws, d, max)
           IN  /\ Spread(new, max) /\ Grown(ws, new)
               /\ \A i \in 1..Len(ws) : /\ new[i].start \in {ws[i].start, d}
                                        /\ new[i].end \in {ws[i].end, d + 1}
               /\ HeldIn(ws, d) => HeldIn(new, d)
               /\ (\E i \in 1..Len(ws) : Length(Stretched(ws[i], d)) <= max) => HeldIn(new, d)
  <1> DEFINE n == Len(ws)
             new == Refresh(ws, d, max)
             fits == {i \in DOMAIN ws : Length(Stretched(ws[i], d)) <= max}
             k == Min(fits)
  <1>1. /\ ws \in Seq(Spans) /\ n \in Nat /\ DOMAIN ws = 1..n
        /\ \A i \in 1..n : ws[i] \in Spans /\ ws[i].start \in Int /\ ws[i].end \in Int
    <2>1. ws \in Seq(Spans)
      BY DEF Spread
    <2>2. \A i \in 1..n : ws[i] \in Spans
      BY <2>1
    <2>3. QED
      BY <2>1, <2>2 DEF Spans
  <1>2. Grown(ws, ws)
    BY <1>1 DEF Grown
  <1>3. CASE HeldIn(ws, d)
    <2>1. new = ws
      BY <1>1, <1>3 DEF Refresh, HeldIn
    <2>2. QED
      BY <1>1, <1>2, <1>3, <2>1
  <1>4. CASE ~HeldIn(ws, d) /\ fits = {}
    <2>1. new = ws
      BY <1>1, <1>4 DEF Refresh, HeldIn, StretchTo
    <2>2. QED
      BY <1>1, <1>2, <1>4, <2>1
  <1>5. CASE ~HeldIn(ws, d) /\ fits # {}
    <2> DEFINE wide == Stretched(ws[k], d)
    <2>1. k \in fits
      <3>1. fits \in SUBSET Nat
        BY <1>1
      <3> HIDE DEF fits
      <3>2. QED
        BY <1>5, <3>1, LeastExists
    <2>2. new = [ws EXCEPT ![k] = wide]
      BY <1>1, <1>5 DEF Refresh, HeldIn, StretchTo
    <2>3. k \in 1..n /\ Length(wide) <= max
      BY <1>1, <2>1
    <2> HIDE DEF fits, k
    <2>4. \A i \in 1..n : ~Holds(ws[i], d)
      BY <1>5 DEF HeldIn
    <2>5. /\ wide \in Spans /\ Length(wide) = wide.end - wide.start
          /\ \/ d < ws[k].start /\ wide.start = d /\ wide.end = ws[k].end
             \/ d >= ws[k].end /\ wide.start = ws[k].start /\ wide.end = d + 1
          /\ wide.start <= ws[k].start /\ ws[k].end <= wide.end /\ Holds(wide, d)
      <3>1. ws[k] \in Spans /\ ws[k].start < ws[k].end /\ ~Holds(ws[k], d)
        BY <1>1, <2>3, <2>4 DEF Spread
      <3>2. QED
        BY <3>1, StretchedIs
    <2> HIDE DEF wide
    <2>6. /\ new \in Seq(Spans) /\ Len(new) = n
          /\ new[k] = wide /\ \A i \in 1..n : i # k => new[i] = ws[i]
      BY <1>1, <2>2, <2>3, <2>5
    <2> HIDE DEF new
    <2>7. /\ wide.start \in Int /\ wide.end \in Int /\ ws[k].start \in Int /\ ws[k].end \in Int
          /\ wide.end - wide.start <= max
      BY <1>1, <2>3, <2>5 DEF Spans
    <2>8. \A i \in 1..n : new[i].start < new[i].end /\ new[i].end - new[i].start <= max
      <3>1. \A i \in 1..n : ws[i].start < ws[i].end /\ ws[i].end - ws[i].start <= max
        BY DEF Spread
      <3>2. wide.start < wide.end
        BY <2>3, <2>5, <2>7, <3>1
      <3>3. QED
        BY <2>6, <2>7, <3>1, <3>2
    <2>9. ASSUME NEW i \in 1..n, NEW j \in 1..n, i < j
          PROVE  new[j].end <= new[i].start /\ new[i].end - new[j].start > max
      <3>1. /\ ws[j].end <= ws[i].start /\ ws[i].end - ws[j].start > max
            /\ ws[i].start < ws[i].end /\ ws[j].start < ws[j].end
        BY <2>9 DEF Spread
      <3>2. /\ ws[i].start \in Int /\ ws[i].end \in Int /\ ws[j].start \in Int /\ ws[j].end \in Int
            /\ ~Holds(ws[i], d) /\ ~Holds(ws[j], d)
        BY <1>1, <2>4
      <3>3. CASE i = k
        <4>1. j # k /\ new[j] = ws[j] /\ new[i] = wide
          BY <2>6, <2>9, <3>3
        <4>2. CASE d < ws[k].start
          <5>1. wide.start = d /\ wide.end = ws[k].end
            BY <2>5, <2>7, <4>2, <3>1, <3>3
          <5>2. d >= ws[j].end
            BY <3>1, <3>2, <3>3, <2>7, <5>1 DEF Holds
          <5>3. QED
            BY <3>1, <3>3, <4>1, <5>1, <5>2
        <4>3. CASE d >= ws[k].end
          <5>1. wide.start = ws[k].start /\ wide.end = d + 1
            BY <2>5, <2>7, <4>3, <3>1, <3>3
          <5>2. QED
            BY <3>1, <3>2, <3>3, <4>1, <4>3, <5>1
        <4>4. QED
          BY <2>5, <4>2, <4>3
      <3>4. CASE j = k
        <4>1. i # k /\ new[i] = ws[i] /\ new[j] = wide
          BY <2>6, <2>9, <3>4
        <4>2. CASE d < ws[k].start
          <5>1. wide.start = d /\ wide.end = ws[k].end
            BY <2>5, <2>7, <4>2, <3>1, <3>4
          <5>2. QED
            BY <3>1, <3>2, <3>4, <4>1, <4>2, <5>1
        <4>3. CASE d >= ws[k].end
          <5>1. wide.start = ws[k].start /\ wide.end = d + 1
            BY <2>5, <2>7, <4>3, <3>1, <3>4
          <5>2. d + 1 <= ws[i].start
            BY <3>1, <3>2, <3>4, <2>7, <5>1 DEF Holds
          <5>3. QED
            BY <3>1, <3>4, <4>1, <5>1, <5>2
        <4>4. QED
          BY <2>5, <4>2, <4>3
      <3>5. CASE i # k /\ j # k
        BY <2>6, <3>1, <3>5
      <3>6. QED
        BY <3>3, <3>4, <3>5
    <2>10. Spread(new, max)
      BY <2>6, <2>8, <2>9 DEF Spread
    <2>11. \A i \in 1..n : new[i].start <= ws[i].start /\ ws[i].end <= new[i].end
      BY <1>1, <2>5, <2>6
    <2>12. \A i \in 1..n : new[i].start \in {ws[i].start, d} /\ new[i].end \in {ws[i].end, d + 1}
      BY <2>5, <2>6
    <2>13. HeldIn(new, d)
      BY <2>3, <2>5, <2>6 DEF HeldIn
    <2>14. Grown(ws, new)
      BY <2>6, <2>11 DEF Grown
    <2>15. QED
      BY <2>10, <2>12, <2>13, <2>14 DEF new
  <1>6. QED
    BY <1>3, <1>4, <1>5

\* What a covering becomes when the days of s have been taken in: its windows grow to
\* days of s only, and every one of them the first window may span is held.
Refreshed(cov, ws, s, max) ==
    /\ Spread(ws, max) /\ Grown(cov, ws)
    /\ \A i \in 1..Len(cov) :
        /\ ws[i].start = cov[i].start \/ ws[i].start \in s
        /\ ws[i].end = cov[i].end \/ ws[i].end - 1 \in s
    /\ cov # <<>> /\ (\A d \in s : d < cov[1].end) =>
        \A d \in s : cov[1].end - d <= max => HeldIn(ws, d)

LEMMA RefreshedStep ==
    ASSUME NEW cov, NEW max \in Nat \ {0}, Spread(cov, max), NEW s \in SUBSET Int, NEW ws,
           NEW d \in Int, Refreshed(cov, ws, s, max)
    PROVE  Refreshed(cov, Refresh(ws, d, max), s \union {d}, max)
  <1> DEFINE new == Refresh(ws, d, max)
             t == s \union {d}
             n == Len(cov)
  <1>1. /\ Spread(new, max) /\ Grown(ws, new)
        /\ \A i \in 1..Len(ws) : new[i].start \in {ws[i].start, d} /\ new[i].end \in {ws[i].end, d + 1}
        /\ HeldIn(ws, d) => HeldIn(new, d)
        /\ (\E i \in 1..Len(ws) : Length(Stretched(ws[i], d)) <= max) => HeldIn(new, d)
    <2>1. Spread(ws, max)
      BY DEF Refreshed
    <2>2. QED
      BY <2>1, RefreshStep
  <1> HIDE DEF new
  <1>2. /\ cov \in Seq(Spans) /\ ws \in Seq(Spans) /\ new \in Seq(Spans)
        /\ Len(ws) = n /\ Len(new) = n /\ n \in Nat
        /\ \A i \in 1..n : /\ cov[i].start \in Int /\ cov[i].end \in Int /\ ws[i] \in Spans
                           /\ ws[i].start \in Int /\ ws[i].end \in Int
                           /\ new[i].start \in Int /\ new[i].end \in Int
    <2>1. cov \in Seq(Spans) /\ ws \in Seq(Spans) /\ new \in Seq(Spans)
      BY <1>1 DEF Spread, Refreshed
    <2>2. Len(ws) = n /\ Len(new) = n /\ n \in Nat
      BY <1>1, <2>1 DEF Refreshed, Grown
    <2>3. \A i \in 1..n : cov[i] \in Spans /\ ws[i] \in Spans /\ new[i] \in Spans
      BY <2>1, <2>2
    <2>4. QED
      BY <2>1, <2>2, <2>3 DEF Spans
  <1>3. Grown(cov, new)
    <2>1. \A i \in 1..n : /\ new[i].start <= ws[i].start /\ ws[i].end <= new[i].end
                          /\ ws[i].start <= cov[i].start /\ cov[i].end <= ws[i].end
      BY <1>1, <1>2 DEF Refreshed, Grown
    <2>2. \A i \in 1..n : new[i].start <= cov[i].start /\ cov[i].end <= new[i].end
      <3> SUFFICES ASSUME NEW i \in 1..n
                   PROVE  new[i].start <= cov[i].start /\ cov[i].end <= new[i].end
        OBVIOUS
      <3>1. /\ new[i].start \in Int /\ ws[i].start \in Int /\ cov[i].start \in Int
            /\ new[i].end \in Int /\ ws[i].end \in Int /\ cov[i].end \in Int
        BY <1>2
      <3>2. /\ new[i].start <= ws[i].start /\ ws[i].start <= cov[i].start
            /\ cov[i].end <= ws[i].end /\ ws[i].end <= new[i].end
        BY <2>1
      <3> HIDE DEF t, n
      <3>3. \A x, y, z \in Int : x <= y /\ y <= z => x <= z
        OBVIOUS
      <3>4. QED
        BY <3>1, <3>2, <3>3
    <2>3. QED
      BY <1>2, <2>2 DEF Grown
  <1>4. \A i \in 1..n : /\ new[i].start = cov[i].start \/ new[i].start \in t
                        /\ new[i].end = cov[i].end \/ new[i].end - 1 \in t
    <2> SUFFICES ASSUME NEW i \in 1..n
                 PROVE  /\ new[i].start = cov[i].start \/ new[i].start \in t
                        /\ new[i].end = cov[i].end \/ new[i].end - 1 \in t
      OBVIOUS
    <2>1. /\ ws[i].start = cov[i].start \/ ws[i].start \in s
          /\ ws[i].end = cov[i].end \/ ws[i].end - 1 \in s
      BY DEF Refreshed
    <2>2. new[i].start \in {ws[i].start, d} /\ new[i].end \in {ws[i].end, d + 1}
      BY <1>1, <1>2
    <2>3. new[i].end = d + 1 => new[i].end - 1 = d
      OBVIOUS
    <2>4. QED
      BY <2>1, <2>2, <2>3
  <1>5. ASSUME cov # <<>>, \A e \in t : e < cov[1].end, NEW e \in t, cov[1].end - e <= max
        PROVE  HeldIn(new, e)
    <2>1. 1 \in 1..n
      BY <1>2, <1>5
    <2>2. CASE e \in s
      <3>1. HeldIn(ws, e)
        BY <1>5, <2>2 DEF Refreshed
      <3>2. QED
        BY <1>1, <1>2, <2>2, <3>1, GrownHolds
    <2>3. CASE e = d
      <3>1. d < cov[1].end /\ cov[1].end - d <= max
        BY <1>5, <2>3
      <3>2. ws[1].end = cov[1].end
        <4>1. /\ ws[1].end = cov[1].end \/ ws[1].end - 1 \in s
              /\ cov[1].end <= ws[1].end
          BY <2>1 DEF Refreshed, Grown
        <4>2. CASE ws[1].end - 1 \in s
          <5>1. ws[1].end - 1 < cov[1].end
            BY <4>2, <1>5
          <5>2. ws[1].end \in Int /\ cov[1].end \in Int
            BY <1>2, <2>1
          <5>3. QED
            BY <5>1, <5>2, <4>1
        <4>3. QED
          BY <4>1, <4>2
      <3>3. CASE ws[1].start <= d
        <4>1. Holds(ws[1], d)
          BY <3>1, <3>2, <3>3 DEF Holds
        <4>2. QED
          BY <4>1, <1>1, <1>2, <2>1, <2>3 DEF HeldIn
      <3>4. CASE d < ws[1].start
        <4>1. /\ ~Holds(ws[1], d) /\ ws[1].start < ws[1].end
              /\ ws[1] \in Spans /\ ws[1].start \in Int /\ ws[1].end \in Int
          BY <3>4, <1>2, <2>1 DEF Holds, Refreshed, Spread
        <4>2. Length(Stretched(ws[1], d)) = ws[1].end - d
          BY <4>1, <3>4, StretchedIs
        <4>3. QED
          BY <4>2, <3>1, <3>2, <1>1, <1>2, <2>1, <2>3
      <3>5. QED
        BY <3>3, <3>4, <1>2, <2>1
    <2>4. QED
      BY <2>2, <2>3
  <1>6. Refreshed(cov, new, t, max)
    BY <1>1, <1>3, <1>4, <1>5 DEF Refreshed
  <1>7. QED
    BY <1>6 DEF new

LEMMA PlanIsRefreshed ==
    ASSUME NEW M \in SUBSET Nat, IsFiniteSet(M), NEW S \in SUBSET Nat, IsFiniteSet(S),
           NEW max \in Nat \ {0}
    PROVE  /\ Greedy(Covering(M, max), M, max)
           /\ Refreshed(Covering(M, max), PlanWindows(M, max, S), S, max)
  <1> DEFINE cov == Covering(M, max)
             pick == [s \in SUBSET S |-> Min(s)]
             W == {ws \in Seq(Spans) : Spread(ws, max)}
             step == [p \in S \X W |-> Refresh(p[2], p[1], max)]
             fold(g) == [s \in SUBSET S |->
                            IF s = {} THEN cov ELSE Refresh(g[s \ {Min(s)}], Min(s), max)]
             it == CHOOSE g : g = fold(g)
  <1>1. Greedy(cov, M, max)
    BY CoveringIsGreedy
  <1>2. \A d \in S : d \in Int
    OBVIOUS
  <1>3. PlanWindows(M, max, S) = it[S]
    BY Zenon DEF PlanWindows, MapThenFoldSet
  <1> HIDE DEF cov, it
  <1>4. Spread(cov, max) /\ Grown(cov, cov)
    <2>1. M \in SUBSET Int
      OBVIOUS
    <2>2. QED
      BY <1>1, <2>1, GreedyIsSpread
  <1>5. \A s \in SUBSET S : s # {} =>
            /\ pick[s] = Min(s) /\ pick[s] \in s
            /\ Min(s) \in s /\ Min(s) \in Nat
    <2>1. ASSUME NEW s \in SUBSET S PROVE s \in SUBSET Nat
      <3>1. S \subseteq Nat /\ s \subseteq S
        OBVIOUS
      <3>2. QED
        BY <3>1, Zenon
    <2>2. QED
      BY <2>1, MinPicks
  <1> HIDE DEF pick
  <1>6. \A d \in Int, ws \in W : Refresh(ws, d, max) \in W
    <2> SUFFICES ASSUME NEW d \in Int, NEW ws \in W PROVE Refresh(ws, d, max) \in W
      OBVIOUS
    <2>1. Spread(ws, max)
      OBVIOUS
    <2>2. Spread(Refresh(ws, d, max), max)
      BY <2>1, RefreshStep
    <2>3. QED
      BY <2>2 DEF Spread
  <1>7. \E g : g = fold(g)
    <2>1. cov \in W
      BY <1>4 DEF Spread
    <2> HIDE DEF W
    <2>2. \A d \in S, ws \in W : step[<<d, ws>>] = Refresh(ws, d, max)
      OBVIOUS
    <2>3. step \in [S \X W -> W]
      <3>1. ASSUME NEW p \in S \X W PROVE Refresh(p[2], p[1], max) \in W
        BY <1>2, <1>6
      <3>2. QED
        BY <3>1
    <2> HIDE DEF step
    <2>4. PICK g : IsFold(g, S, W, cov, step, pick)
      <3>1. Foldable(S, W, cov, step, pick)
        BY <1>5, <2>1, <2>3 DEF Foldable
      <3>2. QED
        BY <3>1, FoldExists
    <2>5. ASSUME NEW s \in SUBSET S, s # {}
          PROVE  step[<<pick[s], g[s \ {pick[s]}]>>] = Refresh(g[s \ {Min(s)}], Min(s), max)
      <3>1. pick[s] = Min(s) /\ Min(s) \in S /\ s \ {Min(s)} \in SUBSET S
        BY <1>5, <2>5
      <3>2. g[s \ {Min(s)}] \in W
        BY <2>4, <3>1 DEF IsFold
      <3>3. QED
        BY <2>2, <3>1, <3>2
    <2>6. g = fold(g)
      BY <2>4, <2>5 DEF IsFold
    <2>7. QED
      BY <2>6
  <1>8. it = fold(it)
    <2> HIDE DEF fold
    <2>1. QED
      BY <1>7 DEF it
  <1>9. /\ it[{}] = cov
        /\ \A s \in SUBSET S : s # {} => it[s] = Refresh(it[s \ {Min(s)}], Min(s), max)
    BY <1>8
  <1> HIDE DEF fold
  <1> DEFINE Q == {s \in SUBSET S : Refreshed(cov, it[s], s, max)}
  <1>10. {} \in Q
    <2>1. Refreshed(cov, cov, {}, max)
      BY <1>4 DEF Refreshed
    <2>2. QED
      BY <1>9, <2>1
  <1>11. \A s \in SUBSET S : s # {} => \E x \in s : s \ {x} \in Q => s \in Q
    <2> SUFFICES ASSUME NEW s \in SUBSET S, s # {}
                 PROVE  \E x \in s : s \ {x} \in Q => s \in Q
      OBVIOUS
    <2>1. Min(s) \in s /\ Min(s) \in Int
      BY <1>5
    <2>2. ASSUME s \ {Min(s)} \in Q PROVE s \in Q
      <3> DEFINE r == s \ {Min(s)}
      <3>1. r \in Q /\ r \union {Min(s)} = s /\ r \subseteq S
        BY <2>1, <2>2
      <3> HIDE DEF r
      <3>2. Refreshed(cov, it[r], r, max)
        BY <3>1
      <3>3. r \in SUBSET Int
        BY <1>2, <3>1
      <3> HIDE DEF Q
      <3>4. Refreshed(cov, Refresh(it[r], Min(s), max), r \union {Min(s)}, max)
        BY <1>4, <2>1, <3>2, <3>3, RefreshedStep
      <3>5. it[s] = Refresh(it[r], Min(s), max)
        BY <1>9 DEF r
      <3>6. QED
        BY <3>1, <3>4, <3>5 DEF Q
    <2>3. QED
      BY <2>1, <2>2
  <1>12. SUBSET S \subseteq Q
    <2> HIDE DEF Q
    <2>1. QED
      BY <1>10, <1>11, Subsets
  <1>13. QED
    BY <1>1, <1>3, <1>12 DEF cov

------------------------------------------------------------------------------
(***************************************************************************)
(* The greedy covering has as few windows as any: the days that end two of *)
(* its windows are never in one.                                           *)
(***************************************************************************)

Covers(ends, M, max) == \A d \in M : \E e \in ends : Holds(Window(e - max + 1, e + 1), d)

LEMMA NoneHasFewer ==
    ASSUME NEW M \in SUBSET Int, IsFiniteSet(M), NEW max \in Nat \ {0}, NEW ws,
           Greedy(ws, M, max), NEW ends \in SUBSET M, Covers(ends, M, max)
    PROVE  Len(ws) <= Cardinality(ends)
  <1> DEFINE n == Len(ws)
             at(i) == CHOOSE e \in ends : Holds(Window(e - max + 1, e + 1), ws[i].end - 1)
             f == [i \in 1..n |-> at(i)]
  <1>1. n \in Nat /\ \A i \in 1..n : ws[i].end \in Int /\ ws[i].end - 1 \in M
    <2>1. ws \in Seq(Spans) /\ \A i \in 1..n : ws[i].end - 1 \in M
      BY DEF Greedy
    <2>2. \A i \in 1..n : ws[i] \in Spans
      BY <2>1
    <2>3. QED
      BY <2>1, <2>2 DEF Spans
  <1>2. ASSUME NEW i \in 1..n
        PROVE  f[i] \in ends /\ f[i] \in Int /\ f[i] - max + 1 <= ws[i].end - 1 /\ ws[i].end - 1 <= f[i]
    <2>1. \E e \in ends : Holds(Window(e - max + 1, e + 1), ws[i].end - 1)
      BY <1>1 DEF Covers
    <2>2. at(i) \in ends /\ Holds(Window(at(i) - max + 1, at(i) + 1), ws[i].end - 1)
      BY <2>1
    <2>3. f[i] = at(i)
      OBVIOUS
    <2> HIDE DEF f, at
    <2>4. f[i] \in Int /\ ws[i].end \in Int
      BY <1>1, <2>2, <2>3
    <2>5. f[i] - max + 1 <= ws[i].end - 1 /\ ws[i].end - 1 < f[i] + 1
      BY <2>2, <2>3 DEF Holds, Window
    <2>6. QED
      BY <2>2, <2>3, <2>4, <2>5
  <1> HIDE DEF at
  <1>3. f \in [1..n -> ends]
    BY <1>2
  <1> HIDE DEF f
  <1>4. ASSUME NEW i \in 1..n, NEW j \in 1..n, i < j PROVE f[i] # f[j]
    <2>1. ws[j].end <= ws[i].end - max
      BY <1>4 DEF Greedy
    <2>2. /\ f[i] \in Int /\ f[j] \in Int /\ ws[i].end \in Int /\ ws[j].end \in Int
          /\ f[j] - max + 1 <= ws[j].end - 1 /\ ws[i].end - 1 <= f[i]
          /\ f[i] - max + 1 <= ws[i].end - 1 /\ ws[j].end - 1 <= f[j]
      BY <1>1, <1>2
    <2>3. ASSUME f[i] = f[j] PROVE FALSE
      <3>1. f[i] - max + 1 <= ws[j].end - 1
        BY <2>2, <2>3
      <3>2. max \in Int /\ f[i] \in Int /\ ws[i].end \in Int /\ ws[j].end \in Int
        BY <2>2
      <3>3. \A a, b, c, m \in Int :
                a - m + 1 <= b - 1 /\ b <= c - m /\ c - 1 <= a => FALSE
        OBVIOUS
      <3>4. QED
        BY <2>1, <2>2, <3>1, <3>2, <3>3
    <2>4. QED
      BY <2>3
  <1>5. \A i, j \in 1..n : f[i] = f[j] => i = j
    BY <1>1, <1>4
  <1>6. f \in Injection(1..n, ends)
    BY <1>3, <1>5 DEF Injection, IsInjective
  <1>7. IsFiniteSet(ends)
    BY FS_Subset
  <1>8. Cardinality(1..n) <= Cardinality(ends)
    BY <1>6, <1>7, FS_Injection
  <1>9. Cardinality(1..n) = n
    BY <1>1, UptoCount
  <1>10. QED
    BY <1>8, <1>9

LEMMA GreedyEnds ==
    ASSUME NEW M \in SUBSET Int, IsFiniteSet(M), NEW max \in Nat \ {0}, NEW ws,
           Greedy(ws, M, max)
    PROVE  \E ends \in SUBSET M : Cardinality(ends) = Len(ws) /\ Covers(ends, M, max)
  <1> DEFINE n == Len(ws)
             f == [i \in 1..n |-> ws[i].end - 1]
             ends == {f[i] : i \in 1..n}
  <1>1. n \in Nat /\ \A i \in 1..n :
            /\ ws[i].end \in Int /\ ws[i].start \in Int /\ ws[i].end - 1 \in M
            /\ ws[i].end - ws[i].start <= max /\ f[i] = ws[i].end - 1
    <2>1. /\ ws \in Seq(Spans)
          /\ \A i \in 1..n : ws[i].end - 1 \in M /\ ws[i].end - ws[i].start <= max
      BY DEF Greedy
    <2>2. \A i \in 1..n : ws[i] \in Spans
      BY <2>1
    <2>3. QED
      BY <2>1, <2>2 DEF Spans
  <1>2. f \in [1..n -> ends]
    OBVIOUS
  <1> HIDE DEF f
  <1>3. ends \in SUBSET M
    BY <1>1
  <1>4. \A i, j \in 1..n : i < j => f[i] # f[j]
    <2> SUFFICES ASSUME NEW i \in 1..n, NEW j \in 1..n, i < j PROVE f[i] # f[j]
      OBVIOUS
    <2>1. ws[j].end <= ws[i].end - max
      BY DEF Greedy
    <2>2. QED
      BY <1>1, <2>1
  <1>5. \A i, j \in 1..n : f[i] = f[j] => i = j
    BY <1>1, <1>4
  <1>6. f \in Bijection(1..n, ends)
    <2>1. f \in Injection(1..n, ends)
      BY <1>2, <1>5 DEF Injection, IsInjective
    <2>2. f \in Surjection(1..n, ends)
      BY <1>2 DEF Surjection
    <2>3. QED
      BY <2>1, <2>2 DEF Bijection
  <1>7. Cardinality(ends) = n
    <2>1. IsFiniteSet(1..n) /\ Cardinality(1..n) = n
      BY <1>1, UptoCount
    <2>2. ExistsBijection(1..n, ends)
      BY <1>6 DEF ExistsBijection
    <2>3. QED
      BY <2>1, <2>2, FS_Bijection
  <1>8. Covers(ends, M, max)
    <2> SUFFICES ASSUME NEW d \in M
                 PROVE  \E e \in ends : Holds(Window(e - max + 1, e + 1), d)
      BY DEF Covers
    <2>1. PICK i \in 1..n : Holds(ws[i], d)
      BY DEF Greedy
    <2>2. Holds(Window(f[i] - max + 1, f[i] + 1), d)
      BY <1>1, <2>1 DEF Holds, Window
    <2>3. QED
      BY <2>2
  <1>9. QED
    BY <1>3, <1>7, <1>8

LEMMA GreedyIsFewest ==
    ASSUME NEW M \in SUBSET Int, IsFiniteSet(M), NEW max \in Nat \ {0}, NEW ws,
           Greedy(ws, M, max)
    PROVE  Fewest(M, max) = Len(ws)
  <1> DEFINE Least(n) == /\ \E ends \in SUBSET M : Cardinality(ends) = n /\ Covers(ends, M, max)
                         /\ \A ends \in SUBSET M : Covers(ends, M, max) => n <= Cardinality(ends)
  <1>1. Fewest(M, max) = CHOOSE n \in 0..Cardinality(M) : Least(n)
    BY DEF Fewest, Covers
  <1>2. Least(Len(ws)) /\ Len(ws) \in 0..Cardinality(M)
    <2>1. PICK ends \in SUBSET M : Cardinality(ends) = Len(ws) /\ Covers(ends, M, max)
      BY GreedyEnds
    <2>2. Cardinality(ends) \in Nat /\ Cardinality(M) \in Nat /\ Cardinality(ends) <= Cardinality(M)
      BY FS_Subset, FS_CardinalityType
    <2>3. QED
      BY <2>1, <2>2, NoneHasFewer
  <1>3. ASSUME NEW n \in 0..Cardinality(M), Least(n) PROVE n = Len(ws)
    <2>1. PICK ends \in SUBSET M : Cardinality(ends) = n /\ Covers(ends, M, max)
      BY <1>3
    <2>2. Len(ws) <= n
      BY <2>1, NoneHasFewer
    <2>3. PICK mine \in SUBSET M : Cardinality(mine) = Len(ws) /\ Covers(mine, M, max)
      BY GreedyEnds
    <2>4. n <= Len(ws)
      BY <1>3, <2>3
    <2>5. n \in Int /\ Len(ws) \in Int
      BY <1>2
    <2>6. QED
      BY <2>2, <2>4, <2>5
  <1> HIDE DEF Least
  <1>4. QED
    BY <1>1, <1>2, <1>3

\* The plan of a backlog: every window is within `max`, two never meet, a missing day
\* is held exactly once, and there are as few windows as can be.
Right(plan, M, max) ==
    /\ Len(plan) = Fewest(M, max)
    /\ \A d \in M : Cardinality({i \in DOMAIN plan : Holds(plan[i], d)}) = 1
    /\ \A i \in DOMAIN plan : Length(plan[i]) <= max
    /\ \A i, j \in DOMAIN plan : i < j => plan[j].end <= plan[i].start

LEMMA PlanProperties ==
    ASSUME NEW M \in SUBSET Nat, IsFiniteSet(M), NEW S \in SUBSET Nat, IsFiniteSet(S),
           NEW max \in Nat \ {0}
    PROVE  LET plan == PlanWindows(M, max, S)
           IN  /\ plan \in Seq(Spans) /\ Right(plan, M, max)
               /\ \A i \in DOMAIN plan :
                    plan[i].start \in M \union S /\ plan[i].end - 1 \in M \union S
               /\ M = {} => plan = <<>>
               /\ \A T \in Int :
                    T - 1 \in M /\ (\A d \in M \union S : d < T) =>
                        \A d \in S : T - d <= max => HeldIn(plan, d)
  <1> DEFINE cov == Covering(M, max)
             plan == PlanWindows(M, max, S)
             n == Len(cov)
  <1>1. Greedy(cov, M, max) /\ Refreshed(cov, plan, S, max)
    BY PlanIsRefreshed
  <1>2. M \in SUBSET Int
    OBVIOUS
  <1>3. Fewest(M, max) = n
    BY <1>1, <1>2, GreedyIsFewest
  <1> HIDE DEF cov, plan
  <1>4. /\ cov \in Seq(Spans) /\ plan \in Seq(Spans) /\ n \in Nat /\ Len(plan) = n
        /\ DOMAIN plan = 1..n
        /\ \A i \in 1..n : /\ cov[i].start \in Int /\ cov[i].end \in Int
                           /\ plan[i].start \in Int /\ plan[i].end \in Int
    <2>1. cov \in Seq(Spans) /\ plan \in Seq(Spans)
      BY <1>1 DEF Greedy, Refreshed, Spread
    <2>2. Len(plan) = n
      BY <1>1 DEF Refreshed, Grown
    <2>3. \A i \in 1..n : cov[i] \in Spans /\ plan[i] \in Spans
      BY <2>1, <2>2
    <2>4. QED
      BY <2>1, <2>2, <2>3 DEF Spans
  <1>5. \A i, j \in 1..n : i < j => plan[j].end <= plan[i].start
    BY <1>1, <1>4 DEF Refreshed, Spread
  <1>6. ASSUME NEW d \in M PROVE Cardinality({i \in DOMAIN plan : Holds(plan[i], d)}) = 1
    <2>1. HeldIn(cov, d)
      BY <1>1 DEF Greedy, HeldIn
    <2>2. Grown(cov, plan)
      BY <1>1 DEF Refreshed
    <2>3. HeldIn(plan, d)
      BY <1>2, <1>4, <2>1, <2>2, GrownHolds
    <2>4. PICK i \in 1..n : Holds(plan[i], d)
      BY <1>4, <2>3 DEF HeldIn
    <2>5. ASSUME NEW j \in 1..n, Holds(plan[j], d) PROVE j = i
      <3>1. /\ i < j => plan[j].end <= plan[i].start
            /\ j < i => plan[i].end <= plan[j].start
        BY <1>5
      <3>2. /\ plan[i].start <= d /\ d < plan[i].end /\ plan[j].start <= d /\ d < plan[j].end
            /\ plan[i].start \in Int /\ plan[i].end \in Int /\ plan[j].start \in Int
            /\ plan[j].end \in Int /\ d \in Int /\ i \in Int /\ j \in Int
        BY <1>2, <1>4, <2>4, <2>5 DEF Holds
      <3>3. QED
        BY <3>1, <3>2
    <2>6. {j \in DOMAIN plan : Holds(plan[j], d)} = {i}
      BY <1>4, <2>4, <2>5
    <2>7. QED
      BY <2>6, FS_Singleton
  <1>7. ASSUME NEW i \in 1..n
        PROVE  /\ Length(plan[i]) <= max
               /\ plan[i].start \in M \union S /\ plan[i].end - 1 \in M \union S
    <2>1. cov[i].start \in M /\ cov[i].end - 1 \in M
      BY <1>1 DEF Greedy
    <2>2. /\ plan[i].start = cov[i].start \/ plan[i].start \in S
          /\ plan[i].end = cov[i].end \/ plan[i].end - 1 \in S
      BY <1>1 DEF Refreshed
    <2>3. plan[i].end - plan[i].start <= max
      BY <1>1, <1>4 DEF Refreshed, Spread
    <2>4. QED
      BY <2>1, <2>2, <2>3 DEF Length
  <1>8. M = {} => plan = <<>>
    <2>1. M = {} => ~(\E i \in 1..n : TRUE)
      BY <1>1 DEF Greedy
    <2>2. M = {} => n = 0
      BY <1>4, <2>1
    <2>3. QED
      BY <1>4, <2>2
  <1>9. ASSUME NEW T \in Int, T - 1 \in M, \A d \in M \union S : d < T,
               NEW d \in S, T - d <= max
        PROVE  HeldIn(plan, d)
    <2>1. cov # <<>> /\ T - 1 < cov[1].end
      BY <1>1, <1>9 DEF Greedy
    <2>2. 1 \in 1..n
      BY <1>4, <2>1
    <2>3. cov[1].end - 1 \in M /\ cov[1].end \in Int
      BY <1>1, <1>4, <2>2 DEF Greedy
    <2>4. cov[1].end - 1 < T
      BY <1>9, <2>3
    <2>5. cov[1].end = T
      BY <2>1, <2>3, <2>4
    <2>6. \A e \in S : e < cov[1].end
      BY <1>9, <2>5
    <2>7. QED
      BY <1>1, <1>9, <2>1, <2>5, <2>6 DEF Refreshed
  <1>10. Right(plan, M, max)
    BY <1>3, <1>4, <1>5, <1>6, <1>7 DEF Right
  <1>11. QED
    BY <1>4, <1>7, <1>8, <1>9, <1>10 DEF plan

------------------------------------------------------------------------------
(***************************************************************************)
(* The pass.                                                               *)
(***************************************************************************)

Backlogs == UNION {[D -> SUBSET Days] : D \in SUBSET Datasets}
Plan == PlanWindows(pass.missing, WindowDays[pass.ds], pass.partial)
History(ds) == HistoryStart(ds, pass.today)..(pass.today - 1)
Unsettled == UnsettledFrom(pass.today)..(pass.today - 1)

Typed ==
    /\ day \in StartDay..LastDay
    /\ got \in [UsagePoints -> [Datasets -> [Days -> Holding]]]
    /\ gaps \in [UsagePoints -> [Datasets -> SUBSET Days]]
    /\ \/ pass = Idle
       \/ pass \in [at : {"points"}, today : StartDay..day, left : SUBSET UsagePoints]
       \/ pass \in [at : {"consent", "datasets"}, today : StartDay..day,
                    left : SUBSET UsagePoints, up : UsagePoints, todo : Backlogs]
          /\ pass.up \notin pass.left
       \/ pass \in [at : {"fetching"}, today : StartDay..day,
                    left : SUBSET UsagePoints, up : UsagePoints, todo : Backlogs,
                    ds : Datasets, missing : SUBSET Days, partial : SUBSET Days,
                    windows : Seq(Windows)]
          /\ pass.up \notin pass.left /\ pass.ds \notin DOMAIN pass.todo

\* Only curves hold a day in part, and a day is given up when it is settled for the
\* clock and for the pass.
Settlings ==
    /\ \A u \in UsagePoints, ds \in Datasets \ Curves : \A d \in Days : got[u][ds][d] # "part"
    /\ \A u \in UsagePoints, ds \in Datasets : \A d \in gaps[u][ds] :
        d <= day - SettleDays /\ (pass # Idle => d <= pass.today - SettleDays)

\* The backlogs of the datasets to come: exactly the days nothing is known of.
BacklogsHold ==
    pass.at \in {"consent", "datasets", "fetching"} =>
        \A ds \in DOMAIN pass.todo :
            /\ pass.todo[ds] \subseteq History(ds)
            /\ \A d \in pass.todo[ds] : got[pass.up][ds][d] = "nothing"
            /\ \A d \in History(ds) \ pass.todo[ds] :
                  got[pass.up][ds][d] # "nothing" \/ d \in gaps[pass.up][ds]

\* The dataset being fetched: the windows left are some of the plan's, no two meet,
\* they hold no missing day that has come, and the days that were neither missing nor
\* held in part are whole.
FetchHolds ==
    pass.at = "fetching" =>
        /\ pass.missing \subseteq History(pass.ds) /\ pass.partial \subseteq History(pass.ds)
        /\ \A i \in 1..Len(pass.windows) : \E j \in 1..Len(Plan) : pass.windows[i] = Plan[j]
        /\ \A i, j \in 1..Len(pass.windows) :
              i < j => pass.windows[j].end <= pass.windows[i].start
        /\ \A i \in 1..Len(pass.windows) : \A d \in pass.missing :
              Holds(pass.windows[i], d) => got[pass.up][pass.ds][d] = "nothing"
        /\ pass.missing # {} => \A d \in Unsettled \intersect History(pass.ds) :
              /\ d \notin pass.missing /\ d \notin pass.partial => got[pass.up][pass.ds][d] = "whole"
              /\ got[pass.up][pass.ds][d] = "part" => d \in pass.partial \/ HeldIn(Plan, d)

IInv == Typed /\ Settlings /\ BacklogsHold /\ FetchHolds

LEMMA Bounds ==
    /\ StartDay \in Nat /\ LastDay \in Nat /\ SettleDays \in Nat /\ SettleDays > 0
    /\ \A ds \in Datasets : WindowDays[ds] \in Nat \ {0}
    /\ \A ds \in Datasets : HistoryDays[ds] \in Nat /\ 1 <= HistoryDays[ds] /\ HistoryDays[ds] <= StartDay - 1
    /\ Curves \subseteq Datasets
    /\ Days \in SUBSET Nat /\ \A S \in SUBSET Days : S \in SUBSET Nat /\ IsFiniteSet(S)
  <1>1. /\ StartDay \in Nat /\ LastDay \in Nat /\ SettleDays \in Nat /\ SettleDays > 0
        /\ \A ds \in Datasets : WindowDays[ds] \in Nat \ {0}
        /\ \A ds \in Datasets : HistoryDays[ds] \in Nat /\ 1 <= HistoryDays[ds] /\ HistoryDays[ds] <= StartDay - 1
        /\ Curves \subseteq Datasets
    BY SyncPassAssumption, PlanningAssumption
  <1>2. Days \in SUBSET Nat
    BY <1>1 DEF Days
  <1>3. IsFiniteSet(Days)
    <2>1. 1 \in Int /\ LastDay - 1 \in Int
      BY <1>1
    <2>2. QED
      BY <2>1, FS_Interval DEF Days
  <1>4. ASSUME NEW S \in SUBSET Days PROVE S \in SUBSET Nat /\ IsFiniteSet(S)
    BY <1>2, <1>3, FS_Subset
  <1>5. QED
    BY <1>1, <1>2, <1>4

\* What the step of a pass is known to be, by where it is.
LEMMA Where ==
    ASSUME Typed
    PROVE  /\ pass.at = "points" =>
                pass \in [at : {"points"}, today : StartDay..day, left : SUBSET UsagePoints]
           /\ pass.at \in {"consent", "datasets"} =>
                /\ pass \in [at : {"consent", "datasets"}, today : StartDay..day,
                    left : SUBSET UsagePoints, up : UsagePoints, todo : Backlogs]
                /\ pass.up \notin pass.left
           /\ pass.at = "fetching" =>
                /\ pass \in [at : {"fetching"}, today : StartDay..day,
                    left : SUBSET UsagePoints, up : UsagePoints, todo : Backlogs,
                    ds : Datasets, missing : SUBSET Days, partial : SUBSET Days,
                    windows : Seq(Windows)]
                /\ pass.up \notin pass.left /\ pass.ds \notin DOMAIN pass.todo
           /\ pass.at = "idle" <=> pass = Idle
           /\ pass # Idle => pass.today \in StartDay..day /\ pass.left \subseteq UsagePoints
  BY DEF Typed, Idle

LEMMA BacklogType ==
    ASSUME NEW b \in Backlogs
    PROVE  DOMAIN b \subseteq Datasets /\ \A ds \in DOMAIN b : b[ds] \subseteq Days
  BY DEF Backlogs

LEMMA InitHolds == Init => IInv
  <1> SUFFICES ASSUME Init PROVE IInv
    OBVIOUS
  <1> USE DEF Init
  <1>1. Typed
    <2>1. day \in StartDay..LastDay
      BY SyncPassAssumption
    <2>2. /\ got \in [UsagePoints -> [Datasets -> [Days -> Holding]]]
          /\ gaps \in [UsagePoints -> [Datasets -> SUBSET Days]]
      BY DEF Holding
    <2>3. QED
      BY <2>1, <2>2 DEF Typed
  <1>2. Settlings
    BY DEF Settlings
  <1>3. BacklogsHold /\ FetchHolds
    BY DEF BacklogsHold, FetchHolds, Idle
  <1>4. QED
    BY <1>1, <1>2, <1>3 DEF IInv

\* The steps that change neither table and leave no backlog: a day that goes by, the
\* start and the end of a pass, of a turn, a crash.
LEMMA OutsideStep ==
    ASSUME IInv, got' = got, gaps' = gaps,
           \/ Tomorrow \/ StartPass \/ EndTurn \/ TurnDone \/ EndPass \/ Crash
    PROVE  IInv'
  <1>1. Typed /\ Settlings /\ BacklogsHold /\ FetchHolds
    BY DEF IInv
  <1>2. day \in Nat /\ day' \in StartDay..LastDay /\ day <= day'
    BY <1>1, Bounds DEF Typed, Tomorrow, StartPass, EndTurn, TurnDone, EndPass, Crash
  <1>3. CASE Tomorrow
    <2>1. pass' = pass
      BY <1>3 DEF Tomorrow
    <2>2. StartDay..day \subseteq StartDay..day'
      BY <1>2, Bounds
    <2>3. Typed'
      BY <1>1, <1>2, <2>1, <2>2 DEF Typed
    <2>4. Settlings'
      <3>1. ASSUME NEW u \in UsagePoints, NEW ds \in Datasets, NEW d \in gaps[u][ds]
            PROVE  d <= day' - SettleDays
        <4>1. d \in Days /\ d \in Int
          BY <1>1, Bounds DEF Typed
        <4>2. d <= day - SettleDays
          BY <1>1 DEF Settlings
        <4>3. day' \in Int /\ day \in Int /\ SettleDays \in Int
          BY <1>2, Bounds
        <4>4. \A a, b, c, e \in Int : a <= b - c /\ b <= e => a <= e - c
          OBVIOUS
        <4>5. QED
          BY <1>2, <4>1, <4>2, <4>3, <4>4
      <3>2. QED
        BY <1>1, <2>1, <3>1 DEF Settlings
    <2>5. BacklogsHold'
      BY <1>1, <2>1 DEF BacklogsHold, History, HistoryStart
    <2>6. FetchHolds'
      BY <1>1, <2>1 DEF FetchHolds, History, HistoryStart, Unsettled, UnsettledFrom, Plan, HeldIn
    <2>7. QED
      BY <2>3, <2>4, <2>5, <2>6 DEF IInv
  <1>4. CASE ~Tomorrow
    <2>1. /\ pass' = Idle \/ \E today, left : pass' = Points(today, left)
          /\ day' = day
      BY <1>4 DEF StartPass, EndTurn, TurnDone, EndPass, Crash
    <2>2. pass'.at \in {"idle", "points"}
      BY <2>1 DEF Idle, Points
    <2>3. BacklogsHold' /\ FetchHolds'
      BY <2>2 DEF BacklogsHold, FetchHolds
    <2>4. pass' = Idle
          \/ (pass'.today = day /\ pass' = Points(day, UsagePoints))
          \/ (pass # Idle /\ pass'.today = pass.today /\ pass' = Points(pass.today, pass.left))
      BY <1>4, <2>2 DEF StartPass, EndTurn, TurnDone, EndPass, Crash, Points, Idle
    <2>5. day \in StartDay..day
      BY <1>1, Bounds DEF Typed
    <2>6. Typed'
      <3>1. pass' = Idle
            \/ pass' \in [at : {"points"}, today : StartDay..day, left : SUBSET UsagePoints]
        BY <1>1, <2>4, <2>5, Where DEF Points
      <3>2. QED
        BY <1>1, <2>1, <3>1 DEF Typed
    <2>7. Settlings'
      BY <1>1, <2>1, <2>4 DEF Settlings
    <2>8. QED
      BY <2>3, <2>6, <2>7 DEF IInv
  <1>5. QED
    BY <1>3, <1>4

\* The turn of a usage point: its backlogs are what nothing is known of.
LEMMA TurnStep ==
    ASSUME IInv, NEW u \in UsagePoints, NEW due \in BOOLEAN, TakeTurn(u, due)
    PROVE  IInv'
  <1>1. Typed /\ Settlings /\ BacklogsHold /\ FetchHolds
    BY DEF IInv
  <1>2. /\ pass.at = "points" /\ u \in pass.left
        /\ day' = day /\ got' = got /\ gaps' = gaps
    BY DEF TakeTurn
  <1>3. /\ pass \in [at : {"points"}, today : StartDay..day, left : SUBSET UsagePoints]
        /\ pass # Idle
    BY <1>1, <1>2, Where DEF Idle
  <1>4. /\ pass.today \in StartDay..day /\ pass.today \in Nat /\ pass.today <= LastDay
        /\ pass.left \subseteq UsagePoints
    BY <1>1, <1>3, Bounds DEF Typed
  <1>5. Settlings'
    <2>1. pass' # Idle /\ pass'.today = pass.today
      BY DEF TakeTurn, Points, Turn, Idle
    <2>2. QED
      BY <1>1, <1>2, <1>3, <2>1 DEF Settlings
  <1>6. CASE pass' = Points(pass.today, pass.left \ {u})
    <2>1. Typed'
      BY <1>1, <1>2, <1>4, <1>6 DEF Typed, Points
    <2>2. BacklogsHold' /\ FetchHolds'
      BY <1>6 DEF BacklogsHold, FetchHolds, Points
    <2>3. QED
      BY <1>5, <2>1, <2>2 DEF IInv
  <1>7. CASE pass' = [Turn("consent", u, Todo(u)) EXCEPT !.left = @ \ {u}]
    <2>1. pass' = [at |-> "consent", today |-> pass.today, left |-> pass.left \ {u},
                   up |-> u, todo |-> Todo(u)]
      BY <1>7 DEF Turn
    <2>2. \A ds \in Datasets :
             /\ HistoryStart(ds, pass.today)..(pass.today - 1) \subseteq Days
             /\ Todo(u)[ds] = (HistoryStart(ds, pass.today)..(pass.today - 1))
                                \ (WithData(u, ds) \union gaps[u][ds])
      BY <1>4, Bounds DEF HistoryStart, Days, Todo, Backlog, MissingDays
    <2>3. Todo(u) \in Backlogs
      <3>1. Todo(u) \in [Datasets -> SUBSET Days]
        BY <2>2 DEF Todo
      <3>2. QED
        BY <3>1 DEF Backlogs
    <2>4. Typed'
      BY <1>1, <1>2, <1>4, <2>1, <2>3 DEF Typed
    <2>5. FetchHolds'
      BY <2>1 DEF FetchHolds
    <2>6. DOMAIN pass'.todo = Datasets
      BY <2>1 DEF Todo
    <2>7. ASSUME NEW ds \in Datasets
          PROVE  /\ Todo(u)[ds] \subseteq History(ds)
                 /\ \A d \in Todo(u)[ds] : got[u][ds][d] = "nothing"
                 /\ \A d \in History(ds) \ Todo(u)[ds] :
                       got[u][ds][d] # "nothing" \/ d \in gaps[u][ds]
      BY <2>2 DEF History, WithData
    <2>8. BacklogsHold'
      BY <1>2, <2>1, <2>6, <2>7 DEF BacklogsHold, History, HistoryStart
    <2>9. QED
      BY <1>5, <2>4, <2>5, <2>8 DEF IInv
  <1>8. QED
    BY <1>6, <1>7 DEF TakeTurn

\* From one dataset to the next the backlogs left are kept.
LEMMA BetweenStep ==
    ASSUME IInv, Consent \/ DatasetDone
    PROVE  IInv'
  <1>1. Typed /\ Settlings /\ BacklogsHold /\ FetchHolds
    BY DEF IInv
  <1>2. /\ pass.at \in {"consent", "fetching"}
        /\ day' = day /\ got' = got /\ gaps' = gaps /\ pass # Idle
    BY DEF Consent, DatasetDone, Idle
  <1>3. /\ pass.today \in StartDay..day /\ pass.left \in SUBSET UsagePoints
        /\ pass.up \in UsagePoints /\ pass.todo \in Backlogs /\ pass.up \notin pass.left
    BY <1>1, <1>2, Where
  <1>4. pass' = [at |-> "datasets", today |-> pass.today, left |-> pass.left,
                 up |-> pass.up, todo |-> pass.todo]
    <2>1. CASE Consent
      <3>1. /\ pass \in [at : {"consent", "datasets"}, today : StartDay..day,
                         left : SUBSET UsagePoints, up : UsagePoints, todo : Backlogs]
            /\ pass' = [pass EXCEPT !.at = "datasets"]
        BY <1>1, <2>1, Where DEF Consent
      <3>2. QED
        BY <3>1
    <2>2. CASE DatasetDone
      BY <2>2 DEF DatasetDone, Turn
    <2>3. QED
      BY <2>1, <2>2
  <1>5. Typed'
    BY <1>1, <1>2, <1>3, <1>4 DEF Typed
  <1>6. Settlings'
    <2>1. pass'.today = pass.today
      BY <1>4
    <2>2. QED
      BY <1>1, <1>2, <2>1 DEF Settlings
  <1>7. FetchHolds'
    BY <1>4 DEF FetchHolds
  <1>8. BacklogsHold'
    BY <1>1, <1>2, <1>4 DEF BacklogsHold, History, HistoryStart
  <1>9. QED
    BY <1>5, <1>6, <1>7, <1>8 DEF IInv

LEMMA PlanWindowsType ==
    ASSUME NEW M \in SUBSET Days, NEW S \in SUBSET Days, NEW max \in Nat \ {0}
    PROVE  PlanWindows(M, max, S) \in Seq(Windows)
  <1> DEFINE plan == PlanWindows(M, max, S)
  <1>1. /\ M \in SUBSET Nat /\ IsFiniteSet(M) /\ S \in SUBSET Nat /\ IsFiniteSet(S)
    BY Bounds
  <1>2. /\ plan \in Seq(Spans)
        /\ \A i \in DOMAIN plan : plan[i].start \in M \union S /\ plan[i].end - 1 \in M \union S
    BY <1>1, PlanProperties
  <1> HIDE DEF plan
  <1>3. ASSUME NEW i \in 1..Len(plan) PROVE plan[i] \in Windows
    <2>1. plan[i] \in Spans /\ plan[i].start \in Days /\ plan[i].end - 1 \in Days
      BY <1>2
    <2>2. plan[i].end \in Int
      BY <2>1 DEF Spans
    <2>3. plan[i].end \in 2..LastDay
      BY <2>1, <2>2, Bounds DEF Days
    <2>4. QED
      BY <2>1, <2>3 DEF Spans, Windows
  <1>4. plan \in Seq(Windows)
    BY <1>2, <1>3
  <1>5. QED
    BY <1>4 DEF plan

LEMMA PlanStep ==
    ASSUME IInv, NEW ds \in Datasets, PlanDataset(ds)
    PROVE  IInv'
  <1> DEFINE u == pass.up
             missing == pass.todo[ds]
             partial == IF missing = {} THEN {} ELSE PartialDays(u, ds, pass.today)
             windows == PlanWindows(missing, WindowDays[ds], partial)
  <1>1. Typed /\ Settlings /\ BacklogsHold /\ FetchHolds
    BY DEF IInv
  <1>2. /\ pass.at = "datasets" /\ ds \in DOMAIN pass.todo
        /\ pass' = [at |-> "fetching", today |-> pass.today, left |-> pass.left,
                    up |-> u, todo |-> Others(ds), ds |-> ds,
                    missing |-> missing, partial |-> partial, windows |-> windows]
        /\ day' = day /\ got' = got /\ gaps' = gaps /\ pass # Idle
    BY DEF PlanDataset, Idle
  <1>3. /\ pass.today \in StartDay..day /\ pass.left \in SUBSET UsagePoints
        /\ u \in UsagePoints /\ pass.todo \in Backlogs /\ u \notin pass.left
    BY <1>1, <1>2, Where
  <1>4. /\ pass.today \in Nat /\ pass.today <= LastDay
        /\ WindowDays[ds] \in Nat \ {0} /\ HistoryStart(ds, pass.today) \in Int
        /\ HistoryStart(ds, pass.today) >= 1 /\ SettleDays \in Nat
    BY <1>1, <1>3, Bounds DEF Typed, HistoryStart
  <1>5. History(ds) \subseteq Days
    BY <1>4, Bounds DEF History, Days
  <1>6. missing \subseteq History(ds) /\ missing \subseteq Days
    BY <1>1, <1>2, <1>5 DEF BacklogsHold
  <1>7. /\ partial \subseteq History(ds) /\ partial \subseteq Days
        /\ missing # {} => \A d \in Unsettled \intersect History(ds) :
              ds \in Curves /\ got[u][ds][d] = "part" => d \in partial
    <2>1. PartialDays(u, ds, pass.today) \subseteq History(ds)
      BY <1>4 DEF PartialDays, History, UnsettledFrom
    <2>2. \A d \in Unsettled \intersect History(ds) :
              ds \in Curves /\ got[u][ds][d] = "part" => d \in PartialDays(u, ds, pass.today)
      BY <1>4 DEF PartialDays, History, Unsettled
    <2>3. QED
      BY <1>5, <2>1, <2>2
  <1> HIDE DEF missing, partial
  <1>8. windows \in Seq(Windows)
    BY <1>4, <1>6, <1>7, PlanWindowsType
  <1>9. Others(ds) \in Backlogs /\ DOMAIN Others(ds) = DOMAIN pass.todo \ {ds}
        /\ \A e \in DOMAIN Others(ds) : Others(ds)[e] = pass.todo[e]
    <2>1. /\ DOMAIN Others(ds) = DOMAIN pass.todo \ {ds}
          /\ \A e \in DOMAIN Others(ds) : Others(ds)[e] = pass.todo[e]
      BY DEF Others
    <2>2. DOMAIN pass.todo \subseteq Datasets /\ \A e \in DOMAIN pass.todo : pass.todo[e] \subseteq Days
      BY <1>3, BacklogType
    <2>3. Others(ds) \in [DOMAIN pass.todo \ {ds} -> SUBSET Days]
      BY <2>1, <2>2 DEF Others
    <2>4. QED
      BY <2>1, <2>2, <2>3 DEF Backlogs
  <1>10. Typed'
    BY <1>1, <1>2, <1>3, <1>6, <1>7, <1>8, <1>9 DEF Typed
  <1>11. Settlings'
    <2>1. pass'.today = pass.today
      BY <1>2
    <2>2. QED
      BY <1>1, <1>2, <2>1 DEF Settlings
  <1>12. BacklogsHold'
    <2>1. pass'.today = pass.today /\ pass'.up = pass.up /\ pass'.todo = Others(ds)
      BY <1>2
    <2>2. QED
      BY <1>1, <1>2, <1>9, <2>1 DEF BacklogsHold, History, HistoryStart
  <1>13. FetchHolds'
    <2>1. /\ pass'.today = pass.today /\ pass'.up = u /\ pass'.ds = ds /\ pass'.windows = windows
          /\ pass'.missing = missing /\ pass'.partial = partial
      BY <1>2
    <2>2. Plan' = windows /\ Unsettled' = Unsettled /\ History(ds)' = History(ds)
      BY <2>1 DEF Plan, Unsettled, UnsettledFrom, History, HistoryStart
    <2>3. \A i, j \in 1..Len(windows) : i < j => windows[j].end <= windows[i].start
      <3>1. /\ missing \in SUBSET Nat /\ IsFiniteSet(missing)
            /\ partial \in SUBSET Nat /\ IsFiniteSet(partial)
        BY <1>6, <1>7, Bounds
      <3>2. windows \in Seq(Spans) /\ Right(windows, missing, WindowDays[ds])
        BY <1>4, <3>1, PlanProperties
      <3> HIDE DEF windows
      <3>3. QED
        BY <3>2 DEF Right
    <2>4. \A d \in missing : got[u][ds][d] = "nothing"
      BY <1>1, <1>2 DEF BacklogsHold, missing
    <2>5. ASSUME missing # {}, NEW d \in Unsettled \intersect History(ds)
          PROVE  /\ d \notin missing /\ d \notin partial => got[u][ds][d] = "whole"
                 /\ got[u][ds][d] = "part" => d \in partial
      <3>1. got[u][ds][d] \in Holding /\ d \in Days
        BY <1>1, <1>3, <1>5 DEF Typed
      <3>2. got[u][ds][d] = "part" => d \in partial
        BY <1>1, <1>3, <1>7, <2>5, <3>1 DEF Settlings
      <3>3. d \notin gaps[u][ds]
        <4>1. d \in gaps[u][ds] => d <= pass.today - SettleDays
          BY <1>1, <1>2, <1>3 DEF Settlings
        <4>2. d >= pass.today - (SettleDays - 1) /\ d \in Int
          BY <1>4, <2>5 DEF Unsettled, UnsettledFrom
        <4>3. QED
          BY <1>4, <4>1, <4>2
      <3>4. d \notin missing => got[u][ds][d] # "nothing"
        BY <1>1, <1>2, <2>5, <3>3 DEF BacklogsHold, missing
      <3>5. QED
        BY <3>1, <3>2, <3>4 DEF Holding
    <2> HIDE DEF windows
    <2>6. QED
      BY <1>2, <1>6, <1>7, <2>1, <2>2, <2>3, <2>4, <2>5 DEF FetchHolds
  <1>14. QED
    BY <1>10, <1>11, <1>12, <1>13 DEF IInv

LEMMA Update ==
    ASSUME NEW A, NEW B, NEW C, NEW f \in [A -> [B -> C]], NEW a \in A, NEW b \in B, NEW c \in C,
           NEW g, g = [f EXCEPT ![a][b] = c]
    PROVE  /\ g \in [A -> [B -> C]]
           /\ \A x \in A, y \in B : g[x][y] = IF x = a /\ y = b THEN c ELSE f[x][y]
  OBVIOUS

Adds(g, f, a, b, more) == g = [f EXCEPT ![a][b] = @ \union more]
Added(g, f, A, B, T, a, b, more) ==
    /\ g \in [A -> [B -> SUBSET T]]
    /\ \A x \in A, y \in B : g[x][y] = IF x = a /\ y = b THEN f[x][y] \union more ELSE f[x][y]

LEMMA UpdateUnion ==
    ASSUME NEW A, NEW B, NEW T, NEW f \in [A -> [B -> SUBSET T]], NEW a \in A, NEW b \in B,
           NEW more \in SUBSET T, NEW g, Adds(g, f, a, b, more)
    PROVE  Added(g, f, A, B, T, a, b, more)
  <1>1. f[a][b] \union more \in SUBSET T
    OBVIOUS
  <1> DEFINE C == SUBSET T
             c == f[a][b] \union more
             h == [f[a] EXCEPT ![b] = c]
  <1>2. g = [f EXCEPT ![a] = h]
    BY DEF Adds
  <1>3. f \in [A -> [B -> C]] /\ c \in C
    BY <1>1
  <1> HIDE DEF C, c
  <1>4. h \in [B -> C] /\ \A y \in B : h[y] = IF y = b THEN c ELSE f[a][y]
    BY <1>3
  <1> HIDE DEF h
  <1>5. g \in [A -> [B -> C]] /\ \A x \in A : g[x] = IF x = a THEN h ELSE f[x]
    BY <1>2, <1>3, <1>4
  <1>6. \A x \in A, y \in B : g[x][y] = IF x = a /\ y = b THEN c ELSE f[x][y]
    BY <1>4, <1>5
  <1>7. \A x \in A, y \in B : x = a /\ y = b => f[x][y] \union more = c
    BY DEF c
  <1>8. QED
    BY <1>5, <1>6, <1>7 DEF C, Added

\* What an answer does to the days of its dataset.
LEMMA AnswerKept ==
    ASSUME Typed, Fetching, NEW answer \in Answers(Head(pass.windows), pass.ds), NEW completed
    PROVE  LET w == Head(pass.windows)
               old == got[pass.up][pass.ds]
               new == Cached(w, answer, completed)
           IN  /\ new \in [Days -> Holding]
               /\ \A d \in Days \ Clamp(w, answer) : new[d] = old[d]
               /\ \A d \in Clamp(w, answer) :
                    /\ Holds(w, d) /\ new[d] # "nothing"
                    /\ old[d] = "whole" => new[d] = "whole"
                    /\ new[d] = "part" => pass.ds \in Curves
  <1> DEFINE w == Head(pass.windows)
             old == got[pass.up][pass.ds]
             new == Cached(w, answer, completed)
  <1>1. old \in [Days -> Holding]
    BY Where DEF Typed, Fetching
  <1>2. \A d \in Days :
            new[d] = IF d \notin Clamp(w, answer) THEN old[d]
                     ELSE IF d \in completed \/ answer[d] = "whole" THEN "whole"
                     ELSE IF old[d] = "whole" THEN "whole" ELSE "part"
    BY DEF Cached
  <1>3. new \in [Days -> Holding]
    BY <1>1 DEF Cached, Holding
  <1>4. \A d \in DOMAIN answer : d \in Days /\ (answer[d] # "whole" => pass.ds \in Curves)
    BY DEF Answers
  <1>5. \A d \in Clamp(w, answer) : d \in DOMAIN answer /\ Holds(w, d)
    BY DEF Clamp
  <1> HIDE DEF w, old, new
  <1>6. QED
    BY <1>1, <1>2, <1>3, <1>4, <1>5 DEF w, old, new

\* What a fetch may do to the tables: its window's days come, settled days are given up.
Came(new, more) ==
    LET old == got[pass.up][pass.ds]
    IN  /\ new \in [Days -> Holding] /\ more \subseteq Days
        /\ \A d \in Days :
            \/ new[d] = old[d]
            \/ /\ Holds(Head(pass.windows), d) /\ new[d] # "nothing"
               /\ old[d] = "whole" => new[d] = "whole"
               /\ new[d] = "part" => pass.ds \in Curves
        /\ \A d \in more : d <= pass.today - SettleDays

LEMMA TablesKept ==
    ASSUME IInv, Fetching, NEW new, NEW more, Came(new, more),
           day' = day, got' = [got EXCEPT ![pass.up][pass.ds] = new],
           gaps' = [gaps EXCEPT ![pass.up][pass.ds] = @ \union more],
           pass' = Idle \/ pass'.today = pass.today
    PROVE  /\ got' \in [UsagePoints -> [Datasets -> [Days -> Holding]]]
           /\ gaps' \in [UsagePoints -> [Datasets -> SUBSET Days]]
           /\ \A u \in UsagePoints, e \in Datasets :
                /\ got'[u][e] = IF u = pass.up /\ e = pass.ds THEN new ELSE got[u][e]
                /\ gaps'[u][e] = IF u = pass.up /\ e = pass.ds
                                 THEN gaps[u][e] \union more ELSE gaps[u][e]
           /\ Settlings'
  <1>1. Typed /\ Settlings
    BY DEF IInv
  <1>2. /\ pass.up \in UsagePoints /\ pass.ds \in Datasets /\ pass # Idle
        /\ pass.today \in StartDay..day
    BY <1>1, Where DEF Fetching, Idle
  <1>3. /\ got \in [UsagePoints -> [Datasets -> [Days -> Holding]]]
        /\ gaps \in [UsagePoints -> [Datasets -> SUBSET Days]]
    BY <1>1 DEF Typed
  <1>4. /\ new \in [Days -> Holding] /\ more \subseteq Days
        /\ gaps[pass.up][pass.ds] \union more \in SUBSET Days
    BY <1>2, <1>3 DEF Came
  <1>5. /\ got' \in [UsagePoints -> [Datasets -> [Days -> Holding]]]
        /\ \A u \in UsagePoints, e \in Datasets :
              got'[u][e] = IF u = pass.up /\ e = pass.ds THEN new ELSE got[u][e]
    <2> DEFINE C == [Days -> Holding]
    <2>1. got \in [UsagePoints -> [Datasets -> C]] /\ new \in C
      BY <1>3, <1>4
    <2> HIDE DEF C
    <2>2. /\ got' \in [UsagePoints -> [Datasets -> C]]
          /\ \A u \in UsagePoints, e \in Datasets :
                got'[u][e] = IF u = pass.up /\ e = pass.ds THEN new ELSE got[u][e]
      BY <1>2, <2>1, Update
    <2>3. QED
      BY <2>2 DEF C
  <1>6. /\ gaps' \in [UsagePoints -> [Datasets -> SUBSET Days]]
        /\ \A u \in UsagePoints, e \in Datasets :
              gaps'[u][e] = IF u = pass.up /\ e = pass.ds
                            THEN gaps[u][e] \union more ELSE gaps[u][e]
    <2>1. more \in SUBSET Days /\ Adds(gaps', gaps, pass.up, pass.ds, more)
      BY <1>4 DEF Adds
    <2>2. Added(gaps', gaps, UsagePoints, Datasets, Days, pass.up, pass.ds, more)
      BY <1>2, <1>3, <2>1, UpdateUnion
    <2>3. QED
      BY <2>2 DEF Added
  <1>7. Settlings'
    <2>1. ASSUME NEW u \in UsagePoints, NEW e \in Datasets \ Curves, NEW d \in Days
          PROVE  got'[u][e][d] # "part"
      <3>1. got[u][e][d] # "part"
        BY <1>1, <2>1 DEF Settlings
      <3>2. u = pass.up /\ e = pass.ds => new[d] # "part"
        BY <3>1, <2>1 DEF Came
      <3>3. QED
        BY <1>5, <3>1, <3>2
    <2>2. ASSUME NEW u \in UsagePoints, NEW e \in Datasets, NEW d \in gaps'[u][e]
          PROVE  d <= day - SettleDays /\ d <= pass.today - SettleDays
      <3>1. CASE d \in gaps[u][e]
        BY <1>1, <1>2, <3>1 DEF Settlings
      <3>2. CASE d \notin gaps[u][e]
        <4>1. d \in more
          BY <1>6, <2>2, <3>2
        <4>2. d \in Int /\ d <= pass.today - SettleDays
          BY <1>4, <4>1, Bounds DEF Came
        <4>3. pass.today \in Int /\ day \in Int /\ pass.today <= day /\ SettleDays \in Int
          BY <1>1, <1>2, Bounds DEF Typed
        <4>4. QED
          BY <4>2, <4>3
      <3>3. QED
        BY <3>1, <3>2
    <2>3. QED
      BY <2>1, <2>2 DEF Settlings
  <1>8. QED
    BY <1>5, <1>6, <1>7

LEMMA NextWindowStep ==
    ASSUME IInv, Fetching, NEW new, NEW more, Came(new, more),
           day' = day, got' = [got EXCEPT ![pass.up][pass.ds] = new],
           gaps' = [gaps EXCEPT ![pass.up][pass.ds] = @ \union more],
           pass' = NextWindow
    PROVE  IInv'
  <1> DEFINE n == Len(pass.windows)
             w == Head(pass.windows)
             rest == Tail(pass.windows)
  <1>1. Typed /\ Settlings /\ BacklogsHold /\ FetchHolds
    BY DEF IInv
  <1>2. /\ pass \in [at : {"fetching"}, today : StartDay..day,
                left : SUBSET UsagePoints, up : UsagePoints, todo : Backlogs,
                ds : Datasets, missing : SUBSET Days, partial : SUBSET Days,
                windows : Seq(Windows)]
        /\ pass.up \notin pass.left /\ pass.ds \notin DOMAIN pass.todo
        /\ pass.windows # <<>>
    BY <1>1, Where DEF Fetching
  <1>3. /\ pass' = [at |-> "fetching", today |-> pass.today, left |-> pass.left,
                    up |-> pass.up, todo |-> pass.todo, ds |-> pass.ds,
                    missing |-> pass.missing, partial |-> pass.partial, windows |-> rest]
        /\ pass'.today = pass.today
    BY <1>2 DEF NextWindow
  <1>4. /\ got' \in [UsagePoints -> [Datasets -> [Days -> Holding]]]
        /\ gaps' \in [UsagePoints -> [Datasets -> SUBSET Days]]
        /\ \A u \in UsagePoints, e \in Datasets :
                /\ got'[u][e] = IF u = pass.up /\ e = pass.ds THEN new ELSE got[u][e]
                /\ gaps'[u][e] = IF u = pass.up /\ e = pass.ds
                                 THEN gaps[u][e] \union more ELSE gaps[u][e]
        /\ Settlings'
    BY <1>3, TablesKept
  <1>5. /\ n \in Nat /\ n >= 1 /\ w = pass.windows[1] /\ rest \in Seq(Windows)
        /\ Len(rest) = n - 1 /\ \A i \in 1..(n - 1) : rest[i] = pass.windows[i + 1]
    BY <1>2
  <1>6. Typed'
    <2>1. pass' \in [at : {"fetching"}, today : StartDay..day,
                left : SUBSET UsagePoints, up : UsagePoints, todo : Backlogs,
                ds : Datasets, missing : SUBSET Days, partial : SUBSET Days,
                windows : Seq(Windows)]
      BY <1>2, <1>3, <1>5
    <2>2. pass'.up \notin pass'.left /\ pass'.ds \notin DOMAIN pass'.todo
      BY <1>2, <1>3
    <2>3. day' \in StartDay..LastDay
      BY <1>1 DEF Typed
    <2>4. QED
      BY <1>4, <2>1, <2>2, <2>3 DEF Typed
  <1>7. BacklogsHold'
    <2>1. DOMAIN pass.todo \subseteq Datasets /\ pass.up \in UsagePoints
      BY <1>2, BacklogType
    <2>2. \A e \in DOMAIN pass.todo :
              got'[pass.up][e] = got[pass.up][e] /\ gaps'[pass.up][e] = gaps[pass.up][e]
      BY <1>2, <1>4, <2>1
    <2>3. pass'.today = pass.today /\ pass'.up = pass.up /\ pass'.todo = pass.todo
      BY <1>3
    <2>4. QED
      BY <1>1, <1>2, <2>2, <2>3 DEF BacklogsHold, History, HistoryStart
  <1>8. FetchHolds'
    <2>1. /\ pass'.today = pass.today /\ pass'.up = pass.up /\ pass'.ds = pass.ds
          /\ pass'.windows = rest
          /\ pass'.missing = pass.missing /\ pass'.partial = pass.partial
      BY <1>3
    <2>2. Plan' = Plan /\ Unsettled' = Unsettled /\ History(pass.ds)' = History(pass.ds)
      BY <2>1 DEF Plan, Unsettled, UnsettledFrom, History, HistoryStart
    <2> DEFINE old == got[pass.up][pass.ds]
    <2>3. got'[pass.up][pass.ds] = new
      BY <1>2, <1>4
    <2>4. \A d \in Days :
            \/ new[d] = old[d]
            \/ /\ Holds(w, d) /\ new[d] # "nothing"
               /\ old[d] = "whole" => new[d] = "whole"
      BY DEF Came
    <2>5. /\ pass.missing \subseteq History(pass.ds) /\ pass.partial \subseteq History(pass.ds)
          /\ \A i \in 1..n : \E j \in 1..Len(Plan) : pass.windows[i] = Plan[j]
          /\ \A i, j \in 1..n : i < j => pass.windows[j].end <= pass.windows[i].start
          /\ \A i \in 1..n : \A d \in pass.missing : Holds(pass.windows[i], d) => old[d] = "nothing"
          /\ pass.missing # {} => \A d \in Unsettled \intersect History(pass.ds) :
                /\ d \notin pass.missing /\ d \notin pass.partial => old[d] = "whole"
                /\ old[d] = "part" => d \in pass.partial \/ HeldIn(Plan, d)
      BY <1>1, <1>2 DEF FetchHolds
    <2> HIDE DEF old, w, rest
    <2>6. \A i \in 1..(n - 1) : i \in 1..n /\ i + 1 \in 1..n
      BY <1>5
    <2>7. \A i \in 1..(n - 1) : \E j \in 1..Len(Plan) : rest[i] = Plan[j]
      BY <1>5, <2>5, <2>6
    <2>8. \A i, j \in 1..(n - 1) : i < j => rest[j].end <= rest[i].start
      <3> SUFFICES ASSUME NEW i \in 1..(n - 1), NEW j \in 1..(n - 1), i < j
                   PROVE  rest[j].end <= rest[i].start
        OBVIOUS
      <3>1. i + 1 \in 1..n /\ j + 1 \in 1..n /\ i + 1 < j + 1
        BY <1>5
      <3>2. QED
        BY <1>5, <2>5, <3>1
    <2>9. ASSUME NEW i \in 1..(n - 1), NEW d \in pass.missing, Holds(rest[i], d)
          PROVE  new[d] = "nothing"
      <3>1. i + 1 \in 1..n /\ 1 \in 1..n /\ 1 < i + 1 /\ rest[i] = pass.windows[i + 1]
        BY <1>5
      <3>2. old[d] = "nothing" /\ rest[i].end <= w.start
        BY <1>5, <2>5, <2>9, <3>1
      <3>3. /\ pass.windows[1] \in Windows /\ pass.windows[i + 1] \in Windows
            /\ d \in Days
        BY <1>2, <3>1
      <3>4. d \in Int /\ w.start \in Int /\ rest[i].end \in Int
        <4>1. \A v \in Windows : v.start \in Days /\ v.end \in Int
          BY DEF Windows
        <4>2. \A e \in Days : e \in Int
          BY Bounds
        <4>3. w \in Windows /\ rest[i] \in Windows
          BY <1>5, <3>1, <3>3
        <4>4. QED
          BY <3>3, <4>1, <4>2, <4>3
      <3>5. ~Holds(w, d)
        BY <2>9, <3>2, <3>4 DEF Holds
      <3>6. QED
        BY <2>4, <3>2, <3>3, <3>5
    <2>10. ASSUME pass.missing # {}, NEW d \in Unsettled \intersect History(pass.ds)
           PROVE  /\ d \notin pass.missing /\ d \notin pass.partial => new[d] = "whole"
                  /\ new[d] = "part" => d \in pass.partial \/ HeldIn(Plan, d)
      <3>1. d \in Days
        <4>1. /\ pass.today \in StartDay..day /\ day \in StartDay..LastDay
              /\ HistoryStart(pass.ds, pass.today) >= 1
          BY <1>1, <1>2, Bounds DEF Typed, HistoryStart
        <4>2. /\ pass.today \in Int /\ pass.today <= LastDay /\ d \in Int
              /\ HistoryStart(pass.ds, pass.today) <= d /\ d <= pass.today - 1
          BY <1>2, <2>10, <4>1, Bounds DEF History, HistoryStart
        <4>3. HistoryStart(pass.ds, pass.today) \in Int
          BY <1>2, <4>2, Bounds DEF HistoryStart
        <4>4. QED
          BY <4>1, <4>2, <4>3, Bounds DEF Days
      <3>2. Holds(w, d) => HeldIn(Plan, d)
        <4>1. 1 \in 1..n
          BY <1>5
        <4>2. PICK j \in 1..Len(Plan) : w = Plan[j]
          BY <1>5, <2>5, <4>1
        <4>3. QED
          BY <4>2 DEF HeldIn
      <3>3. QED
        BY <2>4, <2>5, <2>10, <3>1, <3>2
    <2>11. QED
      <3>1. \A d : HeldIn(Plan', d) = HeldIn(Plan, d)
        BY <2>2
      <3>2. Len(pass'.windows) = n - 1
        BY <1>5, <2>1
      <3> HIDE DEF n
      <3>3. QED
        BY <2>1, <2>2, <2>3, <2>5, <2>7, <2>8, <2>9, <2>10, <3>1, <3>2 DEF FetchHolds, HeldIn
  <1>9. QED
    BY <1>4, <1>6, <1>7, <1>8 DEF IInv

LEMMA AnswerStep ==
    ASSUME IInv, Fetching, NEW answer \in Answers(Head(pass.windows), pass.ds),
           NEW confirmed \in BOOLEAN, FetchAnswer(answer, confirmed)
    PROVE  IInv'
  <1> DEFINE w == Head(pass.windows)
             more == SettledGaps(Asked(w), Clamp(w, answer), pass.today)
  <1>1. Typed
    BY DEF IInv
  <1>2. /\ pass.up \in UsagePoints /\ pass.ds \in Datasets /\ pass.today \in Int
        /\ pass.missing \in SUBSET Days /\ pass # Idle
    <2>1. pass.at = "fetching" /\ pass # Idle
      BY DEF Fetching, Idle
    <2>2. StartDay..day \subseteq Int
      BY <1>1, Bounds DEF Typed
    <2>3. QED
      BY <1>1, <2>1, <2>2, Where
  <1>3. PICK completed : got' = [got EXCEPT ![pass.up][pass.ds] = Cached(w, answer, completed)]
    BY DEF FetchAnswer
  <1> DEFINE new == Cached(w, answer, completed)
             old == got[pass.up][pass.ds]
  <1>4. /\ new \in [Days -> Holding]
        /\ \A d \in Days \ Clamp(w, answer) : new[d] = old[d]
        /\ \A d \in Clamp(w, answer) :
             /\ Holds(w, d) /\ new[d] # "nothing"
             /\ old[d] = "whole" => new[d] = "whole"
             /\ new[d] = "part" => pass.ds \in Curves
    BY <1>1, AnswerKept
  <1>5. more \subseteq Days /\ \A d \in more : d <= pass.today - SettleDays
    BY <1>2 DEF SettledGaps, Asked
  <1> HIDE DEF more, new
  <1>6. Came(new, more) /\ Came(new, {})
    BY <1>4, <1>5 DEF Came
  <1>7. CASE confirmed
    <2>1. /\ gaps' = [gaps EXCEPT ![pass.up][pass.ds] = @ \union more]
          /\ pass' = NextWindow /\ day' = day
      BY <1>7 DEF FetchAnswer, more
    <2>2. QED
      BY <1>3, <1>6, <2>1, NextWindowStep DEF new
  <1>8. CASE ~confirmed
    <2>1. gaps' = gaps /\ pass' = Idle /\ day' = day
      BY <1>8 DEF FetchAnswer
    <2>2. gaps \in [UsagePoints -> [Datasets -> SUBSET Days]]
      BY <1>1 DEF Typed
    <2>3. gaps = [gaps EXCEPT ![pass.up][pass.ds] = @ \union {}]
      <3>1. gaps[pass.up][pass.ds] \union {} = gaps[pass.up][pass.ds]
        OBVIOUS
      <3>2. QED
        BY <1>2, <2>2, <3>1
    <2>4. /\ got' \in [UsagePoints -> [Datasets -> [Days -> Holding]]]
          /\ Settlings'
      BY <1>3, <1>6, <2>1, <2>3, TablesKept DEF new
    <2>5. Typed'
      BY <1>1, <2>1, <2>4 DEF Typed
    <2>6. BacklogsHold' /\ FetchHolds'
      BY <2>1 DEF BacklogsHold, FetchHolds, Idle
    <2>7. QED
      BY <2>4, <2>5, <2>6 DEF IInv
  <1>9. QED
    BY <1>7, <1>8

LEMMA NothingStep ==
    ASSUME IInv, FetchNothing
    PROVE  IInv'
  <1> DEFINE w == Head(pass.windows)
             old == got[pass.up][pass.ds]
             more == IF Settled(w) THEN SettledGaps(Asked(w), {}, pass.today) ELSE {}
  <1>1. Typed /\ Fetching
    BY DEF IInv, FetchNothing
  <1>2. /\ pass.up \in UsagePoints /\ pass.ds \in Datasets /\ pass.missing \in SUBSET Days
    BY <1>1, Where DEF Fetching
  <1>3. /\ got \in [UsagePoints -> [Datasets -> [Days -> Holding]]]
        /\ gaps \in [UsagePoints -> [Datasets -> SUBSET Days]]
    BY <1>1 DEF Typed
  <1>4. more \subseteq Days /\ \A d \in more : d <= pass.today - SettleDays
    BY <1>2 DEF SettledGaps, Asked
  <1>5. gaps' = [gaps EXCEPT ![pass.up][pass.ds] = @ \union more]
    <2>1. CASE Settled(w)
      BY <2>1 DEF FetchNothing
    <2>2. CASE ~Settled(w)
      <3>1. gaps[pass.up][pass.ds] \union more = gaps[pass.up][pass.ds]
        BY <2>2
      <3>2. gaps' = gaps
        BY <2>2 DEF FetchNothing
      <3> HIDE DEF more
      <3>3. QED
        BY <1>2, <1>3, <3>1, <3>2
    <2>3. QED
      BY <2>1, <2>2
  <1>6. got' = [got EXCEPT ![pass.up][pass.ds] = old] /\ pass' = NextWindow /\ day' = day
    BY <1>2, <1>3 DEF FetchNothing
  <1>7. old \in [Days -> Holding]
    BY <1>2, <1>3
  <1> HIDE DEF more
  <1>8. Came(old, more)
    BY <1>4, <1>7 DEF Came
  <1> HIDE DEF old
  <1>9. QED
    BY <1>1, <1>5, <1>6, <1>8, NextWindowStep

LEMMA StepHolds == IInv /\ [Next]_vars => IInv'
  <1> SUFFICES ASSUME IInv, [Next]_vars PROVE IInv'
    OBVIOUS
  <1>1. CASE Tomorrow \/ StartPass \/ EndTurn \/ TurnDone \/ EndPass \/ Crash
    <2>1. got' = got /\ gaps' = gaps
      BY <1>1 DEF Tomorrow, StartPass, EndTurn, TurnDone, EndPass, Crash
    <2>2. QED
      BY <1>1, <2>1, OutsideStep
  <1>2. CASE \E u \in UsagePoints, due \in BOOLEAN : TakeTurn(u, due)
    BY <1>2, TurnStep
  <1>3. CASE Consent \/ DatasetDone
    BY <1>3, BetweenStep
  <1>4. CASE \E ds \in Datasets : PlanDataset(ds)
    BY <1>4, PlanStep
  <1>5. CASE /\ Fetching
             /\ \E answer \in Answers(Head(pass.windows), pass.ds), confirmed \in BOOLEAN :
                   FetchAnswer(answer, confirmed)
    BY <1>5, AnswerStep
  <1>6. CASE FetchNothing
    BY <1>6, NothingStep
  <1>7. CASE UNCHANGED vars
    <2>1. day' = day /\ got' = got /\ gaps' = gaps /\ pass' = pass
      BY <1>7 DEF vars
    <2>2. Typed' = Typed /\ Settlings' = Settlings /\ BacklogsHold' = BacklogsHold
      BY <2>1 DEF Typed, Settlings, BacklogsHold, History, HistoryStart
    <2>3. FetchHolds' = FetchHolds
      BY <2>1 DEF FetchHolds, History, HistoryStart, Unsettled, UnsettledFrom, Plan, HeldIn
    <2>4. QED
      BY <2>2, <2>3 DEF IInv
  <1>8. QED
    BY <1>1, <1>2, <1>3, <1>4, <1>5, <1>6, <1>7 DEF Next

------------------------------------------------------------------------------
(***************************************************************************)
(* What follows.                                                           *)
(***************************************************************************)

LEMMA InvariantTypeOK == IInv => TypeOK
  <1> SUFFICES ASSUME IInv PROVE TypeOK
    OBVIOUS
  <1>1. Typed
    BY DEF IInv
  <1>2. pass.at \in {"idle", "points", "consent", "datasets", "fetching"}
    BY <1>1 DEF Typed, Idle
  <1>3. pass.at \in {"consent", "datasets", "fetching"} =>
            pass.up \in UsagePoints \ pass.left /\ pass.todo \in Backlogs
    BY <1>1, Where
  <1>4. pass.at \in {"consent", "datasets", "fetching"} =>
            DOMAIN pass.todo \subseteq Datasets /\ \A ds \in DOMAIN pass.todo : pass.todo[ds] \subseteq Days
    BY <1>3, BacklogType
  <1>5. pass.at = "fetching" =>
            /\ pass.ds \in Datasets \ DOMAIN pass.todo
            /\ pass.missing \subseteq Days /\ pass.partial \subseteq Days
            /\ Range(pass.windows) \subseteq Windows
    <2>1. pass.at = "fetching" =>
            /\ pass.ds \in Datasets /\ pass.ds \notin DOMAIN pass.todo
            /\ pass.missing \in SUBSET Days /\ pass.partial \in SUBSET Days
            /\ pass.windows \in Seq(Windows)
      BY <1>1, Where
    <2>2. \A ws \in Seq(Windows) : Range(ws) \subseteq Windows
      BY DEF Range
    <2>3. QED
      BY <2>1, <2>2
  <1>6. /\ day \in StartDay..LastDay
        /\ got \in [UsagePoints -> [Datasets -> [Days -> Holding]]]
        /\ gaps \in [UsagePoints -> [Datasets -> SUBSET Days]]
    BY <1>1 DEF Typed
  <1>7. pass # Idle => pass.today \in StartDay..day /\ pass.left \subseteq UsagePoints
    BY <1>1, Where
  <1>8. QED
    BY <1>2, <1>3, <1>4, <1>5, <1>6, <1>7 DEF TypeOK

\* What is planned: sets of days, by their own bounds.
LEMMA PlannedDays ==
    ASSUME Typed, pass.at = "fetching"
    PROVE  /\ pass.missing \in SUBSET Nat /\ IsFiniteSet(pass.missing)
           /\ pass.partial \in SUBSET Nat /\ IsFiniteSet(pass.partial)
           /\ pass.ds \in Datasets /\ WindowDays[pass.ds] \in Nat \ {0}
           /\ pass.up \in UsagePoints /\ pass.windows \in Seq(Windows)
           /\ pass.today \in StartDay..day /\ pass.today \in Int
  <1>1. /\ pass.ds \in Datasets /\ pass.up \in UsagePoints
        /\ pass.missing \in SUBSET Days /\ pass.partial \in SUBSET Days
        /\ pass.windows \in Seq(Windows) /\ pass.today \in StartDay..day
    BY Where
  <1>2. StartDay..day \subseteq Int
    BY Bounds DEF Typed
  <1>3. QED
    BY <1>1, <1>2, Bounds

LEMMA InvariantPlanIsRight == IInv => PlanIsRight
  <1> SUFFICES ASSUME IInv, pass.at = "fetching"
               PROVE  LET max == WindowDays[pass.ds]
                          plan == PlanWindows(pass.missing, max, pass.partial)
                      IN  /\ Len(plan) = Fewest(pass.missing, max)
                          /\ \A d \in pass.missing :
                                Cardinality({i \in DOMAIN plan : Holds(plan[i], d)}) = 1
                          /\ \A i \in DOMAIN plan : Length(plan[i]) <= max
                          /\ \A i, j \in DOMAIN plan : i < j => plan[j].end <= plan[i].start
    BY DEF PlanIsRight
  <1>1. /\ pass.missing \in SUBSET Nat /\ IsFiniteSet(pass.missing)
        /\ pass.partial \in SUBSET Nat /\ IsFiniteSet(pass.partial)
        /\ WindowDays[pass.ds] \in Nat \ {0}
    BY PlannedDays DEF IInv
  <1> DEFINE max == WindowDays[pass.ds]
             plan == PlanWindows(pass.missing, max, pass.partial)
  <1>2. Right(plan, pass.missing, max)
    BY <1>1, PlanProperties
  <1>3. QED
    BY <1>2 DEF Right

LEMMA InvariantRidesAlong == IInv => RidesAlong
  <1> SUFFICES ASSUME IInv, pass.at = "fetching", pass.today - 1 \in pass.missing,
                      NEW d \in UnsettledFrom(pass.today)..(pass.today - 1),
                      d >= HistoryStart(pass.ds, pass.today),
                      got[pass.up][pass.ds][d] = "part",
                      WindowDays[pass.ds] >= SettleDays - 1
               PROVE  \E i \in DOMAIN Plan : Holds(Plan[i], d)
    BY DEF RidesAlong, Plan
  <1>1. Typed /\ FetchHolds
    BY DEF IInv
  <1>2. /\ pass.missing \in SUBSET Nat /\ IsFiniteSet(pass.missing)
        /\ pass.partial \in SUBSET Nat /\ IsFiniteSet(pass.partial)
        /\ pass.ds \in Datasets /\ WindowDays[pass.ds] \in Nat \ {0} /\ pass.today \in Int
    BY <1>1, PlannedDays
  <1>3. HistoryStart(pass.ds, pass.today) \in Int /\ SettleDays \in Int /\ d \in Int
    BY <1>2, Bounds DEF HistoryStart, UnsettledFrom
  <1>4. d \in Unsettled \intersect History(pass.ds)
    BY <1>2, <1>3 DEF Unsettled, History
  <1>5. d \in pass.partial \/ HeldIn(Plan, d)
    BY <1>1, <1>4 DEF FetchHolds
  <1>6. HeldIn(Plan, d)
    <2>1. SUFFICES ASSUME d \in pass.partial PROVE HeldIn(Plan, d)
      BY <1>5
    <2>2. \A e \in pass.missing \union pass.partial : e < pass.today
      <3>1. \A e \in History(pass.ds) : e < pass.today
        BY <1>2, <1>3 DEF History
      <3>2. QED
        BY <1>1, <3>1 DEF FetchHolds
    <2>3. pass.today - d <= WindowDays[pass.ds]
      <3>1. pass.today - (SettleDays - 1) <= d
        BY <1>2, <1>3 DEF UnsettledFrom
      <3>2. QED
        BY <1>2, <1>3, <3>1
    <2>4. QED
      BY <1>2, <2>1, <2>2, <2>3, PlanProperties DEF Plan
  <1>7. Plan \in Seq(Spans)
    BY <1>2, PlanProperties DEF Plan
  <1>8. QED
    BY <1>6, <1>7 DEF HeldIn

LEMMA InvariantFreshAnswers == IInv => FreshAnswers
  <1> DEFINE w == Head(pass.windows)
  <1> SUFFICES ASSUME IInv, Fetching, UseCache(w),
                      NEW d \in UnsettledFrom(pass.today)..(pass.today - 1), Holds(w, d)
               PROVE  got[pass.up][pass.ds][d] = "whole"
    BY DEF FreshAnswers
  <1>1. Typed /\ FetchHolds /\ pass.at = "fetching" /\ pass.windows # <<>>
    BY DEF IInv, Fetching
  <1>2. /\ pass.missing \in SUBSET Nat /\ IsFiniteSet(pass.missing)
        /\ pass.partial \in SUBSET Nat /\ IsFiniteSet(pass.partial)
        /\ pass.ds \in Datasets /\ WindowDays[pass.ds] \in Nat \ {0}
        /\ pass.windows \in Seq(Windows) /\ pass.today \in Int
    BY <1>1, PlannedDays
  <1>3. /\ Plan \in Seq(Spans)
        /\ \A j \in DOMAIN Plan : Plan[j].start \in pass.missing \union pass.partial
        /\ pass.missing = {} => Plan = <<>>
    BY <1>2, PlanProperties DEF Plan
  <1>4. PICK j \in 1..Len(Plan) : w = Plan[j]
    <2>1. 1 \in 1..Len(pass.windows) /\ w = pass.windows[1]
      BY <1>1, <1>2
    <2>2. QED
      BY <1>1, <2>1 DEF FetchHolds
  <1>5. w.start \in History(pass.ds) /\ pass.missing # {}
    <2>1. j \in DOMAIN Plan /\ Plan # <<>>
      BY <1>3, <1>4
    <2>2. QED
      BY <1>1, <1>3, <1>4, <2>1 DEF FetchHolds
  <1>6. d \in Unsettled \intersect History(pass.ds)
    <2>1. HistoryStart(pass.ds, pass.today) \in Int /\ UnsettledFrom(pass.today) \in Int
      BY <1>2, Bounds DEF HistoryStart, UnsettledFrom
    <2>2. w.start <= d /\ w.start \in Int /\ HistoryStart(pass.ds, pass.today) <= w.start
      BY <1>2, <1>5, <2>1 DEF Holds, History
    <2>3. QED
      BY <1>2, <2>1, <2>2 DEF Unsettled, History
  <1>7. d \notin pass.partial
    BY DEF UseCache
  <1>8. d \notin pass.missing
    <2>1. d \in pass.missing => d < UnsettledFrom(pass.today)
      BY DEF UseCache, Asked
    <2>2. UnsettledFrom(pass.today) \in Int
      BY <1>2, Bounds DEF UnsettledFrom
    <2>3. QED
      BY <2>1, <2>2
  <1>9. QED
    BY <1>1, <1>5, <1>6, <1>7, <1>8 DEF FetchHolds

\* A step that gives a day up: it is a missing day of the window, which its own answer,
\* or none, left out.
LEMMA GivesUpSettled ==
    ASSUME IInv, [Next]_vars, NEW u \in UsagePoints, NEW ds \in Datasets,
           NEW d \in gaps'[u][ds] \ gaps[u][ds]
    PROVE  d <= day - SettleDays /\ got'[u][ds][d] = "nothing"
  <1> DEFINE w == Head(pass.windows)
             old == got[pass.up][pass.ds]
  <1>1. Typed /\ Settlings /\ BacklogsHold /\ FetchHolds /\ gaps' # gaps
    BY DEF IInv
  <1>2. PICK answered \in SUBSET Days :
            /\ Fetching
            /\ gaps' = [gaps EXCEPT ![pass.up][pass.ds] =
                            @ \union SettledGaps(Asked(w), answered, pass.today)]
            /\ \/ got' = got
               \/ \E new : /\ got' = [got EXCEPT ![pass.up][pass.ds] = new]
                           /\ new \in [Days -> Holding]
                           /\ \A e \in Days \ answered : new[e] = old[e]
    <2>1. CASE FetchNothing
      <3>1. /\ Fetching /\ got' = got
            /\ gaps' = [gaps EXCEPT ![pass.up][pass.ds] =
                            @ \union SettledGaps(Asked(w), {}, pass.today)]
        BY <1>1, <2>1 DEF FetchNothing
      <3>2. {} \in SUBSET Days
        OBVIOUS
      <3> DEFINE none == {}
      <3>3. /\ none \in SUBSET Days /\ Fetching /\ got' = got
            /\ gaps' = [gaps EXCEPT ![pass.up][pass.ds] =
                            @ \union SettledGaps(Asked(w), none, pass.today)]
        BY <3>1, <3>2
      <3> HIDE DEF none
      <3>4. QED
        BY <3>3
    <2>2. CASE /\ Fetching
               /\ \E answer \in Answers(w, pass.ds), confirmed \in BOOLEAN :
                     FetchAnswer(answer, confirmed)
      <3>1. PICK answer \in Answers(w, pass.ds), confirmed \in BOOLEAN :
                FetchAnswer(answer, confirmed)
        BY <2>2
      <3>2. PICK completed : got' = [got EXCEPT ![pass.up][pass.ds] = Cached(w, answer, completed)]
        BY <3>1 DEF FetchAnswer
      <3>3. gaps' = [gaps EXCEPT ![pass.up][pass.ds] =
                        @ \union SettledGaps(Asked(w), Clamp(w, answer), pass.today)]
        BY <1>1, <3>1 DEF FetchAnswer
      <3>4. Clamp(w, answer) \in SUBSET Days
        BY DEF Clamp, Answers
      <3> DEFINE new == Cached(w, answer, completed)
      <3>5. /\ new \in [Days -> Holding]
            /\ \A e \in Days \ Clamp(w, answer) : new[e] = old[e]
        BY <1>1, <2>2, AnswerKept
      <3> HIDE DEF new
      <3>6. \E n : /\ got' = [got EXCEPT ![pass.up][pass.ds] = n]
                   /\ n \in [Days -> Holding]
                   /\ \A e \in Days \ Clamp(w, answer) : n[e] = old[e]
        BY <3>2, <3>5 DEF new
      <3>7. QED
        BY <2>2, <3>3, <3>4, <3>6
    <2>3. QED
      BY <1>1, <2>1, <2>2 DEF Next, vars, Tomorrow, StartPass, TakeTurn, Consent, EndTurn,
         TurnDone, EndPass, Crash, PlanDataset, DatasetDone
  <1>3. pass.at = "fetching" /\ pass.windows # <<>>
    BY <1>2 DEF Fetching
  <1>4. /\ pass.missing \in SUBSET Nat /\ pass.missing \subseteq Days
        /\ pass.ds \in Datasets /\ pass.up \in UsagePoints /\ pass.windows \in Seq(Windows)
        /\ pass.today \in StartDay..day /\ pass.today \in Int
    BY <1>1, <1>3, PlannedDays, Where
  <1> DEFINE more == SettledGaps(Asked(w), answered, pass.today)
  <1>5. more \subseteq Days
    BY <1>4 DEF SettledGaps, Asked
  <1>6. /\ u = pass.up /\ ds = pass.ds /\ d \in more
    <2>1. gaps \in [UsagePoints -> [Datasets -> SUBSET Days]]
      BY <1>1 DEF Typed
    <2>2. Adds(gaps', gaps, pass.up, pass.ds, more)
      BY <1>2 DEF Adds
    <2> HIDE DEF more
    <2>3. Added(gaps', gaps, UsagePoints, Datasets, Days, pass.up, pass.ds, more)
      BY <1>4, <1>5, <2>1, <2>2, UpdateUnion
    <2>4. gaps'[u][ds] = IF u = pass.up /\ ds = pass.ds
                         THEN gaps[u][ds] \union more ELSE gaps[u][ds]
      BY <2>3 DEF Added
    <2>5. QED
      BY <2>4
  <1>7. /\ d \in pass.missing /\ Holds(w, d) /\ d \notin answered
        /\ d <= pass.today - SettleDays
    BY <1>6 DEF SettledGaps, Asked
  <1>8. d <= day - SettleDays
    <2>1. d \in Int /\ day \in Int /\ pass.today <= day /\ SettleDays \in Int
      BY <1>1, <1>4, <1>7, Bounds DEF Typed
    <2>2. \A a, b, c, e \in Int : a <= b - c /\ b <= e => a <= e - c
      OBVIOUS
    <2>3. QED
      BY <1>4, <1>7, <2>1, <2>2
  <1>9. old[d] = "nothing"
    <2>1. 1 \in 1..Len(pass.windows) /\ w = pass.windows[1]
      BY <1>3, <1>4
    <2>2. QED
      BY <1>1, <1>3, <1>7, <2>1 DEF FetchHolds
  <1>10. got'[u][ds][d] = "nothing"
    <2>1. CASE got' = got
      BY <1>6, <1>9, <2>1
    <2>2. CASE \E new : /\ got' = [got EXCEPT ![pass.up][pass.ds] = new]
                        /\ new \in [Days -> Holding]
                        /\ \A e \in Days \ answered : new[e] = old[e]
      <3>1. PICK new : /\ got' = [got EXCEPT ![pass.up][pass.ds] = new]
                       /\ new \in [Days -> Holding]
                       /\ \A e \in Days \ answered : new[e] = old[e]
        BY <2>2
      <3>2. got \in [UsagePoints -> [Datasets -> [Days -> Holding]]]
        BY <1>1 DEF Typed
      <3>3. got'[u][ds] = new
        BY <1>4, <1>6, <3>1, <3>2
      <3>4. QED
        BY <1>4, <1>7, <1>9, <3>1, <3>3
    <2>3. QED
      BY <1>2, <2>1, <2>2
  <1>11. QED
    BY <1>8, <1>10

\* The tables and the pass keep their types at every step of every pass (sync.py,
\* run_pass): a turn's backlogs, the windows of a plan and the days given up are days
\* of the history.
THEOREM TypeIsInvariant == Spec => []TypeOK
  <1>1. QED
    BY InitHolds, StepHolds, InvariantTypeOK, PTL DEF Spec

\* Whatever the backlog, the partial days and the width of a window, the windows planned
\* are as few as can be, hold each missing day once, are never too wide and never meet
\* (planning.py, plan_windows).
THEOREM PlansAreRight == Spec => []PlanIsRight
  <1>1. QED
    BY InitHolds, StepHolds, InvariantPlanIsRight, PTL DEF Spec

\* When yesterday is missing, every unsettled day that holds part of a curve is in the
\* plan (sync.py, partial_days).
THEOREM PartialDaysRide == Spec => []RidesAlong
  <1>1. QED
    BY InitHolds, StepHolds, InvariantRidesAlong, PTL DEF Spec

\* The gateway's cache is only asked for a window whose unsettled days are whole in the
\* local one (sync.py, sync_dataset).
THEOREM CacheIsSafe == Spec => []FreshAnswers
  <1>1. QED
    BY InitHolds, StepHolds, InvariantFreshAnswers, PTL DEF Spec

\* A day is given up when it is settled by the clock, and never one the cache has data
\* of (planning.py, settled_gaps).
THEOREM GapsAreFinal == Spec => GivenUpWhenSettled
  <1>1. IInv /\ [Next]_vars =>
            [\A u \in UsagePoints, ds \in Datasets : \A d \in gaps'[u][ds] \ gaps[u][ds] :
                d <= day - SettleDays /\ got'[u][ds][d] = "nothing"]_vars
    BY GivesUpSettled
  <1>2. QED
    BY <1>1, InitHolds, StepHolds, PTL DEF Spec, GivenUpWhenSettled
==============================================================================
