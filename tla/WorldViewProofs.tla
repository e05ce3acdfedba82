------------------------------ MODULE WorldViewProofs ------------------------------
(* Proofs about WorldView: the types, and that the messages under way turn the *)
(* mirror of the page into the view that the next delta will be made from.     *)
EXTENDS WorldView, PrefixInduction, SequenceTheorems

-----------------------------------------------------------------------------------
(* The mirrors that a page goes through: what Mirrors computes, by induction.      *)

\* A function that has the recursion of Mirrors up to n.
Runs(f, mirror, s, n) ==
  f = [i \in 0..n |-> IF i = 0 THEN mirror ELSE Applied(f[i - 1], s[i])]

LEMMA RunsExist ==
  ASSUME NEW mirror, NEW s, NEW n \in Nat
  PROVE  \E f : Runs(f, mirror, s, n)
<1> DEFINE T == {k \in Nat : \E f : Runs(f, mirror, s, k)}
<1>1. 0 \in T
  <2>1. Runs([i \in 0..0 |-> mirror], mirror, s, 0)
    BY DEF Runs
  <2> QED BY <2>1
<1>2. ASSUME NEW k \in 1..n, k - 1 \in T PROVE k \in T
  <2>1. k \in Nat /\ k - 1 \in Nat /\ k # 0
    OBVIOUS
  <2>2. PICK f : Runs(f, mirror, s, k - 1)
    BY <1>2
  <2> DEFINE g == [i \in 0..k |-> IF i = k THEN Applied(f[k - 1], s[k]) ELSE f[i]]
  <2>3. \A i \in 0..k : g[i] = IF i = 0 THEN mirror ELSE Applied(g[i - 1], s[i])
    <3> TAKE i \in 0..k
    <3>1. \A j \in 0..k - 1 : f[j] = IF j = 0 THEN mirror ELSE Applied(f[j - 1], s[j])
      BY <2>2 DEF Runs
    <3>2. CASE i = k
      BY <3>2, <2>1
    <3>3. CASE i # k
      <4>1. i \in 0..k - 1 /\ g[i] = f[i]
        BY <3>3, <2>1
      <4>2. i # 0 => i - 1 \in 0..k /\ i - 1 # k /\ g[i - 1] = f[i - 1]
        BY <3>3, <2>1
      <4> QED BY <4>1, <4>2, <3>1
    <3> QED BY <3>2, <3>3
  <2>4. Runs(g, mirror, s, k)
    BY <2>3 DEF Runs
  <2> QED BY <2>1, <2>4
<1>3. \A i \in 0..n : i \in T
  <2> HIDE DEF T
  <2> QED BY <1>1, <1>2, Inducts
<1> QED BY <1>3

\* Two sequences with the same n first elements.
Same(s1, s2, n) == \A i \in 1..n : s1[i] = s2[i]

LEMMA RunsAgree ==
  ASSUME NEW mirror, NEW n \in Nat,
         NEW s1, NEW n1 \in Nat, n <= n1, NEW f, Runs(f, mirror, s1, n1),
         NEW s2, NEW n2 \in Nat, n <= n2, NEW g, Runs(g, mirror, s2, n2),
         Same(s1, s2, n)
  PROVE  \A i \in 0..n : f[i] = g[i]
<1>1. f[0] = mirror /\ g[0] = mirror
  BY DEF Runs
<1>2. ASSUME NEW i \in 1..n, f[i - 1] = g[i - 1] PROVE f[i] = g[i]
  <2>1. i \in 0..n1 /\ i \in 0..n2 /\ i # 0
    OBVIOUS
  <2>2. f[i] = Applied(f[i - 1], s1[i]) /\ g[i] = Applied(g[i - 1], s2[i])
    BY <2>1 DEF Runs
  <2>3. s1[i] = s2[i]
    BY DEF Same
  <2> QED BY <1>2, <2>2, <2>3
<1> QED BY <1>1, <1>2, GoAlike

LEMMA MirrorsRuns ==
  ASSUME NEW mirror, NEW s, NEW n \in Nat, Len(s) = n
  PROVE  Runs(Mirrors(mirror, s), mirror, s, n)
<1>1. \E f : Runs(f, mirror, s, Len(s))
  BY RunsExist
<1>2. Mirrors(mirror, s) =
        CHOOSE f : f = [i \in 0..Len(s) |-> IF i = 0 THEN mirror ELSE Applied(f[i - 1], s[i])]
  BY DEF Mirrors
<1>3. Mirrors(mirror, s) = CHOOSE f : Runs(f, mirror, s, Len(s))
  BY <1>2 DEF Runs
<1> QED BY <1>1, <1>3
\* Nothing under way: the mirror as it is.
LEMMA MirrorsEmpty ==
  ASSUME NEW mirror
  PROVE  Mirrors(mirror, <<>>)[0] = mirror
<1>1. Runs(Mirrors(mirror, <<>>), mirror, <<>>, 0)
  BY MirrorsRuns, EmptySeq
<1> QED BY <1>1 DEF Runs

\* One more message under way: one more mirror, the others as before.
LEMMA MirrorsAppend ==
  ASSUME NEW mirror, NEW T, NEW s \in Seq(T), NEW m \in T
  PROVE  /\ \A i \in 0..Len(s) : Mirrors(mirror, Append(s, m))[i] = Mirrors(mirror, s)[i]
         /\ Mirrors(mirror, Append(s, m))[Len(s) + 1] = Applied(Mirrors(mirror, s)[Len(s)], m)
         /\ Append(s, m) \in Seq(T) /\ Len(Append(s, m)) = Len(s) + 1 /\ Len(s) \in Nat
<1> DEFINE n == Len(s)
           t == Append(s, m)
           f == Mirrors(mirror, s)
           g == Mirrors(mirror, t)
<1>1. /\ t \in Seq(T) /\ Len(t) = n + 1 /\ n \in Nat
      /\ \A i \in 1..n : s[i] = t[i]
      /\ t[n + 1] = m
  OBVIOUS
<1>2. Runs(f, mirror, s, n)
  BY <1>1, MirrorsRuns
<1>3. Runs(g, mirror, t, n + 1)
  <2>1. n + 1 \in Nat /\ Len(t) = n + 1
    BY <1>1
  <2> QED BY <2>1, MirrorsRuns
<1> HIDE DEF f, g, n, t
<1>4. \A i \in 0..n : f[i] = g[i]
  <2>1. n + 1 \in Nat /\ n <= n + 1 /\ n <= n /\ n \in Nat
    BY <1>1
  <2>2. Same(s, t, n)
    BY <1>1 DEF Same
  <2> QED BY <2>1, <2>2, <1>2, <1>3, RunsAgree
<1>5. g[n + 1] = Applied(g[n + 1 - 1], t[n + 1])
  <2>1. n + 1 \in 0..n + 1 /\ n + 1 # 0
    BY <1>1
  <2>2. \A i \in 0..n + 1 : g[i] = IF i = 0 THEN mirror ELSE Applied(g[i - 1], t[i])
    BY <1>3 DEF Runs
  <2> QED BY <2>1, <2>2, <1>1
<1>6. g[n + 1] = Applied(f[n], m)
  <2>1. n + 1 - 1 = n /\ n \in 0..n
    BY <1>1
  <2> QED BY <2>1, <1>1, <1>4, <1>5
<1> QED BY <1>1, <1>4, <1>6 DEF f, g, n, t

\* The first message is applied: the other mirrors as before.
LEMMA MirrorsTail ==
  ASSUME NEW mirror, NEW T, NEW s \in Seq(T), s # <<>>
  PROVE  /\ \A i \in 0..Len(s) - 1 :
              Mirrors(Applied(mirror, Head(s)), Tail(s))[i] = Mirrors(mirror, s)[i + 1]
         /\ Applied(mirror, Head(s)) = Mirrors(mirror, s)[1]
         /\ Head(s) \in T /\ Tail(s) \in Seq(T)
         /\ Len(Tail(s)) = Len(s) - 1 /\ Len(s) \in Nat \ {0}
<1> DEFINE n == Len(s)
           u == Tail(s)
           k == Head(s)
           f == Mirrors(mirror, s)
           g == Mirrors(Applied(mirror, k), u)
           h == [i \in 0..n - 1 |-> f[i + 1]]
<1>1. /\ k \in T /\ u \in Seq(T) /\ Len(u) = n - 1 /\ n \in Nat \ {0}
      /\ k = s[1]
      /\ \A i \in 1..n - 1 : u[i] = s[i + 1]
  BY EmptySeq, HeadTailProperties
<1>2. Runs(f, mirror, s, n)
  BY <1>1, MirrorsRuns
<1>3. Runs(g, Applied(mirror, k), u, n - 1)
  <2>1. n - 1 \in Nat /\ Len(u) = n - 1
    BY <1>1
  <2> QED BY <2>1, MirrorsRuns
<1> HIDE DEF f, g, n, u, k
<1>4. \A i \in 0..n : f[i] = IF i = 0 THEN mirror ELSE Applied(f[i - 1], s[i])
  BY <1>2 DEF Runs
<1>5. f[0] = mirror /\ f[1] = Applied(mirror, k)
  <2>1. 0 \in 0..n /\ 1 \in 0..n
    BY <1>1
  <2>2. f[0] = mirror
    BY <2>1, <1>4
  <2>3. f[1] = Applied(f[0], s[1])
    BY <2>1, <1>4
  <2> QED BY <2>2, <2>3, <1>1
<1>6. \A i \in 0..n - 1 :
        h[i] = IF i = 0 THEN Applied(mirror, k) ELSE Applied(h[i - 1], u[i])
  <2> TAKE i \in 0..n - 1
  <2>1. CASE i = 0
    BY <2>1, <1>1, <1>5
  <2>2. CASE i # 0
    <3>1. /\ i \in Nat /\ i + 1 \in 0..n /\ i + 1 # 0 /\ i - 1 \in 0..n - 1 /\ i \in 1..n - 1
          /\ i + 1 - 1 = i /\ i - 1 + 1 = i
      BY <2>2, <1>1
    <3>2. f[i + 1] = Applied(f[i], s[i + 1])
      BY <3>1, <1>4
    <3>3. h[i] = f[i + 1] /\ h[i - 1] = f[i] /\ u[i] = s[i + 1]
      BY <3>1, <1>1
    <3> QED BY <2>2, <3>2, <3>3
  <2> QED BY <2>1, <2>2
<1>7. Runs(h, Applied(mirror, k), u, n - 1)
  BY <1>6 DEF Runs
<1> HIDE DEF h
<1>8. \A i \in 0..n - 1 : g[i] = h[i]
  <2>1. PICK r \in Nat : r = n - 1
    BY <1>1
  <2>2. PICK first : first = Applied(mirror, k)
    OBVIOUS
  <2>3. Same(u, u, r)
    BY DEF Same
  <2>4. Runs(g, first, u, r) /\ Runs(h, first, u, r) /\ r <= r
    BY <2>1, <2>2, <1>3, <1>7
  <2> QED BY <2>1, <2>3, <2>4, RunsAgree
<1>9. \A i \in 0..n - 1 : g[i] = f[i + 1]
  BY <1>8 DEF h
<1> QED BY <1>1, <1>5, <1>9 DEF f, g, n, u, k
-----------------------------------------------------------------------------------
(* What a message does to a mirror.                                                *)

Error == [type |-> "error"]

Message == {Snapshot(you, v) : you \in Who, v \in State}
             \cup {Delta(old, new) : old, new \in State} \cup {Error}

\* A mirror has what a view has.
Has(mirror, view) ==
  /\ \A e \in Shown(view) : mirror.entities[e] = view.entities[e]
  /\ view.things \subseteq mirror.things

LEMMA Applying ==
  ASSUME NEW mirror
  PROVE  /\ \A you, v : Applied(mirror, Snapshot(you, v)) = v
         /\ \A old, new : Applied(mirror, Delta(old, new)) = ApplyDelta(mirror, Delta(old, new))
         /\ Applied(mirror, Error) = mirror
<1>1. ASSUME NEW you, NEW v PROVE Applied(mirror, Snapshot(you, v)) = v
  BY DEF Applied, Snapshot, ApplySnapshot
<1>2. ASSUME NEW old, NEW new
      PROVE  Applied(mirror, Delta(old, new)) = ApplyDelta(mirror, Delta(old, new))
  <2>1. Delta(old, new).type = "delta"
    BY DEF Delta
  <2> HIDE DEF Delta
  <2> QED BY <2>1 DEF Applied
<1>3. Applied(mirror, Error) = mirror
  BY DEF Applied, Error
<1> QED BY <1>1, <1>2, <1>3

LEMMA ViewType ==
  ASSUME NEW w \in State, NEW n, NEW you
  PROVE  ViewOf(w, n, you) \in State
<1>1. \A e \in Entity :
        (IF e \in Visible(w, n, you) THEN w.entities[e] ELSE None) \in Record \cup {None}
  BY DEF State
<1>2. w.things \in SUBSET Thing
  BY DEF State
<1> QED BY <1>1, <1>2 DEF ViewOf, State

\* One entity: a patch brings it from the old record to the new one.
LEMMA PatchedRecord ==
  ASSUME NEW old \in Record \cup {None}, NEW new \in Record,
         NEW mine \in Record \cup {None}, old # None => mine = old
  PROVE  Patched(mine, Patch(old, new)) = new
<1>1. new = [f \in Field |-> new[f]] /\ DOMAIN new = Field
  BY DEF Record
<1>2. CASE old = None
  <2>1. Patch(old, new) = new
    BY <1>2 DEF Patch
  <2>2. Patched(mine, new) = new
    BY <1>1 DEF Patched
  <2> QED BY <2>1, <2>2
<1>3. CASE old # None
  <2> DEFINE changed == {f \in Field : old[f] # new[f]}
             patch == [f \in changed |-> new[f]]
  <2>1. Patch(old, new) = patch
    BY <1>3 DEF Patch, Restrict
  <2>2. Patched(mine, patch) = [f \in Field |-> IF f \in DOMAIN patch THEN patch[f] ELSE old[f]]
    BY <1>3 DEF Patched
  <2>3. DOMAIN patch = changed /\ \A f \in changed : patch[f] = new[f]
    OBVIOUS
  <2>4. \A f \in Field : (IF f \in DOMAIN patch THEN patch[f] ELSE old[f]) = new[f]
    BY <2>3
  <2> HIDE DEF patch
  <2> QED BY <2>1, <2>2, <2>4, <1>1
<1> QED BY <1>2, <1>3

\* A delta brings a mirror that has the old view to one that has the new view, and to
\* nothing else if it had nothing else.
LEMMA DeltaBrings ==
  ASSUME NEW old \in State, NEW new \in State, NEW mirror \in State, Has(mirror, old)
  PROVE  /\ ApplyDelta(mirror, Delta(old, new)) \in State
         /\ Has(ApplyDelta(mirror, Delta(old, new)), new)
         /\ mirror = old => ApplyDelta(mirror, Delta(old, new)) = new
<1> DEFINE m == Delta(old, new)
           d == ApplyDelta(mirror, m)
           upserted == {e \in Shown(new) : new.entities[e] # old.entities[e]}
           after(e) == IF e \in m.removed THEN None
                       ELSE IF e \in DOMAIN m.upserts THEN Patched(mirror.entities[e], m.upserts[e])
                       ELSE mirror.entities[e]
<1>1. /\ m.removed = Shown(old) \ Shown(new) /\ DOMAIN m.upserts = upserted
      /\ \A e \in upserted : m.upserts[e] = Patch(old.entities[e], new.entities[e])
      /\ m.things = new.things \ old.things /\ m.removedThings = old.things \ new.things
  BY DEF Delta
<1>2. d = [entities |-> [e \in Entity |-> after(e)],
           things |-> (mirror.things \cup m.things) \ m.removedThings]
  BY DEF ApplyDelta
<1>3. /\ \A e \in Entity : /\ old.entities[e] \in Record \cup {None}
                           /\ new.entities[e] \in Record \cup {None}
                           /\ mirror.entities[e] \in Record \cup {None}
      /\ old.things \subseteq Thing /\ new.things \subseteq Thing /\ mirror.things \subseteq Thing
      /\ old.things \subseteq mirror.things
      /\ \A e \in Entity : old.entities[e] # None => mirror.entities[e] = old.entities[e]
  BY DEF State, Has, Shown
<1> HIDE DEF m
<1>4. ASSUME NEW e \in Entity
      PROVE  /\ after(e) \in Record \cup {None}
             /\ new.entities[e] # None => after(e) = new.entities[e]
             /\ mirror.entities[e] = old.entities[e] => after(e) = new.entities[e]
  <2>1. CASE e \in upserted
    <3>1. e \notin m.removed /\ new.entities[e] \in Record
      BY <2>1, <1>1, <1>3 DEF Shown
    <3>2. after(e) = Patched(mirror.entities[e], Patch(old.entities[e], new.entities[e]))
      BY <2>1, <3>1, <1>1
    <3>3. Patched(mirror.entities[e], Patch(old.entities[e], new.entities[e])) = new.entities[e]
      BY <3>1, <1>3, PatchedRecord
    <3> QED BY <3>1, <3>2, <3>3
  <2>2. CASE e \notin upserted
    <3>1. after(e) = IF e \in m.removed THEN None ELSE mirror.entities[e]
      BY <2>2, <1>1
    <3>2. e \in m.removed <=> old.entities[e] # None /\ new.entities[e] = None
      BY <1>1 DEF Shown
    <3>3. new.entities[e] # None => new.entities[e] = old.entities[e]
      BY <2>2 DEF Shown
    <3> HIDE DEF after
    <3> QED BY <3>1, <3>2, <3>3, <1>3
  <2> QED BY <2>1, <2>2
<1>5. PICK es : es = [e \in Entity |-> after(e)]
  OBVIOUS
<1>6. /\ es \in [Entity -> Record \cup {None}]
      /\ \A e \in Entity : new.entities[e] # None => es[e] = new.entities[e]
      /\ \A e \in Entity : mirror.entities[e] = old.entities[e] => es[e] = new.entities[e]
  <2> HIDE DEF after
  <2> QED BY <1>4, <1>5
<1>7. PICK ts : ts = (mirror.things \cup m.things) \ m.removedThings
  OBVIOUS
<1>8. /\ ts \subseteq Thing /\ new.things \subseteq ts
      /\ mirror.things = old.things => ts = new.things
  BY <1>1, <1>3, <1>7
<1>9. d = [entities |-> es, things |-> ts]
  BY <1>2, <1>5, <1>7
<1> HIDE DEF d, after
<1>10. d \in State
  BY <1>6, <1>8, <1>9 DEF State
<1>11. Has(d, new)
  BY <1>6, <1>8, <1>9 DEF Has, Shown
<1>12. ASSUME mirror = old PROVE d = new
  <2>1. es = new.entities
    <3>1. \A e \in Entity : es[e] = new.entities[e]
      BY <1>6, <1>12
    <3>2. new.entities \in [Entity -> Record \cup {None}]
      BY DEF State
    <3> QED BY <3>1, <3>2, <1>6
  <2>2. new = [entities |-> new.entities, things |-> new.things]
    BY DEF State
  <2> QED BY <2>1, <2>2, <1>8, <1>9, <1>12
<1> QED BY <1>10, <1>11, <1>12 DEF d, m
-----------------------------------------------------------------------------------
(* The messages under way.                                                         *)

\* Every mirror that the page will go through is a mirror, and not only the last one:
\* a patch of one field makes a record of what has a record already.
GoodRun(mirror, s) ==
  /\ s \in Seq(Message)
  /\ \A i \in 0..Len(s) : Mirrors(mirror, s)[i] \in State

LastOf(mirror, s) == Mirrors(mirror, s)[Len(s)]

LEMMA NothingUnderWay ==
  ASSUME NEW mirror \in State
  PROVE  GoodRun(mirror, <<>>) /\ LastOf(mirror, <<>>) = mirror
<1>1. Len(<<>>) = 0 /\ <<>> \in Seq(Message)
  BY EmptySeq
<1>2. \A i \in 0..0 : i = 0
  OBVIOUS
<1> QED BY <1>1, <1>2, MirrorsEmpty DEF GoodRun, LastOf

LEMMA LastIsMirror ==
  ASSUME NEW mirror, NEW s, GoodRun(mirror, s)
  PROVE  LastOf(mirror, s) \in State
<1>1. Len(s) \in 0..Len(s)
  <2>1. Len(s) \in Nat
    BY LenProperties DEF GoodRun
  <2> QED BY <2>1
<1> QED BY <1>1 DEF GoodRun, LastOf

LEMMA Sent ==
  ASSUME NEW mirror, NEW s, GoodRun(mirror, s), NEW m \in Message,
         Applied(LastOf(mirror, s), m) \in State
  PROVE  /\ GoodRun(mirror, Append(s, m))
         /\ LastOf(mirror, Append(s, m)) = Applied(LastOf(mirror, s), m)
<1>1. s \in Seq(Message) /\ \A i \in 0..Len(s) : Mirrors(mirror, s)[i] \in State
  BY DEF GoodRun
<1>2. /\ \A i \in 0..Len(s) : Mirrors(mirror, Append(s, m))[i] = Mirrors(mirror, s)[i]
      /\ Mirrors(mirror, Append(s, m))[Len(s) + 1] = Applied(Mirrors(mirror, s)[Len(s)], m)
      /\ Append(s, m) \in Seq(Message) /\ Len(Append(s, m)) = Len(s) + 1 /\ Len(s) \in Nat
  BY <1>1, MirrorsAppend
<1>3. PICK t : t = Append(s, m)
  OBVIOUS
<1>4. PICK n \in Nat : n = Len(s)
  BY <1>2
<1>5. Mirrors(mirror, t)[n + 1] = Applied(LastOf(mirror, s), m)
  BY <1>2, <1>3, <1>4 DEF LastOf
<1>6. ASSUME NEW i \in 0..n + 1 PROVE Mirrors(mirror, t)[i] \in State
  <2>1. CASE i = n + 1
    BY <2>1, <1>5
  <2>2. CASE i # n + 1
    <3>1. i \in 0..n
      BY <2>2
    <3> QED BY <3>1, <1>1, <1>2, <1>3, <1>4
  <2> QED BY <2>1, <2>2
<1>7. Len(t) = n + 1 /\ t \in Seq(Message)
  BY <1>2, <1>3, <1>4
<1>8. GoodRun(mirror, t)
  BY <1>6, <1>7 DEF GoodRun
<1>9. LastOf(mirror, t) = Applied(LastOf(mirror, s), m)
  BY <1>5, <1>7 DEF LastOf
<1> QED BY <1>3, <1>8, <1>9

LEMMA Received ==
  ASSUME NEW mirror, NEW s, GoodRun(mirror, s), s # <<>>
  PROVE  /\ GoodRun(Applied(mirror, Head(s)), Tail(s))
         /\ LastOf(Applied(mirror, Head(s)), Tail(s)) = LastOf(mirror, s)
         /\ Applied(mirror, Head(s)) \in State /\ Head(s) \in Message
<1>1. s \in Seq(Message) /\ \A i \in 0..Len(s) : Mirrors(mirror, s)[i] \in State
  BY DEF GoodRun
<1>2. /\ \A i \in 0..Len(s) - 1 :
           Mirrors(Applied(mirror, Head(s)), Tail(s))[i] = Mirrors(mirror, s)[i + 1]
      /\ Applied(mirror, Head(s)) = Mirrors(mirror, s)[1]
      /\ Head(s) \in Message /\ Tail(s) \in Seq(Message)
      /\ Len(Tail(s)) = Len(s) - 1 /\ Len(s) \in Nat \ {0}
  BY <1>1, MirrorsTail
<1>3. PICK t : t = Tail(s)
  OBVIOUS
<1>4. PICK n \in Nat \ {0} : n = Len(s)
  BY <1>2
<1>5. PICK first : first = Applied(mirror, Head(s))
  OBVIOUS
<1>6. \A i \in 0..n - 1 : Mirrors(first, t)[i] = Mirrors(mirror, s)[i + 1]
  BY <1>2, <1>3, <1>4, <1>5
<1>7. \A i \in 0..n : Mirrors(mirror, s)[i] \in State
  BY <1>1, <1>4
<1>8. ASSUME NEW i \in 0..n - 1 PROVE Mirrors(first, t)[i] \in State
  <2>1. i + 1 \in 0..n
    OBVIOUS
  <2> QED BY <2>1, <1>6, <1>7
<1>9. Len(t) = n - 1 /\ t \in Seq(Message)
  BY <1>2, <1>3, <1>4
<1>10. GoodRun(first, t)
  BY <1>8, <1>9 DEF GoodRun
<1>11. LastOf(first, t) = LastOf(mirror, s)
  <2>1. n - 1 \in 0..n - 1 /\ n - 1 + 1 = n
    OBVIOUS
  <2>2. Mirrors(first, t)[n - 1] = Mirrors(mirror, s)[n - 1 + 1]
    BY <2>1, <1>6
  <2> QED BY <2>1, <2>2, <1>4, <1>9 DEF LastOf
<1>12. first \in State
  <2>1. 1 \in 0..n
    OBVIOUS
  <2> QED BY <2>1, <1>2, <1>4, <1>5, <1>7
<1> QED BY <1>2, <1>3, <1>5, <1>10, <1>11, <1>12
-----------------------------------------------------------------------------------
(* The invariant.                                                                  *)

Session == [entityId : Who, view : State, snapshots : BOOLEAN]

TypesOK ==
  /\ running \in BOOLEAN /\ failed \in BOOLEAN
  /\ world \in State /\ near \subseteq Entity /\ Me \in near
  /\ lookup \in {None} \cup [current : BOOLEAN]
  /\ entering \in {None} \cup [you : Who]
  /\ joins \in Nat
  /\ page \in [linked : BOOLEAN, mirror : State, selected : Who, pending : Who,
               rebuilt : BOOLEAN, effect : BOOLEAN, retry : BOOLEAN]
  /\ used \in [ticks : 0..MaxTicks, losses : 0..MaxLosses, links : 0..MaxLinks, wishes : 0..MaxWishes]

\* A connected socket has a session; without one, nothing is under way.
LinkOK ==
  /\ page.linked => session \in Session
  /\ ~page.linked => session = None /\ lookup = None /\ entering = None /\ joins = 0 /\ down = <<>>

\* A mirror has what the view of a session has, and after a snapshot nothing else.
Tracks(s, mirror) ==
  /\ Has(mirror, s.view)
  /\ s.snapshots => mirror = s.view

WiredOK ==
  /\ GoodRun(page.mirror, down)
  /\ page.linked => Tracks(session, LastOf(page.mirror, down))

ViewInv == TypesOK /\ LinkOK /\ WiredOK

LEMMA EmptyState ==
  ASSUME NEW mirror \in State
  PROVE  Empty \in State /\ Tracks(NewSession, mirror)
BY DEF Empty, State, Tracks, NewSession, Has, Shown

LEMMA PopulatedType ==
  ASSUME WorldViewConstants, NEW es
  PROVE  Populated(es) \in State
<1>1. PICK v : v \in Value
  BY DEF WorldViewConstants
<1>2. [f \in Field |-> v] \in Record
  BY <1>1 DEF Record
<1>3. (CHOOSE r \in Record : TRUE) \in Record
  BY <1>2
<1> QED BY <1>3 DEF Populated, Empty, State

LEMMA InvInit ==
  ASSUME WorldViewConstants
  PROVE  Init => ViewInv
<1> SUFFICES ASSUME Init PROVE ViewInv
  OBVIOUS
<1>1. Empty \in State /\ world \in State
  BY EmptyState, PopulatedType DEF Init, State, Empty
<1>2. page.mirror = Empty /\ page.linked = FALSE
  BY DEF Init
<1>3. TypesOK
  <2>1. page \in [linked : BOOLEAN, mirror : State, selected : Who, pending : Who,
                  rebuilt : BOOLEAN, effect : BOOLEAN, retry : BOOLEAN]
    BY <1>1 DEF Init, Who
  <2>2. used \in [ticks : 0..MaxTicks, losses : 0..MaxLosses, links : 0..MaxLinks,
                  wishes : 0..MaxWishes]
    BY DEF Init, WorldViewConstants
  <2> QED BY <1>1, <2>1, <2>2 DEF Init, TypesOK, WorldViewConstants
<1>4. LinkOK
  BY <1>2 DEF Init, LinkOK
<1>5. WiredOK
  BY <1>1, <1>2, NothingUnderWay DEF Init, WiredOK
<1> QED BY <1>3, <1>4, <1>5 DEF ViewInv

LEMMA InvShows ==
  ASSUME ViewInv
  PROVE  TypeOK /\ MirrorsTheView
<1>1. down \in Seq(Message)
  BY DEF ViewInv, WiredOK, GoodRun
<1>2. \A i \in DOMAIN down : down[i].type \in {"snapshot", "delta", "error"}
  <2>1. \A m \in Message : m.type \in {"snapshot", "delta", "error"}
    <3>1. \A you, v : Snapshot(you, v).type = "snapshot"
      BY DEF Snapshot
    <3>2. \A old, new : Delta(old, new).type = "delta"
      BY DEF Delta
    <3> QED BY <3>1, <3>2 DEF Message, Error
  <2> QED BY <1>1, <2>1, LenProperties, ElementOfSeq
<1>3. session = None \/ session \in Session
  BY DEF ViewInv, LinkOK
<1>4. TypeOK
  BY <1>2, <1>3 DEF ViewInv, TypesOK, TypeOK, Session
<1>5. MirrorsTheView
  BY DEF ViewInv, LinkOK, WiredOK, Tracks, Has, LastOf, MirrorsTheView
<1> QED BY <1>4, <1>5

-----------------------------------------------------------------------------------
(* The steps of the world.                                                         *)

\* What neither sends, nor renders, nor connects keeps the mirror on its way.
LEMMA NothingSent ==
  ASSUME ViewInv, UNCHANGED <<session, down>>, page'.mirror = page.mirror,
         page'.linked = page.linked
  PROVE  WiredOK'
BY DEF ViewInv, WiredOK

LEMMA OneMoreSent ==
  ASSUME ViewInv, page.linked, page' = page,
         NEW m \in Message, Applied(LastOf(page.mirror, down), m) \in State,
         down' = Append(down, m),
         Tracks(session', Applied(LastOf(page.mirror, down), m))
  PROVE  WiredOK'
<1>1. GoodRun(page.mirror, down)
  BY DEF ViewInv, WiredOK
<1>2. PICK now : now = page.mirror
  OBVIOUS
<1>3. PICK s : s = down
  OBVIOUS
<1>4. GoodRun(now, Append(s, m)) /\ LastOf(now, Append(s, m)) = Applied(LastOf(now, s), m)
  BY <1>1, <1>2, <1>3, Sent
<1>5. page'.mirror = now /\ down' = Append(s, m)
  BY <1>2, <1>3
<1>6. Tracks(session', LastOf(page'.mirror, down'))
  BY <1>2, <1>3, <1>4, <1>5
<1> QED BY <1>4, <1>5, <1>6 DEF WiredOK

\* A delta to a view of the live world.
LEMMA PublishKeeps ==
  ASSUME ViewInv, NEW w \in State, NEW n, Publish(w, n), page' = page
  PROVE  WiredOK' /\ (page.linked => session' \in Session) /\ (~page.linked => UNCHANGED <<session, down>>)
<1>1. CASE session = None
  <2>1. UNCHANGED <<session, down>>
    BY <1>1 DEF Publish
  <2>2. WiredOK'
    BY <2>1, NothingSent
  <2> QED BY <2>1, <2>2 DEF ViewInv, LinkOK
<1>2. CASE session # None
  <2>1. page.linked /\ session \in Session
    BY <1>2 DEF ViewInv, LinkOK
  <2>2. PICK old \in State : old = session.view
    BY <2>1 DEF Session
  <2>3. PICK new \in State : new = ViewOf(w, n, session.entityId)
    BY ViewType
  <2>4. PICK m \in Message : m = Delta(old, new)
    BY DEF Message
  <2>5. session' = [session EXCEPT !.view = new] /\ down' = Append(down, m)
    BY <1>2, <2>2, <2>3, <2>4 DEF Publish
  <2>6. PICK mirror \in State : mirror = LastOf(page.mirror, down)
    BY LastIsMirror DEF ViewInv, WiredOK
  <2>7. Has(mirror, old) /\ (session.snapshots => mirror = old)
    BY <2>1, <2>2, <2>6 DEF ViewInv, WiredOK, Tracks
  <2>8. /\ ApplyDelta(mirror, Delta(old, new)) \in State
        /\ Has(ApplyDelta(mirror, Delta(old, new)), new)
        /\ mirror = old => ApplyDelta(mirror, Delta(old, new)) = new
    BY <2>7, DeltaBrings
  <2>9. Applied(mirror, m) = ApplyDelta(mirror, Delta(old, new))
    BY <2>4, Applying
  <2>10. session' \in Session /\ session'.view = new /\ session'.snapshots = session.snapshots
    BY <2>1, <2>5 DEF Session
  <2>11. Tracks(session', Applied(mirror, m))
    BY <2>7, <2>8, <2>9, <2>10 DEF Tracks
  <2>12. WiredOK'
    BY <2>1, <2>5, <2>6, <2>8, <2>9, <2>11, OneMoreSent
  <2> QED BY <2>1, <2>10, <2>12
<1> QED BY <1>1, <1>2
LEMMA TickKeeps ==
  ASSUME ViewInv, WorldViewConstants, Tick
  PROVE  ViewInv'
<1>1. page' = page /\ lookup' = lookup /\ entering' = entering /\ joins' = joins
  BY DEF Tick
<1>2. world' \in State /\ near' \subseteq Entity /\ Me \in near'
  <2>1. CASE \E e \in Entity, r \in Record \cup {None} :
               world' = [world EXCEPT !.entities[e] = r] /\ UNCHANGED near
    BY <2>1 DEF ViewInv, TypesOK, State
  <2>2. CASE \E t \in Thing :
               /\ world' = [world EXCEPT !.things = IF t \in @ THEN @ \ {t} ELSE @ \cup {t}]
               /\ UNCHANGED near
    BY <2>2 DEF ViewInv, TypesOK, State
  <2>3. CASE near' \in {n \in SUBSET Entity : Me \in n} /\ UNCHANGED world
    BY <2>3 DEF ViewInv, TypesOK
  <2> QED BY <2>1, <2>2, <2>3 DEF Tick
<1>3. used' \in [ticks : 0..MaxTicks, losses : 0..MaxLosses, links : 0..MaxLinks, wishes : 0..MaxWishes]
  <2>1. used.ticks < MaxTicks /\ used' = [used EXCEPT !.ticks = @ + 1]
    BY DEF Tick
  <2> QED BY <2>1 DEF ViewInv, TypesOK, WorldViewConstants
<1>4. TypesOK'
  BY <1>1, <1>2, <1>3 DEF Tick, ViewInv, TypesOK
<1>5. WiredOK' /\ (page.linked => session' \in Session) /\ (~page.linked => UNCHANGED <<session, down>>)
  <2>1. PICK w \in State : w = world'
    BY <1>2
  <2>2. PICK n : n = near'
    OBVIOUS
  <2>3. Publish(world', near')
    BY DEF Tick
  <2>4. Publish(w, n)
    BY <2>1, <2>2, <2>3 DEF Publish
  <2> QED BY <1>1, <2>4, PublishKeeps
<1>6. LinkOK'
  BY <1>1, <1>5 DEF ViewInv, LinkOK
<1> QED BY <1>4, <1>5, <1>6 DEF ViewInv

\* A reset's snapshot, and the delta that follows it.
LEMMA RenewedKeeps ==
  ASSUME ViewInv, NEW w \in State, Renewed(w), page' = page
  PROVE  WiredOK' /\ (page.linked => session' \in Session) /\ (~page.linked => UNCHANGED <<session, down>>)
<1>1. CASE session = None
  <2>1. UNCHANGED <<session, down>>
    BY <1>1 DEF Renewed
  <2>2. WiredOK'
    BY <2>1, NothingSent
  <2> QED BY <2>1, <2>2 DEF ViewInv, LinkOK
<1>2. CASE session # None
  <2>1. page.linked /\ session \in Session /\ GoodRun(page.mirror, down)
    BY <1>2 DEF ViewInv, LinkOK, WiredOK
  <2>2. PICK new \in State : new = ViewOf(w, near, None)
    BY ViewType
  <2>3. PICK m1 \in Message : m1 = Snapshot(None, new)
    BY DEF Message, Who
  <2>4. PICK m2 \in Message : m2 = Delta(new, new)
    BY DEF Message
  <2>5. PICK now : now = page.mirror
    OBVIOUS
  <2>6. PICK s \in Seq(Message) : s = down
    BY <2>1 DEF GoodRun
  <2>7. PICK t : t = Append(s, m1)
    OBVIOUS
  <2>8. PICK u : u = Append(t, m2)
    OBVIOUS
  <2>9. session' = [entityId |-> None, view |-> new, snapshots |-> TRUE] /\ down' = u
    <3>1. down' = down \o <<m1, m2>>
      BY <1>2, <2>2, <2>3, <2>4 DEF Renewed
    <3>2. s \o <<m1, m2>> = Append(Append(s, m1), m2)
      OBVIOUS
    <3> QED BY <1>2, <2>2, <2>6, <2>7, <2>8, <3>1, <3>2 DEF Renewed
  <2>10. Applied(LastOf(now, s), m1) = new
    BY <2>3, Applying
  <2>11. GoodRun(now, t) /\ LastOf(now, t) = new
    BY <2>1, <2>5, <2>6, <2>7, <2>10, Sent
  <2>12. Has(new, new) /\ Applied(new, m2) = ApplyDelta(new, Delta(new, new))
    BY <2>4, Applying DEF Has
  <2>13. Applied(new, m2) = new
    BY <2>12, DeltaBrings
  <2>14. GoodRun(now, u) /\ LastOf(now, u) = new
    BY <2>8, <2>11, <2>13, Sent
  <2>15. page'.mirror = now /\ session' \in Session /\ session'.view = new
    BY <2>5, <2>9 DEF Session, Who
  <2>16. Tracks(session', LastOf(page'.mirror, down'))
    BY <2>9, <2>12, <2>14, <2>15 DEF Tracks
  <2>17. WiredOK'
    BY <2>9, <2>14, <2>15, <2>16 DEF WiredOK
  <2> QED BY <2>1, <2>15, <2>17
<1> QED BY <1>1, <1>2

LEMMA ResetKeeps ==
  ASSUME ViewInv, WorldViewConstants, Reset
  PROVE  ViewInv'
<1>1. page' = page /\ lookup' = None /\ entering' = entering /\ joins' = joins
  BY DEF Reset
<1>2. PICK w \in State : w = world'
  BY PopulatedType DEF Reset
<1>3. used' \in [ticks : 0..MaxTicks, losses : 0..MaxLosses, links : 0..MaxLinks, wishes : 0..MaxWishes]
  <2>1. used.losses < MaxLosses /\ used' = [used EXCEPT !.losses = @ + 1]
    BY DEF Reset
  <2> QED BY <2>1 DEF ViewInv, TypesOK, WorldViewConstants
<1>4. TypesOK'
  BY <1>1, <1>2, <1>3 DEF Reset, ViewInv, TypesOK
<1>5. Renewed(w)
  <2>1. Renewed(world')
    BY DEF Reset
  <2> QED BY <1>2, <2>1 DEF Renewed
<1>6. WiredOK' /\ (page.linked => session' \in Session) /\ (~page.linked => UNCHANGED <<session, down>>)
  BY <1>1, <1>5, RenewedKeeps
<1>7. LinkOK'
  BY <1>1, <1>6 DEF ViewInv, LinkOK
<1> QED BY <1>4, <1>6, <1>7 DEF ViewInv

LEMMA LoseKeeps ==
  ASSUME ViewInv, WorldViewConstants, Lose
  PROVE  ViewInv'
<1>1. UNCHANGED <<world, near, session, lookup, entering, joins, down, page, failed>>
  BY DEF Lose
<1>2. used' \in [ticks : 0..MaxTicks, losses : 0..MaxLosses, links : 0..MaxLinks, wishes : 0..MaxWishes]
  <2>1. used.losses < MaxLosses /\ used' = [used EXCEPT !.losses = @ + 1]
    BY DEF Lose
  <2> QED BY <2>1 DEF ViewInv, TypesOK, WorldViewConstants
<1>3. TypesOK'
  BY <1>1, <1>2 DEF Lose, ViewInv, TypesOK
<1>4. LinkOK'
  BY <1>1 DEF ViewInv, LinkOK
<1> QED BY <1>1, <1>3, <1>4, NothingSent DEF ViewInv

LEMMA LoadKeeps ==
  ASSUME ViewInv, WorldViewConstants, Load
  PROVE  ViewInv'
<1>1. UNCHANGED <<near, session, entering, joins, down, page, failed, used>>
  BY DEF Load
<1>2. world' \in State /\ running' = TRUE
  BY PopulatedType DEF Load
<1>3. lookup' \in {None} \cup [current : BOOLEAN] /\ (lookup = None => lookup' = None)
  BY DEF Load
<1>4. TypesOK'
  BY <1>1, <1>2, <1>3 DEF ViewInv, TypesOK
<1>5. LinkOK'
  BY <1>1, <1>3 DEF ViewInv, LinkOK
<1> QED BY <1>1, <1>4, <1>5, NothingSent DEF ViewInv
-----------------------------------------------------------------------------------
(* The joins.                                                                      *)

\* An error changes no mirror.
LEMMA FailKeeps ==
  ASSUME ViewInv, page.linked, page' = page, session' = session, Fail
  PROVE  WiredOK'
<1>1. GoodRun(page.mirror, down) /\ Tracks(session, LastOf(page.mirror, down))
  BY DEF ViewInv, WiredOK
<1>2. PICK m \in Message : m = Error
  BY DEF Message
<1>3. PICK mirror \in State : mirror = LastOf(page.mirror, down)
  BY <1>1, LastIsMirror
<1>4. Applied(mirror, m) = mirror
  BY <1>2, Applying
<1>5. down' = Append(down, m)
  BY <1>2 DEF Fail, Error
<1>6. Tracks(session', Applied(mirror, m))
  BY <1>1, <1>3, <1>4
<1> QED BY <1>3, <1>4, <1>5, <1>6, OneMoreSent

LEMMA OnJoinKeeps ==
  ASSUME ViewInv, OnJoin
  PROVE  ViewInv'
<1>1. UNCHANGED <<running, world, near, session, entering, page, failed, used>>
  BY DEF OnJoin
<1>2. page.linked /\ joins' \in Nat
  <2>1. joins \in Nat /\ joins > 0 /\ joins' = joins - 1
    BY DEF OnJoin, ViewInv, TypesOK
  <2>2. ~page.linked => joins = 0
    BY DEF ViewInv, LinkOK
  <2> QED BY <2>1, <2>2
<1>3. lookup' \in {None} \cup [current : BOOLEAN]
  <2>1. CASE running
    <3>1. lookup' = [current |-> TRUE]
      BY <2>1 DEF OnJoin
    <3>2. [current |-> TRUE] \in [current : BOOLEAN]
      OBVIOUS
    <3> QED BY <3>1, <3>2
  <2>2. CASE ~running
    <3>1. lookup' = None
      BY <2>2 DEF OnJoin
    <3> QED BY <3>1
  <2> QED BY <2>1, <2>2
<1>4. TypesOK'
  BY <1>1, <1>2, <1>3 DEF ViewInv, TypesOK
<1>5. LinkOK'
  BY <1>1, <1>2 DEF ViewInv, LinkOK
<1>6. WiredOK'
  BY <1>1, <1>2, FailKeeps, NothingSent DEF OnJoin
<1> QED BY <1>4, <1>5, <1>6 DEF ViewInv

LEMMA ResolvedKeeps ==
  ASSUME ViewInv, Resolved
  PROVE  ViewInv'
<1>1. UNCHANGED <<running, world, near, joins, page, failed, used>> /\ lookup' = None
  BY DEF Resolved
<1>2. page.linked /\ session \in Session
  BY DEF Resolved, ViewInv, LinkOK
<1>3. CASE running /\ lookup.current
  <2>1. PICK you \in Who : /\ session' = [session EXCEPT !.entityId = you]
                           /\ entering' = [you |-> you]
    BY <1>3 DEF Resolved
  <2>2. down' = down
    BY <1>3 DEF Resolved
  <2>3. /\ session' \in Session /\ session'.view = session.view
        /\ session'.snapshots = session.snapshots
    BY <1>2, <2>1 DEF Session
  <2>4. WiredOK'
    <3>1. GoodRun(page.mirror, down) /\ Tracks(session, LastOf(page.mirror, down))
      BY <1>2 DEF ViewInv, WiredOK
    <3>2. page'.mirror = page.mirror
      BY <1>1
    <3>3. Tracks(session', LastOf(page.mirror, down))
      BY <2>3, <3>1 DEF Tracks
    <3> QED BY <2>2, <3>1, <3>2, <3>3 DEF WiredOK
  <2>5. TypesOK'
    BY <1>1, <2>1 DEF ViewInv, TypesOK
  <2>6. LinkOK'
    BY <1>1, <1>2, <2>3 DEF LinkOK
  <2> QED BY <2>4, <2>5, <2>6 DEF ViewInv
<1>4. CASE ~(running /\ lookup.current)
  <2>1. Fail /\ UNCHANGED <<session, entering>>
    BY <1>4 DEF Resolved
  <2>2. WiredOK'
    BY <1>1, <1>2, <2>1, FailKeeps
  <2>3. TypesOK'
    BY <1>1, <2>1 DEF ViewInv, TypesOK
  <2>4. LinkOK'
    BY <1>1, <1>2, <2>1 DEF LinkOK
  <2> QED BY <2>2, <2>3, <2>4 DEF ViewInv
<1> QED BY <1>3, <1>4

LEMMA LookupThrowsKeeps ==
  ASSUME ViewInv, LookupThrows
  PROVE  ViewInv'
<1>1. UNCHANGED <<running, world, near, session, entering, joins, down, page, used>>
      /\ lookup' = None /\ failed' = TRUE
  BY DEF LookupThrows
<1>2. TypesOK'
  BY <1>1 DEF ViewInv, TypesOK
<1>3. LinkOK'
  BY <1>1 DEF ViewInv, LinkOK
<1> QED BY <1>1, <1>2, <1>3, NothingSent DEF ViewInv

LEMMA EnterKeeps ==
  ASSUME ViewInv, Enter
  PROVE  ViewInv'
<1>1. UNCHANGED <<running, world, near, lookup, joins, page, failed, used>> /\ entering' = None
  BY DEF Enter
<1>2. page.linked /\ session \in Session /\ entering \in [you : Who]
  BY DEF Enter, ViewInv, LinkOK, TypesOK
<1>3. PICK new \in State : new = Seen(entering.you)
  <2>1. world \in State
    BY DEF ViewInv, TypesOK
  <2>2. PICK w \in State : w = world
    BY <2>1
  <2>3. PICK n : n = near
    OBVIOUS
  <2>4. PICK you : you = entering.you
    OBVIOUS
  <2>5. ViewOf(w, n, you) \in State
    BY ViewType
  <2> QED BY <2>2, <2>3, <2>4, <2>5 DEF Seen
<1>4. PICK m \in Message : m = Snapshot(entering.you, new)
  BY <1>2 DEF Message
<1>5. session' = [session EXCEPT !.view = new, !.snapshots = TRUE] /\ down' = Append(down, m)
  BY <1>3, <1>4 DEF Enter
<1>6. session' \in Session /\ session'.view = new
  BY <1>2, <1>5 DEF Session
<1>7. PICK mirror : mirror = LastOf(page.mirror, down)
  OBVIOUS
<1>8. Applied(mirror, m) = new
  <2>1. PICK you : you = entering.you
    OBVIOUS
  <2>2. m = Snapshot(you, new)
    BY <1>4, <2>1
  <2> QED BY <2>2, Applying
<1>9. Tracks(session', Applied(mirror, m))
  BY <1>6, <1>8 DEF Tracks, Has
<1>10. WiredOK'
  BY <1>1, <1>2, <1>5, <1>7, <1>8, <1>9, OneMoreSent
<1>11. TypesOK'
  BY <1>1 DEF ViewInv, TypesOK
<1>12. LinkOK'
  BY <1>1, <1>2, <1>6 DEF LinkOK
<1> QED BY <1>10, <1>11, <1>12 DEF ViewInv

-----------------------------------------------------------------------------------
(* The page.                                                                       *)

PageType == [linked : BOOLEAN, mirror : State, selected : Who, pending : Who,
             rebuilt : BOOLEAN, effect : BOOLEAN, retry : BOOLEAN]

\* A page that changes neither its mirror nor its link, and perhaps asks to join.
LEMMA JoinsKeeps ==
  ASSUME ViewInv, NEW p \in PageType, p.mirror = page.mirror, p.linked = page.linked,
         Joins(p), UNCHANGED <<server, down, failed>>,
         used' \in [ticks : 0..MaxTicks, losses : 0..MaxLosses, links : 0..MaxLinks,
                    wishes : 0..MaxWishes]
  PROVE  ViewInv'
<1>1. page' \in PageType /\ page'.mirror = page.mirror /\ page'.linked = page.linked
  BY DEF Joins, PageType
<1>2. joins' \in Nat /\ (~page.linked => joins' = joins)
  BY DEF Joins, ViewInv, TypesOK
<1>3. UNCHANGED <<running, world, near, session, lookup, entering, down, failed>>
  BY DEF server
<1>4. TypesOK'
  BY <1>1, <1>2, <1>3 DEF ViewInv, TypesOK, PageType
<1>5. LinkOK'
  BY <1>1, <1>2, <1>3 DEF ViewInv, LinkOK
<1> QED BY <1>1, <1>3, <1>4, <1>5, NothingSent DEF ViewInv

LEMMA EffectKeeps ==
  ASSUME ViewInv, Effect
  PROVE  ViewInv'
<1>1. page \in PageType /\ used' \in [ticks : 0..MaxTicks, losses : 0..MaxLosses, links : 0..MaxLinks,
                                      wishes : 0..MaxWishes]
  BY DEF Effect, ViewInv, TypesOK, PageType
<1>2. PICK p \in PageType : p = [page EXCEPT !.effect = FALSE]
  BY <1>1 DEF PageType
<1>3. Joins(p)
  BY <1>2 DEF Effect, Joins
<1> QED BY <1>1, <1>2, <1>3, JoinsKeeps DEF Effect, PageType

LEMMA RetryKeeps ==
  ASSUME ViewInv, Retry
  PROVE  ViewInv'
<1>1. page \in PageType /\ used' \in [ticks : 0..MaxTicks, losses : 0..MaxLosses, links : 0..MaxLinks,
                                      wishes : 0..MaxWishes]
  BY DEF Retry, ViewInv, TypesOK, PageType
<1>2. PICK p \in PageType : p = [page EXCEPT !.retry = FALSE]
  BY <1>1 DEF PageType
<1>3. Joins(p)
  BY <1>2 DEF Retry, Joins
<1> QED BY <1>1, <1>2, <1>3, JoinsKeeps DEF Retry, PageType

LEMMA WishKeeps ==
  ASSUME ViewInv, WorldViewConstants, Wish
  PROVE  ViewInv'
<1>1. page \in PageType
  BY DEF ViewInv, TypesOK, PageType
<1>2. PICK p \in PageType : p = [page EXCEPT !.selected = Me, !.effect = page.linked, !.retry = FALSE]
  BY <1>1 DEF PageType, Who
<1>3. Joins(p)
  BY <1>2 DEF Wish, Joins
<1>4. used' \in [ticks : 0..MaxTicks, losses : 0..MaxLosses, links : 0..MaxLinks, wishes : 0..MaxWishes]
  <2>1. used.wishes < MaxWishes /\ used' = [used EXCEPT !.wishes = @ + 1]
    BY DEF Wish
  <2> QED BY <2>1 DEF ViewInv, TypesOK, WorldViewConstants
<1>5. p.mirror = page.mirror /\ p.linked = page.linked
  BY <1>1, <1>2 DEF PageType
<1> QED BY <1>3, <1>4, <1>5, JoinsKeeps DEF Wish
\* A new session has seen nothing: any mirror has what it has.
LEMMA ConnectKeeps ==
  ASSUME ViewInv, WorldViewConstants, Connect
  PROVE  ViewInv'
<1>1. /\ UNCHANGED <<running, world, near, lookup, entering, down, failed>>
      /\ session' = NewSession /\ page' = [page EXCEPT !.linked = TRUE, !.effect = TRUE]
      /\ joins' \in Nat
  BY DEF Connect
<1>2. used' \in [ticks : 0..MaxTicks, losses : 0..MaxLosses, links : 0..MaxLinks, wishes : 0..MaxWishes]
  <2>1. used.links < MaxLinks /\ used' = [used EXCEPT !.links = @ + 1]
    BY DEF Connect
  <2> QED BY <2>1 DEF ViewInv, TypesOK, WorldViewConstants
<1>3. page' \in PageType /\ page'.mirror = page.mirror /\ page'.linked = TRUE
  BY <1>1 DEF ViewInv, TypesOK, PageType
<1>4. TypesOK'
  BY <1>1, <1>2, <1>3 DEF ViewInv, TypesOK, PageType
<1>5. NewSession \in Session
  BY EmptyState DEF NewSession, Session, Who, Empty, State
<1>6. LinkOK'
  BY <1>1, <1>3, <1>5 DEF LinkOK
<1>7. WiredOK'
  <2>1. GoodRun(page.mirror, down)
    BY DEF ViewInv, WiredOK
  <2>2. PICK mirror \in State : mirror = LastOf(page.mirror, down)
    BY <2>1, LastIsMirror
  <2>3. Tracks(NewSession, mirror)
    BY EmptyState
  <2>4. page'.mirror = page.mirror /\ down' = down
    BY <1>1, <1>3
  <2>5. Tracks(session', LastOf(page'.mirror, down'))
    BY <1>1, <2>2, <2>3, <2>4
  <2> QED BY <2>1, <2>4, <2>5 DEF WiredOK
<1> QED BY <1>4, <1>6, <1>7 DEF ViewInv

LEMMA DisconnectKeeps ==
  ASSUME ViewInv, Disconnect
  PROVE  ViewInv'
<1>1. /\ session' = None /\ lookup' = None /\ entering' = None /\ joins' = 0 /\ down' = <<>>
      /\ page' = [page EXCEPT !.linked = FALSE, !.rebuilt = FALSE, !.effect = FALSE]
      /\ failed' = FALSE /\ UNCHANGED <<running, world, near, used>>
  BY DEF Disconnect
<1>2. page' \in PageType /\ page'.mirror = page.mirror /\ page'.linked = FALSE
      /\ page.mirror \in State
  BY <1>1 DEF ViewInv, TypesOK, PageType
<1>3. TypesOK'
  BY <1>1, <1>2 DEF ViewInv, TypesOK, PageType
<1>4. LinkOK'
  BY <1>1, <1>2 DEF LinkOK
<1>5. WiredOK'
  <2>1. PICK mirror \in State : mirror = page.mirror
    BY <1>2
  <2>2. GoodRun(mirror, <<>>)
    BY NothingUnderWay
  <2> QED BY <1>1, <1>2, <2>1, <2>2 DEF WiredOK
<1> QED BY <1>3, <1>4, <1>5 DEF ViewInv

LEMMA ReceiveKeeps ==
  ASSUME ViewInv, Receive
  PROVE  ViewInv'
<1>1. UNCHANGED <<running, world, near, session, lookup, entering, joins, failed, used>>
      /\ down # <<>> /\ down' = Tail(down)
  BY DEF Receive, server
<1>2. PICK s : s = down
  OBVIOUS
<1>3. PICK mirror : mirror = page.mirror
  OBVIOUS
<1>4. GoodRun(mirror, s) /\ s # <<>>
  BY <1>1, <1>2, <1>3 DEF ViewInv, WiredOK
<1>5. PICK after : after = Applied(mirror, Head(s))
  OBVIOUS
<1>6. /\ GoodRun(after, Tail(s)) /\ LastOf(after, Tail(s)) = LastOf(mirror, s)
      /\ after \in State /\ Head(s) \in Message
  BY <1>4, <1>5, Received
<1>7. page' = [page EXCEPT !.mirror = after,
                           !.pending = IF Head(s).type = "snapshot" THEN Head(s).you ELSE @,
                           !.rebuilt = @ \/ Head(s).type = "snapshot",
                           !.retry = (@ /\ Head(s).type # "snapshot") \/ Head(s).type = "error"]
  BY <1>2, <1>3, <1>5 DEF Receive
<1>8. Head(s).type = "snapshot" => Head(s).you \in Who
  <2>1. \A you, v : Snapshot(you, v).you = you
    BY DEF Snapshot
  <2>2. \A old, new : Delta(old, new).type = "delta"
    BY DEF Delta
  <2>3. Error.type = "error"
    BY DEF Error
  <2>4. CASE \E you \in Who, v \in State : Head(s) = Snapshot(you, v)
    BY <2>1, <2>4
  <2>5. CASE \E old, new \in State : Head(s) = Delta(old, new)
    BY <2>2, <2>5
  <2>6. CASE Head(s) = Error
    BY <2>3, <2>6
  <2> QED BY <1>6, <2>4, <2>5, <2>6 DEF Message
<1>9. page' \in PageType /\ page'.mirror = after /\ page'.linked = page.linked
  BY <1>6, <1>7, <1>8 DEF ViewInv, TypesOK, PageType
<1>10. TypesOK'
  BY <1>1, <1>9 DEF ViewInv, TypesOK, PageType
<1>11. page.linked
  BY <1>1 DEF ViewInv, LinkOK
<1>12. LinkOK'
  BY <1>1, <1>9, <1>11 DEF ViewInv, LinkOK
<1>13. WiredOK'
  <2>1. Tracks(session, LastOf(mirror, s))
    BY <1>2, <1>3, <1>11 DEF ViewInv, WiredOK
  <2>2. down' = Tail(s) /\ session' = session
    BY <1>1, <1>2
  <2>3. Tracks(session', LastOf(page'.mirror, down'))
    BY <1>6, <1>9, <2>1, <2>2
  <2> QED BY <1>6, <1>9, <2>2, <2>3 DEF WiredOK
<1> QED BY <1>10, <1>12, <1>13 DEF ViewInv

LEMMA StutterKeeps ==
  ASSUME ViewInv, UNCHANGED vars
  PROVE  ViewInv'
<1>1. UNCHANGED <<running, world, near, session, lookup, entering, joins, down, page, failed, used>>
  BY DEF vars, server
<1>2. TypesOK'
  BY <1>1 DEF ViewInv, TypesOK
<1>3. LinkOK'
  BY <1>1 DEF ViewInv, LinkOK
<1> QED BY <1>1, <1>2, <1>3, NothingSent DEF ViewInv

\* ViewInv is an invariant.
LEMMA ViewInvariant ==
  ASSUME WorldViewConstants
  PROVE  Spec => []ViewInv
<1>1. Init => ViewInv
  BY InvInit
<1>2. ViewInv /\ [Next]_vars => ViewInv'
  <2> SUFFICES ASSUME ViewInv, [Next]_vars PROVE ViewInv'
    OBVIOUS
  <2>1. CASE Tick
    BY <2>1, TickKeeps
  <2>2. CASE Reset
    BY <2>2, ResetKeeps
  <2>3. CASE Lose
    BY <2>3, LoseKeeps
  <2>4. CASE Load
    BY <2>4, LoadKeeps
  <2>5. CASE OnJoin
    BY <2>5, OnJoinKeeps
  <2>6. CASE Resolved
    BY <2>6, ResolvedKeeps
  <2>7. CASE LookupThrows
    BY <2>7, LookupThrowsKeeps
  <2>8. CASE Enter
    BY <2>8, EnterKeeps
  <2>9. CASE Connect
    BY <2>9, ConnectKeeps
  <2>10. CASE Disconnect
    BY <2>10, DisconnectKeeps
  <2>11. CASE Effect
    BY <2>11, EffectKeeps
  <2>12. CASE Wish
    BY <2>12, WishKeeps
  <2>13. CASE Receive
    BY <2>13, ReceiveKeeps
  <2>14. CASE Retry
    BY <2>14, RetryKeeps
  <2>15. CASE UNCHANGED vars
    BY <2>15, StutterKeeps
  <2> QED
    BY <2>1, <2>2, <2>3, <2>4, <2>5, <2>6, <2>7, <2>8, <2>9, <2>10, <2>11, <2>12, <2>13,
       <2>14, <2>15 DEF Next
<1> QED BY <1>1, <1>2, PTL DEF Spec

\* The types of WorldView: every mirror is a mirror, field by field.
THEOREM ViewTypeCorrect == Spec => []TypeOK
<1>1. ViewInv => TypeOK
  BY InvShows
<1> QED BY <1>1, ViewInvariant, WorldViewConstants, PTL

\* However the snapshots, the deltas and the errors of joins, resets and reconnections
\* follow one another, the messages under way turn the mirror of the page into the view
\* that the next delta will be made from (buildDelta against applyDelta).
THEOREM MirrorAlwaysTracks == Spec => []MirrorsTheView
<1>1. ViewInv => MirrorsTheView
  BY InvShows
<1> QED BY <1>1, ViewInvariant, WorldViewConstants, PTL
===================================================================================
