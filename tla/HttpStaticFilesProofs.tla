------------------------ MODULE HttpStaticFilesProofs ------------------------
(***************************************************************************)
(* Theorems of HttpStaticFiles for every chunk size, word, set of sizes,   *)
(* set of Range headers and number of changes of the file: the ranges of a *)
(* 206 are those that were asked for, whatever happens to the file; and    *)
(* while no change falls into an answer, a client's copy is of one version *)
(* and each body is as long as its head says.                              *)
(*                                                                         *)
(* Those is a recursive function of the header's items.  Its equations,    *)
(* and what follows from them for headers of every length, are proved by   *)
(* NatSetInduction from sets of numbers {k \in Nat : ...}.                 *)
(***************************************************************************)
EXTENDS HttpStaticFiles, WellFoundedInduction, TLAPS

(* Induction, as a fact about sets: what has 0 and the successor of each of *)
(* its numbers has all of them.  (The library states it with an operator.) *)
LEMMA NatSetInduction ==
  ASSUME NEW S, 0 \in S, \A n \in Nat : n \in S => n + 1 \in S
  PROVE  Nat \subseteq S
<1> DEFINE R == OpToRel(<, Nat)
<1> DEFINE T == Nat \ S
<1>1. IsWellFoundedOn(R, Nat)
  BY NatLessThanWellFounded, Zenon
<1>2. \A x, y \in Nat : <<x, y>> \in R <=> x < y
  BY DEF OpToRel
<1>3. SUFFICES ASSUME T # {} PROVE FALSE
  OBVIOUS
<1> HIDE DEF R, T
<1>4. T \subseteq Nat
  BY DEF T
<1>5. PICK x \in T : \A y \in T : ~(<<y, x>> \in R)
  BY <1>1, <1>3, <1>4, WFMin
<1>6. x \in Nat /\ x # 0 /\ x - 1 \in Nat
  BY DEF T
<1>7. <<x - 1, x>> \in R
  BY <1>2, <1>6
<1>8. x - 1 \notin T
  BY <1>5, <1>7
<1> QED
  BY <1>6, <1>8 DEF T

(* f is what the steps G[1] .. G[n] make of b, one after the other.        *)
Iterated(f, X, n, b, G) ==
  /\ f \in [0 .. n -> X] /\ f[0] = b
  /\ \A i \in 1 .. n : f[i] = G[i][f[i - 1]]

(* A function that is recursive along 0 .. n exists.                       *)
LEMMA RecursiveSequence ==
  ASSUME NEW X, NEW n \in Nat, NEW b \in X, NEW G \in [1 .. n -> [X -> X]]
  PROVE  \E f : Iterated(f, X, n, b, G)
<1> DEFINE Is(f, k) == f[0] = b /\ \A i \in 1 .. k : f[i] = G[i][f[i - 1]]
<1> DEFINE S == {k \in Nat : k <= n => \E f \in [0 .. k -> X] : Is(f, k)}
<1>1. 0 \in S
  <2>1. [i \in 0 .. 0 |-> b] \in [0 .. 0 -> X] /\ Is([i \in 0 .. 0 |-> b], 0)
    OBVIOUS
  <2> QED
    BY <2>1
<1>2. ASSUME NEW k \in Nat, k \in S PROVE k + 1 \in S
  <2>1. SUFFICES ASSUME k + 1 <= n PROVE \E f \in [0 .. k + 1 -> X] : Is(f, k + 1)
    OBVIOUS
  <2>2. PICK f \in [0 .. k -> X] : Is(f, k)
    BY <1>2, <2>1
  <2> DEFINE g == [i \in 0 .. k + 1 |-> IF i = k + 1 THEN G[k + 1][f[k]] ELSE f[i]]
  <2>3. f[k] \in X /\ k + 1 \in 1 .. n
    BY <2>1
  <2>4. g \in [0 .. k + 1 -> X]
    BY <2>3
  <2>5. g[0] = b
    BY <2>2
  <2>6. ASSUME NEW i \in 1 .. k + 1 PROVE g[i] = G[i][g[i - 1]]
    <3>1. CASE i = k + 1
      BY <3>1
    <3>2. CASE i # k + 1
      BY <3>2, <2>2
    <3> QED
      BY <3>1, <3>2
  <2> QED
    BY <2>4, <2>5, <2>6
<1> HIDE DEF S
<1>3. n \in S
  BY <1>1, <1>2, NatSetInduction
<1> QED
  BY <1>3 DEF S, Iterated

-----------------------------------------------------------------------------
(* The elements of s that ok holds of.                                     *)

(* Those is the last of a sequence of sequences, each made of the one      *)
(* before it.                                                              *)
IsThose(u, s, ok) ==
  /\ Those(s, ok) = u[Len(s)] /\ u[0] = <<>>
  /\ \A n \in 1 .. Len(s) : u[n] = IF ok[n] THEN Append(u[n - 1], s[n]) ELSE u[n - 1]

LEMMA ThoseDef ==
  ASSUME NEW E, NEW s \in Seq(E), NEW ok \in [1 .. Len(s) -> BOOLEAN]
  PROVE  \E u \in [0 .. Len(s) -> Seq(E)] : IsThose(u, s, ok)
<1> DEFINE n == Len(s)
<1> DEFINE G == [i \in 1 .. n |-> [x \in Seq(E) |-> IF ok[i] THEN Append(x, s[i]) ELSE x]]
<1> DEFINE upTo[k \in 0 .. n] == IF k = 0 THEN <<>>
                                 ELSE IF ok[k] THEN Append(upTo[k - 1], s[k]) ELSE upTo[k - 1]
<1>1. n \in Nat /\ <<>> \in Seq(E)
  OBVIOUS
<1>2. G \in [1 .. n -> [Seq(E) -> Seq(E)]]
  <2>1. \A i \in 1 .. n : s[i] \in E
    OBVIOUS
  <2>2. \A i \in 1 .. n : \A x \in Seq(E) : Append(x, s[i]) \in Seq(E)
    BY <2>1
  <2> HIDE DEF n
  <2> QED
    BY <2>2
<1>3. PICK f : Iterated(f, Seq(E), n, <<>>, G)
  <2> HIDE DEF n, G
  <2> QED
    BY <1>1, <1>2, RecursiveSequence, Zenon
<1>4. f \in [0 .. n -> Seq(E)] /\ f[0] = <<>>
  BY <1>3 DEF Iterated
<1>5. ASSUME NEW k \in 1 .. n PROVE f[k] = IF ok[k] THEN Append(f[k - 1], s[k]) ELSE f[k - 1]
  <2>1. f[k - 1] \in Seq(E)
    <3> HIDE DEF n
    <3> QED
      BY <1>1, <1>4
  <2>2. f[k] = G[k][f[k - 1]]
    BY <1>3 DEF Iterated
  <2> QED
    BY <2>1, <2>2
<1>6. f = [k \in 0 .. n |-> IF k = 0 THEN <<>>
                            ELSE IF ok[k] THEN Append(f[k - 1], s[k]) ELSE f[k - 1]]
  <2>1. ASSUME NEW k \in 0 .. n
        PROVE  f[k] = IF k = 0 THEN <<>> ELSE IF ok[k] THEN Append(f[k - 1], s[k]) ELSE f[k - 1]
    <3> HIDE DEF n, G
    <3>1. k = 0 \/ k \in 1 .. n
      BY <1>1
    <3> QED
      BY <1>4, <1>5, <3>1
  <2> HIDE DEF n, G
  <2> QED
    BY <1>4, <2>1
<1>7. upTo = [k \in 0 .. n |-> IF k = 0 THEN <<>>
                               ELSE IF ok[k] THEN Append(upTo[k - 1], s[k]) ELSE upTo[k - 1]]
  <2> HIDE DEF n
  <2> QED
    BY <1>6, Zenon
<1>8. Those(s, ok) = upTo[n]
  BY DEF Those
<1> HIDE DEF upTo, G
<1>9. upTo[0] = <<>>
      /\ \A k \in 1 .. n : upTo[k] = IF ok[k] THEN Append(upTo[k - 1], s[k]) ELSE upTo[k - 1]
  <2> HIDE DEF n
  <2>1. \A k \in 0 .. n :
          upTo[k] = IF k = 0 THEN <<>> ELSE IF ok[k] THEN Append(upTo[k - 1], s[k]) ELSE upTo[k - 1]
    BY <1>7, Zenon
  <2>2. 0 \in 0 .. n /\ \A k \in 1 .. n : k \in 0 .. n /\ k # 0
    BY <1>1
  <2> QED
    BY <2>1, <2>2
<1> DEFINE S == {k \in Nat : k <= n => upTo[k] \in Seq(E)}
<1>10. ASSUME NEW k \in Nat, k \in S PROVE k + 1 \in S
  <2>1. SUFFICES ASSUME k + 1 <= n PROVE upTo[k + 1] \in Seq(E)
    OBVIOUS
  <2>2. k + 1 \in 1 .. n /\ upTo[k] \in Seq(E) /\ k + 1 - 1 = k
    BY <1>10, <2>1
  <2>3. s[k + 1] \in E
    BY <2>2
  <2>4. upTo[k + 1] = IF ok[k + 1] THEN Append(upTo[k], s[k + 1]) ELSE upTo[k]
    <3> HIDE DEF n
    <3> QED
      BY <2>2, <1>9
  <2> QED
    BY <2>2, <2>3, <2>4
<1>11. Nat \subseteq S
  <2>1. 0 \in S
    BY <1>1, <1>9
  <2> HIDE DEF S
  <2> QED
    BY <2>1, <1>10, NatSetInduction
<1>12. upTo \in [0 .. n -> Seq(E)]
  <2>1. \A k \in 0 .. n : upTo[k] \in Seq(E)
    BY <1>1, <1>11
  <2> QED
    BY <2>1, <1>7
<1> QED
  BY <1>8, <1>9, <1>12 DEF IsThose

(* Each of Those is an element that ok holds of.                           *)
LEMMA ThoseElements ==
  ASSUME NEW E, NEW s \in Seq(E), NEW ok \in [1 .. Len(s) -> BOOLEAN]
  PROVE  /\ Those(s, ok) \in Seq(E)
         /\ Len(Those(s, ok)) <= Len(s)
         /\ \A k \in 1 .. Len(Those(s, ok)) :
              \E i \in 1 .. Len(s) : ok[i] /\ Those(s, ok)[k] = s[i]
<1>1. PICK u \in [0 .. Len(s) -> Seq(E)] : IsThose(u, s, ok)
  BY ThoseDef
<1> DEFINE n == Len(s)
<1> DEFINE Good(x, m) == /\ Len(x) <= m
                         /\ \A k \in 1 .. Len(x) : \E i \in 1 .. n : ok[i] /\ x[k] = s[i]
<1> DEFINE S == {m \in Nat : m <= n => Good(u[m], m)}
<1>2. n \in Nat /\ u[0] = <<>> /\ Those(s, ok) = u[n]
  BY <1>1 DEF IsThose
<1>3. \A m \in 0 .. n : u[m] \in Seq(E)
  <2>1. u \in [0 .. n -> Seq(E)]
    BY <1>1
  <2> HIDE DEF n
  <2> QED
    BY <2>1
<1>4. 0 \in S
  BY <1>2
<1>5. ASSUME NEW m \in Nat, m \in S PROVE m + 1 \in S
  <2>1. SUFFICES ASSUME m + 1 <= n PROVE Good(u[m + 1], m + 1)
    OBVIOUS
  <2>2. m + 1 \in 1 .. n /\ m \in 0 .. n /\ m + 1 - 1 = m
    BY <1>2, <2>1
  <2>3. u[m + 1] = IF ok[m + 1] THEN Append(u[m], s[m + 1]) ELSE u[m]
    <3>1. \A k \in 1 .. n : u[k] = IF ok[k] THEN Append(u[k - 1], s[k]) ELSE u[k - 1]
      BY <1>1 DEF IsThose
    <3> HIDE DEF n
    <3> QED
      BY <2>2, <3>1
  <2>4. Good(u[m], m)
    BY <1>5, <2>1
  <2>5. u[m] \in Seq(E)
    BY <1>3, <2>2
  <2>6. CASE ok[m + 1]
    <3>1. u[m + 1] = Append(u[m], s[m + 1])
      BY <2>3, <2>6
    <3>2. Len(u[m + 1]) = Len(u[m]) + 1
      BY <2>5, <3>1
    <3>3. ASSUME NEW k \in 1 .. Len(u[m + 1])
          PROVE  \E i \in 1 .. n : ok[i] /\ u[m + 1][k] = s[i]
      <4>1. CASE k = Len(u[m]) + 1
        <5>1. u[m + 1][k] = s[m + 1]
          BY <2>5, <3>1, <4>1
        <5> QED
          BY <5>1, <2>2, <2>6
      <4>2. CASE k # Len(u[m]) + 1
        <5>1. k \in 1 .. Len(u[m]) /\ u[m + 1][k] = u[m][k]
          BY <2>5, <3>1, <3>2, <4>2
        <5> QED
          BY <5>1, <2>4
      <4> QED
        BY <4>1, <4>2
    <3>4. Len(u[m + 1]) <= m + 1
      <4>1. Len(u[m]) \in Nat
        BY <2>5
      <4> QED
        BY <4>1, <2>4, <3>2
    <3> QED
      BY <3>3, <3>4
  <2>7. CASE ~ok[m + 1]
    <3>1. u[m + 1] = u[m] /\ Len(u[m]) \in Nat
      BY <2>3, <2>5, <2>7
    <3> QED
      BY <3>1, <2>4
  <2> QED
    BY <2>6, <2>7
<1>6. Nat \subseteq S
  <2> HIDE DEF S
  <2> QED
    BY <1>4, <1>5, NatSetInduction
<1>7. Good(u[n], n)
  <2>1. n \in S
    BY <1>2, <1>6
  <2> HIDE DEF n
  <2> QED
    BY <1>2, <2>1
<1> QED
  BY <1>2, <1>3, <1>7

(* What Append leaves and adds.                                            *)
LEMMA AppendFacts ==
  ASSUME NEW E, NEW x \in Seq(E), NEW e \in E
  PROVE  /\ Len(x) \in Nat /\ Len(Append(x, e)) = Len(x) + 1
         /\ Append(x, e)[Len(x) + 1] = e
         /\ \A k \in 1 .. Len(x) : Append(x, e)[k] = x[k]
OBVIOUS

(* Those of what a function makes of the elements is what it makes of      *)
(* Those; here of ranges and of sets of offsets.                           *)
HttpRanges == [start : Nat, end : Nat, length : Nat]

Maps(h, s, t, ok) ==
  /\ s \in Seq(HttpRanges) /\ t \in Seq(SUBSET Int) /\ Len(t) = Len(s)
  /\ ok \in [1 .. Len(s) -> BOOLEAN]
  /\ \A i \in 1 .. Len(s) : ok[i] => t[i] = h[s[i]]

LEMMA ThoseMapped ==
  ASSUME NEW h, NEW s, NEW t, NEW ok, Maps(h, s, t, ok)
  PROVE  /\ Those(s, ok) \in Seq(HttpRanges) /\ Those(t, ok) \in Seq(SUBSET Int)
         /\ Len(Those(t, ok)) = Len(Those(s, ok))
         /\ \A k \in 1 .. Len(Those(s, ok)) : Those(t, ok)[k] = h[Those(s, ok)[k]]
<1>0. /\ s \in Seq(HttpRanges) /\ t \in Seq(SUBSET Int) /\ Len(t) = Len(s)
      /\ ok \in [1 .. Len(s) -> BOOLEAN] /\ ok \in [1 .. Len(t) -> BOOLEAN]
      /\ \A i \in 1 .. Len(s) : ok[i] => t[i] = h[s[i]]
  BY DEF Maps
<1>1. PICK u \in [0 .. Len(s) -> Seq(HttpRanges)] : IsThose(u, s, ok)
  BY <1>0, ThoseDef
<1>2. PICK w \in [0 .. Len(t) -> Seq(SUBSET Int)] : IsThose(w, t, ok)
  <2>1. t \in Seq(SUBSET Int) /\ ok \in [1 .. Len(t) -> BOOLEAN]
    BY <1>0
  <2> QED
    BY <2>1, ThoseDef, Zenon
<1> DEFINE n == Len(s)
<1> DEFINE Same(y, x) == Len(y) = Len(x) /\ \A k \in 1 .. Len(x) : y[k] = h[x[k]]
<1> DEFINE S == {j \in Nat : j <= n => Same(w[j], u[j])}
<1>3. /\ n \in Nat /\ u[0] = <<>> /\ w[0] = <<>>
      /\ Those(s, ok) = u[n] /\ Those(t, ok) = w[n]
  BY <1>0, <1>1, <1>2 DEF IsThose
<1>4. \A j \in 0 .. n : u[j] \in Seq(HttpRanges) /\ w[j] \in Seq(SUBSET Int)
  <2>1. u \in [0 .. n -> Seq(HttpRanges)] /\ w \in [0 .. n -> Seq(SUBSET Int)]
    BY <1>0, <1>1, <1>2
  <2> HIDE DEF n
  <2> QED
    BY <2>1
<1>5. 0 \in S
  BY <1>3
<1>6. ASSUME NEW j \in Nat, j \in S PROVE j + 1 \in S
  <2>1. SUFFICES ASSUME j + 1 <= n PROVE Same(w[j + 1], u[j + 1])
    OBVIOUS
  <2>2. j + 1 \in 1 .. n /\ j \in 0 .. n /\ j + 1 - 1 = j
    BY <1>3, <2>1
  <2>3. u[j + 1] = IF ok[j + 1] THEN Append(u[j], s[j + 1]) ELSE u[j]
    <3>1. \A k \in 1 .. n : u[k] = IF ok[k] THEN Append(u[k - 1], s[k]) ELSE u[k - 1]
      BY <1>1 DEF IsThose
    <3> HIDE DEF n
    <3> QED
      BY <2>2, <3>1
  <2>4. w[j + 1] = IF ok[j + 1] THEN Append(w[j], t[j + 1]) ELSE w[j]
    <3>1. \A k \in 1 .. n : w[k] = IF ok[k] THEN Append(w[k - 1], t[k]) ELSE w[k - 1]
      BY <1>0, <1>2 DEF IsThose
    <3> HIDE DEF n
    <3> QED
      BY <2>2, <3>1
  <2>5. Same(w[j], u[j]) /\ u[j] \in Seq(HttpRanges) /\ w[j] \in Seq(SUBSET Int)
    BY <1>4, <1>6, <2>1, <2>2
  <2>6. CASE ok[j + 1]
    <3>1. u[j + 1] = Append(u[j], s[j + 1]) /\ w[j + 1] = Append(w[j], t[j + 1])
      BY <2>3, <2>4, <2>6
    <3>2. t[j + 1] = h[s[j + 1]]
      BY <1>0, <2>2, <2>6
    <3>0. s[j + 1] \in HttpRanges /\ t[j + 1] \in SUBSET Int
      BY <1>0, <2>2
    <3> DEFINE Longer(y, x, e) ==
          /\ Len(x) \in Nat /\ Len(y) = Len(x) + 1 /\ y[Len(x) + 1] = e
          /\ \A k \in 1 .. Len(x) : y[k] = x[k]
    <3>9. Longer(u[j + 1], u[j], s[j + 1]) /\ Longer(w[j + 1], w[j], t[j + 1])
      <4>1. Longer(Append(u[j], s[j + 1]), u[j], s[j + 1])
        BY <2>5, <3>0, AppendFacts
      <4>2. Longer(Append(w[j], t[j + 1]), w[j], t[j + 1])
        BY <2>5, <3>0, AppendFacts
      <4> HIDE DEF Longer
      <4> QED
        BY <3>1, <4>1, <4>2
    <3>3. /\ Len(u[j + 1]) = Len(u[j]) + 1 /\ u[j + 1][Len(u[j]) + 1] = s[j + 1]
          /\ Len(w[j + 1]) = Len(w[j]) + 1 /\ w[j + 1][Len(w[j]) + 1] = t[j + 1]
          /\ Len(u[j]) \in Nat
      BY <3>9
    <3>4. \A k \in 1 .. Len(u[j]) : u[j + 1][k] = u[j][k] /\ w[j + 1][k] = w[j][k]
      BY <2>5, <3>9
    <3>5. ASSUME NEW k \in 1 .. Len(u[j + 1]) PROVE w[j + 1][k] = h[u[j + 1][k]]
      <4>1. CASE k = Len(u[j]) + 1
        BY <2>5, <3>2, <3>3, <4>1
      <4>2. CASE k # Len(u[j]) + 1
        <5>1. k \in 1 .. Len(u[j])
          BY <3>3, <4>2
        <5> QED
          BY <2>5, <3>4, <5>1
      <4> QED
        BY <4>1, <4>2
    <3> QED
      BY <2>5, <3>3, <3>5
  <2>7. CASE ~ok[j + 1]
    BY <2>3, <2>4, <2>5, <2>7
  <2> QED
    BY <2>6, <2>7
<1>7. Nat \subseteq S
  <2> HIDE DEF S
  <2> QED
    BY <1>5, <1>6, NatSetInduction
<1>8. Same(w[n], u[n]) /\ u[n] \in Seq(HttpRanges) /\ w[n] \in Seq(SUBSET Int)
  BY <1>3, <1>4, <1>7
<1> QED
  BY <1>3, <1>8

-----------------------------------------------------------------------------
Multipart == answer.status = 206 /\ Several

(* Of the file: its time numbers its versions, of which there have been no *)
(* more than changes.                                                      *)
IsFile(f, last) ==
  /\ f = [inode |-> f.inode, time |-> f.time, version |-> f.version, size |-> f.size]
  /\ f.size \in Sizes /\ f.time \in 1 .. last /\ f.version = f.time

FileInv ==
  /\ changes \in 0 .. MaxChanges
  /\ disk = Gone \/ IsFile(disk, changes + 1)

(* Of the ranges of an answer, whatever happens to the file.               *)
RangeInv ==
  /\ pc \in {"idle", "size", "tag", "open", "send"}
  /\ pc \in {"size", "tag"} => answer = NoAnswer /\ sent = 0 /\ body = <<>>
  /\ pc \in {"tag", "open", "send"} => size \in Sizes
  /\ pc \in {"open", "send"} => answer.status \in {200, 206}
  /\ req.ranges \in Seq(Numbers \X Numbers)
  /\ answer.status \in {206, 416} => size \in Sizes
  /\ answer.status = 206 =>
       answer.ranges = ParseRanges(req.ranges, size) /\ answer.ranges # <<>>
  /\ answer.status = 416 => ParseRanges(req.ranges, size) = <<>>

(* Of the client's copy: its time is the version of all its bytes.         *)
IsCopy(c) ==
  /\ c = [tag |-> c.tag, time |-> c.time, at |-> c.at]
  /\ c.time \in 0 .. changes + 1
  /\ disk # Gone => c.time <= disk.time
  /\ c.tag # NoTag => c.tag[3] = c.time /\ c.time # 0
  /\ \A i \in DOMAIN c.at : c.at[i] = <<c.time, i>> /\ c.time # 0

CopyInv == IsCopy(copy)

(* Of a request: its condition is about the copy.                          *)
ConditionInv ==
  /\ req.ifRange.kind \in {"none", "tag", "date"}
  /\ req.ifRange.kind = "tag"  => req.ifRange.tag = copy.tag /\ copy.tag # NoTag
  /\ req.ifRange.kind = "date" => req.ifRange.time = copy.time /\ copy.time # 0

(* Of an answer with a body, from its head on.                             *)
HeadInv ==
  /\ answer.time = disk.time
  /\ answer.tag # NoTag => answer.tag[3] = disk.time
  /\ answer.status = 206 /\ req.ifRange.kind # "none" => copy.time = disk.time
  /\ answer.status = 200 =>
       answer.length = IF DecideTransferMode(size) = "CHUNK" THEN Chunked ELSE size
  /\ answer.status = 206 /\ ~Several => answer.length = answer.ranges[1].length

First == IF answer.status = 206 THEN answer.ranges[1].start ELSE 0

TodoInv ==
  /\ todo = <<[start |-> todo[1].start, end |-> todo[1].end, length |-> todo[1].length]>>
  /\ todo[1].length \in Nat
  /\ todo[1].start = First + Len(body)
  /\ answer.length # Chunked =>
       /\ sent + todo[1].length = answer.length
       /\ todo[1].start + todo[1].length <= size

IsBody(bytes) ==
  /\ bytes \in Seq(Int \X Int)
  /\ \A j \in 1 .. Len(bytes) : bytes[j] = <<disk.version, First + j - 1>>

QuietInv ==
  /\ CopyInv
  /\ pc # "idle" => ConditionInv
  /\ pc \in {"tag", "open", "send"} => disk # Gone /\ size = disk.size
  /\ pc \in {"open", "send"} => HeadInv
  /\ pc = "open" /\ ~Multipart => body = <<>> /\ sent = 0 /\ TodoInv
  /\ pc = "send" => held = disk
  /\ pc = "send" /\ ~Multipart => sent \in Nat /\ TodoInv /\ IsBody(body)
  /\ BodyAsAnnounced

IInv == FileInv /\ RangeInv /\ (~raced => QuietInv)
-----------------------------------------------------------------------------
(* Range headers.                                                          *)

(* A range that is parsed as valid lies in the file and is what its        *)
(* numbers ask for; what is parsed as invalid asks for nothing.            *)
LEMMA SingleRange ==
  ASSUME NEW spec \in Numbers \X Numbers, NEW n \in Sizes, NEW r, r = ParseSingleRange(spec, n)
  PROVE  /\ r \in HttpRanges
         /\ IsValid(r) => r.start + r.length <= n
         /\ spec # <<Omitted, 0>> =>
              /\ IsValid(r) => Asked(spec, n) = r.start .. r.end /\ Asked(spec, n) # {}
              /\ ~IsValid(r) => Asked(spec, n) = {}
<1> DEFINE a == spec[1]
<1> DEFINE b == spec[2]
<1> DEFINE Goal == /\ r \in HttpRanges
                   /\ IsValid(r) => r.start + r.length <= n
                   /\ spec # <<Omitted, 0>> =>
                        /\ IsValid(r) => Asked(spec, n) = r.start .. r.end /\ Asked(spec, n) # {}
                        /\ ~IsValid(r) => Asked(spec, n) = {}
<1>1. /\ n \in Nat /\ n + 1 < Wrap /\ Wrap \in Nat \ {0}
      /\ Omitted \notin Nat /\ Junk \notin Nat /\ Omitted # Junk
  BY StaticFileAssumption
<1>2. a \in Numbers /\ b \in Numbers /\ spec = <<a, b>>
  OBVIOUS
<1>3. /\ \A k \in 0 .. Wrap - 1 : k % Wrap = k
      /\ Wrap % Wrap = 0 /\ (0 - 1) % Wrap = Wrap - 1
  BY <1>1
<1>4. CASE Junk \in {a, b} \/ (a = Omitted /\ b = Omitted)
  <2>1. r = InvalidRange
    BY <1>1, <1>2, <1>4, Zenon DEF ParseSingleRange
  <2>2. Asked(spec, n) = {}
    BY <1>1, <1>2, <1>4, Zenon DEF Asked
  <2>3. InvalidRange \in HttpRanges /\ ~IsValid(InvalidRange)
    BY DEF InvalidRange, IsValid, HttpRanges
  <2> QED
    BY <2>1, <2>2, <2>3
<1>5. CASE Junk \notin {a, b} /\ a = Omitted /\ b # Omitted
  <2>1. b \in Nat
    BY <1>2, <1>5 DEF Numbers
  <2> DEFINE suffix == IF b = 0 \/ b > n THEN n ELSE b
  <2>2. r = HttpRange(n - suffix, (n - 1) % Wrap)
    BY <1>1, <1>5, <2>1 DEF ParseSingleRange
  <2>3. Asked(spec, n) = {i \in 0 .. n - 1 : i >= n - b}
    BY <1>5 DEF Asked
  <2>4. CASE n = 0
    <3>1. r = [start |-> 0, end |-> Wrap - 1, length |-> (Wrap - 1 - 0 + 1) % Wrap]
      BY <1>1, <1>3, <2>1, <2>2, <2>4 DEF HttpRange
    <3>2. Wrap - 1 - 0 + 1 = Wrap
      BY <1>1
    <3>3. r = [start |-> 0, end |-> Wrap - 1, length |-> 0]
      BY <1>3, <3>1, <3>2
    <3>4. ~IsValid(r) /\ r \in HttpRanges
      BY <1>1, <3>3 DEF IsValid, HttpRanges
    <3>5. Asked(spec, n) = {}
      BY <2>1, <2>3, <2>4
    <3> QED
      BY <3>4, <3>5
  <2>5. CASE n > 0
    <3>1. suffix \in 1 .. n /\ (n - 1) % Wrap = n - 1
      <4>1. n - 1 \in 0 .. Wrap - 1
        BY <1>1, <2>5
      <4> QED
        BY <1>1, <1>3, <2>1, <2>5, <4>1
    <3> HIDE DEF suffix
    <3>2. r = [start |-> n - suffix, end |-> n - 1, length |-> (n - 1 - (n - suffix) + 1) % Wrap]
      BY <2>2, <3>1 DEF HttpRange
    <3>3. n - 1 - (n - suffix) + 1 = suffix /\ suffix \in 0 .. Wrap - 1
      BY <1>1, <3>1
    <3>4. r = [start |-> n - suffix, end |-> n - 1, length |-> suffix]
      BY <1>3, <3>2, <3>3
    <3>5. r \in HttpRanges /\ IsValid(r) /\ r.start + r.length <= n
      BY <1>1, <3>1, <3>4 DEF HttpRanges, IsValid
    <3>6. spec # <<Omitted, 0>> => Asked(spec, n) = r.start .. r.end /\ Asked(spec, n) # {}
      <4>1. SUFFICES ASSUME b # 0 PROVE Asked(spec, n) = r.start .. r.end /\ Asked(spec, n) # {}
        BY <1>2, <1>5
      <4>2. suffix = IF b > n THEN n ELSE b
        BY <4>1 DEF suffix
      <4>3. Asked(spec, n) = n - suffix .. n - 1
        BY <1>1, <2>1, <2>3, <4>1, <4>2
      <4>4. n - 1 \in n - suffix .. n - 1
        BY <1>1, <3>1
      <4> QED
        BY <3>4, <4>3, <4>4
    <3> QED
      BY <3>5, <3>6
  <2> QED
    BY <1>1, <2>4, <2>5
<1>6. CASE Junk \notin {a, b} /\ a # Omitted
  <2>1. a \in Nat
    BY <1>2, <1>6 DEF Numbers
  <2>2. CASE a >= n
    <3>1. r = InvalidRange
      BY <1>1, <1>6, <2>1, <2>2 DEF ParseSingleRange
    <3>2. InvalidRange \in HttpRanges /\ ~IsValid(InvalidRange)
      BY DEF InvalidRange, IsValid, HttpRanges
    <3>3. Asked(spec, n) = {}
      BY <1>1, <1>6, <2>1, <2>2 DEF Asked
    <3> QED
      BY <3>1, <3>2, <3>3
  <2>3. CASE a < n
    <3>1. (n - 1) % Wrap = n - 1
      <4>1. n - 1 \in 0 .. Wrap - 1
        BY <1>1, <2>1, <2>3
      <4> QED
        BY <1>3, <4>1
    <3>2. ASSUME NEW e \in a .. n - 1, r = HttpRange(a, e), Asked(spec, n) = a .. e
          PROVE  Goal
      <4>1. e - a + 1 \in 0 .. Wrap - 1
        BY <1>1, <2>1
      <4>2. r = [start |-> a, end |-> e, length |-> e - a + 1]
        BY <1>3, <3>2, <4>1 DEF HttpRange
      <4>3. r \in HttpRanges /\ IsValid(r) /\ r.start + r.length <= n
        BY <1>1, <2>1, <4>2 DEF HttpRanges, IsValid
      <4>4. a \in a .. e
        BY <2>1
      <4> QED
        BY <3>2, <4>2, <4>3, <4>4
    <3>3. CASE b = Omitted
      <4>1. r = HttpRange(a, n - 1)
        BY <1>1, <1>6, <2>1, <2>3, <3>1, <3>3 DEF ParseSingleRange
      <4>2. Asked(spec, n) = a .. n - 1
        <5>1. Asked(spec, n) = {i \in 0 .. n - 1 : i >= a}
          BY <1>1, <1>6, <2>1, <3>3 DEF Asked
        <5> QED
          BY <1>1, <2>1, <2>3, <5>1
      <4>3. n - 1 \in a .. n - 1
        BY <1>1, <2>1, <2>3
      <4> QED
        BY <3>2, <4>1, <4>2, <4>3
    <3>4. CASE b # Omitted
      <4>1. b \in Nat
        BY <1>2, <1>6, <3>4 DEF Numbers
      <4>2. Asked(spec, n) = {i \in 0 .. n - 1 : a <= i /\ i <= b}
        BY <1>6, <3>4 DEF Asked
      <4>3. CASE a > b
        <5>1. r = InvalidRange
          BY <1>1, <1>6, <2>1, <2>3, <3>4, <4>3 DEF ParseSingleRange
        <5>2. InvalidRange \in HttpRanges /\ ~IsValid(InvalidRange)
          BY DEF InvalidRange, IsValid, HttpRanges
        <5>3. Asked(spec, n) = {}
          BY <1>1, <2>1, <4>1, <4>2, <4>3
        <5> QED
          BY <5>1, <5>2, <5>3
      <4>4. CASE a <= b
        <5> DEFINE e == Least(b, n - 1)
        <5>1. r = HttpRange(a, e)
          BY <1>1, <1>6, <2>1, <2>3, <3>1, <3>4, <4>1, <4>4 DEF ParseSingleRange
        <5>2. e \in a .. n - 1
          BY <1>1, <2>1, <2>3, <4>1, <4>4 DEF Least
        <5>3. Asked(spec, n) = a .. e
          BY <1>1, <2>1, <2>3, <4>1, <4>2, <4>4 DEF Least
        <5> HIDE DEF e
        <5> QED
          BY <3>2, <5>1, <5>2, <5>3
      <4> QED
        BY <2>1, <4>1, <4>3, <4>4
    <3> QED
      BY <3>3, <3>4
  <2> QED
    BY <1>1, <2>1, <2>2, <2>3
<1> QED
  BY <1>4, <1>5, <1>6

(* The ranges parsed of a header lie in the file, ...                      *)
LEMMA RangesInFile ==
  ASSUME NEW specs \in Seq(Numbers \X Numbers), NEW n \in Sizes
  PROVE  /\ ParseRanges(specs, n) \in Seq(HttpRanges)
         /\ Len(ParseRanges(specs, n)) <= Len(specs)
         /\ \A k \in 1 .. Len(ParseRanges(specs, n)) :
              ParseRanges(specs, n)[k].start + ParseRanges(specs, n)[k].length <= n
<1> DEFINE s == [i \in DOMAIN specs |-> ParseSingleRange(specs[i], n)]
<1> DEFINE ok == [i \in DOMAIN specs |-> IsValid(s[i])]
<1>1. DOMAIN specs = 1 .. Len(specs) /\ Len(specs) \in Nat
  OBVIOUS
<1>2. \A i \in 1 .. Len(specs) : specs[i] \in Numbers \X Numbers
  OBVIOUS
<1>3. \A i \in 1 .. Len(specs) :
        /\ s[i] \in HttpRanges
        /\ IsValid(s[i]) => s[i].start + s[i].length <= n
  BY <1>1, <1>2, SingleRange
<1>4. s \in Seq(HttpRanges) /\ Len(s) = Len(specs)
  BY <1>1, <1>3
<1>5. ok \in [1 .. Len(s) -> BOOLEAN]
  BY <1>1, <1>4 DEF IsValid
<1>6. ParseRanges(specs, n) = Those(s, ok)
  BY DEF ParseRanges
<1>7. \A i \in 1 .. Len(s) : ok[i] => s[i].start + s[i].length <= n
  BY <1>1, <1>3, <1>4
<1> HIDE DEF s, ok
<1> QED
  BY <1>4, <1>5, <1>6, <1>7, ThoseElements

(* ... and are those it asks for.                                          *)
Wanted(specs, n) ==
  LET offsets == [i \in DOMAIN specs |-> Asked(specs[i], n)]
  IN  Those(offsets, [i \in DOMAIN specs |-> offsets[i] # {}])

Extents(ranges) == [k \in DOMAIN ranges |-> ranges[k].start .. ranges[k].end]

LEMMA RangesAreAsked ==
  ASSUME NEW specs \in Seq(Numbers \X Numbers), NEW n \in Sizes,
         <<Omitted, 0>> \notin ToSet(specs)
  PROVE  Wanted(specs, n) = Extents(ParseRanges(specs, n))
<1> DEFINE offsets == [i \in DOMAIN specs |-> Asked(specs[i], n)]
<1> DEFINE s == [i \in DOMAIN specs |-> ParseSingleRange(specs[i], n)]
<1> DEFINE ok == [i \in DOMAIN specs |-> IsValid(s[i])]
<1> DEFINE h == [r \in HttpRanges |-> r.start .. r.end]
<1>1. DOMAIN specs = 1 .. Len(specs) /\ Len(specs) \in Nat
  OBVIOUS
<1>2. \A i \in 1 .. Len(specs) : specs[i] \in Numbers \X Numbers /\ specs[i] # <<Omitted, 0>>
  BY <1>1 DEF ToSet
<1>3. \A i \in 1 .. Len(specs) :
        /\ s[i] \in HttpRanges
        /\ IsValid(s[i]) => offsets[i] = s[i].start .. s[i].end /\ offsets[i] # {}
        /\ ~IsValid(s[i]) => offsets[i] = {}
  BY <1>1, <1>2, SingleRange
<1>4. s \in Seq(HttpRanges) /\ Len(s) = Len(specs)
  BY <1>1, <1>3
<1>5. ok \in [1 .. Len(s) -> BOOLEAN]
  BY <1>1, <1>4 DEF IsValid
<1>6. ParseRanges(specs, n) = Those(s, ok)
  BY DEF ParseRanges
<1>7. ok = [i \in DOMAIN specs |-> offsets[i] # {}]
  BY <1>1, <1>3 DEF IsValid
<1>8. offsets \in Seq(SUBSET Int) /\ Len(offsets) = Len(specs)
  <2>1. \A i \in 1 .. Len(specs) : offsets[i] \in SUBSET Int
    BY DEF Asked
  <2> QED
    BY <1>1, <2>1
<1>9. \A i \in 1 .. Len(s) : ok[i] => offsets[i] = h[s[i]]
  BY <1>1, <1>3, <1>4
<1> HIDE DEF s, ok, h, offsets
<1>10. Maps(h, s, offsets, ok)
  BY <1>4, <1>5, <1>8, <1>9 DEF Maps
<1>11. /\ Those(s, ok) \in Seq(HttpRanges) /\ Those(offsets, ok) \in Seq(SUBSET Int)
       /\ Len(Those(offsets, ok)) = Len(Those(s, ok))
       /\ \A k \in 1 .. Len(Those(s, ok)) : Those(offsets, ok)[k] = h[Those(s, ok)[k]]
  BY <1>10, ThoseMapped
<1> DEFINE x == Those(s, ok)
<1> DEFINE y == Those(offsets, ok)
<1> HIDE DEF x, y
<1>12. /\ x \in Seq(HttpRanges) /\ y \in Seq(SUBSET Int) /\ Len(y) = Len(x)
       /\ \A k \in 1 .. Len(x) : y[k] = h[x[k]]
  BY <1>11 DEF x, y
<1>13. y = [k \in DOMAIN x |-> x[k].start .. x[k].end]
  <2>1. \A k \in 1 .. Len(x) : x[k] \in HttpRanges
    BY <1>12
  <2>2. \A k \in 1 .. Len(x) : y[k] = x[k].start .. x[k].end
    BY <1>12, <2>1 DEF h
  <2> QED
    BY <1>12, <2>2
<1>14. x = ParseRanges(specs, n) /\ y = Wanted(specs, n)
  BY <1>6, <1>7 DEF x, y, offsets, Wanted
<1> QED
  BY <1>13, <1>14 DEF Extents

-----------------------------------------------------------------------------
(* The heads that Decide makes.                                            *)
LEMMA DecideCases ==
  ASSUME NEW head, head = Head200(disk), NEW d, d = Decide
  PROVE  /\ d.status \in {200, 206, 304, 412, 416}
         /\ d.status = 206 =>
              /\ d.ranges = ParseRanges(req.ranges, size) /\ d.ranges # <<>>
              /\ d.tag = head.tag /\ d.time = head.time /\ d.length = TotalLength(d.ranges)
              /\ MatchIfRange(head.tag, head.time, req.ifRange)
         /\ d.status = 416 => ParseRanges(req.ranges, size) = <<>>
         /\ d.status = 200 =>
              /\ d.tag = head.tag /\ d.time = head.time
              /\ d.length = IF DecideTransferMode(size) = "CHUNK" THEN Chunked ELSE size
<1> DEFINE parsed == ParseRanges(req.ranges, size)
<1> DEFINE hasRange == req.ranges # <<>> /\ MatchIfRange(head.tag, head.time, req.ifRange)
<1> DEFINE fails == etags /\ req.ifMatch # {} /\ ~MatchEtagHeader(head.tag, req.ifMatch)
<1> DEFINE same  == etags /\ MatchEtagHeader(head.tag, req.ifNoneMatch)
<1>1. d = IF fails THEN Short(412, 0)
          ELSE IF same THEN Short(304, 0)
          ELSE IF hasRange /\ parsed = <<>> THEN Short(416, 1)
          ELSE IF hasRange
          THEN [head EXCEPT !.status = 206, !.ranges = parsed, !.length = TotalLength(parsed)]
          ELSE [head EXCEPT !.length = IF DecideTransferMode(size) = "CHUNK" THEN Chunked ELSE size]
  BY DEF Decide
<1>2. head = [status |-> 200, length |-> Chunked, ranges |-> <<>>, time |-> head.time, tag |-> head.tag]
  BY DEF Head200
<1> HIDE DEF parsed, fails, same
<1>3. /\ Short(412, 0).status = 412 /\ Short(304, 0).status = 304 /\ Short(416, 1).status = 416
  BY DEF Short, NoAnswer
<1>4. CASE fails
  BY <1>1, <1>3, <1>4
<1>5. CASE ~fails /\ same
  BY <1>1, <1>3, <1>5
<1>6. CASE ~fails /\ ~same /\ hasRange /\ parsed = <<>>
  <2>1. d = Short(416, 1)
    BY <1>1, <1>6
  <2> QED
    BY <1>3, <1>6, <2>1 DEF parsed
<1>7. CASE ~fails /\ ~same /\ hasRange /\ parsed # <<>>
  <2>1. d = [head EXCEPT !.status = 206, !.ranges = parsed, !.length = TotalLength(parsed)]
    BY <1>1, <1>7
  <2>2. /\ d.status = 206 /\ d.ranges = parsed /\ d.length = TotalLength(parsed)
        /\ d.tag = head.tag /\ d.time = head.time
    BY <1>2, <2>1
  <2> QED
    BY <1>7, <2>2 DEF parsed
<1>8. CASE ~fails /\ ~same /\ ~hasRange
  <2>1. d = [head EXCEPT !.length = IF DecideTransferMode(size) = "CHUNK" THEN Chunked ELSE size]
    BY <1>1, <1>8
  <2>2. /\ d.status = 200 /\ d.tag = head.tag /\ d.time = head.time
        /\ d.length = IF DecideTransferMode(size) = "CHUNK" THEN Chunked ELSE size
    BY <1>2, <2>1
  <2> QED
    BY <2>2
<1> QED
  BY <1>4, <1>5, <1>6, <1>7, <1>8

-----------------------------------------------------------------------------
(* The file and the ranges of an answer.                                   *)

LEMMA FileInit == Init => FileInv
<1> SUFFICES ASSUME Init PROVE FileInv
  OBVIOUS
<1>1. changes = 0 /\ changes \in 0 .. MaxChanges
  BY StaticFileAssumption DEF Init
<1>2. PICK n \in Sizes : disk = [inode |-> 1, time |-> 1, version |-> 1, size |-> n]
  BY DEF Init
<1>3. IsFile(disk, changes + 1)
  BY <1>1, <1>2 DEF IsFile
<1> QED
  BY <1>1, <1>3 DEF FileInv

LEMMA FileStep == FileInv /\ [Next]_vars => FileInv'
<1> SUFFICES ASSUME FileInv, [Next]_vars PROVE FileInv'
  OBVIOUS
<1>1. MaxChanges \in Nat /\ changes \in Nat /\ changes <= MaxChanges
  BY StaticFileAssumption DEF FileInv
<1>2. CASE UNCHANGED <<disk, changes>>
  BY <1>2 DEF FileInv, IsFile
<1>3. ASSUME NEW n \in Sizes, Rewrite(n) PROVE FileInv'
  <2>1. /\ changes' = changes + 1 /\ changes' \in 0 .. MaxChanges
        /\ disk' = [disk EXCEPT !.time = @ + 1, !.version = @ + 1, !.size = n]
        /\ IsFile(disk, changes + 1)
    BY <1>1, <1>3 DEF Rewrite, Change, FileInv
  <2>2. disk' = [inode |-> disk.inode, time |-> disk.time + 1, version |-> disk.version + 1, size |-> n]
    BY <2>1 DEF IsFile
  <2>3. /\ disk'.size = n /\ disk'.time = disk.time + 1 /\ disk'.version = disk.version + 1
        /\ disk' = [inode |-> disk'.inode, time |-> disk'.time, version |-> disk'.version, size |-> disk'.size]
    BY <2>2
  <2>4. disk.time \in 1 .. changes + 1 /\ disk.version = disk.time
    BY <2>1 DEF IsFile
  <2>5. IsFile(disk', changes' + 1)
    BY <1>1, <2>1, <2>3, <2>4 DEF IsFile
  <2> QED
    BY <2>1, <2>5 DEF FileInv
<1>4. ASSUME NEW n \in Sizes, Replace(n) PROVE FileInv'
  <2>1. /\ changes' = changes + 1 /\ changes' \in 0 .. MaxChanges
        /\ disk' = [inode |-> changes + 2, time |-> changes + 2, version |-> changes + 2, size |-> n]
    BY <1>1, <1>4 DEF Replace, Change
  <2>2. IsFile(disk', changes' + 1)
    BY <1>1, <2>1 DEF IsFile
  <2> QED
    BY <2>1, <2>2 DEF FileInv
<1>5. CASE Unlink
  BY <1>1, <1>5 DEF Unlink, Change, FileInv
<1>6. CASE UNCHANGED vars
  BY <1>2, <1>6 DEF vars
<1>7. ASSUME NEW r \in Ranges, NEW c \in Conditions, Ask(r, c) PROVE FileInv'
  BY <1>2, <1>7 DEF Ask, file
<1>8. CASE LookUnderDirectory \/ LookAtFile \/ Tag \/ Open \/ RangeOver \/ SendFails
  BY <1>2, <1>8 DEF LookUnderDirectory, LookAtFile, Tag, Open, RangeOver, SendFails
<1>9. ASSUME NEW n \in 1 .. Chunk, SendPiece(n) PROVE FileInv'
  BY <1>2, <1>9 DEF SendPiece
<1> QED
  BY <1>3, <1>4, <1>5, <1>6, <1>7, <1>8, <1>9 DEF Next

LEMMA RangeInit == Init => RangeInv
<1> SUFFICES ASSUME Init PROVE RangeInv
  OBVIOUS
<1>1. pc = "idle" /\ answer = NoAnswer /\ req.ranges = <<>> /\ <<>> \in Seq(Numbers \X Numbers)
  BY DEF Init
<1>2. NoAnswer.status = 0
  BY DEF NoAnswer
<1> QED
  BY <1>1, <1>2 DEF RangeInv

(* What is kept while the request and the answer are.                      *)
LEMMA RangeKept ==
  ASSUME RangeInv, answer' = answer, req' = req, size' = size,
         \/ pc' = pc /\ (pc \in {"size", "tag"} => sent' = sent /\ body' = body)
         \/ pc' = "idle"
         \/ pc = "open" /\ pc' = "send"
  PROVE  RangeInv'
BY DEF RangeInv

(* What a new head keeps.                                                  *)
LEMMA RangeAnew ==
  ASSUME RangeInv, size \in Sizes, answer'.status \in {200, 304, 404, 412, 500}
                                \/ (answer'.status = 206 /\ pc' \in {"idle", "open"}
                                    /\ answer'.ranges = ParseRanges(req.ranges, size)
                                    /\ answer'.ranges # <<>>)
                                \/ (answer'.status = 416 /\ ParseRanges(req.ranges, size) = <<>>),
         req' = req, size' = size,
         pc' = "idle" \/ (pc' = "open" /\ answer'.status \in {200, 206})
  PROVE  RangeInv'
BY DEF RangeInv

LEMMA RangeStep == FileInv /\ RangeInv /\ [Next]_vars => RangeInv'
<1> SUFFICES ASSUME FileInv, RangeInv, [Next]_vars PROVE RangeInv'
  OBVIOUS
<1>1. NoAnswer.status = 0
  BY DEF NoAnswer
<1>2. ASSUME Found, pc = "size", UNCHANGED <<req, body>> PROVE RangeInv'
  <2>1. disk.size \in Sizes /\ pc' = "tag" /\ size' = disk.size /\ answer' = answer /\ sent' = sent
    BY <1>2 DEF Found, FileInv, IsFile
  <2> QED
    BY <1>1, <1>2, <2>1 DEF RangeInv
<1>3. ASSUME NotFound, pc = "size", req' = req PROVE RangeInv'
  <2>1. pc' = "idle" /\ answer' = Short(404, 1) /\ size' = size
    BY <1>3 DEF NotFound, Finish
  <2>2. answer'.status = 404
    BY <2>1 DEF Short, NoAnswer
  <2> QED
    BY <1>3, <2>1, <2>2 DEF RangeInv
<1>4. ASSUME FallBack, req' = req PROVE RangeInv'
  BY <1>4, RangeKept DEF FallBack, Finish
<1>5. ASSUME NEW r \in Ranges, NEW c \in Conditions, Ask(r, c) PROVE RangeInv'
  <2>1. /\ pc' = "size" /\ answer' = NoAnswer /\ sent' = 0 /\ body' = <<>>
        /\ req'.ranges = r /\ r \in Seq(Numbers \X Numbers)
    BY <1>5, StaticFileAssumption DEF Ask
  <2> QED
    BY <1>1, <2>1 DEF RangeInv
<1>6. CASE LookUnderDirectory
  BY <1>2, <1>3, <1>4, <1>6 DEF LookUnderDirectory
<1>7. CASE LookAtFile
  BY <1>2, <1>3, <1>7 DEF LookAtFile
<1>8. CASE Tag
  <2>1. /\ answer' = Decide /\ req' = req /\ size' = size /\ pc = "tag"
        /\ pc' = "idle" \/ (pc' = "open" /\ answer'.status \in {200, 206})
    BY <1>8 DEF Tag, Finish
  <2>2. size \in Sizes
    BY <2>1 DEF RangeInv
  <2> DEFINE d == Decide
  <2>3. /\ d.status \in {200, 206, 304, 412, 416}
        /\ d.status = 206 => d.ranges = ParseRanges(req.ranges, size) /\ d.ranges # <<>>
        /\ d.status = 416 => ParseRanges(req.ranges, size) = <<>>
    BY DecideCases
  <2>4. answer' = d
    BY <2>1
  <2> HIDE DEF d
  <2> QED
    BY <2>1, <2>2, <2>3, <2>4, RangeAnew
<1>9. CASE Open
  <2>1. req' = req /\ size' = size /\ pc = "open"
    BY <1>9 DEF Open
  <2>2. CASE answer' = answer
    <3>1. pc' \in {"idle", "send"}
      BY <1>9 DEF Open, Finish
    <3> QED
      BY <2>1, <2>2, <3>1, RangeKept
  <2>3. CASE answer' # answer
    <3>1. answer' = Short(500, 1) /\ pc' = "idle"
      BY <1>9, <2>3 DEF Open, Finish
    <3>2. answer'.status = 500
      BY <3>1 DEF Short, NoAnswer
    <3> QED
      BY <2>1, <3>1, <3>2 DEF RangeInv
  <2> QED
    BY <2>2, <2>3
<1>10. ASSUME NEW n \in 1 .. Chunk, SendPiece(n) PROVE RangeInv'
  BY <1>10, RangeKept DEF SendPiece
<1>11. CASE RangeOver
  <2>1. answer' = answer /\ req' = req /\ size' = size /\ pc = "send" /\ pc' \in {"send", "idle"}
    BY <1>11 DEF RangeOver, Finish
  <2> QED
    BY <2>1, RangeKept
<1>12. CASE SendFails
  BY <1>12, RangeKept DEF SendFails, Finish
<1>13. CASE UNCHANGED <<pc, req, size, answer, body, sent>>
  BY <1>13, RangeKept
<1>14. ASSUME NEW n \in Sizes, Rewrite(n) \/ Replace(n) PROVE RangeInv'
  BY <1>13, <1>14 DEF Rewrite, Replace, Change
<1>15. CASE Unlink
  BY <1>13, <1>15 DEF Unlink, Change
<1>16. CASE UNCHANGED vars
  BY <1>13, <1>16 DEF vars
<1> QED
  BY <1>5, <1>6, <1>7, <1>8, <1>9, <1>10, <1>11, <1>12, <1>14, <1>15, <1>16 DEF Next

(* The ranges of a 206 are those of the request's header, cut to the size  *)
(* the handler has seen, in their order; a 416 is sent when it has none.   *)
THEOREM RangesCorrect == Spec => []RangesAsAsked
<1>1. RangeInv => RangesAsAsked
  <2> SUFFICES ASSUME RangeInv, <<Omitted, 0>> \notin ToSet(req.ranges),
                      answer.status \in {206, 416}
               PROVE  RangesAsAsked
    BY DEF RangesAsAsked
  <2> DEFINE ranges == ParseRanges(req.ranges, size)
  <2>1. req.ranges \in Seq(Numbers \X Numbers) /\ size \in Sizes
    BY DEF RangeInv
  <2>2. Wanted(req.ranges, size) = Extents(ranges)
    BY <2>1, RangesAreAsked
  <2>3. /\ answer.status = 206 => answer.ranges = ranges
        /\ answer.status = 416 => ranges = <<>>
    BY DEF RangeInv
  <2>4. /\ answer.status = 206 => Wanted(req.ranges, size) = Extents(answer.ranges)
        /\ answer.status = 416 => Wanted(req.ranges, size) = <<>>
    <3> HIDE DEF ranges
    <3>1. Extents(<<>>) = <<>>
      BY DEF Extents
    <3> QED
      BY <2>2, <2>3, <3>1
  <2> QED
    BY <2>4 DEF RangesAsAsked, Wanted, Extents
<1>2. Init => FileInv /\ RangeInv
  BY FileInit, RangeInit
<1>3. FileInv /\ RangeInv /\ [Next]_vars => FileInv' /\ RangeInv'
  BY FileStep, RangeStep
<1> QED
  BY <1>1, <1>2, <1>3, PTL DEF Spec

-----------------------------------------------------------------------------
(* The answers of a file that does not change meanwhile.                   *)

LEMMA TotalOfOne ==
  ASSUME ~Several, NEW rs
  PROVE  TotalLength(rs) = rs[1].length
BY DEF TotalLength

(* The first range of an answer begins at an offset.                       *)
LEMMA FirstType ==
  ASSUME RangeInv, answer.status \in {200, 206}
  PROVE  First \in Nat
<1>1. CASE answer.status = 200
  BY <1>1 DEF First
<1>2. CASE answer.status = 206
  <2> DEFINE ranges == ParseRanges(req.ranges, size)
  <2>1. /\ req.ranges \in Seq(Numbers \X Numbers) /\ size \in Sizes
        /\ answer.ranges = ranges /\ answer.ranges # <<>>
    BY <1>2 DEF RangeInv
  <2>2. ranges \in Seq(HttpRanges)
    BY <2>1, RangesInFile
  <2>3. answer.ranges[1] \in HttpRanges
    BY <2>1, <2>2
  <2> QED
    BY <1>2, <2>3 DEF First, HttpRanges
<1> QED
  BY <1>1, <1>2

(* What the client makes of an answer to an unconditional request, or of   *)
(* one to a condition about its copy.                                      *)
LEMMA NewCopy ==
  ASSUME FileInv, RangeInv, CopyInv, disk # Gone, HeadInv, answer.status \in {200, 206},
         NEW bytes, IsBody(bytes), NEW part, NEW at,
         part = Offsets([start |-> First], bytes),
         \/ at = part
         \/ /\ answer.status = 206 /\ req.ifRange.kind # "none"
            /\ at = [i \in DOMAIN copy.at \cup DOMAIN part |->
                       IF i \in DOMAIN part THEN part[i] ELSE copy.at[i]]
  PROVE  IsCopy([tag |-> answer.tag, time |-> answer.time, at |-> at])
<1> DEFINE c == [tag |-> answer.tag, time |-> answer.time, at |-> at]
<1>1. First \in Nat
  BY FirstType
<1>2. disk.time \in 1 .. changes + 1 /\ disk.version = disk.time /\ changes \in Nat
  BY DEF FileInv, IsFile
<1>3. bytes \in Seq(Int \X Int) /\ Len(bytes) \in Nat
  BY DEF IsBody
<1>4. \A i \in DOMAIN part : part[i] = <<disk.time, i>>
  <2>1. part = [i \in First .. First + Len(bytes) - 1 |-> bytes[i - First + 1]]
    BY DEF Offsets
  <2>2. \A j \in 1 .. Len(bytes) : bytes[j] = <<disk.time, First + j - 1>>
    BY <1>2 DEF IsBody
  <2>3. ASSUME NEW i \in First .. First + Len(bytes) - 1 PROVE bytes[i - First + 1] = <<disk.time, i>>
    <3> DEFINE j == i - First + 1
    <3>1. j \in 1 .. Len(bytes) /\ First + j - 1 = i
      BY <1>1, <1>3
    <3> HIDE DEF j
    <3>2. bytes[j] = <<disk.time, i>>
      BY <2>2, <3>1
    <3> QED
      BY <3>2 DEF j
  <2>4. ASSUME NEW i \in DOMAIN part PROVE part[i] = <<disk.time, i>>
    <3>1. i \in First .. First + Len(bytes) - 1
      BY <2>1
    <3>2. part[i] = bytes[i - First + 1]
      <4> DEFINE places == First .. First + Len(bytes) - 1
      <4>1. part = [k \in places |-> bytes[k - First + 1]] /\ i \in places
        BY <2>1, <3>1
      <4> HIDE DEF places
      <4> QED
        BY <4>1
    <3> QED
      BY <2>3, <3>1, <3>2
  <2> QED
    BY <2>4
<1>5. \A i \in DOMAIN at : at[i] = <<disk.time, i>>
  <2>1. CASE at = part
    BY <1>4, <2>1
  <2>2. CASE at # part
    <3>1. /\ copy.time = disk.time
          /\ at = [i \in DOMAIN copy.at \cup DOMAIN part |->
                     IF i \in DOMAIN part THEN part[i] ELSE copy.at[i]]
      BY <2>2 DEF HeadInv
    <3>2. \A i \in DOMAIN copy.at : copy.at[i] = <<disk.time, i>>
      BY <3>1 DEF CopyInv, IsCopy
    <3> QED
      BY <1>4, <3>1, <3>2
  <2> QED
    BY <2>1, <2>2
<1>6. c.tag = answer.tag /\ c.time = disk.time /\ c.at = at
  BY DEF HeadInv
<1>7. answer.tag # NoTag => answer.tag[3] = disk.time
  BY DEF HeadInv
<1>8. c = [tag |-> c.tag, time |-> c.time, at |-> c.at]
  OBVIOUS
<1> HIDE DEF c
<1>9. IsCopy(c)
  BY <1>2, <1>5, <1>6, <1>7, <1>8 DEF IsCopy
<1> QED
  BY <1>9 DEF c

(* The end of an answer leaves the client with a copy.                     *)
LEMMA FinishCopy ==
  ASSUME FileInv, RangeInv, CopyInv, disk # Gone, HeadInv, answer.status \in {200, 206},
         UNCHANGED <<disk, changes>>,
         NEW bytes, ~Multipart => IsBody(bytes), Finish(answer, bytes)
  PROVE  CopyInv'
<1>1. ASSUME copy' = copy PROVE CopyInv'
  BY <1>1 DEF CopyInv, IsCopy
<1>2. ASSUME NEW c, IsCopy(c), copy' = c PROVE CopyInv'
  BY <1>2 DEF CopyInv, IsCopy
<1>3. CASE broken'
  BY <1>1, <1>3 DEF Finish
<1>4. CASE ~broken' /\ answer.status = 200
  <2> DEFINE part == Offsets([start |-> 0], bytes)
  <2> DEFINE c == [tag |-> answer.tag, time |-> answer.time, at |-> part]
  <2>1. copy' = c
    BY <1>4 DEF Finish
  <2>2. part = Offsets([start |-> First], bytes) /\ ~Multipart
    BY <1>4 DEF First, Multipart
  <2> HIDE DEF part
  <2>3. IsCopy(c)
    BY <2>2, NewCopy
  <2> QED
    BY <1>2, <2>1, <2>3
<1>5. CASE ~broken' /\ answer.status = 206 /\ ~Several
  <2> DEFINE part == Offsets(answer.ranges[1], bytes)
  <2> DEFINE at == IF req.ifRange.kind = "none" THEN part
                   ELSE [i \in DOMAIN copy.at \cup DOMAIN part |->
                           IF i \in DOMAIN part THEN part[i] ELSE copy.at[i]]
  <2> DEFINE c == [tag |-> answer.tag, time |-> answer.time, at |-> at]
  <2>1. copy' = c
    BY <1>5 DEF Finish
  <2>2. part = Offsets([start |-> First], bytes) /\ ~Multipart
    BY <1>5 DEF First, Multipart, Offsets
  <2>3. \/ at = part
        \/ /\ answer.status = 206 /\ req.ifRange.kind # "none"
           /\ at = [i \in DOMAIN copy.at \cup DOMAIN part |->
                      IF i \in DOMAIN part THEN part[i] ELSE copy.at[i]]
    BY <1>5
  <2> HIDE DEF part, at
  <2>4. IsCopy(c)
    BY <2>2, <2>3, NewCopy
  <2> QED
    BY <1>2, <2>1, <2>4
<1>6. CASE ~broken' /\ answer.status = 206 /\ Several
  BY <1>1, <1>6 DEF Finish
<1> QED
  BY <1>3, <1>4, <1>5, <1>6

-----------------------------------------------------------------------------
(* Each step while no answer is disturbed.                                 *)

(* What a step keeps that leaves the file, the copy and the answer alone.  *)
LEMMA CopyKept ==
  ASSUME CopyInv, copy' = copy, UNCHANGED <<disk, changes>>
  PROVE  CopyInv'
BY DEF CopyInv, IsCopy

LEMMA ConditionKept ==
  ASSUME ConditionInv, copy' = copy, req' = req
  PROVE  ConditionInv'
BY DEF ConditionInv

LEMMA HeadKept ==
  ASSUME HeadInv, UNCHANGED <<disk, copy, req, answer, size, mode>>
  PROVE  HeadInv'
BY DEF HeadInv, DecideTransferMode, Several

LEMMA QuietInit == Init => QuietInv
<1> SUFFICES ASSUME Init PROVE QuietInv
  OBVIOUS
<1>1. /\ pc = "idle" /\ answer = NoAnswer /\ sent = 0 /\ copy = NoCopy /\ changes = 0
      /\ \E n \in Sizes : disk = [inode |-> 1, time |-> 1, version |-> 1, size |-> n]
  BY DEF Init
<1>2. IsCopy(copy)
  BY <1>1 DEF NoCopy, NoTag, IsCopy
<1>3. answer.length = 0
  BY <1>1 DEF NoAnswer
<1> QED
  BY <1>1, <1>2, <1>3 DEF QuietInv, CopyInv, BodyAsAnnounced

(* A request whose condition is about the copy.                            *)
LEMMA AskQuiet ==
  ASSUME QuietInv, NEW r \in Ranges, NEW c \in Conditions, Ask(r, c)
  PROVE  QuietInv'
<1>1. /\ pc' = "size" /\ copy' = copy /\ UNCHANGED <<disk, changes>>
      /\ req'.ifRange = c.ifRange
  BY DEF Ask, file
<1>2. CopyInv'
  BY <1>1, CopyKept DEF QuietInv
<1>3. /\ c.ifRange.kind \in {"none", "tag", "date"}
      /\ c.ifRange.kind = "tag"  => c.ifRange.tag = copy.tag /\ copy.tag # NoTag
      /\ c.ifRange.kind = "date" => c.ifRange.time = copy.time /\ copy.time # 0
  <2> DEFINE none == [ifMatch |-> {}, ifNoneMatch |-> {}, ifRange |-> NoCondition]
  <2>1. NoCondition = [kind |-> "none", tag |-> NoTag, time |-> 0]
    BY DEF NoCondition
  <2>2. CASE c.ifRange = NoCondition
    BY <2>1, <2>2
  <2>3. CASE copy.tag # NoTag /\ c.ifRange = [NoCondition EXCEPT !.kind = "tag", !.tag = copy.tag]
    BY <2>1, <2>3
  <2>4. CASE copy.time # 0 /\ c.ifRange = [NoCondition EXCEPT !.kind = "date", !.time = copy.time]
    BY <2>1, <2>4
  <2> QED
    BY <2>2, <2>3, <2>4 DEF Conditions
<1>4. ConditionInv'
  BY <1>1, <1>3 DEF ConditionInv
<1> QED
  BY <1>1, <1>2, <1>4 DEF QuietInv, BodyAsAnnounced

(* The first look at the file.                                             *)
LEMMA LookQuiet ==
  ASSUME FileInv, RangeInv, QuietInv, pc = "size",
         Found \/ NotFound \/ FallBack, UNCHANGED <<disk, changes, req, broken>>
  PROVE  QuietInv'
<1>1. answer = NoAnswer /\ sent = 0 /\ CopyInv /\ ConditionInv
  BY DEF RangeInv, QuietInv
<1>2. NoAnswer.status = 0 /\ NoAnswer.length = 0
  BY DEF NoAnswer
<1>3. CASE Found
  <2>1. disk # Gone /\ pc' = "tag" /\ size' = disk.size /\ copy' = copy
    BY <1>3 DEF Found
  <2>2. CopyInv' /\ ConditionInv'
    BY <1>1, <2>1, CopyKept, ConditionKept
  <2> QED
    BY <2>1, <2>2 DEF QuietInv, BodyAsAnnounced
<1>4. CASE NotFound
  <2> DEFINE a == Short(404, 1)
  <2>1. a.status = 404 /\ a.length = 1
    BY DEF Short, NoAnswer
  <2>2. answer' = a /\ sent' = 1 /\ pc' = "idle"
    BY <1>4 DEF NotFound, Finish
  <2>3. copy' = copy
    BY <1>4, <2>1, <2>2 DEF NotFound, Finish
  <2>4. CopyInv'
    BY <1>1, <2>3, CopyKept
  <2> HIDE DEF a
  <2> QED
    BY <2>1, <2>2, <2>4 DEF QuietInv, BodyAsAnnounced
<1>5. CASE FallBack
  <2>1. pc' = "idle" /\ answer' = answer /\ sent' = sent /\ copy' = copy
    BY <1>2, <1>5 DEF FallBack, Finish
  <2>2. CopyInv'
    BY <1>1, <2>1, CopyKept
  <2> QED
    BY <1>1, <1>2, <2>1, <2>2 DEF QuietInv, BodyAsAnnounced
<1> QED
  BY <1>3, <1>4, <1>5

(* The head of an answer.                                                  *)
LEMMA TagQuiet ==
  ASSUME FileInv, RangeInv, QuietInv, Tag
  PROVE  QuietInv'
<1> DEFINE head == Head200(disk)
<1> DEFINE d == Decide
<1>1. /\ pc = "tag" /\ sent = 0 /\ body = <<>> /\ size \in Sizes
      /\ disk # Gone /\ size = disk.size /\ CopyInv /\ ConditionInv
  BY DEF Tag, RangeInv, QuietInv
<1>2. /\ answer' = d /\ UNCHANGED <<disk, changes, req, size, mode, body, broken>>
  BY DEF Tag, setup
<1>3. /\ d.status \in {200, 206, 304, 412, 416}
      /\ d.status = 206 =>
           /\ d.ranges = ParseRanges(req.ranges, size) /\ d.ranges # <<>>
           /\ d.tag = head.tag /\ d.time = head.time /\ d.length = TotalLength(d.ranges)
           /\ MatchIfRange(head.tag, head.time, req.ifRange)
      /\ d.status = 200 =>
           /\ d.tag = head.tag /\ d.time = head.time
           /\ d.length = IF DecideTransferMode(size) = "CHUNK" THEN Chunked ELSE size
  BY DecideCases
<1>4. head.time = disk.time /\ (head.tag # NoTag => head.tag[3] = disk.time)
  BY <1>1 DEF Head200, GenerateStrong
<1>5. CASE d.status \in {200, 206}
  <2>1. /\ pc' = "open" /\ copy' = copy /\ sent' = sent
        /\ todo' = IF d.status = 206 THEN d.ranges ELSE <<HttpRange(0, size - 1)>>
    BY <1>5 DEF Tag
  <2> HIDE DEF d, head
  <2>2. CopyInv' /\ ConditionInv'
    BY <1>1, <1>2, <2>1, CopyKept, ConditionKept
  <2>3. d.status = 206 /\ req.ifRange.kind # "none" => copy.time = disk.time
    <3> SUFFICES ASSUME d.status = 206, req.ifRange.kind # "none" PROVE copy.time = disk.time
      OBVIOUS
    <3>1. MatchIfRange(head.tag, head.time, req.ifRange)
      BY <1>3
    <3>2. CASE req.ifRange.kind = "tag"
      <4>1. req.ifRange.tag = head.tag /\ req.ifRange.tag = copy.tag /\ copy.tag # NoTag
        BY <1>1, <3>1, <3>2 DEF MatchIfRange, ConditionInv
      <4> QED
        BY <1>1, <1>4, <4>1 DEF CopyInv, IsCopy
    <3>3. CASE req.ifRange.kind = "date"
      <4>1. disk.time <= req.ifRange.time /\ req.ifRange.time = copy.time
        BY <1>1, <1>4, <3>1, <3>3 DEF MatchIfRange, ConditionInv
      <4>2. copy.time <= disk.time /\ copy.time \in Int /\ disk.time \in Int
        BY <1>1 DEF CopyInv, IsCopy, FileInv, IsFile
      <4> QED
        BY <4>1, <4>2
    <3> QED
      BY <1>1, <3>2, <3>3 DEF ConditionInv
  <2>4. d.status = 206 /\ ~Several => d.length = d.ranges[1].length
    BY <1>3, TotalOfOne
  <2>5. HeadInv'
    BY <1>2, <1>3, <1>4, <1>5, <2>1, <2>3, <2>4 DEF HeadInv, Several, DecideTransferMode
  <2>6. ASSUME ~Multipart' PROVE TodoInv'
    <3>1. Len(body') = 0 /\ sent' = 0
      BY <1>1, <1>2, <2>1
    <3>2. /\ size \in Nat /\ size + 1 < Wrap /\ Wrap \in Nat \ {0}
      BY <1>1, StaticFileAssumption
    <3>3. CASE d.status = 200
      <4>1. (size - 1 - 0 + 1) % Wrap = size
        <5>1. size - 1 - 0 + 1 = size /\ size \in 0 .. Wrap - 1
          BY <3>2
        <5> QED
          BY <3>2, <5>1
      <4>2. todo' = <<[start |-> 0, end |-> size - 1, length |-> size]>>
        BY <2>1, <3>3, <4>1 DEF HttpRange
      <4>3. todo'[1] = [start |-> 0, end |-> size - 1, length |-> size]
        BY <4>2
      <4>4. First' = 0
        BY <1>2, <3>3 DEF First
      <4>5. answer'.length # Chunked => answer'.length = size
        BY <1>2, <1>3, <3>3
      <4> QED
        BY <1>2, <3>1, <3>2, <4>2, <4>3, <4>4, <4>5 DEF TodoInv
    <3>4. CASE d.status = 206
      <4>1. ~Several
        BY <1>2, <2>6, <3>4 DEF Multipart, Several
      <4>2. /\ d.ranges \in Seq(HttpRanges) /\ Len(d.ranges) <= Len(req.ranges)
            /\ \A k \in 1 .. Len(d.ranges) : d.ranges[k].start + d.ranges[k].length <= size
            /\ Len(req.ranges) \in Nat
        <5>1. req.ranges \in Seq(Numbers \X Numbers)
          BY DEF RangeInv
        <5> QED
          BY <1>1, <1>3, <3>4, <5>1, RangesInFile
      <4> DEFINE r == d.ranges[1]
      <4>3. Len(d.ranges) = 1 /\ d.ranges # <<>>
        <5>1. Len(d.ranges) \in Nat /\ (Len(d.ranges) = 0 => d.ranges = <<>>)
          BY <4>2
        <5>2. d.ranges # <<>> /\ Len(req.ranges) <= 1
          BY <1>3, <3>4, <4>1, <4>2 DEF Several
        <5>3. Len(d.ranges) <= Len(req.ranges) /\ Len(req.ranges) \in Nat
          BY <4>2
        <5> DEFINE l == Len(d.ranges)
        <5> DEFINE m == Len(req.ranges)
        <5>4. l \in Nat /\ l # 0 /\ l <= m /\ m \in Nat /\ m <= 1
          BY <5>1, <5>2, <5>3
        <5> HIDE DEF l, m
        <5>5. l = 1
          BY <5>4
        <5> QED
          BY <5>2, <5>5 DEF l
      <4>4. r \in HttpRanges /\ r.start + r.length <= size /\ d.ranges = <<r>>
        BY <4>2, <4>3
      <4>5. todo' = <<r>> /\ todo'[1] = r
        BY <2>1, <3>4, <4>4
      <4>6. First' = r.start /\ answer'.length = r.length
        BY <1>2, <2>4, <3>4, <4>1 DEF First
      <4> HIDE DEF r
      <4>7. r = [start |-> r.start, end |-> r.end, length |-> r.length]
            /\ r.start \in Nat /\ r.length \in Nat
        BY <4>4 DEF HttpRanges
      <4> QED
        BY <1>2, <3>1, <3>2, <4>4, <4>5, <4>6, <4>7 DEF TodoInv
    <3> QED
      BY <1>5, <3>3, <3>4
  <2> QED
    BY <1>1, <1>2, <2>1, <2>2, <2>5, <2>6 DEF QuietInv, BodyAsAnnounced
<1>6. CASE d.status \notin {200, 206}
  <2>1. pc' = "idle" /\ sent' = d.length /\ copy' = copy
    BY <1>6 DEF Tag, Finish
  <2>2. CopyInv'
    BY <1>1, <1>2, <2>1, CopyKept
  <2> HIDE DEF d
  <2> QED
    BY <1>2, <2>1, <2>2 DEF QuietInv, BodyAsAnnounced
<1> QED
  BY <1>5, <1>6

(* The file is opened, and in MEMORY mode read and sent.                   *)
LEMMA OpenQuiet ==
  ASSUME FileInv, RangeInv, QuietInv, Open
  PROVE  QuietInv'
<1>1. /\ pc = "open" /\ disk # Gone /\ size = disk.size /\ size \in Sizes
      /\ CopyInv /\ ConditionInv /\ HeadInv /\ answer.status \in {200, 206}
  BY DEF Open, RangeInv, QuietInv
<1>2. UNCHANGED <<disk, changes, req, size, mode, todo, broken>>
  BY DEF Open, setup
<1>3. CASE InMemory
  <2>1. /\ answer' = answer /\ body' = ReadAll /\ sent' = size /\ pc' = "idle"
        /\ Finish(answer', body')
    BY <1>1, <1>3 DEF Open, Finish
  <2>2. answer.status = 200 /\ DecideTransferMode(size) = "MEMORY"
    BY <1>3 DEF InMemory
  <2>3. answer.length = size
    BY <1>1, <2>2 DEF HeadInv
  <2>4. IsBody(ReadAll)
    <3>1. size \in Nat /\ disk.version \in Nat /\ First = 0
      BY <1>1, <2>2, StaticFileAssumption DEF FileInv, IsFile, First
    <3>2. ReadAll = [i \in 1 .. size |-> <<disk.version, i - 1>>]
      BY <1>1, <3>1 DEF ReadAll, Byte
    <3>3. ReadAll \in Seq(Int \X Int) /\ Len(ReadAll) = size
      BY <3>1, <3>2
    <3> QED
      BY <3>1, <3>2, <3>3 DEF IsBody
  <2>5. Finish(answer, ReadAll)
    BY <2>1 DEF Finish, Several, Offsets
  <2>6. CopyInv'
    BY <1>1, <1>2, <2>4, <2>5, FinishCopy
  <2> QED
    BY <2>1, <2>3, <2>6 DEF QuietInv, BodyAsAnnounced
<1>4. CASE ~InMemory
  <2>1. /\ held' = disk /\ pc' = "send" /\ UNCHANGED <<answer, body, copy>>
        /\ sent' = IF answer.status = 206 /\ Several THEN PartLines ELSE 0
    BY <1>1, <1>4 DEF Open
  <2>2. CopyInv' /\ ConditionInv' /\ HeadInv'
    BY <1>1, <1>2, <2>1, CopyKept, ConditionKept, HeadKept
  <2>3. ASSUME ~Multipart' PROVE sent' \in Nat /\ TodoInv' /\ IsBody(body)'
    <3>1. ~Multipart
      BY <1>2, <2>1, <2>3 DEF Multipart, Several
    <3>2. body = <<>> /\ sent = 0 /\ TodoInv
      BY <1>1, <3>1 DEF QuietInv
    <3>3. sent' = 0
      BY <2>1, <3>1 DEF Multipart
    <3>4. TodoInv'
      BY <1>2, <2>1, <3>2, <3>3 DEF TodoInv, First
    <3>5. IsBody(body)'
      BY <2>1, <3>2 DEF IsBody
    <3> QED
      BY <3>3, <3>4, <3>5
  <2> QED
    BY <1>1, <1>2, <2>1, <2>2, <2>3 DEF QuietInv, BodyAsAnnounced
<1> QED
  BY <1>3, <1>4

(* What a turn of a loop gets lies in the range, and it gets nothing only  *)
(* of a range that is all there.                                           *)
LEMMA GetsBound ==
  ASSUME FileInv, RangeInv, TodoInv, answer.status \in {200, 206}, size \in Sizes,
         disk # Gone, size = disk.size, held = disk, body \in Seq(Int \X Int),
         answer.length # Chunked, NEW n \in Nat, Gets(n)
  PROVE  /\ n <= todo[1].length
         /\ n = 0 => todo[1].length = 0
<1> DEFINE r == todo[1]
<1> DEFINE most == Available(r.start, r.length)
<1>1. /\ r.start \in Nat /\ r.length \in Nat /\ r.start + r.length <= size
      /\ size \in Nat /\ held.size = size /\ Chunk \in Nat \ {0}
  <2>1. First \in Nat /\ Len(body) \in Nat
    BY FirstType
  <2> QED
    BY <2>1, StaticFileAssumption DEF TodoInv
<1>2. ((n > 0 \/ most = 0) /\ n <= most) \/ n = most
  BY DEF Gets
<1> HIDE DEF r
<1>3. most \in Nat /\ most <= r.length /\ (most = 0 => r.length = 0)
  BY <1>1 DEF Available, Least
<1> HIDE DEF most
<1> QED
  BY <1>1, <1>2, <1>3 DEF r

(* A turn of a loop that gets something.                                   *)
LEMMA PieceQuiet ==
  ASSUME FileInv, RangeInv, QuietInv, NEW n \in 1 .. Chunk, SendPiece(n)
  PROVE  QuietInv'
<1>1. /\ pc = "send" /\ pc' = "send" /\ Gets(n) /\ disk # Gone /\ size = disk.size /\ held = disk
      /\ size \in Sizes /\ CopyInv /\ ConditionInv /\ HeadInv /\ answer.status \in {200, 206}
  BY DEF SendPiece, RangeInv, QuietInv
<1>2. UNCHANGED <<disk, held, changes, req, size, mode, answer, copy, broken>>
  BY DEF SendPiece, setup
<1>3. CopyInv' /\ ConditionInv' /\ HeadInv'
  BY <1>1, <1>2, CopyKept, ConditionKept, HeadKept
<1>4. ASSUME ~Multipart' PROVE sent' \in Nat /\ TodoInv' /\ IsBody(body)'
  <2>1. ~Multipart /\ First' = First
    BY <1>2, <1>4 DEF Multipart, Several, First
  <2>2. sent \in Nat /\ TodoInv /\ IsBody(body)
    BY <1>1, <2>1 DEF QuietInv
  <2>3. First \in Nat /\ Len(body) \in Nat /\ body \in Seq(Int \X Int)
    BY <1>1, <2>2, FirstType DEF IsBody
  <2>4. n \in Nat /\ Wrap \in Nat \ {0} /\ size \in Nat /\ size + 1 < Wrap
    BY <1>1, StaticFileAssumption
  <2> DEFINE r == todo[1]
  <2> DEFINE left == (r.length - n) % Wrap
  <2> DEFINE piece == Taken(n)
  <2>5. /\ todo = <<[start |-> r.start, end |-> r.end, length |-> r.length]>>
        /\ r.length \in Nat /\ r.start = First + Len(body)
        /\ answer.length # Chunked =>
             sent + r.length = answer.length /\ r.start + r.length <= size
    BY <2>2 DEF TodoInv
  <2>6. /\ body' = body \o piece /\ sent' = sent + n
        /\ todo' = <<Rest(r, n)>> \o Tail(todo)
    BY DEF SendPiece
  <2>7. piece = [i \in 1 .. n |-> <<disk.version, r.start + i - 1>>]
    BY <1>1 DEF Taken, Byte
  <2>8. piece \in Seq(Int \X Int) /\ Len(piece) = n
    <3>1. disk.version \in Int /\ r.start \in Int
      BY <1>1, <2>3, <2>5 DEF FileInv, IsFile
    <3> HIDE DEF r, piece
    <3> QED
      BY <2>4, <2>7, <3>1
  <2>8a. r = [start |-> r.start, end |-> r.end, length |-> r.length] /\ Tail(todo) = <<>>
    <3> DEFINE x == [start |-> r.start, end |-> r.end, length |-> r.length]
    <3>1. todo = <<x>>
      BY <2>5
    <3> HIDE DEF x
    <3>2. todo[1] = x /\ Tail(todo) = <<>>
      BY <3>1
    <3> QED
      BY <3>2 DEF x
  <2>9. todo' = <<[start |-> r.start + n, end |-> r.end, length |-> left]>>
    <3>2. Rest(r, n) = [start |-> r.start + n, end |-> r.end, length |-> left]
      <4> HIDE DEF r
      <4> QED
        BY DEF Rest
    <3> DEFINE x == [start |-> r.start + n, end |-> r.end, length |-> left]
    <3>3. todo' = <<x>> \o <<>>
      BY <2>6, <2>8a, <3>2
    <3> HIDE DEF x
    <3>4. <<x>> \o <<>> = <<x>>
      OBVIOUS
    <3> QED
      BY <3>3, <3>4 DEF x
  <2>10. left \in Nat
    BY <2>4, <2>5
  <2>11. answer.length # Chunked => n <= r.length /\ left = r.length - n
    <3> SUFFICES ASSUME answer.length # Chunked PROVE n <= r.length /\ left = r.length - n
      OBVIOUS
    <3>1. n <= r.length
      BY <1>1, <2>2, <2>3, <2>4, GetsBound
    <3>2. r.start \in Nat
      BY <2>3, <2>5
    <3>3. r.length - n \in 0 .. Wrap - 1
      BY <2>4, <2>5, <3>1, <3>2
    <3> QED
      BY <2>4, <3>1, <3>3
  <2> DEFINE q == [start |-> r.start + n, end |-> r.end, length |-> left]
  <2>12. todo' = <<q>> /\ todo'[1] = q
    BY <2>9
  <2>13. q.start = r.start + n /\ q.length = left /\ q = [start |-> q.start, end |-> q.end, length |-> q.length]
    OBVIOUS
  <2> HIDE DEF left, q, r, piece
  <2>14. Len(body') = Len(body) + n
    <3>1. body' = body \o piece
      BY <2>6
    <3>2. \A u, t \in Seq(Int \X Int) : Len(u \o t) = Len(u) + Len(t)
      OBVIOUS
    <3>3. Len(body \o piece) = Len(body) + Len(piece)
      BY <2>3, <2>8, <3>2, Zenon
    <3> QED
      BY <2>8, <3>1, <3>3
  <2>15. TodoInv'
    <3>1. q.start = First + Len(body')
      BY <2>3, <2>4, <2>5, <2>13, <2>14
    <3>2. q.length \in Nat
      BY <2>10, <2>13
    <3>3. answer.length # Chunked => sent' + q.length = answer.length /\ q.start + q.length <= size
      BY <2>2, <2>3, <2>4, <2>5, <2>6, <2>11, <2>13
    <3> QED
      BY <1>2, <2>1, <2>12, <2>13, <3>1, <3>2, <3>3 DEF TodoInv
  <2>16. body' \in Seq(Int \X Int)
    BY <2>3, <2>6, <2>8
  <2>17. ASSUME NEW j \in 1 .. Len(body') PROVE body'[j] = <<disk.version, First + j - 1>>
    <3>1. CASE j <= Len(body)
      <4>1. body'[j] = body[j] /\ j \in 1 .. Len(body)
        BY <2>3, <2>6, <2>8, <3>1
      <4> QED
        BY <2>2, <4>1 DEF IsBody
    <3>2. CASE j > Len(body)
      <4> DEFINE k == j - Len(body)
      <4>1. k \in 1 .. n /\ body'[j] = piece[k]
        BY <2>3, <2>4, <2>6, <2>8, <2>14, <3>2
      <4>2. r.start + k - 1 = First + j - 1
        BY <2>3, <2>5
      <4> QED
        BY <2>7, <4>1, <4>2
    <3> QED
      BY <2>3, <3>1, <3>2
  <2>19. IsBody(body)'
    BY <1>2, <2>1, <2>16, <2>17 DEF IsBody
  <2> QED
    BY <2>2, <2>4, <2>6, <2>15, <2>19
<1> QED
  BY <1>1, <1>2, <1>3, <1>4 DEF QuietInv, BodyAsAnnounced

(* The end of a range, and of the answer with the last one.                *)
LEMMA OverQuiet ==
  ASSUME FileInv, RangeInv, QuietInv, RangeOver
  PROVE  QuietInv'
<1>1. /\ pc = "send" /\ disk # Gone /\ size = disk.size /\ held = disk
      /\ size \in Sizes /\ CopyInv /\ ConditionInv /\ HeadInv /\ answer.status \in {200, 206}
  BY DEF RangeOver, RangeInv, QuietInv
<1>2. UNCHANGED <<disk, changes, req, size, mode, answer, body, broken>>
  BY DEF RangeOver, setup
<1>3. CASE Len(todo) > 1
  <2>1. pc' = "send" /\ UNCHANGED <<held, copy>>
    BY <1>1, <1>3 DEF RangeOver
  <2>2. Multipart
    <3>1. TodoInv => Len(todo) = 1
      BY DEF TodoInv
    <3>2. ~Multipart => TodoInv
      BY <1>1 DEF QuietInv
    <3> QED
      BY <1>3, <3>1, <3>2
  <2>3. Multipart'
    BY <1>2, <2>2 DEF Multipart, Several
  <2>4. CopyInv' /\ ConditionInv' /\ HeadInv'
    BY <1>1, <1>2, <2>1, CopyKept, ConditionKept, HeadKept
  <2> QED
    BY <1>1, <1>2, <2>1, <2>3, <2>4 DEF QuietInv, BodyAsAnnounced
<1>4. CASE ~(Len(todo) > 1)
  <2>1. /\ Finish(answer, body) /\ pc' = "idle"
        /\ sent' = IF answer.status = 206 /\ Several THEN sent + Break + LastDelimiter ELSE sent
    BY <1>4 DEF RangeOver, Finish
  <2>2. ~Multipart => sent \in Nat /\ TodoInv /\ IsBody(body)
    BY <1>1 DEF QuietInv
  <2>3. CopyInv'
    BY <1>1, <1>2, <2>1, <2>2, FinishCopy
  <2>4. ASSUME ~Multipart, answer.length # Chunked PROVE sent' = answer.length
    <3>1. Gets(0) \/ todo[1].length = 0
      BY <2>4 DEF RangeOver
    <3>2. todo[1].length = 0
      <4>1. CASE Gets(0)
        <5>1. body \in Seq(Int \X Int) /\ 0 \in Nat
          BY <2>2, <2>4 DEF IsBody
        <5> QED
          BY <1>1, <2>2, <2>4, <4>1, <5>1, GetsBound
      <4> QED
        BY <3>1, <4>1
    <3> QED
      BY <2>1, <2>2, <2>4, <3>2 DEF TodoInv, Multipart
  <2>5. BodyAsAnnounced'
    BY <1>2, <2>4 DEF BodyAsAnnounced, Multipart, Several
  <2> QED
    BY <2>1, <2>3, <2>5 DEF QuietInv
<1> QED
  BY <1>3, <1>4

(* A failed send leaves the copy as it was.                                *)
LEMMA FailQuiet ==
  ASSUME QuietInv, SendFails
  PROVE  QuietInv'
<1>1. pc' = "idle" /\ broken' = TRUE /\ UNCHANGED <<disk, changes>>
  BY DEF SendFails, Finish
<1>2. copy' = copy
  BY <1>1 DEF SendFails, Finish
<1>3. CopyInv'
  BY <1>1, <1>2, CopyKept DEF QuietInv
<1> QED
  BY <1>1, <1>3 DEF QuietInv, BodyAsAnnounced

(* A change between two answers: the copy is no newer than the file.       *)
LEMMA ChangeQuiet ==
  ASSUME FileInv, FileInv', QuietInv, NEW f, Change(f), ~raced',
         f = Gone \/ (changes + 1) <= f.time \/ (disk # Gone /\ f.time = disk.time + 1)
  PROVE  QuietInv'
<1>0. raced' = (raced \/ pc # "idle")
  BY DEF Change
<1>7. ~raced /\ pc = "idle"
  BY <1>0, Zenon
<1>1. /\ pc = "idle" /\ pc' = pc /\ disk' = f /\ changes' = changes + 1 /\ changes \in Nat
      /\ UNCHANGED <<req, answer, sent, copy, broken>>
  BY <1>7 DEF Change, FileInv
<1>2. CopyInv
  BY DEF QuietInv
<1>3. copy.time \in 0 .. changes' + 1
  BY <1>1, <1>2 DEF CopyInv, IsCopy
<1>4. disk' # Gone => copy.time <= disk'.time
  <2> SUFFICES ASSUME disk' # Gone PROVE copy.time <= disk'.time
    OBVIOUS
  <2>1. disk'.time \in Nat
    BY <1>1 DEF FileInv, IsFile
  <2>2. CASE changes + 1 <= f.time
    BY <1>1, <1>2, <2>1, <2>2 DEF CopyInv, IsCopy
  <2>3. CASE disk # Gone /\ f.time = disk.time + 1
    BY <1>1, <1>2, <2>1, <2>3 DEF CopyInv, IsCopy, FileInv, IsFile
  <2> QED
    BY <1>1, <2>2, <2>3
<1>5. CopyInv'
  BY <1>1, <1>2, <1>3, <1>4 DEF CopyInv, IsCopy
<1>6. BodyAsAnnounced'
  BY <1>1, <1>7 DEF QuietInv, BodyAsAnnounced, Several
<1> QED
  BY <1>1, <1>5, <1>6 DEF QuietInv

LEMMA QuietStep ==
  ASSUME FileInv, RangeInv, ~raced => QuietInv, [Next]_vars
  PROVE  ~raced' => QuietInv'
<1> SUFFICES ASSUME ~raced' PROVE QuietInv'
  OBVIOUS
<1>1. FileInv'
  BY FileStep
<1>2. ~raced
  <2>1. raced' = raced \/ (\E f : Change(f))
    BY DEF Next, vars, file, Ask, LookUnderDirectory, LookAtFile, Tag, Open, SendPiece, RangeOver,
           SendFails, Rewrite, Replace, Unlink
  <2>2. CASE raced' = raced
    BY <2>2
  <2>3. CASE \E f : Change(f)
    BY <2>3, Zenon DEF Change
  <2> QED
    BY <2>1, <2>2, <2>3
<1>3. QuietInv
  BY <1>2
<1>4. ASSUME NEW r \in Ranges, NEW c \in Conditions, Ask(r, c) PROVE QuietInv'
  BY <1>3, <1>4, AskQuiet
<1>5. CASE LookUnderDirectory
  BY <1>3, <1>5, LookQuiet DEF LookUnderDirectory
<1>6. CASE LookAtFile
  BY <1>3, <1>6, LookQuiet DEF LookAtFile
<1>7. CASE Tag
  BY <1>3, <1>7, TagQuiet
<1>8. CASE Open
  BY <1>3, <1>8, OpenQuiet
<1>9. ASSUME NEW n \in 1 .. Chunk, SendPiece(n) PROVE QuietInv'
  BY <1>3, <1>9, PieceQuiet
<1>10. CASE RangeOver
  BY <1>3, <1>10, OverQuiet
<1>11. CASE SendFails
  BY <1>3, <1>11, FailQuiet
<1>12. ASSUME NEW n \in Sizes, Rewrite(n) PROVE QuietInv'
  <2> DEFINE f == [disk EXCEPT !.time = @ + 1, !.version = @ + 1, !.size = n]
  <2>1. disk # Gone /\ Change(f)
    BY <1>12 DEF Rewrite
  <2>2. IsFile(disk, changes + 1)
    BY <2>1 DEF FileInv
  <2>3. f.time = disk.time + 1
    BY <2>2 DEF IsFile
  <2> HIDE DEF f
  <2> QED
    BY <1>1, <1>3, <2>1, <2>3, ChangeQuiet
<1>13. ASSUME NEW n \in Sizes, Replace(n) PROVE QuietInv'
  <2> DEFINE f == [inode |-> changes + 2, time |-> changes + 2, version |-> changes + 2, size |-> n]
  <2>1. Change(f) /\ f.time = changes + 2 /\ changes \in Nat
    BY <1>13 DEF Replace, FileInv
  <2>2. changes + 1 <= f.time
    BY <2>1
  <2> HIDE DEF f
  <2> QED
    BY <1>1, <1>3, <2>1, <2>2, ChangeQuiet
<1>14. CASE Unlink
  BY <1>1, <1>3, <1>14, ChangeQuiet DEF Unlink
<1>15. CASE UNCHANGED vars
  BY <1>3, <1>15 DEF vars, QuietInv, CopyInv, IsCopy, ConditionInv, HeadInv, TodoInv, IsBody, First,
                     Multipart, Several, BodyAsAnnounced, DecideTransferMode
<1> QED
  BY <1>4, <1>5, <1>6, <1>7, <1>8, <1>9, <1>10, <1>11, <1>12, <1>13, <1>14, <1>15 DEF Next

(* The inductive invariant: the file's times number its versions, an       *)
(* answer's ranges are parsed of the request and the size seen, and until  *)
(* a change falls into an answer, the head, the bytes sent and the ranges  *)
(* left to send are all of the version on disk.                            *)
THEOREM StaticFileInvariant == Spec => []IInv
<1>1. Init => IInv
  BY FileInit, RangeInit, QuietInit DEF IInv
<1>2. IInv /\ [Next]_vars => IInv'
  BY FileStep, RangeStep, QuietStep DEF IInv
<1> QED
  BY <1>1, <1>2, PTL DEF Spec

(* As long as no change of the file falls into an answer, the copy that a  *)
(* client puts together from whole answers, ranges and conditions on its   *)
(* tag or time is of one version of the file.                              *)
THEOREM CopyIsWhole == Spec => []CopyIsOneVersion
<1>1. IInv => CopyIsOneVersion
  <2> SUFFICES ASSUME IInv, ~raced
               PROVE  \E v \in 1 .. MaxChanges + 1 : \A i \in DOMAIN copy.at : copy.at[i] = <<v, i>>
    BY DEF CopyIsOneVersion
  <2>1. /\ copy.time \in 0 .. changes + 1
        /\ \A i \in DOMAIN copy.at : copy.at[i] = <<copy.time, i>> /\ copy.time # 0
    BY DEF IInv, QuietInv, CopyInv, IsCopy
  <2>2. MaxChanges \in Nat /\ changes \in 0 .. MaxChanges
    BY StaticFileAssumption DEF IInv, FileInv
  <2>3. CASE copy.time = 0
    <3>1. DOMAIN copy.at = {}
      BY <2>1, <2>3
    <3>2. 1 \in 1 .. MaxChanges + 1
      BY <2>2
    <3> QED
      BY <3>1, <3>2
  <2>4. CASE copy.time # 0
    <3>1. copy.time \in 1 .. MaxChanges + 1
      BY <2>1, <2>2, <2>4
    <3> QED
      BY <2>1, <3>1
  <2> QED
    BY <2>3, <2>4
<1> QED
  BY <1>1, StaticFileInvariant, PTL

(* And each such answer, but one of several parts, has as many bytes as    *)
(* its head announces, in every transfer mode.                             *)
THEOREM LengthKept == Spec => []BodyAsAnnounced
<1>1. IInv => BodyAsAnnounced
  BY DEF IInv, QuietInv, BodyAsAnnounced
<1> QED
  BY <1>1, StaticFileInvariant, PTL
=============================================================================
