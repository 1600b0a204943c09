------------------------- MODULE LocatorCacheProofs -------------------------
(***************************************************************************)
(* The locator cache is exact for every block tree, every cache size and   *)
(* every order in which blocks are handed to the watch thread.             *)
(*                                                                         *)
(* The invariant names the stretch of the chain that the keys of "blocks"  *)
(* spell out at each step; that the cache is the union of their            *)
(* transactions then follows because transactions of one chain are         *)
(* disjoint, so dropping the oldest block drops nothing of the others.     *)
(***************************************************************************)
EXTENDS LocatorCache, SequenceTheorems, TLAPS

(* A stretch of a chain is a sequence of blocks.                           *)
LEMMA SegmentProperties ==
    ASSUME NEW b \in Blocks, NEW m \in 1..Len(Path[b])
    PROVE  LET s == SubSeq(Path[b], m, Len(Path[b]))
           IN  /\ s \in Seq(Blocks)
               /\ Len(s) = Len(Path[b]) - m + 1
               /\ \A i \in 1..Len(s) : s[i] = Path[b][m + i - 1]
               /\ s # <<>>
               /\ DOMAIN s = 1..Len(s)
<1>1. Path[b] \in Seq(Blocks) /\ Len(Path[b]) \in Nat \ {0}
  BY PathAssumption, LenProperties
<1>2. \A i \in m..Len(Path[b]) : Path[b][i] \in Blocks
  BY <1>1, ElementOfSeq
<1>3. m \in Int /\ Len(Path[b]) \in Int /\ m <= Len(Path[b])
  BY <1>1
<1> DEFINE s == SubSeq(Path[b], m, Len(Path[b]))
<1>4. /\ s \in Seq(Blocks)
      /\ Len(s) = Len(Path[b]) - m + 1
      /\ \A i \in 1 .. Len(Path[b]) - m + 1 : s[i] = Path[b][m + i - 1]
  BY <1>2, <1>3, SubSeqProperties
<1>5. s # <<>>
  <2>1. Len(s) >= 1
    BY <1>3, <1>4
  <2>2. Len(<<>>) = 0
    OBVIOUS
  <2> HIDE DEF s
  <2> QED BY <2>1, <2>2
<1>6. DOMAIN s = 1..Len(s)
  BY <1>4, LenProperties
<1> QED BY <1>4, <1>5, <1>6

(* The first block of the window of b.                                     *)
Low(b, n) == IF Len(Path[b]) > n THEN Len(Path[b]) - n + 1 ELSE 1

LEMMA WindowProperties ==
    ASSUME NEW b \in Blocks, NEW n \in Nat \ {0}
    PROVE  LET w == LastBlocks(b, n)
               k == Low(b, n)
           IN  /\ k \in 1..Len(Path[b])
               /\ w = SubSeq(Path[b], k, Len(Path[b]))
               /\ w \in Seq(Blocks) /\ w # <<>>
               /\ Len(w) = Len(Path[b]) - k + 1
               /\ DOMAIN w = 1..Len(w)
               /\ \A i \in 1..Len(w) : w[i] = Path[b][k + i - 1]
<1>1. Len(Path[b]) \in Nat \ {0}
  BY PathAssumption, LenProperties
<1>2. Low(b, n) \in 1..Len(Path[b])
  BY <1>1 DEF Low
<1>3. LastBlocks(b, n) = SubSeq(Path[b], Low(b, n), Len(Path[b]))
  BY DEF LastBlocks, Low
<1> QED BY <1>2, <1>3, SegmentProperties

LEMMA InTxsOf ==
    ASSUME NEW s, NEW x
    PROVE  x \in TxsOf(s) <=> \E i \in DOMAIN s : x \in TxsIn[s[i]]
BY DEF TxsOf

LEMMA TxsOfAppend ==
    ASSUME NEW s \in Seq(Blocks), NEW b \in Blocks
    PROVE  /\ TxsOf(Append(s, b)) = TxsOf(s) \cup TxsIn[b]
           /\ TxsOf(<<b>> \o s) = TxsIn[b] \cup TxsOf(s)
<1>1. /\ DOMAIN s = 1..Len(s) /\ Len(s) \in Nat
      /\ DOMAIN Append(s, b) = 1..(Len(s) + 1)
      /\ Append(s, b)[Len(s) + 1] = b
      /\ \A i \in 1..Len(s) : Append(s, b)[i] = s[i]
  OBVIOUS
<1>2. ASSUME NEW x
      PROVE  x \in TxsOf(Append(s, b)) <=> x \in TxsOf(s) \/ x \in TxsIn[b]
  <2> DEFINE a == Append(s, b)
  <2>1. \A i \in 1..(Len(s) + 1) : i \in 1..Len(s) \/ i = Len(s) + 1
    BY <1>1
  <2>2. \A i \in 1..Len(s) : i \in 1..(Len(s) + 1)
    BY <1>1
  <2>3. Len(s) + 1 \in 1..(Len(s) + 1)
    BY <1>1
  <2>4. (\E i \in DOMAIN a : x \in TxsIn[a[i]])
          <=> (\E i \in DOMAIN s : x \in TxsIn[s[i]]) \/ x \in TxsIn[b]
    <3>1. DOMAIN a = 1..(Len(s) + 1) /\ a[Len(s) + 1] = b /\ \A i \in 1..Len(s) : a[i] = s[i]
      BY <1>1
    <3> HIDE DEF a
    <3> QED BY <1>1, <2>1, <2>2, <2>3, <3>1
  <2> QED BY <2>4, InTxsOf
<1>3. /\ <<b>> \o s \in Seq(Blocks)
      /\ DOMAIN (<<b>> \o s) = 1..(Len(s) + 1)
      /\ (<<b>> \o s)[1] = b
      /\ \A i \in 1..Len(s) : (<<b>> \o s)[i + 1] = s[i]
  <2>1. <<b>> \in Seq(Blocks) /\ Len(<<b>>) = 1 /\ <<b>>[1] = b
    OBVIOUS
  <2>2. /\ <<b>> \o s \in Seq(Blocks)
        /\ Len(<<b>> \o s) = Len(s) + 1
        /\ \A i \in 1 .. 1 + Len(s) : (<<b>> \o s)[i] = IF i <= 1 THEN <<b>>[i] ELSE s[i - 1]
    BY <1>1, <2>1, ConcatProperties
  <2> QED BY <1>1, <2>1, <2>2, LenProperties
<1>4. ASSUME NEW x
      PROVE  x \in TxsOf(<<b>> \o s) <=> x \in TxsIn[b] \/ x \in TxsOf(s)
  <2> DEFINE c == <<b>> \o s
  <2>1. \A i \in 1..(Len(s) + 1) : i = 1 \/ (i - 1 \in 1..Len(s) /\ i = (i - 1) + 1)
    BY <1>1
  <2>2. \A i \in 1..Len(s) : i + 1 \in 1..(Len(s) + 1)
    BY <1>1
  <2>3. 1 \in 1..(Len(s) + 1)
    BY <1>1
  <2>4. (\E i \in DOMAIN c : x \in TxsIn[c[i]])
          <=> x \in TxsIn[b] \/ (\E i \in DOMAIN s : x \in TxsIn[s[i]])
    <3>1. DOMAIN c = 1..(Len(s) + 1) /\ c[1] = b /\ \A i \in 1..Len(s) : c[i + 1] = s[i]
      BY <1>3
    <3>2. ASSUME NEW i \in DOMAIN c, x \in TxsIn[c[i]], x \notin TxsIn[b]
          PROVE  \E k \in DOMAIN s : x \in TxsIn[s[k]]
      <4>1. i - 1 \in DOMAIN s /\ c[(i - 1) + 1] = s[i - 1] /\ i = (i - 1) + 1
        <5> HIDE DEF c
        <5> QED BY <1>1, <2>1, <3>1, <3>2
      <4>2. x \in TxsIn[s[i - 1]]
        <5> HIDE DEF c
        <5> QED BY <3>2, <4>1
      <4> QED BY <4>1, <4>2
    <3>3. ASSUME NEW k \in DOMAIN s, x \in TxsIn[s[k]]
          PROVE  \E i \in DOMAIN c : x \in TxsIn[c[i]]
      <4> HIDE DEF c
      <4>1. k + 1 \in DOMAIN c /\ c[k + 1] = s[k]
        BY <1>1, <2>2, <3>1
      <4> QED BY <3>3, <4>1
    <3> HIDE DEF c
    <3> QED BY <2>3, <3>1, <3>2, <3>3
  <2> QED BY <2>4, InTxsOf
<1> QED BY <1>2, <1>4

-----------------------------------------------------------------------------
(* The chain of a parent is the chain of the child without its last block, *)
(* so the child is not on it.                                              *)
LEMMA ParentPath ==
    ASSUME NEW p \in Blocks, NEW b \in Blocks, IsParent(p, b)
    PROVE  /\ Len(Path[p]) = Len(Path[b]) - 1
           /\ \A i \in 1..Len(Path[p]) : Path[p][i] = Path[b][i]
           /\ \A i \in 1..Len(Path[p]) : Path[p][i] # b
<1> DEFINE n == Len(Path[b])
<1>1. Path[b] \in Seq(Blocks) /\ n \in Nat /\ n > 1 /\ Path[b][n - 1] = p
  BY PathAssumption, LenProperties DEF IsParent
<1>2. n - 1 \in 1..n
  BY <1>1
<1>3. \A i \in 1..n : Path[Path[b][i]] = SubSeq(Path[b], 1, i)
  BY PathAssumption
<1>4. \A k \in 1..n : /\ Len(SubSeq(Path[b], 1, k)) = k
                      /\ \A i \in 1..k : SubSeq(Path[b], 1, k)[i] = Path[b][i]
  <2> TAKE k \in 1..n
  <2>1. \A i \in 1..k : Path[b][i] \in Blocks
    BY <1>1, ElementOfSeq
  <2>2. 1 \in Int /\ k \in Int /\ 1 <= k
    BY <1>1
  <2>3. /\ Len(SubSeq(Path[b], 1, k)) = k - 1 + 1
        /\ \A i \in 1..k - 1 + 1 : SubSeq(Path[b], 1, k)[i] = Path[b][1 + i - 1]
    BY <2>1, <2>2, SubSeqProperties
  <2> QED BY <1>1, <2>3
<1>5. Path[p] = SubSeq(Path[b], 1, n - 1)
  BY <1>1, <1>2, <1>3
<1>6. /\ Len(Path[p]) = n - 1
      /\ \A i \in 1..Len(Path[p]) : Path[p][i] = Path[b][i]
  BY <1>2, <1>4, <1>5
<1>7. ASSUME NEW i \in 1..Len(Path[p]), Path[p][i] = b
      PROVE  FALSE
  <2>1. i \in 1..n /\ i # n /\ Path[b][i] = b
    BY <1>1, <1>6, <1>7
  <2>2. Path[b] = SubSeq(Path[b], 1, i)
    BY <1>3, <2>1
  <2>3. Len(Path[b]) = i
    BY <1>4, <2>1, <2>2
  <2> QED BY <2>1, <2>3
<1> QED BY <1>6, <1>7

(* A block appended to the window of its parent gives its own window, one  *)
(* block longer, and it was not in it.                                     *)
LEMMA AppendToWindow ==
    ASSUME NEW p \in Blocks, NEW b \in Blocks, IsParent(p, b), NEW n \in Nat \ {0}
    PROVE  /\ Append(LastBlocks(p, n), b) = LastBlocks(b, n + 1)
           /\ \A i \in DOMAIN LastBlocks(p, n) : LastBlocks(p, n)[i] # b
<1> DEFINE w == LastBlocks(p, n)
           v == LastBlocks(b, n + 1)
           k == Low(p, n)
<1>1. /\ Len(Path[p]) \in Nat /\ Len(Path[b]) = Len(Path[p]) + 1
      /\ \A i \in 1..Len(Path[p]) : Path[p][i] = Path[b][i] /\ Path[p][i] # b
      /\ Path[b][Len(Path[b])] = b
  BY ParentPath, PathAssumption, LenProperties
<1>2. /\ k \in 1..Len(Path[p])
      /\ w \in Seq(Blocks) /\ Len(w) = Len(Path[p]) - k + 1 /\ DOMAIN w = 1..Len(w)
      /\ \A i \in 1..Len(w) : w[i] = Path[p][k + i - 1]
  BY WindowProperties
<1>3. Low(b, n + 1) = k
  BY <1>1 DEF Low
<1>4. /\ v \in Seq(Blocks) /\ Len(v) = Len(Path[b]) - k + 1
      /\ \A i \in 1..Len(v) : v[i] = Path[b][k + i - 1]
  <2>1. n + 1 \in Nat \ {0}
    OBVIOUS
  <2> QED BY <1>3, <2>1, WindowProperties
<1> HIDE DEF w, v, k
<1>5. /\ k \in Nat /\ k >= 1 /\ k <= Len(Path[p])
      /\ Len(w) \in Nat /\ Len(w) = Len(Path[p]) - k + 1
      /\ Len(v) = Len(w) + 1
      /\ w \in Seq(Blocks)
  <2>1. Len(Path[p]) \in Nat /\ Len(Path[b]) = Len(Path[p]) + 1
    BY <1>1
  <2>2. k \in 1..Len(Path[p]) /\ Len(w) = Len(Path[p]) - k + 1 /\ w \in Seq(Blocks)
    BY <1>2
  <2>3. Len(v) = Len(Path[b]) - k + 1
    BY <1>4
  <2> QED BY <2>1, <2>2, <2>3
<1>6. /\ Append(w, b) \in Seq(Blocks)
      /\ Len(Append(w, b)) = Len(w) + 1
      /\ Append(w, b)[Len(w) + 1] = b
      /\ \A i \in 1..Len(w) : Append(w, b)[i] = w[i]
  BY <1>5, AppendProperties
<1>7. ASSUME NEW i \in 1..Len(w)
      PROVE  w[i] = Path[b][k + i - 1] /\ w[i] # b /\ v[i] = w[i]
  <2>1. k + i - 1 \in 1..Len(Path[p]) /\ i \in 1..Len(v)
    BY <1>1, <1>5
  <2>2. w[i] = Path[p][k + i - 1]
    BY <1>2
  <2>3. Path[p][k + i - 1] = Path[b][k + i - 1] /\ Path[p][k + i - 1] # b
    BY <1>1, <2>1
  <2>4. v[i] = Path[b][k + i - 1]
    BY <1>4, <2>1
  <2> QED BY <2>2, <2>3, <2>4
<1>8. v[Len(v)] = b
  <2>1. Len(v) \in 1..Len(v) /\ k + Len(v) - 1 = Len(Path[b])
    BY <1>1, <1>5
  <2>2. v[Len(v)] = Path[b][k + Len(v) - 1]
    BY <1>4, <2>1
  <2> QED BY <1>1, <2>1, <2>2
<1>9. \A i \in 1..Len(v) : v[i] = Append(w, b)[i]
  <2> TAKE i \in 1..Len(v)
  <2>1. i \in 1..Len(w) \/ i = Len(w) + 1
    BY <1>5
  <2>2. i = Len(w) + 1 => v[i] = b
    BY <1>5, <1>8
  <2> QED BY <1>6, <1>7, <2>1, <2>2
<1>10. Len(v) = Len(Append(w, b))
  BY <1>5, <1>6
<1>11. v \in Seq(Blocks)
  BY <1>4
<1>12. v = Append(w, b)
  BY <1>6, <1>9, <1>10, <1>11, SeqEqual
<1>13. \A i \in DOMAIN w : w[i] # b
  BY <1>2, <1>7
<1> QED BY <1>12, <1>13 DEF w, v

(* Dropping the first block of a window one too long leaves the window.    *)
LEMMA TailOfWindow ==
    ASSUME NEW b \in Blocks, NEW n \in Nat \ {0}, Len(LastBlocks(b, n + 1)) > n
    PROVE  Tail(LastBlocks(b, n + 1)) = LastBlocks(b, n)
<1> DEFINE k == Low(b, n + 1)
           m == Len(Path[b])
<1>1. m \in Nat /\ Path[b] \in Seq(Blocks)
  BY PathAssumption, LenProperties
<1>2. n + 1 \in Nat \ {0}
  OBVIOUS
<1>3. /\ k \in 1..m
      /\ LastBlocks(b, n + 1) = SubSeq(Path[b], k, m)
      /\ m - k + 1 > n
  BY <1>2, WindowProperties
<1>4. k = m - n /\ m > n
  <2>1. m > n + 1 => k = m - (n + 1) + 1
    BY DEF Low
  <2>2. ~(m > n + 1) => k = 1
    BY DEF Low
  <2> QED BY <1>1, <1>3, <2>1, <2>2
<1>5. LastBlocks(b, n) = SubSeq(Path[b], k + 1, m)
  <2>1. LastBlocks(b, n) = SubSeq(Path[b], Low(b, n), m) /\ Low(b, n) = m - n + 1
    BY <1>4 DEF LastBlocks, Low
  <2>2. m - n + 1 = k + 1
    BY <1>1, <1>4
  <2> QED BY <2>1, <2>2
<1>6. Tail(SubSeq(Path[b], k, m)) = SubSeq(Path[b], k + 1, m)
  <2>1. m \in k..m /\ k \in 1..Len(Path[b])
    BY <1>1, <1>3
  <2> HIDE DEF k
  <2> QED BY <1>1, <2>1, HeadTailOfSubSeq
<1> QED BY <1>3, <1>5, <1>6

(* The transactions of the first block of a window are in no other block   *)
(* of it: deleting them leaves exactly those of the rest.                  *)
LEMMA DropOldest ==
    ASSUME NEW b \in Blocks, NEW n \in Nat \ {0}
    PROVE  LET w == LastBlocks(b, n)
           IN  /\ TxsIn[Head(w)] \subseteq TxsOf(w)
               /\ TxsOf(Tail(w)) = TxsOf(w) \ TxsIn[Head(w)]
<1> DEFINE w == LastBlocks(b, n)
           k == Low(b, n)
<1>1. /\ k \in 1..Len(Path[b]) /\ w \in Seq(Blocks) /\ w # <<>>
      /\ Len(w) = Len(Path[b]) - k + 1
      /\ DOMAIN w = 1..Len(w)
      /\ \A i \in 1..Len(w) : w[i] = Path[b][k + i - 1]
  BY WindowProperties
<1>2. Len(Path[b]) \in Nat
  BY PathAssumption, LenProperties
<1> HIDE DEF w, k
<1>3. w \in Seq(Blocks) /\ w # <<>> /\ Len(w) \in Nat /\ Len(w) > 0 /\ Head(w) = w[1]
  BY <1>1, <1>2
<1>4. /\ Len(Tail(w)) = Len(w) - 1
      /\ \A i \in 1..Len(Tail(w)) : Tail(w)[i] = w[i + 1]
      /\ DOMAIN Tail(w) = 1..Len(Tail(w))
  BY <1>3, HeadTailProperties, LenProperties
<1>5. \A i, j \in 1..Len(w) : i # j => TxsIn[w[i]] \cap TxsIn[w[j]] = {}
  <2> SUFFICES ASSUME NEW i \in 1..Len(w), NEW j \in 1..Len(w), i # j
               PROVE  TxsIn[w[i]] \cap TxsIn[w[j]] = {}
    OBVIOUS
  <2>1. /\ k + i - 1 \in 1..Len(Path[b]) /\ k + j - 1 \in 1..Len(Path[b])
        /\ k + i - 1 # k + j - 1
    BY <1>1, <1>2
  <2>2. w[i] = Path[b][k + i - 1] /\ w[j] = Path[b][k + j - 1]
    BY <1>1
  <2> QED BY <2>1, <2>2, TxsAssumption
<1>6. ASSUME NEW x, x \in TxsOf(Tail(w))
      PROVE  x \in TxsOf(w) /\ x \notin TxsIn[w[1]]
  <2>1. PICK i \in 1..Len(Tail(w)) : x \in TxsIn[Tail(w)[i]]
    BY <1>4, <1>6, InTxsOf
  <2>2. i + 1 \in 1..Len(w) /\ i + 1 # 1 /\ 1 \in 1..Len(w)
    BY <1>3, <1>4
  <2>3. x \in TxsIn[w[i + 1]]
    BY <1>4, <2>1
  <2> QED BY <1>1, <1>5, <2>2, <2>3, InTxsOf
<1>7. ASSUME NEW x, x \in TxsOf(w), x \notin TxsIn[w[1]]
      PROVE  x \in TxsOf(Tail(w))
  <2>1. PICK i \in 1..Len(w) : x \in TxsIn[w[i]]
    BY <1>1, <1>7, InTxsOf
  <2>2. i # 1
    BY <1>7, <2>1
  <2>3. i - 1 \in 1..Len(Tail(w)) /\ (i - 1) + 1 = i
    BY <1>3, <1>4, <2>2
  <2>4. Tail(w)[i - 1] = w[i]
    BY <1>4, <2>3
  <2> QED BY <1>4, <2>1, <2>3, <2>4, InTxsOf
<1>8. ASSUME NEW x, x \in TxsIn[w[1]]
      PROVE  x \in TxsOf(w)
  BY <1>1, <1>3, <1>8, InTxsOf
<1> QED BY <1>3, <1>6, <1>7, <1>8 DEF w

(* A block is the last of its own window.                                  *)
LEMMA OwnWindow ==
    ASSUME NEW b \in Blocks, NEW n \in Nat \ {0}
    PROVE  LET w == LastBlocks(b, n)
           IN  /\ \E i \in DOMAIN w : w[i] = b
               /\ TxsIn[b] \subseteq TxsOf(w)
<1> DEFINE w == LastBlocks(b, n)
           k == Low(b, n)
<1>1. /\ k \in 1..Len(Path[b])
      /\ Len(w) = Len(Path[b]) - k + 1
      /\ DOMAIN w = 1..Len(w)
      /\ \A i \in 1..Len(w) : w[i] = Path[b][k + i - 1]
  BY WindowProperties
<1>2. Len(Path[b]) \in Nat /\ Path[b][Len(Path[b])] = b
  BY PathAssumption, LenProperties
<1> HIDE DEF w, k
<1>3. Len(w) \in 1..Len(w) /\ k + Len(w) - 1 = Len(Path[b])
  BY <1>1, <1>2
<1>4. w[Len(w)] = b
  BY <1>1, <1>2, <1>3
<1>5. \A x \in TxsIn[b] : x \in TxsOf(w)
  BY <1>1, <1>3, <1>4, InTxsOf
<1> QED BY <1>1, <1>3, <1>4, <1>5 DEF w

LEMMA WindowLength ==
    ASSUME NEW b \in Blocks, NEW n \in Nat \ {0}
    PROVE  Len(LastBlocks(b, n)) <= n
<1>1. Len(Path[b]) \in Nat
  BY PathAssumption, LenProperties
<1>2. Len(LastBlocks(b, n)) = Len(Path[b]) - Low(b, n) + 1
  BY WindowProperties
<1> QED BY <1>1, <1>2 DEF Low

(* A window that is not full is the whole chain.                           *)
LEMMA ShortWindow ==
    ASSUME NEW b \in Blocks, NEW n \in Nat \ {0}, ~(Len(LastBlocks(b, n + 1)) > n)
    PROVE  LastBlocks(b, n + 1) = LastBlocks(b, n)
<1>1. n + 1 \in Nat \ {0} /\ Len(Path[b]) \in Nat
  BY PathAssumption, LenProperties
<1>2. Len(LastBlocks(b, n + 1)) \in Nat
  BY <1>1, WindowProperties, LenProperties
<1>3. Len(LastBlocks(b, n + 1)) = Len(Path[b]) - Low(b, n + 1) + 1
  BY <1>1, WindowProperties
<1>4. ~(Len(Path[b]) > n + 1)
  <2>1. Len(Path[b]) > n + 1 => Low(b, n + 1) = Len(Path[b]) - n
    BY <1>1 DEF Low
  <2> QED BY <1>1, <1>2, <1>3, <2>1
<1>5. Low(b, n + 1) = 1
  BY <1>4 DEF Low
<1>6. ~(Len(Path[b]) > n)
  BY <1>1, <1>2, <1>3, <1>5
<1>7. /\ LastBlocks(b, n) = SubSeq(Path[b], 1, Len(Path[b]))
      /\ LastBlocks(b, n + 1) = SubSeq(Path[b], 1, Len(Path[b]))
  BY <1>4, <1>6 DEF LastBlocks
<1> QED BY <1>7

(* A wider window holds every transaction of a narrower one.               *)
LEMMA WiderWindow ==
    ASSUME NEW b \in Blocks, NEW n \in Nat \ {0}
    PROVE  TxsOf(LastBlocks(b, n)) \subseteq TxsOf(LastBlocks(b, n + 1))
<1>1. n + 1 \in Nat \ {0}
  OBVIOUS
<1>2. CASE Len(LastBlocks(b, n + 1)) > n
  BY <1>1, <1>2, TailOfWindow, DropOldest
<1>3. CASE ~(Len(LastBlocks(b, n + 1)) > n)
  BY <1>3, ShortWindow
<1> QED BY <1>2, <1>3

-----------------------------------------------------------------------------
(* The inductive invariant.                                                *)

(* While init runs the keys are the last Len(blocks) blocks walked so far. *)
InitWindow ==
    pc = "init" =>
        /\ cur = last
        /\ Len(blocks) <= CacheSize /\ Len(blocks) <= Len(Path[last])
        /\ blocks = SubSeq(Path[last], Len(Path[last]) - Len(blocks) + 1, Len(Path[last]))

(* After update the keys may be the window of the block and one more.      *)
LoopWindow ==
    /\ pc \in {"wait", "got"} => blocks = LastBlocks(last, CacheSize)
    /\ pc \in {"fixed", "trimmed"} => blocks = LastBlocks(cur, CacheSize)
    /\ pc = "added" => \/ blocks = LastBlocks(cur, CacheSize)
                       \/ blocks = LastBlocks(cur, CacheSize + 1)

CacheInv ==
    /\ CacheTypeOK
    /\ NeverKeyError
    /\ cache = TxsOf(blocks)
    /\ InitWindow
    /\ LoopWindow

LEMMA EmptyTxs == TxsOf(<<>>) = {}
BY DEF TxsOf

LEMMA CacheInvStart ==
    ASSUME NEW b \in Blocks, last' = b, cur' = b, blocks' = <<>>, cache' = {}, pc' = "init"
    PROVE  CacheInv'
<1>1. Path[b] \in Seq(Blocks) /\ Len(Path[b]) \in Nat /\ CacheSize \in Nat
  BY PathAssumption, CacheSizeAssumption, LenProperties
<1>2. blocks' \in Seq(Blocks) /\ Len(blocks') = 0
  OBVIOUS
<1>3. CacheTypeOK' /\ NeverKeyError' /\ LoopWindow'
  BY <1>2 DEF CacheTypeOK, NeverKeyError, LoopWindow
<1>4. cache' = TxsOf(blocks')
  BY EmptyTxs
<1>5. InitWindow'
  <2>1. SubSeq(Path[b], Len(Path[b]) + 1, Len(Path[b])) = <<>>
    BY <1>1, SubSeqEmpty
  <2>2. Len(Path[b]) - Len(blocks') + 1 = Len(Path[b]) + 1
    BY <1>1, <1>2
  <2>3. Len(blocks') <= CacheSize /\ Len(blocks') <= Len(Path[b])
    BY <1>1, <1>2
  <2> QED BY <2>1, <2>2, <2>3 DEF InitWindow
<1> QED BY <1>3, <1>4, <1>5 DEF CacheInv

LEMMA CacheInvInit == CacheInit => CacheInv
<1> SUFFICES ASSUME CacheInit PROVE CacheInv
  OBVIOUS
<1>1. Path[last] \in Seq(Blocks) /\ Len(Path[last]) \in Nat /\ CacheSize \in Nat
  BY PathAssumption, CacheSizeAssumption, LenProperties DEF CacheInit
<1>2. blocks \in Seq(Blocks) /\ Len(blocks) = 0
  BY DEF CacheInit
<1>3. CacheTypeOK /\ NeverKeyError /\ LoopWindow
  BY <1>2 DEF CacheInit, CacheTypeOK, NeverKeyError, LoopWindow
<1>4. cache = TxsOf(blocks)
  BY EmptyTxs DEF CacheInit
<1>5. InitWindow
  <2>1. SubSeq(Path[last], Len(Path[last]) + 1, Len(Path[last])) = <<>>
    BY <1>1, SubSeqEmpty
  <2>2. Len(Path[last]) - Len(blocks) + 1 = Len(Path[last]) + 1
    BY <1>1, <1>2
  <2>3. Len(blocks) <= CacheSize /\ Len(blocks) <= Len(Path[last])
    BY <1>1, <1>2
  <2> QED BY <2>1, <2>2, <2>3 DEF CacheInit, InitWindow
<1> QED BY <1>3, <1>4, <1>5 DEF CacheInv

LEMMA CacheInvNext == CacheInv /\ [CacheNext]_cacheVars => CacheInv'
<1> SUFFICES ASSUME CacheInv, [CacheNext]_cacheVars
             PROVE  CacheInv'
  OBVIOUS
<1> USE CacheSizeAssumption
<1>1. /\ blocks \in Seq(Blocks) /\ Len(blocks) \in Nat
      /\ cache = TxsOf(blocks) /\ last \in Blocks /\ cur \in Blocks
      /\ TxsIn \in [Blocks -> SUBSET Txs]
  BY TxsAssumption, LenProperties DEF CacheInv, CacheTypeOK
<1>2. ASSUME NEW b \in Blocks, StartAt(b)
      PROVE  CacheInv'
  BY <1>2, CacheInvStart DEF StartAt
<1>3. CASE InitBlock
  <2> DEFINE n == Len(Path[last])
             k == n - Len(blocks)
             b == Path[last][k]
  <2>1. /\ Path[last] \in Seq(Blocks) /\ n \in Nat
        /\ Len(blocks) < n /\ Len(blocks) < CacheSize
        /\ blocks = SubSeq(Path[last], k + 1, n) /\ cur = last
    BY <1>1, <1>3, PathAssumption, LenProperties DEF InitBlock, CacheInv, InitWindow
  <2>2. k \in 1..n /\ b \in Blocks
    BY <1>1, <2>1, ElementOfSeq
  <2>3. /\ blocks' = <<b>> \o blocks /\ cache' = cache \cup TxsIn[b]
        /\ UNCHANGED <<last, cur, pc>> /\ pc = "init"
    BY <1>3 DEF InitBlock
  <2>4. blocks' = SubSeq(Path[last], k, n)
    <3>1. n \in k..n
      BY <2>1, <2>2
    <3>2. SubSeq(Path[last], k, n) = <<Path[last][k]>> \o SubSeq(Path[last], k + 1, n)
      BY <2>1, <2>2, <3>1, SubSeqRecursiveFirst
    <3> QED BY <2>1, <2>3, <3>2
  <2>5. blocks' \in Seq(Blocks) /\ Len(blocks') = Len(blocks) + 1
    <3>1. blocks' \in Seq(Blocks) /\ Len(blocks') = n - k + 1
      BY <1>1, <2>2, <2>4, SegmentProperties
    <3> QED BY <1>1, <2>1, <3>1
  <2>6. InitWindow'
    <3>1. n - Len(blocks') + 1 = k
      BY <1>1, <2>1, <2>5
    <3>2. Len(blocks') <= CacheSize /\ Len(blocks') <= n
      BY <1>1, <2>1, <2>5
    <3> QED BY <2>1, <2>3, <2>4, <3>1, <3>2 DEF InitWindow
  <2>7. cache' = TxsOf(blocks')
    BY <1>1, <2>2, <2>3, TxsOfAppend
  <2>8. CacheTypeOK'
    <3>1. TxsIn[b] \subseteq Txs
      BY <1>1, <2>2
    <3> QED BY <2>3, <2>5, <3>1 DEF CacheInv, CacheTypeOK
  <2>9. NeverKeyError' /\ LoopWindow'
    BY <2>3 DEF NeverKeyError, LoopWindow
  <2> QED BY <2>6, <2>7, <2>8, <2>9 DEF CacheInv
<1>4. CASE InitDone
  <2> DEFINE n == Len(Path[last])
  <2>1. /\ n \in Nat /\ n > 0
        /\ blocks = SubSeq(Path[last], n - Len(blocks) + 1, n)
        /\ Len(blocks) <= CacheSize /\ Len(blocks) <= n
        /\ Len(blocks) = CacheSize \/ Len(blocks) = n
        /\ pc' = "wait" /\ UNCHANGED <<blocks, cache, last, cur>>
    BY <1>1, <1>4, PathAssumption, LenProperties DEF InitDone, CacheInv, InitWindow
  <2>2. n - Len(blocks) + 1 = Low(last, CacheSize)
    BY <1>1, <2>1 DEF Low
  <2>3. blocks = LastBlocks(last, CacheSize)
    BY <2>1, <2>2 DEF LastBlocks, Low
  <2> QED BY <2>1, <2>3 DEF CacheInv, CacheTypeOK, NeverKeyError, InitWindow, LoopWindow
<1>5. ASSUME NEW b \in Blocks, Get(b)
      PROVE  CacheInv'
  BY <1>5 DEF Get, CacheInv, CacheTypeOK, NeverKeyError, InitWindow, LoopWindow
<1>6. CASE Fix
  <2>1. LastBlocks(cur, CacheSize) \in Seq(Blocks)
    BY <1>1, WindowProperties
  <2>2. TxsOf(LastBlocks(cur, CacheSize)) \subseteq Txs
    BY <1>1, <2>1 DEF TxsOf
  <2> QED BY <1>6, <2>1, <2>2 DEF Fix, CacheInv, CacheTypeOK, NeverKeyError, InitWindow, LoopWindow
<1>7. CASE Update
  <2>0. /\ pc' = "added" /\ UNCHANGED <<last, cur>>
        /\ cache' = cache \cup TxsIn[cur]
        /\ TxsIn[cur] \subseteq Txs
    BY <1>1, <1>7 DEF Update
  <2>1. CASE pc = "fixed"
    <3>1. blocks = LastBlocks(cur, CacheSize)
      BY <2>1 DEF CacheInv, LoopWindow
    <3>2. blocks' = blocks /\ cache' = cache
      BY <1>1, <1>7, <3>1, OwnWindow DEF Update
    <3> QED BY <2>0, <3>1, <3>2 DEF CacheInv, CacheTypeOK, NeverKeyError, InitWindow, LoopWindow
  <2>2. CASE pc = "got" /\ IsParent(last, cur)
    <3>1. blocks = LastBlocks(last, CacheSize)
      BY <2>2 DEF CacheInv, LoopWindow
    <3>2. blocks' = Append(blocks, cur)
      BY <1>1, <1>7, <2>2, <3>1, AppendToWindow DEF Update
    <3>3. blocks' = LastBlocks(cur, CacheSize + 1)
      BY <1>1, <2>2, <3>1, <3>2, AppendToWindow
    <3>4. cache' = TxsOf(blocks') /\ blocks' \in Seq(Blocks)
      BY <1>1, <2>0, <3>2, TxsOfAppend, AppendProperties
    <3> QED BY <2>0, <3>3, <3>4 DEF CacheInv, CacheTypeOK, NeverKeyError, InitWindow, LoopWindow
  <2> QED BY <1>7, <2>1, <2>2 DEF Update
<1>8. CASE Trim
  <2>0. pc = "added" /\ UNCHANGED <<last, cur>>
    BY <1>8 DEF Trim
  <2>1. CASE Len(blocks) > CacheSize
    <3>1. blocks = LastBlocks(cur, CacheSize + 1)
      <4>1. Len(LastBlocks(cur, CacheSize)) <= CacheSize
        BY <1>1, WindowLength
      <4>2. ~(blocks = LastBlocks(cur, CacheSize))
        BY <1>1, <2>1, <4>1
      <4> QED BY <2>0, <4>2 DEF CacheInv, LoopWindow
    <3>2. Tail(blocks) = LastBlocks(cur, CacheSize)
      BY <1>1, <2>1, <3>1, TailOfWindow
    <3>3. CacheSize + 1 \in Nat \ {0}
      OBVIOUS
    <3>4. TxsIn[Head(blocks)] \subseteq cache /\ TxsOf(Tail(blocks)) = cache \ TxsIn[Head(blocks)]
      BY <1>1, <3>1, <3>3, DropOldest
    <3>5. /\ blocks' = LastBlocks(cur, CacheSize)
          /\ cache' = TxsOf(blocks') /\ cache' \subseteq cache /\ pc' = "trimmed"
      BY <1>8, <2>1, <3>2, <3>4 DEF Trim
    <3>6. blocks' \in Seq(Blocks)
      BY <1>1, <3>5, WindowProperties
    <3> QED BY <2>0, <3>5, <3>6 DEF CacheInv, CacheTypeOK, NeverKeyError, InitWindow, LoopWindow
  <2>2. CASE ~(Len(blocks) > CacheSize)
    <3>1. pc' = "trimmed" /\ UNCHANGED <<blocks, cache>>
      BY <1>8, <2>2 DEF Trim
    <3>2. blocks = LastBlocks(cur, CacheSize)
      <4>1. CASE blocks = LastBlocks(cur, CacheSize + 1)
        BY <1>1, <2>2, <4>1, ShortWindow
      <4> QED BY <2>0, <4>1 DEF CacheInv, LoopWindow
    <3> QED BY <2>0, <3>1, <3>2 DEF CacheInv, CacheTypeOK, NeverKeyError, InitWindow, LoopWindow
  <2> QED BY <2>1, <2>2
<1>9. CASE Done
  BY <1>9 DEF Done, CacheInv, CacheTypeOK, NeverKeyError, InitWindow, LoopWindow
<1>10. CASE UNCHANGED cacheVars
  BY <1>10 DEF cacheVars, CacheInv, CacheTypeOK, NeverKeyError, InitWindow, LoopWindow
<1> QED BY <1>2, <1>3, <1>4, <1>5, <1>6, <1>7, <1>8, <1>9, <1>10 DEF CacheNext

THEOREM CacheInvariance == CacheSpec => []CacheInv
BY CacheInvInit, CacheInvNext, PTL DEF CacheSpec

(***************************************************************************)
(* What follows from it.                                                   *)
(***************************************************************************)

(* The watch thread never dies of a KeyError in remove_oldest_block, for   *)
(* every tree of blocks and every order in which they arrive.              *)
THEOREM NeverKeyErrorHolds == CacheSpec => []NeverKeyError
<1>1. CacheInv => NeverKeyError
  BY DEF CacheInv
<1> QED BY CacheInvariance, <1>1, PTL

(* Between two blocks the cache is exactly the window of last_known_block. *)
THEOREM WindowExactHolds == CacheSpec => []WindowExact
<1>1. CacheInv => WindowExact
  BY DEF CacheInv, LoopWindow, WindowExact, Window
<1> QED BY CacheInvariance, <1>1, PTL

(* get_txid finds, at every moment after init, all of the window of the    *)
(* last processed block or of the block being processed.                   *)
THEOREM ReadersCoveredHolds == CacheSpec => []ReadersCovered
<1>1. ASSUME CacheInv, pc # "init"
      PROVE  Window(last) \subseteq cache \/ Window(cur) \subseteq cache
  <2>1. /\ cur \in Blocks /\ last \in Blocks /\ cache = TxsOf(blocks)
        /\ pc \in {"wait", "got", "fixed", "added", "trimmed"}
    BY <1>1 DEF CacheInv, CacheTypeOK, NeverKeyError
  <2>2. CASE pc \in {"wait", "got"}
    BY <1>1, <2>1, <2>2 DEF CacheInv, LoopWindow, Window
  <2>3. CASE pc \in {"fixed", "trimmed"}
    BY <1>1, <2>1, <2>3 DEF CacheInv, LoopWindow, Window
  <2>4. CASE pc = "added"
    <3>1. CASE blocks = LastBlocks(cur, CacheSize)
      BY <2>1, <3>1 DEF Window
    <3>2. CASE blocks = LastBlocks(cur, CacheSize + 1)
      BY <2>1, <3>2, WiderWindow, CacheSizeAssumption DEF Window
    <3> QED BY <1>1, <2>4, <3>1, <3>2 DEF CacheInv, LoopWindow
  <2> QED BY <2>1, <2>2, <2>3, <2>4
<1> QED BY CacheInvariance, <1>1, PTL DEF ReadersCovered

(* What the cache answers add_appointment is of the window and complete.   *)
THEOREM CacheServesHolds == CacheSpec => []CacheServes
BY WindowExactHolds, ReadersCoveredHolds, PTL DEF CacheServes

(* What the cache answers for the block being processed it keeps answering *)
(* until the next block.                                                   *)
THEOREM NoForgettingHolds == CacheSpec => NoForgetting
<1> DEFINE Kept == cur' = cur /\ pc' # "init" => cache \cap Window(cur) \subseteq cache'
<1>1. CacheInv /\ CacheInv' /\ [CacheNext]_cacheVars => Kept
  <2> SUFFICES ASSUME CacheInv, CacheInv', [CacheNext]_cacheVars, cur' = cur, pc' # "init"
               PROVE  cache \cap Window(cur) \subseteq cache'
    OBVIOUS
  <2>1. CASE InitDone \/ Done \/ (\E b \in Blocks : Get(b)) \/ UNCHANGED cacheVars
    BY <2>1 DEF InitDone, Done, Get, cacheVars
  <2>2. CASE Fix
    BY <2>2 DEF Fix, Window
  <2>3. CASE Update
    BY <2>3 DEF Update
  <2>4. CASE Trim
    <3>1. pc' \in {"trimmed", "dead"}
      BY <2>4 DEF Trim
    <3>2. blocks' = LastBlocks(cur, CacheSize) /\ cache' = TxsOf(blocks')
      BY <3>1 DEF CacheInv, NeverKeyError, LoopWindow
    <3> QED BY <3>2 DEF Window
  <2>5. ASSUME (\E b \in Blocks : StartAt(b)) \/ InitBlock
        PROVE  FALSE
    BY <2>5, ZenonT(20) DEF StartAt, InitBlock
  <2> QED BY <2>1, <2>2, <2>3, <2>4, <2>5 DEF CacheNext
<1> QED BY CacheInvariance, <1>1, PTL DEF CacheSpec, NoForgetting
=============================================================================
