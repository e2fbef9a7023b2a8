------------------------- MODULE RateLimiterProofs -------------------------
(***************************************************************************)
(* Proofs that the limiter lets in what its limit allows and refuses       *)
(* nothing else, for every limit, window, resolution of the clock and set  *)
(* of clients.                                                             *)
(*                                                                         *)
(* The argument: the time stamps that are kept are the last ones of the    *)
(* key's history, and all before them have expired (KeptOK). So when the   *)
(* limit lets one more in, the one MaxRequests before it is among the      *)
(* expired, and when it refuses, the first that is kept is the MaxRequests *)
(* newest of the history.                                                  *)
(***************************************************************************)
EXTENDS RateLimiter, SequenceTheorems, TLAPS

Dropped(k) == Len(admitted[k]) - Len(requests[k])

KeptOK(k) ==
    /\ Len(requests[k]) <= Len(admitted[k])
    /\ \A i \in DOMAIN requests[k] : requests[k][i] = admitted[k][Dropped(k) + i]
    /\ \A i \in DOMAIN admitted[k] :
         i <= Dropped(k) => Expired(admitted[k][i])

LimiterInv ==
    /\ LimiterTypeOK
    /\ \A k \in LimitKeys : KeptOK(k)
    /\ WindowLimit
    /\ RefusedWhenFull
    /\ RetryIsNear

-----------------------------------------------------------------------------
(* What is left of a sequence when its first n elements are dropped.       *)
LEMMA Suffix ==
    ASSUME NEW s \in Seq(Nat), NEW n \in 0..Len(s)
    PROVE  /\ SubSeq(s, n + 1, Len(s)) \in Seq(Nat)
           /\ Len(SubSeq(s, n + 1, Len(s))) = Len(s) - n
           /\ \A i \in 1..(Len(s) - n) : SubSeq(s, n + 1, Len(s))[i] = s[n + i]
<1>1. Len(s) \in Nat /\ DOMAIN s = 1..Len(s) /\ \A i \in 1..Len(s) : s[i] \in Nat
  BY LenProperties
<1>. DEFINE l == Len(s)
            first == n + 1
<1>2. first \in Int /\ l \in Int /\ \A i \in first..l : s[i] \in Nat
  BY <1>1
<1>3. /\ SubSeq(s, first, l) \in Seq(Nat)
      /\ Len(SubSeq(s, first, l)) = IF first <= l THEN l - first + 1 ELSE 0
      /\ \A i \in 1..(l - first + 1) : SubSeq(s, first, l)[i] = s[first + i - 1]
  <2>. HIDE DEF l, first
  <2>. QED  BY <1>2, SubSeqProperties
<1>4. l \in Nat /\ n \in 0..l
  BY <1>1
<1>5. /\ l - first + 1 = l - n
      /\ \A i \in 1..(l - n) : first + i - 1 = n + i
      /\ first <= l <=> l - n > 0
  <2>. HIDE DEF l
  <2>. QED  BY <1>4
<1>6. (IF first <= l THEN l - first + 1 ELSE 0) = l - n
  <2>. HIDE DEF l
  <2>1. CASE first <= l
    BY <1>5, <2>1
  <2>2. CASE ~(first <= l)
    <3>1. l - n = 0
      BY <1>4, <1>5, <2>2
    <3>. QED  BY <2>2, <3>1
  <2>. QED  BY <2>1, <2>2
<1>. QED  BY <1>3, <1>4, <1>5, <1>6

LEMMA WindowType == Window \in Nat
BY WindowAssumption DEF Window

(* Division with remainder: q whole parts of d fit into a, one more not.   *)
LEMMA Quotient ==
    ASSUME NEW a \in Nat, NEW d \in Nat \ {0}
    PROVE  /\ a \div d \in Nat
           /\ (a \div d) * d <= a
           /\ a < (a \div d) * d + d
<1>. DEFINE q == a \div d
            r == a % d
<1>1. q \in Int /\ r \in 0..(d - 1) /\ a = d * q + r
  OBVIOUS
<1>2. q >= 0
  OBVIOUS
<1>3. q * d = d * q
  BY <1>1
<1>. QED  BY <1>1, <1>2, <1>3

(* What a refused client is told: never less than a second, at most a      *)
(* second short, and beyond one second never too long.                     *)
LEMMA RetryBounds ==
    ASSUME NEW kept, NEW first \in Nat, kept[1] = first, now \in Nat,
           ~Expired(first)
    PROVE  LET told == now + RetryAfter(kept) * Ticks
           IN  /\ RetryAfter(kept) \in Nat \ {0}
               /\ first + Window <= told + Ticks
               /\ RetryAfter(kept) > 1 => told <= first + Window
<1>. DEFINE a == first + Window - now
            q == a \div Ticks
<1>1. a \in Nat /\ a > 0
  BY WindowType DEF Expired
<1>2. q \in Nat /\ q * Ticks <= a /\ a < q * Ticks + Ticks
  BY <1>1, Quotient, WindowAssumption
<1>3. RetryAfter(kept) = IF q > 1 THEN q ELSE 1
  BY DEF RetryAfter
<1>4. Ticks \in Nat \ {0}
  BY WindowAssumption
<1>5. CASE q > 1
  <2>. DEFINE x == q * Ticks
  <2>1. x \in Nat
    BY <1>2, <1>4
  <2>2. x <= a /\ a < x + Ticks
    BY <1>2
  <2>3. RetryAfter(kept) * Ticks = x
    BY <1>3, <1>5
  <2>. HIDE DEF x
  <2>4. now + x <= first + Window /\ first + Window <= now + x + Ticks
    BY <1>4, <2>1, <2>2, WindowType
  <2>. QED  BY <1>2, <1>3, <1>5, <2>3, <2>4
<1>6. CASE q = 0
  BY <1>1, <1>2, <1>3, <1>4, <1>6, WindowType
<1>7. CASE q = 1
  BY <1>1, <1>2, <1>3, <1>4, <1>7, WindowType
<1>. QED  BY <1>2, <1>5, <1>6, <1>7

-----------------------------------------------------------------------------
LEMMA LimiterStart == LimiterInit => LimiterInv
<1>. SUFFICES ASSUME LimiterInit PROVE LimiterInv
  OBVIOUS
<1>. USE DEF LimiterInit, NoStamps
<1>1. LimiterTypeOK
  BY LimitAssumption DEF LimiterTypeOK
<1>2. \A k \in LimitKeys : KeptOK(k)
  BY DEF KeptOK, Dropped
<1>3. WindowLimit
  BY DEF WindowLimit
<1>4. RefusedWhenFull /\ RetryIsNear
  BY DEF RefusedWhenFull, RetryIsNear
<1>. QED  BY <1>1, <1>2, <1>3, <1>4 DEF LimiterInv

(* Starting again, like the start, keeps nothing of anybody.               *)
LEMMA ResetStep == LimiterInv /\ Reset => LimiterInv'
<1>. SUFFICES ASSUME LimiterInv, Reset PROVE LimiterInv'
  OBVIOUS
<1>. USE DEF Reset, NoStamps
<1>1. LimiterTypeOK'
  BY LimitAssumption DEF LimiterTypeOK, LimiterInv
<1>2. \A k \in LimitKeys : KeptOK(k)'
  BY DEF KeptOK, Dropped
<1>3. WindowLimit'
  BY DEF WindowLimit
<1>4. RefusedWhenFull' /\ RetryIsNear'
  BY DEF RefusedWhenFull, RetryIsNear
<1>. QED  BY <1>1, <1>2, <1>3, <1>4 DEF LimiterInv

(* What has expired stays so.                                              *)
LEMMA TickStep == LimiterInv /\ Tick => LimiterInv'
<1>. SUFFICES ASSUME LimiterInv, Tick PROVE LimiterInv'
  OBVIOUS
<1>. USE DEF Tick
<1>1. LimiterTypeOK'
  BY DEF LimiterTypeOK, LimiterInv
<1>2. ASSUME NEW k \in LimitKeys PROVE KeptOK(k)'
  BY <1>2, WindowType DEF LimiterInv, LimiterTypeOK, KeptOK, Dropped, Expired
<1>3. WindowLimit'
  BY DEF LimiterInv, WindowLimit
<1>4. RefusedWhenFull' /\ RetryIsNear'
  BY DEF LimiterInv, RefusedWhenFull, RetryIsNear, Oldest
<1>. QED  BY <1>1, <1>2, <1>3, <1>4 DEF LimiterInv

-----------------------------------------------------------------------------
(* What the loop of check leaves of the time stamps of k: the newest ones  *)
(* of its history, with only expired ones before them.                     *)
Rest(k, n, kept) ==
    /\ n \in 0..Len(requests[k])
    /\ \A i \in 1..n : Expired(requests[k][i])
    /\ n < Len(requests[k]) => ~Expired(requests[k][n + 1])
    /\ kept = SubSeq(requests[k], n + 1, Len(requests[k]))

LEMMA RestIsNewest ==
    ASSUME LimiterInv, NEW k \in LimitKeys, NEW n, NEW kept, Rest(k, n, kept)
    PROVE  LET d == Len(admitted[k]) - Len(kept)
           IN  /\ kept \in Seq(Nat)
               /\ Len(kept) <= MaxRequests
               /\ d \in Nat
               /\ \A i \in DOMAIN kept : kept[i] = admitted[k][d + i]
               /\ \A i \in DOMAIN admitted[k] : i <= d => Expired(admitted[k][i])
               /\ kept # <<>> => ~Expired(kept[1])
<1>. DEFINE stamps == requests[k]
            e == Dropped(k)
<1>1. stamps \in Seq(Nat) /\ admitted[k] \in Seq(Nat) /\ Len(stamps) <= MaxRequests
  BY DEF LimiterInv, LimiterTypeOK
<1>2. KeptOK(k)
  BY DEF LimiterInv
<1>3. n \in 0..Len(stamps) /\ kept = SubSeq(stamps, n + 1, Len(stamps))
  BY DEF Rest
<1>4. /\ kept \in Seq(Nat) /\ Len(kept) = Len(stamps) - n
      /\ \A i \in DOMAIN kept : kept[i] = stamps[n + i]
      /\ DOMAIN kept = 1..(Len(stamps) - n) /\ DOMAIN stamps = 1..Len(stamps)
      /\ Len(stamps) \in Nat /\ Len(admitted[k]) \in Nat
      /\ DOMAIN admitted[k] = 1..Len(admitted[k])
  <2>. HIDE DEF stamps
  <2>1. /\ kept \in Seq(Nat) /\ Len(kept) = Len(stamps) - n
        /\ \A i \in 1..(Len(stamps) - n) : kept[i] = stamps[n + i]
    BY <1>1, <1>3, Suffix
  <2>. QED  BY <1>1, <2>1, LenProperties
<1>. DEFINE a == Len(admitted[k])
            m == Len(stamps)
<1>5. a - m = e /\ m <= a
  BY <1>2 DEF KeptOK, Dropped
<1>6. /\ a \in Nat /\ m \in 0..MaxRequests /\ n \in 0..m /\ e \in Nat
      /\ Len(kept) = m - n /\ a - Len(kept) = e + n
  <2>1. a \in Nat /\ m \in Nat /\ m <= MaxRequests /\ n \in 0..m /\ Len(kept) = m - n
    BY <1>1, <1>3, <1>4
  <2>. HIDE DEF a, m, e
  <2>. QED  BY <1>5, <2>1, LimitAssumption
<1>7. ASSUME NEW i \in DOMAIN kept PROVE kept[i] = admitted[k][e + n + i]
  <2>1. n + i \in 1..m /\ e + (n + i) = e + n + i
    <3>1. i \in 1..(m - n)
      BY <1>4
    <3>. HIDE DEF m, e
    <3>. QED  BY <1>6, <3>1
  <2>2. stamps[n + i] = admitted[k][e + (n + i)]
    BY <1>2, <1>4, <2>1 DEF KeptOK
  <2>. QED  BY <1>4, <2>1, <2>2
<1>8. ASSUME NEW i \in DOMAIN admitted[k], i <= e + n
      PROVE  Expired(admitted[k][i])
  <2>1. i \in 1..a
    BY <1>4
  <2>2. CASE i <= e
    BY <1>2, <2>2 DEF KeptOK
  <2>3. CASE i > e
    <3>1. i - e \in 1..n /\ i - e \in 1..m /\ e + (i - e) = i
      <4>. HIDE DEF a, m, e
      <4>. QED  BY <1>6, <1>8, <2>1, <2>3
    <3>2. stamps[i - e] = admitted[k][e + (i - e)]
      BY <1>2, <1>4, <3>1 DEF KeptOK
    <3>. QED  BY <3>1, <3>2 DEF Rest
  <2>4. i <= e \/ i > e
    <3>. HIDE DEF a, e
    <3>. QED  BY <1>6, <2>1
  <2>. QED  BY <2>2, <2>3, <2>4
<1>9. kept # <<>> => ~Expired(kept[1])
  <2>1. ASSUME kept # <<>> PROVE n < m /\ kept[1] = stamps[n + 1]
    <3>1. Len(kept) # 0
      BY <1>4, <2>1
    <3>2. n < m /\ 1 \in 1..(m - n)
      <4>. HIDE DEF m
      <4>. QED  BY <1>6, <3>1
    <3>. QED  BY <1>4, <3>2
  <2>. QED  BY <2>1 DEF Rest
<1>10. Len(kept) <= MaxRequests /\ e + n \in Nat
  <2>. HIDE DEF m, e
  <2>. QED  BY <1>6, LimitAssumption
<1>. QED  BY <1>4, <1>6, <1>7, <1>8, <1>9, <1>10

(* A refusal keeps what is left and tells the wait; it uses up nothing.    *)
LEMMA RefuseStep ==
    ASSUME LimiterInv, NEW k \in LimitKeys, NEW n, NEW kept, Rest(k, n, kept),
           Refuse(k, kept), UNCHANGED now
    PROVE  LimiterInv'
<1>. DEFINE d == Len(admitted[k]) - Len(kept)
<1>1. /\ kept \in Seq(Nat) /\ Len(kept) = MaxRequests /\ d \in Nat
      /\ \A i \in DOMAIN kept : kept[i] = admitted[k][d + i]
      /\ \A i \in DOMAIN admitted[k] : i <= d => Expired(admitted[k][i])
      /\ ~Expired(kept[1])
  <2>1. /\ kept \in Seq(Nat) /\ Len(kept) <= MaxRequests /\ d \in Nat
        /\ \A i \in DOMAIN kept : kept[i] = admitted[k][d + i]
        /\ \A i \in DOMAIN admitted[k] : i <= d => Expired(admitted[k][i])
        /\ kept # <<>> => ~Expired(kept[1])
    BY RestIsNewest
  <2>. QED  BY <2>1, LimitAssumption DEF Refuse
<1>2. admitted[k] \in Seq(Nat) /\ now \in Nat
  BY DEF LimiterInv, LimiterTypeOK
<1>3. kept[1] \in Nat /\ kept[1] = Oldest(k) /\ Len(admitted[k]) >= MaxRequests
  <2>1. /\ Len(admitted[k]) \in Nat /\ DOMAIN kept = 1..MaxRequests
        /\ \A i \in DOMAIN kept : kept[i] \in Nat
    BY <1>1, <1>2, LenProperties
  <2>2. 1 \in DOMAIN kept /\ d + 1 = Len(admitted[k]) + 1 - MaxRequests
    BY <1>1, <2>1, LimitAssumption
  <2>3. Len(admitted[k]) >= MaxRequests
    BY <1>1, <2>1, LimitAssumption
  <2>. QED  BY <1>1, <2>1, <2>2, <2>3 DEF Oldest
<1>4. LET told == now + RetryAfter(kept) * Ticks
      IN  /\ RetryAfter(kept) \in Nat \ {0}
          /\ kept[1] + Window <= told + Ticks
          /\ RetryAfter(kept) > 1 => told <= kept[1] + Window
  BY <1>1, <1>2, <1>3, RetryBounds
<1>5. /\ requests' = [requests EXCEPT ![k] = kept]
      /\ refused' = [refused EXCEPT ![k] = [at |-> now, wait |-> RetryAfter(kept)]]
      /\ admitted' = admitted /\ now' = now
  BY DEF Refuse
<1>6. LimiterTypeOK'
  BY <1>1, <1>2, <1>4, <1>5 DEF LimiterInv, LimiterTypeOK
<1>7. ASSUME NEW j \in LimitKeys PROVE KeptOK(j)'
  <2>1. CASE j = k
    BY <1>1, <1>2, <1>5, <2>1 DEF LimiterInv, LimiterTypeOK, KeptOK, Dropped, Expired
  <2>2. CASE j # k
    BY <1>5, <2>2 DEF LimiterInv, LimiterTypeOK, KeptOK, Dropped, Expired
  <2>. QED  BY <2>1, <2>2
<1>8. WindowLimit'
  BY <1>5 DEF LimiterInv, WindowLimit
<1>9. ASSUME NEW j \in LimitKeys, refused'[j] # NoRefusal
      PROVE  /\ Len(admitted'[j]) >= MaxRequests
             /\ Oldest(j)' + Window > refused'[j].at
             /\ Oldest(j)' + Window <= refused'[j].at + refused'[j].wait * Ticks + Ticks
             /\ refused'[j].wait > 1 =>
                  refused'[j].at + refused'[j].wait * Ticks <= Oldest(j)' + Window
  <2>1. Oldest(j)' = Oldest(j)
    BY <1>5 DEF Oldest
  <2>2. CASE j = k
    <3>1. refused'[j].at = now /\ refused'[j].wait = RetryAfter(kept)
      BY <1>5, <2>2 DEF LimiterInv, LimiterTypeOK
    <3>2. Oldest(k) + Window > now
      BY <1>1, <1>2, <1>3, WindowType DEF Expired
    <3>. QED  BY <1>3, <1>4, <1>5, <2>1, <2>2, <3>1, <3>2
  <2>3. CASE j # k
    <3>1. refused'[j] = refused[j]
      BY <1>5, <2>3 DEF LimiterInv, LimiterTypeOK
    <3>. QED  BY <1>5, <1>9, <2>1, <3>1 DEF LimiterInv, RefusedWhenFull, RetryIsNear
  <2>. QED  BY <2>2, <2>3
<1>10. RefusedWhenFull' /\ RetryIsNear'
  BY <1>9 DEF RefusedWhenFull, RetryIsNear
<1>. QED  BY <1>6, <1>7, <1>8, <1>10 DEF LimiterInv

(* Who is let in has fewer than MaxRequests before it that have not        *)
(* expired: the one MaxRequests before it has.                             *)
LEMMA AdmitStep ==
    ASSUME LimiterInv, NEW k \in LimitKeys, NEW n, NEW kept, Rest(k, n, kept),
           Admit(k, kept), UNCHANGED now
    PROVE  LimiterInv'
<1>. DEFINE d == Len(admitted[k]) - Len(kept)
<1>1. /\ kept \in Seq(Nat) /\ Len(kept) < MaxRequests /\ d \in Nat
      /\ \A i \in DOMAIN kept : kept[i] = admitted[k][d + i]
      /\ \A i \in DOMAIN admitted[k] : i <= d => Expired(admitted[k][i])
  BY RestIsNewest DEF Admit
<1>2. admitted[k] \in Seq(Nat) /\ now \in Nat
  BY DEF LimiterInv, LimiterTypeOK
<1>3. /\ requests' = [requests EXCEPT ![k] = Append(kept, now)]
      /\ admitted' = [admitted EXCEPT ![k] = Append(admitted[k], now)]
      /\ refused' = [refused EXCEPT ![k] = NoRefusal] /\ now' = now
  BY DEF Admit
<1>4. LimiterTypeOK'
  <2>1. Append(kept, now) \in Seq(Nat) /\ Append(admitted[k], now) \in Seq(Nat)
        /\ Len(Append(kept, now)) <= MaxRequests
    BY <1>1, <1>2, LimitAssumption
  <2>. QED  BY <1>3, <2>1 DEF LimiterInv, LimiterTypeOK
<1>5. /\ requests'[k] = Append(kept, now) /\ admitted'[k] = Append(admitted[k], now)
      /\ refused'[k] = NoRefusal
  BY <1>3 DEF LimiterInv, LimiterTypeOK
<1>. DEFINE a == Len(admitted[k])
            l == Len(kept)
<1>6. /\ a \in Nat /\ l \in Nat /\ DOMAIN admitted[k] = 1..a /\ DOMAIN kept = 1..l
      /\ DOMAIN requests'[k] = 1..(l + 1) /\ DOMAIN admitted'[k] = 1..(a + 1)
      /\ Len(requests'[k]) = l + 1 /\ Len(admitted'[k]) = a + 1
  BY <1>1, <1>2, <1>5, LenProperties, AppendProperties
<1>7. /\ \A i \in 1..a : admitted'[k][i] = admitted[k][i]
      /\ admitted'[k][a + 1] = now
  BY <1>2, <1>5, AppendProperties
<1>8. /\ \A i \in 1..l : requests'[k][i] = kept[i]
      /\ requests'[k][l + 1] = now
  BY <1>1, <1>2, <1>5, AppendProperties
<1>9. ASSUME NEW j \in LimitKeys, j # k
      PROVE  /\ requests'[j] = requests[j] /\ admitted'[j] = admitted[j]
             /\ refused'[j] = refused[j]
  BY <1>3, <1>9 DEF LimiterInv, LimiterTypeOK
<1>10. ASSUME NEW j \in LimitKeys PROVE KeptOK(j)'
  <2>1. CASE j = k
    <3>1. Dropped(k)' = d /\ d = a - l /\ d \in Nat
      <4>1. Dropped(k)' = (a + 1) - (l + 1) /\ a - l \in Nat
        BY <1>1, <1>6 DEF Dropped
      <4>2. (a + 1) - (l + 1) = a - l
        <5>1. a \in Nat /\ l \in Nat
          BY <1>6
        <5>. HIDE DEF a, l
        <5>. QED  BY <5>1
      <4>. QED  BY <4>1, <4>2
    <3>. HIDE DEF d, a, l
    <3>2. ASSUME NEW i \in 1..(l + 1)
          PROVE  requests'[k][i] = admitted'[k][d + i]
      <4>1. CASE i = l + 1
        <5>1. d + i = a + 1
          BY <1>6, <3>1, <4>1
        <5>. QED  BY <1>7, <1>8, <4>1, <5>1
      <4>2. CASE i # l + 1
        <5>1. i \in 1..l /\ d + i \in 1..a
          BY <1>6, <3>1, <4>2
        <5>2. i \in DOMAIN kept /\ kept[i] = requests'[k][i]
          BY <1>6, <1>8, <5>1
        <5>. QED  BY <1>1, <1>7, <5>1, <5>2
      <4>. QED  BY <4>1, <4>2
    <3>3. ASSUME NEW i \in 1..(a + 1), i <= d
          PROVE  admitted'[k][i] + Window <= now
      <4>1. i \in 1..a
        BY <1>6, <3>1, <3>3
      <4>2. admitted'[k][i] = admitted[k][i]
        BY <1>7, <4>1
      <4>3. Expired(admitted[k][i])
        <5>1. i \in DOMAIN admitted[k]
          BY <1>6, <4>1
        <5>. QED  BY <1>1, <3>3, <5>1
      <4>. QED  BY <4>2, <4>3 DEF Expired
    <3>4. l + 1 <= a + 1
      BY <1>6, <3>1
    <3>5. /\ Len(requests'[k]) <= Len(admitted'[k])
          /\ \A i \in DOMAIN requests'[k] :
               requests'[k][i] = admitted'[k][Dropped(k)' + i]
      BY <1>6, <3>1, <3>2, <3>4
    <3>6. \A i \in DOMAIN admitted'[k] :
            i <= Dropped(k)' => admitted'[k][i] + Window <= now'
      BY <1>3, <1>6, <3>1, <3>3
    <3>7. KeptOK(k)'
      BY <3>5, <3>6 DEF KeptOK, Expired
    <3>. QED  BY <2>1, <3>7
  <2>2. CASE j # k
    <3>1. KeptOK(j)
      BY DEF LimiterInv
    <3>. QED  BY <1>3, <1>9, <2>2, <3>1 DEF KeptOK, Dropped, Expired
  <2>. QED  BY <2>1, <2>2
<1>11. WindowLimit'
  <2>. SUFFICES ASSUME NEW j \in LimitKeys, NEW i \in DOMAIN admitted'[j],
                       i + MaxRequests \in DOMAIN admitted'[j]
                PROVE  admitted'[j][i + MaxRequests] >= admitted'[j][i] + Window
    BY DEF WindowLimit
  <2>1. CASE j # k
    BY <1>9, <2>1 DEF LimiterInv, WindowLimit
  <2>. DEFINE far == i + MaxRequests
  <2>2. CASE j = k /\ far <= a
    <3>1. i \in 1..(a + 1) /\ far \in 1..(a + 1)
      BY <1>6, <2>2
    <3>2. i \in 1..a /\ far \in 1..a
      <4>. HIDE DEF a
      <4>. QED  BY <1>6, <2>2, <3>1, LimitAssumption
    <3>3. admitted'[k][i] = admitted[k][i] /\ admitted'[k][far] = admitted[k][far]
      <4>. HIDE DEF far, a
      <4>. QED  BY <1>7, <3>2
    <3>4. i \in DOMAIN admitted[k] /\ far \in DOMAIN admitted[k]
      BY <1>6, <3>2
    <3>. QED  BY <2>2, <3>3, <3>4 DEF LimiterInv, WindowLimit
  <2>3. CASE j = k /\ far = a + 1
    <3>1. i \in 1..a /\ i <= d
      <4>1. i \in 1..(a + 1) /\ d = a - l /\ l < MaxRequests
        BY <1>1, <1>6, <2>3
      <4>. HIDE DEF a, l, d
      <4>2. i = a + 1 - MaxRequests /\ MaxRequests \in Nat \ {0} /\ a \in Nat /\ l \in Nat
        BY <1>6, <2>3, <4>1, LimitAssumption
      <4>. QED  BY <4>1, <4>2
    <3>2. admitted'[k][i] = admitted[k][i] /\ admitted'[k][far] = now
      <4>. HIDE DEF far, a
      <4>. QED  BY <1>7, <2>3, <3>1
    <3>3. Expired(admitted[k][i]) /\ admitted[k][i] \in Nat
      BY <1>1, <1>2, <1>6, <3>1
    <3>. QED  BY <1>2, <2>3, <3>2, <3>3, WindowType DEF Expired
  <2>4. j = k => far <= a \/ far = a + 1
    <3>1. j = k => far \in 1..(a + 1)
      BY <1>6
    <3>. HIDE DEF a, far
    <3>. QED  BY <1>6, <3>1
  <2>. QED  BY <2>1, <2>2, <2>3, <2>4
<1>12. RefusedWhenFull' /\ RetryIsNear'
  <2>1. ASSUME NEW j \in LimitKeys, refused'[j] # NoRefusal
        PROVE  j # k /\ refused'[j] = refused[j] /\ admitted'[j] = admitted[j]
               /\ Oldest(j)' = Oldest(j)
    BY <1>5, <1>9, <2>1 DEF Oldest
  <2>. QED  BY <2>1 DEF LimiterInv, RefusedWhenFull, RetryIsNear
<1>. QED  BY <1>4, <1>10, <1>11, <1>12 DEF LimiterInv

LEMMA CheckStep ==
    ASSUME LimiterInv, NEW k \in LimitKeys, Check(k)
    PROVE  LimiterInv'
<1>1. PICK n \in 0..Len(requests[k]) :
        /\ \A i \in 1..n : Expired(requests[k][i])
        /\ n < Len(requests[k]) => ~Expired(requests[k][n + 1])
        /\ \/ Refuse(k, SubSeq(requests[k], n + 1, Len(requests[k])))
           \/ Admit(k, SubSeq(requests[k], n + 1, Len(requests[k])))
        /\ UNCHANGED now
  BY DEF Check
<1>2. Rest(k, n, SubSeq(requests[k], n + 1, Len(requests[k])))
  BY <1>1 DEF Rest
<1>. QED  BY <1>1, <1>2, RefuseStep, AdmitStep

LEMMA LimiterStep == LimiterInv /\ [LimiterNext]_limiterVars => LimiterInv'
<1>. SUFFICES ASSUME LimiterInv, [LimiterNext]_limiterVars PROVE LimiterInv'
  OBVIOUS
<1>1. CASE Tick
  BY <1>1, TickStep
<1>2. CASE Middleware
  BY <1>2, CheckStep DEF Middleware, LimitKeys
<1>3. CASE Reset
  BY <1>3, ResetStep
<1>4. CASE UNCHANGED limiterVars
  BY <1>4 DEF limiterVars, LimiterInv, LimiterTypeOK, KeptOK, Dropped, Expired,
              WindowLimit, RefusedWhenFull, RetryIsNear, Oldest
<1>. QED  BY <1>1, <1>2, <1>3, <1>4 DEF LimiterNext

(* The time stamps that are kept are the end of the history (check).       *)
THEOREM LimiterInvariance == LimiterSpec => []LimiterInv
<1>. QED  BY LimiterStart, LimiterStep, PTL DEF LimiterSpec

(* The limiter keeps at most MaxRequests time stamps of a key, and every   *)
(* refusal asks for at least a second.                                     *)
THEOREM LimiterTypes == LimiterSpec => []LimiterTypeOK
<1>1. LimiterInv => LimiterTypeOK
  BY DEF LimiterInv
<1>. QED  BY <1>1, LimiterInvariance, PTL

(* No window of time has more than MaxRequests requests of a key let in.   *)
THEOREM LimitHolds == LimiterSpec => []WindowLimit
<1>1. LimiterInv => WindowLimit
  BY DEF LimiterInv
<1>. QED  BY <1>1, LimiterInvariance, PTL

(* Who is refused had MaxRequests requests let in within the window.       *)
THEOREM OnlyTheFullAreRefused == LimiterSpec => []RefusedWhenFull
<1>1. LimiterInv => RefusedWhenFull
  BY DEF LimiterInv
<1>. QED  BY <1>1, LimiterInvariance, PTL

(* Retry-After is at most a second short, and beyond a second not too long. *)
THEOREM RetryAfterIsClose == LimiterSpec => []RetryIsNear
<1>1. LimiterInv => RetryIsNear
  BY DEF LimiterInv
<1>. QED  BY <1>1, LimiterInvariance, PTL
=============================================================================
