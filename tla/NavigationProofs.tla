-------------------------- MODULE NavigationProofs --------------------------
(***************************************************************************)
(* Theorems about Navigation, for any displays, Spaces and bounds: what    *)
(* the engine and the daemon remember of a display are Spaces of that      *)
(* display, as it was observed last, and what they publish is what they    *)
(* remember.                                                               *)
(***************************************************************************)
EXTENDS Navigation, SequenceTheorems, WellFoundedInduction, TLAPS

\* The Spaces of the displays and the current one of each.
Arranged(s, a, f) ==
  /\ s \in [Displays -> Seq(Spaces)] /\ DOMAIN a = Displays
  /\ \A d \in Displays : s[d] # <<>> => On(s, d, a[d])
  /\ f \in Displays /\ s[f] # <<>>

Switch == [to : Spaces, by : Int]
Flying == fly \in [Displays -> Seq(Switch)]

Cursors(o, cs) ==
  /\ DOMAIN cs = Displays
  /\ \A d \in Displays : cs[d] # None =>
       /\ cs[d] = [space |-> cs[d].space, pending |-> cs[d].pending]
       /\ On(o.strip, d, cs[d].space)

Histories(o, hs) ==
  /\ hs \in [Displays -> [cur : Spaces \cup {None}, prev : Spaces \cup {None}]]
  /\ \A d \in Displays :
       /\ o.strip[d] # <<>> => hs[d].cur # None
       /\ \A space \in {hs[d].cur, hs[d].prev} \ {None} : On(o.strip, d, space)
       /\ hs[d].prev # None => hs[d].prev # hs[d].cur

Remembers ==
  /\ Arranged(obs.strip, obs.at, obs.front)
  /\ Cursors(obs, cursor) /\ Histories(obs, hist)
  /\ shown = Public(obs, hist)

Inv == Arranged(strip, at, front) /\ Flying /\ Remembers

-----------------------------------------------------------------------------
LEMMA LeastIn == ASSUME NEW S, S \subseteq Nat, S # {} PROVE Least(S) \in S
<1>1. PICK x \in S : \A y \in S : ~(<<y, x>> \in OpToRel(<, Nat))
  BY NatLessThanWellFounded, WFMin
<1>2. ASSUME NEW y \in S PROVE x <= y
  <2>1. <<y, x>> \in OpToRel(<, Nat) <=> y < x
    BY DEF OpToRel
  <2>2. ~(y < x)
    BY <1>1, <2>1, Zenon
  <2> QED BY <2>2
<1> QED BY <1>2 DEF Least

LEMMA Flown ==
  ASSUME Flying, NEW d \in Displays
  PROVE  /\ [fly EXCEPT ![d] = <<>>] \in [Displays -> Seq(Switch)]
         /\ fly[d] # <<>> => /\ Head(fly[d]) \in Switch
                            /\ [fly EXCEPT ![d] = Tail(@)] \in [Displays -> Seq(Switch)]
         /\ \A f \in Switch : [fly EXCEPT ![d] = Append(@, f)] \in [Displays -> Seq(Switch)]
<1>1. fly[d] \in Seq(Switch) /\ <<>> \in Seq(Switch)
  BY EmptySeq DEF Flying
<1>2. fly[d] # <<>> => Head(fly[d]) \in Switch /\ Tail(fly[d]) \in Seq(Switch)
  BY <1>1, HeadTailProperties
<1>3. \A f \in Switch : Append(fly[d], f) \in Seq(Switch)
  BY <1>1, AppendProperties
<1> QED BY <1>1, <1>2, <1>3 DEF Flying

LEMMA OnSpaces ==
  ASSUME NEW s \in [Displays -> Seq(Spaces)], NEW d \in Displays, NEW x, On(s, d, x)
  PROVE  x \in Spaces /\ s[d] # <<>>
  BY DEF On, ToSet

LEMMA IndexIn ==
  ASSUME NEW seq \in Seq(Spaces), NEW x \in ToSet(seq)
  PROVE  IndexOf(seq, x) \in 1 .. Len(seq) /\ seq[IndexOf(seq, x)] = x
<1>1. \E i \in 1 .. Len(seq) : seq[i] = x
  BY DEF ToSet
<1> QED BY <1>1 DEF IndexOf

LEMMA NeighborIn ==
  ASSUME NEW seq \in Seq(Spaces), NEW x \in ToSet(seq), NEW delta \in Int
  PROVE  Neighbor(seq, x, delta) \in ToSet(seq)
<1> DEFINE i == IndexOf(seq, x) - 1 + delta
<1>1. i \in Int /\ Len(seq) \in Nat /\ Len(seq) > 0
  BY IndexIn
<1> HIDE DEF i
<1>2. i % Len(seq) \in 0 .. Len(seq) - 1
  BY <1>1
<1>3. (i % Len(seq)) + 1 \in 1 .. Len(seq)
  BY <1>1, <1>2
<1>4. Neighbor(seq, x, delta) = seq[(i % Len(seq)) + 1]
  BY DEF Neighbor, i
<1> QED BY <1>3, <1>4 DEF ToSet

\* What SubSeq leaves on either side of a display that is divided.
LEMMA Divided ==
  ASSUME NEW s \in Seq(Spaces), NEW n \in 1 .. Len(s) - 1
  PROVE  /\ SubSeq(s, 1, n) \in Seq(Spaces) /\ Len(SubSeq(s, 1, n)) = n
         /\ \A j \in 1 .. n : SubSeq(s, 1, n)[j] = s[j]
         /\ SubSeq(s, n + 1, Len(s)) \in Seq(Spaces)
         /\ Len(SubSeq(s, n + 1, Len(s))) = Len(s) - n
         /\ \A j \in 1 .. Len(s) - n : SubSeq(s, n + 1, Len(s))[j] = s[n + j]
<1> DEFINE a == SubSeq(s, 1, n)
           b == SubSeq(s, n + 1, Len(s))
<1>1. Len(s) \in Nat /\ n \in Nat /\ 1 <= n /\ n < Len(s) /\ \A i \in 1 .. Len(s) : s[i] \in Spaces
  BY LenProperties, ElementOfSeq
<1>2. a \in Seq(Spaces) /\ Len(a) = n /\ \A j \in 1 .. n : a[j] = s[j]
  <2>1. \A i \in 1 .. n : s[i] \in Spaces
    BY <1>1
  <2>2. /\ a \in Seq(Spaces) /\ Len(a) = IF 1 <= n THEN n - 1 + 1 ELSE 0
        /\ \A j \in 1 .. n - 1 + 1 : a[j] = s[1 + j - 1]
    BY <1>1, <2>1, SubSeqProperties
  <2> HIDE DEF a
  <2> QED BY <1>1, <2>2
<1>3. b \in Seq(Spaces) /\ Len(b) = Len(s) - n /\ \A j \in 1 .. Len(s) - n : b[j] = s[n + j]
  <2>1. \A i \in n + 1 .. Len(s) : s[i] \in Spaces
    BY <1>1
  <2>2. /\ b \in Seq(Spaces)
        /\ Len(b) = IF n + 1 <= Len(s) THEN Len(s) - (n + 1) + 1 ELSE 0
        /\ \A j \in 1 .. Len(s) - (n + 1) + 1 : b[j] = s[n + 1 + j - 1]
    BY <1>1, <2>1, SubSeqProperties
  <2> HIDE DEF b
  <2> QED BY <1>1, <2>2
<1> QED BY <1>2, <1>3

\* What RemoveAt leaves.
LEMMA WithoutAt ==
  ASSUME NEW s \in Seq(Spaces), NEW i \in 1 .. Len(s)
  PROVE  /\ RemoveAt(s, i) \in Seq(Spaces) /\ Len(RemoveAt(s, i)) = Len(s) - 1
         /\ \A j \in 1 .. Len(RemoveAt(s, i)) :
              RemoveAt(s, i)[j] = IF j < i THEN s[j] ELSE s[j + 1]
<1> DEFINE a == SubSeq(s, 1, i - 1)
           b == SubSeq(s, i + 1, Len(s))
           rest == RemoveAt(s, i)
<1>1. Len(s) \in Nat /\ i \in Int /\ 1 <= i /\ i <= Len(s)
  BY LenProperties
<1>2. \A j \in 1 .. Len(s) : s[j] \in Spaces
  BY ElementOfSeq
<1>3. /\ a \in Seq(Spaces) /\ Len(a) = i - 1
      /\ \A j \in 1 .. i - 1 : a[j] = s[j]
  <2>1. \A j \in 1 .. i - 1 : s[j] \in Spaces
    BY <1>1, <1>2
  <2>2. /\ a \in Seq(Spaces) /\ Len(a) = IF 1 <= i - 1 THEN i - 1 - 1 + 1 ELSE 0
        /\ \A j \in 1 .. i - 1 - 1 + 1 : a[j] = s[1 + j - 1]
    BY <1>1, <2>1, SubSeqProperties
  <2> HIDE DEF a
  <2> QED BY <1>1, <2>2
<1>4. /\ b \in Seq(Spaces) /\ Len(b) = Len(s) - i
      /\ \A j \in 1 .. Len(s) - i : b[j] = s[j + i]
  <2>1. \A j \in i + 1 .. Len(s) : s[j] \in Spaces
    BY <1>1, <1>2
  <2>2. /\ b \in Seq(Spaces)
        /\ Len(b) = IF i + 1 <= Len(s) THEN Len(s) - (i + 1) + 1 ELSE 0
        /\ \A j \in 1 .. Len(s) - (i + 1) + 1 : b[j] = s[i + 1 + j - 1]
    BY <1>1, <2>1, SubSeqProperties
  <2> HIDE DEF b
  <2> QED BY <1>1, <2>2
<1>5. rest = a \o b
  BY DEF RemoveAt
<1> HIDE DEF a, b, rest
<1>6. /\ rest \in Seq(Spaces) /\ Len(rest) = Len(a) + Len(b)
      /\ \A j \in 1 .. Len(a) + Len(b) :
           rest[j] = IF j <= Len(a) THEN a[j] ELSE b[j - Len(a)]
  BY <1>3, <1>4, <1>5, ConcatProperties
<1>7. Len(rest) = Len(s) - 1
  BY <1>1, <1>3, <1>4, <1>6
<1>8. ASSUME NEW j \in 1 .. Len(rest)
      PROVE  rest[j] = IF j < i THEN s[j] ELSE s[j + 1]
  <2>1. j \in 1 .. Len(a) + Len(b) /\ j \in Int /\ 1 <= j /\ j <= Len(s) - 1
    BY <1>1, <1>6, <1>7
  <2>2. rest[j] = IF j <= i - 1 THEN a[j] ELSE b[j - (i - 1)]
    BY <1>3, <1>6, <2>1
  <2>3. CASE j < i
    <3>1. j \in 1 .. i - 1
      BY <1>1, <2>1, <2>3
    <3> QED BY <1>3, <2>2, <2>3, <3>1
  <2>4. CASE ~(j < i)
    <3>1. j - (i - 1) \in 1 .. Len(s) - i /\ j - (i - 1) + i = j + 1 /\ ~(j <= i - 1)
      BY <1>1, <2>1, <2>4
    <3>2. b[j - (i - 1)] = s[j - (i - 1) + i]
      BY <1>4, <3>1
    <3> QED BY <2>2, <2>4, <3>1, <3>2
  <2> QED BY <2>3, <2>4
<1> QED BY <1>6, <1>7, <1>8 DEF rest

LEMMA RememberedOk ==
  ASSUME NEW o, Arranged(o.strip, o.at, o.front),
         hist \in [Displays -> [cur : Spaces \cup {None}, prev : Spaces \cup {None}]],
         \A d \in Displays : hist[d].prev # None => hist[d].prev # hist[d].cur
  PROVE  Histories(o, Remembered(o))
<1> DEFINE Kept(d, space) == IF space # None /\ On(o.strip, d, space) THEN space ELSE None
<1>1. ASSUME NEW d \in Displays
      PROVE  /\ Remembered(o)[d] \in [cur : Spaces \cup {None}, prev : Spaces \cup {None}]
             /\ o.strip[d] # <<>> => Remembered(o)[d].cur # None
             /\ \A space \in {Remembered(o)[d].cur, Remembered(o)[d].prev} \ {None} :
                  On(o.strip, d, space)
             /\ Remembered(o)[d].prev # None => Remembered(o)[d].prev # Remembered(o)[d].cur
  <2>1. CASE o.strip[d] = <<>>
    <3>1. Remembered(o)[d] = [cur |-> None, prev |-> None]
      BY <2>1 DEF Remembered, NoHistory
    <3> QED BY <2>1, <3>1
  <2>2. CASE o.strip[d] # <<>>
    <3> DEFINE h == Switched(hist[d], o.at[d])
    <3>1. Remembered(o)[d] = [cur |-> Kept(d, h.cur), prev |-> Kept(d, h.prev)]
      BY <2>2 DEF Remembered
    <3>2. o.at[d] \in Spaces /\ On(o.strip, d, o.at[d])
      BY <2>2, OnSpaces DEF Arranged
    <3>3. /\ h.cur = o.at[d] /\ h.prev \in Spaces \cup {None}
          /\ h.prev # None => h.prev # h.cur
      BY DEF Switched
    <3> HIDE DEF h
    <3>4. Kept(d, h.cur) = o.at[d] /\ o.at[d] # None
      BY <3>2, <3>3, NavigationAssumption
    <3>5. /\ Kept(d, h.prev) \in Spaces \cup {None}
          /\ Kept(d, h.prev) # None =>
               Kept(d, h.prev) = h.prev /\ On(o.strip, d, h.prev)
      BY <3>3
    <3> HIDE DEF Kept
    <3> QED BY <3>1, <3>2, <3>3, <3>4, <3>5
  <2> QED BY <2>1, <2>2
<1>2. DOMAIN Remembered(o) = Displays /\ Remembered(o) = [d \in Displays |-> Remembered(o)[d]]
  BY DEF Remembered
<1> QED BY <1>1, <1>2 DEF Histories

LEMMA ReconciledOk ==
  ASSUME NEW o, NEW cs, NEW p, Arranged(o.strip, o.at, o.front), Cursors(p, cs)
  PROVE  Cursors(o, Reconciled(o, cs))
<1> SUFFICES ASSUME NEW d \in Displays, Reconciled(o, cs)[d] # None
             PROVE  /\ Reconciled(o, cs)[d] = [space |-> Reconciled(o, cs)[d].space,
                                               pending |-> Reconciled(o, cs)[d].pending]
                    /\ On(o.strip, d, Reconciled(o, cs)[d].space)
  BY DEF Cursors, Reconciled
<1>1. \/ /\ Reconciled(o, cs)[d] = cs[d] /\ cs[d] # None
         /\ On(o.strip, d, cs[d].space)
      \/ /\ Reconciled(o, cs)[d] = [space |-> o.at[d], pending |-> FALSE]
         /\ o.strip[d] # <<>>
  BY DEF Reconciled
<1> QED BY <1>1 DEF Cursors, Arranged

LEMMA AbandonedOk ==
  ASSUME NEW o, NEW cs, Cursors(o, cs)
  PROVE  Cursors(o, Abandoned(cs))
<1> SUFFICES ASSUME NEW d \in Displays, Abandoned(cs)[d] # None
             PROVE  /\ Abandoned(cs)[d] = [space |-> Abandoned(cs)[d].space,
                                           pending |-> Abandoned(cs)[d].pending]
                    /\ On(o.strip, d, Abandoned(cs)[d].space)
  BY DEF Cursors, Abandoned
<1>1. cs[d] # None /\ Abandoned(cs)[d] = [cs[d] EXCEPT !.pending = FALSE]
  BY DEF Abandoned
<1>2. Abandoned(cs)[d] = [space |-> cs[d].space, pending |-> FALSE]
  BY <1>1 DEF Cursors
<1> QED BY <1>1, <1>2 DEF Cursors

-----------------------------------------------------------------------------
LEMMA InvInit == Init => Inv
<1> SUFFICES ASSUME Init PROVE Inv
  OBVIOUS
<1>1. /\ strip = Strip /\ at = [d \in Displays |-> Head(Strip[d])]
      /\ front = Least(Displays) /\ fly = [d \in Displays |-> <<>>]
      /\ obs = [strip |-> strip, at |-> at, front |-> front]
      /\ cursor = [d \in Displays |-> [space |-> at[d], pending |-> FALSE]]
      /\ hist = [d \in Displays |-> [cur |-> at[d], prev |-> None]]
      /\ shown = [space |-> at[front], display |-> front]
  BY DEF Init
<1>2. front \in Displays
  BY <1>1, LeastIn, NavigationAssumption
<1>3. \A d \in Displays : strip[d] \in Seq(Spaces) /\ strip[d] # <<>>
                          /\ On(strip, d, at[d]) /\ at[d] \in Spaces
  BY <1>1, NavigationAssumption DEF On, ToSet
<1>4. Arranged(strip, at, front)
  BY <1>1, <1>2, <1>3, NavigationAssumption DEF Arranged
<1>5. Cursors(obs, cursor)
  BY <1>1, <1>3 DEF Cursors
<1>6. Histories(obs, hist)
  BY <1>1, <1>3, NavigationAssumption DEF Histories
<1>7. shown = Public(obs, hist)
  BY <1>1, <1>2, <1>3, NavigationAssumption DEF Public
<1>8. Flying
  BY <1>1 DEF Flying
<1> QED BY <1>1, <1>4, <1>5, <1>6, <1>7, <1>8 DEF Inv, Remembers

\* What macOS and its users do.
LEMMA LandStep == ASSUME Inv, NEW d \in Displays, Land(d) PROVE Inv'
<1>1. /\ fly[d] # <<>> /\ fly' = [fly EXCEPT ![d] = Tail(@)]
      /\ UNCHANGED <<strip, front, obs, cursor, hist, shown>>
  BY DEF Land, eyes
<1>2. Flying' /\ Head(fly[d]).by \in Int
  BY <1>1, Flown DEF Inv, Flying, Switch
<1>3. strip[d] # <<>> => On(strip, d, at'[d])
  <2> DEFINE f == Head(fly[d])
             far == IndexOf(strip[d], at[d]) + f.by
             i == IF far < 1 THEN 1 ELSE IF far > Len(strip[d]) THEN Len(strip[d]) ELSE far
  <2> SUFFICES ASSUME strip[d] # <<>> PROVE On(strip, d, at'[d])
    OBVIOUS
  <2>1. On(strip, d, at[d]) /\ strip[d] \in Seq(Spaces) /\ Len(strip[d]) > 0
    BY DEF Inv, Arranged
  <2>2. far \in Int
    BY <1>2, <2>1, IndexIn DEF On
  <2>3. at'[d] = IF f.by # 0 THEN strip[d][i] ELSE IF On(strip, d, f.to) THEN f.to ELSE at[d]
    BY DEF Land, Inv, Arranged
  <2> HIDE DEF f, far
  <2>4. i \in 1 .. Len(strip[d])
    BY <2>1, <2>2
  <2> HIDE DEF i
  <2> QED BY <2>1, <2>3, <2>4 DEF On, ToSet
<1>4. DOMAIN at' = Displays /\ \A e \in Displays : e # d => at'[e] = at[e]
  BY DEF Land, Inv, Arranged
<1>5. Arranged(strip, at, front)'
  BY <1>1, <1>3, <1>4 DEF Inv, Arranged, On
<1>6. Remembers'
  BY <1>1 DEF Inv, Remembers
<1> QED BY <1>2, <1>5, <1>6 DEF Inv

LEMMA UserStep ==
  ASSUME Inv, NEW d \in Displays,
         Drop(d) \/ UserLooks(d) \/ \E s \in Spaces : UserSwitch(d, s)
  PROVE  Inv'
<1>1. UNCHANGED <<strip, obs, cursor, hist, shown>>
  BY DEF Drop, UserLooks, UserSwitch, World, eyes, world
<1>2. Flying'
  BY Flown DEF Drop, UserLooks, UserSwitch, Inv, Flying
<1>3. Arranged(strip, at, front)'
  BY <1>1, OnSpaces DEF Drop, UserLooks, UserSwitch, world, Connected, Inv, Arranged, On
<1>4. Remembers'
  BY <1>1 DEF Inv, Remembers
<1> QED BY <1>2, <1>3, <1>4 DEF Inv

LEMMA UnplugStep ==
  ASSUME Inv, NEW d \in Displays, NEW e \in Displays, Unplug(d, e)
  PROVE  Inv'
<1>1. /\ d # e /\ strip[d] # <<>> /\ strip[e] # <<>>
      /\ strip' = [strip EXCEPT ![d] = <<>>, ![e] = @ \o strip[d]]
      /\ at' = [at EXCEPT ![d] = None] /\ front' = e /\ fly' = [fly EXCEPT ![d] = <<>>]
      /\ UNCHANGED <<obs, cursor, hist, shown>>
  BY DEF Unplug, World, eyes, Connected
<1>2. Flying'
  BY <1>1, Flown DEF Inv, Flying
<1>3. /\ strip' \in [Displays -> Seq(Spaces)] /\ DOMAIN at' = Displays
      /\ strip'[d] = <<>> /\ strip'[e] = strip[e] \o strip[d] /\ at'[e] = at[e]
      /\ \A x \in Displays : x \notin {d, e} => strip'[x] = strip[x] /\ at'[x] = at[x]
  <2>1. strip[e] \o strip[d] \in Seq(Spaces) /\ <<>> \in Seq(Spaces)
    BY ConcatProperties, EmptySeq DEF Inv, Arranged
  <2> QED BY <1>1, <2>1 DEF Inv, Arranged
<1>4. On(strip', e, at'[e]) /\ strip'[e] # <<>>
  <2>1. PICK i \in 1 .. Len(strip[e]) : at[e] = strip[e][i]
    BY <1>1 DEF Inv, Arranged, On, ToSet
  <2>2. i \in 1 .. Len(strip[e] \o strip[d]) /\ (strip[e] \o strip[d])[i] = at[e]
    BY <2>1, ConcatProperties DEF Inv, Arranged
  <2>3. strip'[e] # <<>>
    BY <1>1, <1>3, ConcatEqualIffEmpty DEF Inv, Arranged
  <2>4. strip'[e] \in Seq(Spaces) /\ \E k \in 1 .. Len(strip'[e]) : strip'[e][k] = at'[e]
    BY <1>3, <2>1, <2>2
  <2>5. at'[e] \in ToSet(strip'[e])
    BY <2>4, LenProperties DEF ToSet
  <2> QED BY <2>3, <2>5 DEF On, ToSet, Inv, Arranged
<1>5. Arranged(strip, at, front)'
  BY <1>1, <1>3, <1>4 DEF Inv, Arranged, On
<1>6. Remembers'
  BY <1>1 DEF Inv, Remembers
<1> QED BY <1>2, <1>5, <1>6 DEF Inv

LEMMA PlugStep ==
  ASSUME Inv, NEW d \in Displays, NEW e \in Displays, NEW n \in Nat \ {0}, Plug(d, e, n)
  PROVE  Inv'
<1> DEFINE stays == SubSeq(strip[e], 1, n)
           goes == SubSeq(strip[e], n + 1, Len(strip[e]))
<1>1. /\ strip[d] = <<>> /\ n \in 1 .. Len(strip[e]) - 1
      /\ strip' = [strip EXCEPT ![d] = goes, ![e] = stays]
      /\ at' = [at EXCEPT ![d] = Head(goes),
                          ![e] = IF @ \in ToSet(stays) THEN @ ELSE Last(stays)]
      /\ UNCHANGED <<front, fly, obs, cursor, hist, shown>>
  BY DEF Plug, World, eyes
<1>2. /\ strip[e] \in Seq(Spaces) /\ d # e
      /\ stays \in Seq(Spaces) /\ goes \in Seq(Spaces)
      /\ Len(stays) = n /\ Len(goes) = Len(strip[e]) - n
  <2>1. strip[e] \in Seq(Spaces) /\ Len(strip[e]) \in Nat
    BY LenProperties DEF Inv, Arranged
  <2>2. Len(strip[e]) # 0 /\ Len(strip[d]) = 0
    BY <1>1, <2>1, EmptySeq
  <2> QED BY <1>1, <2>1, <2>2, Divided
<1> HIDE DEF stays, goes
<1>3. /\ stays # <<>> /\ goes # <<>>
      /\ Head(goes) \in ToSet(goes) /\ Last(stays) \in ToSet(stays)
  BY <1>1, <1>2 DEF ToSet, Last
<1>4. /\ strip' \in [Displays -> Seq(Spaces)] /\ DOMAIN at' = Displays
      /\ strip'[d] = goes /\ strip'[e] = stays
      /\ at'[d] \in ToSet(goes) /\ at'[e] \in ToSet(stays)
      /\ \A x \in Displays : x \notin {d, e} => strip'[x] = strip[x] /\ at'[x] = at[x]
  BY <1>1, <1>2, <1>3 DEF Inv, Arranged
<1>5. Arranged(strip, at, front)'
  BY <1>1, <1>3, <1>4 DEF Inv, Arranged, On
<1>6. Flying' /\ Remembers'
  BY <1>1 DEF Inv, Remembers, Flying
<1> QED BY <1>5, <1>6 DEF Inv

LEMMA RemoveStep ==
  ASSUME Inv, NEW d \in Displays, NEW space \in Spaces, RemoveSpace(d, space)
  PROVE  Inv'
<1> DEFINE i == IndexOf(strip[d], space)
           rest == RemoveAt(strip[d], i)
<1>1. /\ On(strip, d, space) /\ Len(strip[d]) > 1
      /\ strip' = [strip EXCEPT ![d] = rest]
      /\ at' = [at EXCEPT ![d] = IF @ = space THEN Head(rest) ELSE @]
      /\ UNCHANGED <<front, fly, obs, cursor, hist, shown>>
  BY DEF RemoveSpace, World, eyes, Inv, Arranged
<1>2. strip[d] \in Seq(Spaces) /\ i \in 1 .. Len(strip[d]) /\ strip[d][i] = space
  BY <1>1, IndexIn DEF Inv, Arranged, On
<1> HIDE DEF i
<1>3. rest \in Seq(Spaces) /\ Len(rest) = Len(strip[d]) - 1
      /\ \A j \in 1 .. Len(rest) : rest[j] = IF j < i THEN strip[d][j] ELSE strip[d][j + 1]
  BY <1>2, WithoutAt
<1> HIDE DEF rest
<1>4. rest # <<>> /\ Head(rest) \in ToSet(rest)
  BY <1>1, <1>2, <1>3 DEF ToSet
<1>5. at[d] # space => at[d] \in ToSet(rest)
  <2> SUFFICES ASSUME at[d] # space PROVE at[d] \in ToSet(rest)
    OBVIOUS
  <2>1. PICK j \in 1 .. Len(strip[d]) : at[d] = strip[d][j] /\ j # i
    BY <1>1, <1>2 DEF Inv, Arranged, On, ToSet
  <2>2. \E k \in 1 .. Len(rest) : rest[k] = at[d]
    <3>1. CASE j < i
      <4>1. j \in 1 .. Len(rest) /\ rest[j] = strip[d][j]
        BY <1>2, <1>3, <2>1, <3>1
      <4> QED BY <2>1, <4>1
    <3>2. CASE j > i
      <4>1. j - 1 \in 1 .. Len(rest) /\ rest[j - 1] = strip[d][j]
        BY <1>2, <1>3, <2>1, <3>2
      <4> QED BY <2>1, <4>1
    <3> QED BY <1>2, <2>1, <3>1, <3>2
  <2> QED BY <1>3, <2>2 DEF ToSet
<1>6. /\ strip' \in [Displays -> Seq(Spaces)] /\ DOMAIN at' = Displays
      /\ strip'[d] = rest /\ at'[d] \in ToSet(rest)
      /\ \A x \in Displays : x # d => strip'[x] = strip[x] /\ at'[x] = at[x]
  BY <1>1, <1>3, <1>4, <1>5 DEF Inv, Arranged
<1>7. Arranged(strip, at, front)'
  BY <1>1, <1>4, <1>6 DEF Inv, Arranged, On
<1>8. Flying' /\ Remembers'
  BY <1>1 DEF Inv, Remembers, Flying
<1> QED BY <1>7, <1>8 DEF Inv

-----------------------------------------------------------------------------
\* What the daemon does.
LEMMA DisplayOfOn ==
  ASSUME NEW o, NEW space, Known(o, space)
  PROVE  DisplayOf(o, space) \in Displays /\ On(o.strip, DisplayOf(o, space), space)
  BY DEF Known, DisplayOf

LEMMA ObservedOk ==
  ASSUME Inv, NEW o \in {Screen, obs}
  PROVE  Arranged(o.strip, o.at, o.front) /\ Histories(o, Remembered(o))
<1>1. Arranged(o.strip, o.at, o.front)
  BY DEF Inv, Remembers, Screen
<1> QED BY <1>1, RememberedOk DEF Inv, Remembers, Histories

LEMMA RefreshedStep ==
  ASSUME Inv, NEW cs, Cursors(obs, cs), Refreshed(cs), UNCHANGED <<world, fly>>
  PROVE  Inv'
<1>1. PICK ok \in BOOLEAN :
        /\ obs' = IF ok THEN Screen ELSE obs
        /\ cursor' = IF ok THEN Reconciled(Screen, cs) ELSE cs
        /\ hist' = Remembered(obs') /\ shown' = Public(obs', hist')
  BY DEF Refreshed
<1>2. obs' \in {Screen, obs}
  BY <1>1
<1>3. Arranged(obs'.strip, obs'.at, obs'.front) /\ Histories(obs', hist')
  BY <1>1, <1>2, ObservedOk
<1>4. Cursors(obs', cursor')
  <2>1. CASE ok
    <3>1. obs' = Screen /\ cursor' = Reconciled(obs', cs)
      BY <1>1, <2>1
    <3> QED BY <1>3, <3>1, ReconciledOk
  <2>2. CASE ~ok
    BY <1>1, <2>2
  <2> QED BY <2>1, <2>2
<1>5. Remembers'
  BY <1>1, <1>3, <1>4 DEF Remembers
<1> QED BY <1>5 DEF Inv, Flying, world

LEMMA NotedOk ==
  ASSUME NEW o, NEW cs, NEW hs, NEW space, Arranged(o.strip, o.at, o.front),
         Cursors(o, cs), Histories(o, hs), Noted(o, cs, hs, space)
  PROVE  Cursors(o, cursor') /\ Histories(o, hist')
<1>1. CASE ~Known(o, space)
  BY <1>1 DEF Noted
<1>2. CASE Known(o, space)
  <2> DEFINE d == DisplayOf(o, space)
  <2>1. d \in Displays /\ On(o.strip, d, space) /\ space \in Spaces
    BY <1>2, DisplayOfOn, OnSpaces DEF Arranged
  <2>2. /\ cursor' = [cs EXCEPT ![d] = [space |-> space, pending |-> TRUE]]
        /\ hist' = [hs EXCEPT ![d] = Switched(@, space)]
    BY <1>2 DEF Noted
  <2> HIDE DEF d
  <2>3. Cursors(o, cursor')
    BY <2>1, <2>2 DEF Cursors
  <2>4. /\ Switched(hs[d], space) \in [cur : Spaces \cup {None}, prev : Spaces \cup {None}]
        /\ Switched(hs[d], space).cur = space
        /\ Switched(hs[d], space).prev \in {hs[d].cur, hs[d].prev}
        /\ Switched(hs[d], space).prev # None => Switched(hs[d], space).prev # space
    BY <2>1 DEF Switched, Histories
  <2>5. Histories(o, hist')
    <3>1. hist' \in [Displays -> [cur : Spaces \cup {None}, prev : Spaces \cup {None}]]
      BY <2>1, <2>2, <2>4 DEF Histories
    <3>2. hist'[d] = Switched(hs[d], space)
          /\ \A e \in Displays : e # d => hist'[e] = hs[e]
      BY <2>1, <2>2 DEF Histories
    <3>3. space # None
      BY <2>1, NavigationAssumption
    <3> QED BY <2>1, <2>4, <3>1, <3>2, <3>3 DEF Histories
  <2> QED BY <2>3, <2>5
<1> QED BY <1>1, <1>2

LEMMA TakenOk ==
  ASSUME Flying, NEW d \in Displays, NEW f \in Switch, Takes(d, f)
  PROVE  Flying'
  BY Flown DEF Takes, Flying

LEMMA FocusTakenOk ==
  ASSUME Inv, NEW space \in Spaces, FocusTaken(space)
  PROVE  Flying'
<1>1. DisplayOf(Screen, space) \in Displays
  BY DisplayOfOn DEF FocusTaken
<1>2. [to |-> space, by |-> 0] \in Switch
  BY DEF Switch
<1>3. \/ Takes(DisplayOf(Screen, space), [to |-> space, by |-> 0])
      \/ UNCHANGED fly
  BY DEF FocusTaken
<1> QED BY <1>1, <1>2, <1>3, TakenOk DEF Inv, Flying

LEMMA StepStep ==
  ASSUME Inv, NEW d \in Displays, NEW delta \in {-1, 1}, Step(d, delta)
  PROVE  Inv'
<1> DEFINE from == StepFrom(d)
           to == Neighbor(obs.strip[d], from, delta)
           by == IndexOf(obs.strip[d], to) - IndexOf(obs.strip[d], from)
<1>1. /\ Len(obs.strip[d]) > 1 /\ UNCHANGED <<strip, at, front, obs>>
      /\ shown' = Public(obs, hist')
      /\ \/ StepTaken(to, by) /\ Noted(obs, cursor, hist, to)
         \/ cursor' = [cursor EXCEPT ![d] = None] /\ UNCHANGED <<fly, hist>>
  BY DEF Step, Command, Publish, world
<1>2. obs.strip[d] \in Seq(Spaces) /\ obs.strip[d] # <<>>
  BY <1>1, EmptySeq DEF Inv, Remembers, Arranged
<1>3. from \in ToSet(obs.strip[d])
  <2>1. Head(obs.strip[d]) \in ToSet(obs.strip[d])
    BY <1>2 DEF ToSet
  <2> QED BY <2>1 DEF StepFrom, On
<1> HIDE DEF from
<1>4. to \in ToSet(obs.strip[d])
  BY <1>2, <1>3, NeighborIn
<1> HIDE DEF to
<1>5. by \in Int /\ to \in Spaces
  BY <1>2, <1>3, <1>4, IndexIn DEF ToSet
<1> HIDE DEF by
<1>6. Flying'
  <2>1. CASE UNCHANGED fly
    BY <2>1 DEF Inv, Flying
  <2>2. CASE StepTaken(to, by)
    <3>1. /\ DisplayOf(Screen, to) \in Displays
          /\ \/ Takes(DisplayOf(Screen, to), [to |-> to, by |-> 0])
             \/ Takes(DisplayOf(Screen, to), [to |-> to, by |-> by])
      BY <2>2, DisplayOfOn DEF StepTaken
    <3>2. [to |-> to, by |-> 0] \in Switch /\ [to |-> to, by |-> by] \in Switch
      BY <1>5 DEF Switch
    <3> QED BY <3>1, <3>2, TakenOk DEF Inv
  <2> QED BY <1>1, <2>1, <2>2
<1>7. Cursors(obs, cursor') /\ Histories(obs, hist')
  <2>1. CASE Noted(obs, cursor, hist, to)
    BY <2>1, NotedOk DEF Inv, Remembers
  <2>2. CASE cursor' = [cursor EXCEPT ![d] = None] /\ UNCHANGED hist
    BY <2>2 DEF Inv, Remembers, Cursors
  <2> QED BY <1>1, <2>1, <2>2
<1> QED BY <1>1, <1>6, <1>7 DEF Inv, Remembers

LEMMA FocusStep == ASSUME Inv, NEW space, Focus(space) PROVE Inv'
<1>1. /\ Known(obs, space) /\ UNCHANGED <<strip, at, front, obs>>
      /\ shown' = Public(obs, hist')
      /\ \/ FocusTaken(space) /\ Noted(obs, cursor, hist, space)
         \/ UNCHANGED <<fly, cursor, hist>>
  BY DEF Focus, Command, Publish, world
<1>2. space \in Spaces
  BY <1>1, DisplayOfOn, OnSpaces DEF Inv, Remembers, Arranged
<1>3. Flying'
  BY <1>1, <1>2, FocusTakenOk DEF Inv, Flying
<1>4. Cursors(obs, cursor') /\ Histories(obs, hist')
  BY <1>1, NotedOk DEF Inv, Remembers
<1> QED BY <1>1, <1>3, <1>4 DEF Inv, Remembers

LEMMA FocusWorkspaceStep ==
  ASSUME Inv, NEW space \in Spaces, FocusWorkspace(space)
  PROVE  Inv'
<1>1. PICK ok \in BOOLEAN :
        LET o == IF ok THEN Screen ELSE obs
            cs == IF ok THEN Reconciled(Screen, cursor) ELSE cursor
            hs == Remembered(o)
        IN  /\ obs' = o /\ shown' = Public(o, hist')
            /\ \/ FocusTaken(space) /\ Noted(o, cs, hs, space)
               \/ cursor' = cs /\ hist' = hs /\ UNCHANGED fly
  BY DEF FocusWorkspace, Publish
<1> DEFINE o == IF ok THEN Screen ELSE obs
           cs == IF ok THEN Reconciled(Screen, cursor) ELSE cursor
<1>2. Arranged(o.strip, o.at, o.front) /\ Histories(o, Remembered(o))
  BY ObservedOk
<1>3. Cursors(o, cs)
  <2>1. CASE ok
    BY <1>2, <2>1, ReconciledOk DEF Inv, Remembers
  <2>2. CASE ~ok
    BY <2>2 DEF Inv, Remembers
  <2> QED BY <2>1, <2>2
<1>4. /\ obs' = o /\ shown' = Public(o, hist')
      /\ \/ FocusTaken(space) /\ Noted(o, cs, Remembered(o), space)
         \/ cursor' = cs /\ hist' = Remembered(o) /\ UNCHANGED fly
  BY <1>1
<1> HIDE DEF o, cs
<1>5. Cursors(o, cursor') /\ Histories(o, hist')
  BY <1>2, <1>3, <1>4, NotedOk
<1>6. Flying'
  BY <1>4, FocusTakenOk DEF Inv, Flying
<1>7. UNCHANGED <<strip, at, front>>
  BY DEF FocusWorkspace, Command, world
<1> QED BY <1>2, <1>4, <1>5, <1>6, <1>7 DEF Inv, Remembers

LEMMA InvNext == ASSUME Inv, [Next]_vars PROVE Inv'
<1>1. CASE Refresh \/ Recover
  <2>1. Cursors(obs, cursor) /\ Cursors(obs, Abandoned(cursor))
    BY AbandonedOk DEF Inv, Remembers
  <2> QED BY <1>1, <2>1, RefreshedStep DEF Refresh, Recover
<1>2. CASE \E d, e \in Displays :
             Unplug(d, e) \/ \E n \in 1 .. Cardinality(Spaces) : Plug(d, e, n)
  <2>1. ASSUME NEW d \in Displays, NEW e \in Displays,
               NEW n \in 1 .. Cardinality(Spaces), Plug(d, e, n)
        PROVE  Inv'
    <3>1. n \in Nat \ {0}
      <4>1. n \in 1 .. Len(strip[e]) - 1 /\ strip[e] \in Seq(Spaces)
        BY <2>1 DEF Plug, Inv, Arranged
      <4>2. Len(strip[e]) \in Nat
        BY <4>1, LenProperties
      <4> QED BY <4>1, <4>2
    <3> QED BY <2>1, <3>1, PlugStep
  <2> QED BY <1>2, <2>1, UnplugStep
<1>3. CASE UNCHANGED vars
  BY <1>3 DEF vars, world, eyes, Inv, Remembers, Flying
<1>4. CASE FocusRecent
  BY <1>4, FocusStep DEF FocusRecent
<1> QED
  BY <1>1, <1>2, <1>3, <1>4, LandStep, UserStep, RemoveStep, StepStep, FocusStep,
     FocusWorkspaceStep DEF Next

-----------------------------------------------------------------------------
(* A burst of steps: the switches on their way lead from the current Space *)
(* through the rest of it, in order, and the cursor is where it ends.      *)

\* A Space is of one display, and there only once.
Once(s) ==
  \A d, e \in Displays : \A i \in 1 .. Len(s[d]), j \in 1 .. Len(s[e]) :
    s[d][i] = s[e][j] => d = e /\ i = j

Ahead(d, b) == Len(b) - Len(fly[d])

\* A gesture is only taken where nothing is under way, and goes from there.
Leads(d, j, to) ==
  /\ fly[d][j].to = to
  /\ \/ fly[d][j].by = 0
     \/ j = 1 /\ fly[d][j].by = IndexOf(strip[d], to) - IndexOf(strip[d], at[d])

Route(d, b) ==
  /\ b # <<>> /\ obs.strip[d] = strip[d]
  /\ \A i \in 1 .. Len(b) : On(strip, d, b[i].space)
  /\ \A i, j \in 1 .. Len(b) : b[i].space = b[j].space => i = j
  /\ \A i \in 2 .. Len(b) : b[i].space = Neighbor(strip[d], b[i-1].space, b[i].delta)
  /\ Ahead(d, b) >= 1 /\ at[d] = b[Ahead(d, b)].space
  /\ \A j \in 1 .. Len(fly[d]) : Leads(d, j, b[Ahead(d, b) + j].space)

Aims(d, c, space) ==
  c # None /\ c.space = space /\ (c.pending \/ fly[d] = <<>>)

Chained(d) ==
  burst[d] # <<>> => /\ Route(d, burst[d])
                     /\ Aims(d, cursor[d], burst[d][Len(burst[d])].space)

Leg == [space : Spaces, delta : Int]

Linked ==
  /\ Inv
  /\ Once(strip) /\ Once(obs.strip)
  /\ burst \in [Displays -> Seq(Leg)]
  /\ \A d \in Displays : Chained(d)

LEMMA DisplayOfIs ==
  ASSUME NEW o, o.strip \in [Displays -> Seq(Spaces)], Once(o.strip),
         NEW d \in Displays, NEW space, On(o.strip, d, space)
  PROVE  Known(o, space) /\ DisplayOf(o, space) = d
<1>1. ASSUME NEW e \in Displays, On(o.strip, e, space) PROVE e = d
  <2>1. ASSUME NEW x \in Displays, On(o.strip, x, space)
        PROVE  \E i \in 1 .. Len(o.strip[x]) : o.strip[x][i] = space
    BY <2>1 DEF On, ToSet
  <2> QED BY <1>1, <2>1 DEF Once
<1> QED BY <1>1 DEF DisplayOf, Known

LEMMA LinkedInit == Init => Linked
<1> SUFFICES ASSUME Init PROVE Linked
  OBVIOUS
<1>1. strip = Strip /\ obs.strip = Strip /\ burst = [d \in Displays |-> <<>>]
  BY DEF Init
<1>2. Once(strip) /\ Once(obs.strip)
  BY <1>1, NavigationAssumption DEF Once
<1> QED BY <1>1, <1>2, InvInit, EmptySeq DEF Linked, Chained

\* A step that leaves a display's burst and its switches alone, and at most
\* observes them.
LEMMA ChainKept ==
  ASSUME NEW d \in Displays, Chained(d),
         burst'[d] = burst[d], fly'[d] = fly[d], strip'[d] = strip[d], at'[d] = at[d],
         burst[d] # <<>> => /\ obs'.strip[d] = strip[d]
                            /\ Aims(d, cursor'[d], cursor[d].space)
  PROVE  Chained(d)'
<1> SUFFICES ASSUME burst[d] # <<>> PROVE Chained(d)'
  BY DEF Chained
<1>1. \A x : On(strip', d, x) <=> On(strip, d, x)
  BY DEF On
<1>2. \A j, to : Leads(d, j, to)' <=> Leads(d, j, to)
  BY DEF Leads
<1>3. Ahead(d, burst[d])' = Ahead(d, burst[d])
  BY DEF Ahead
<1>4. Route(d, burst[d])'
  BY <1>1, <1>2, <1>3 DEF Chained, Route
<1>5. Aims(d, cursor[d], burst[d][Len(burst[d])].space)'
  BY DEF Chained, Aims
<1> QED BY <1>4, <1>5 DEF Chained

\* Of what the engine has of a display under a burst, an observation that still
\* reports the old Space changes nothing.
LEMMA SeenOk ==
  ASSUME Linked, NEW d \in Displays, burst[d] # <<>>
  PROVE  /\ Screen.strip[d] = strip[d] /\ obs.strip[d] = strip[d]
         /\ Aims(d, cursor[d], cursor[d].space)
         /\ Aims(d, Reconciled(Screen, cursor)[d], cursor[d].space)
<1>1. PICK b : b = burst[d]
  OBVIOUS
<1>2. Route(d, b) /\ Aims(d, cursor[d], b[Len(b)].space)
  BY <1>1 DEF Linked, Chained
<1>3. PICK n \in Nat, m \in Nat :
        n = Len(b) /\ m = Len(fly[d]) /\ (m = 0 <=> fly[d] = <<>>)
  <2>1. b \in Seq(Leg) /\ fly[d] \in Seq(Switch)
    BY <1>1 DEF Linked, Inv, Flying
  <2> QED BY <2>1, LenProperties, EmptySeq
<1>4. n - m >= 1 /\ at[d] = b[n - m].space /\ cursor[d].space = b[n].space
  BY <1>2, <1>3 DEF Route, Ahead, Aims
<1>5. n \in 1 .. n /\ n - m \in 1 .. n
  BY <1>4
<1>6. On(strip, d, cursor[d].space) /\ strip[d] # <<>>
  <2>1. On(strip, d, cursor[d].space)
    BY <1>2, <1>3, <1>4, <1>5 DEF Route
  <2> QED BY <2>1, OnSpaces DEF Linked, Inv, Arranged
<1>7. cursor[d].space = at[d] <=> fly[d] = <<>>
  <2>1. cursor[d].space = at[d] => n = n - m
    BY <1>2, <1>3, <1>4, <1>5 DEF Route
  <2>2. n = n - m <=> m = 0
    BY <1>4
  <2> QED BY <1>3, <1>4, <2>1, <2>2
<1>8. Reconciled(Screen, cursor)[d] =
        IF cursor[d].pending /\ cursor[d].space # at[d] THEN cursor[d]
        ELSE [space |-> at[d], pending |-> FALSE]
  BY <1>2, <1>6 DEF Reconciled, Screen, Aims
<1>9. [space |-> at[d], pending |-> FALSE] # None
  <2>1. at[d] \in Spaces
    BY <1>6, OnSpaces DEF Linked, Inv, Arranged
  <2>2. [space |-> at[d], pending |-> FALSE] \in [space : Spaces, pending : BOOLEAN]
    BY <2>1
  <2> QED BY <2>2, NavigationAssumption
<1>10. Aims(d, cursor[d], cursor[d].space)
  BY <1>2 DEF Aims
<1>11. Aims(d, Reconciled(Screen, cursor)[d], cursor[d].space)
  BY <1>7, <1>8, <1>9, <1>10 DEF Aims
<1>12. obs.strip[d] = strip[d]
  BY <1>2 DEF Route
<1> QED BY <1>10, <1>11, <1>12 DEF Screen
\* A switch lands: the next one of the burst, and there is one less ahead.
LEMMA LandChain ==
  ASSUME Linked, NEW d \in Displays, Land(d), burst[d] # <<>>
  PROVE  Chained(d)'
<1>1. PICK b : b = burst[d]
  OBVIOUS
<1>2. Route(d, b) /\ Aims(d, cursor[d], b[Len(b)].space)
  BY <1>1 DEF Linked, Chained
<1>3. /\ fly[d] # <<>> /\ fly' = [fly EXCEPT ![d] = Tail(@)]
      /\ UNCHANGED <<strip, obs, cursor, burst>>
  BY DEF Land, eyes
<1>4. PICK n \in Nat, m \in Nat :
        /\ n = Len(b) /\ m = Len(fly[d]) /\ m >= 1
        /\ fly'[d] = Tail(fly[d]) /\ Len(fly'[d]) = m - 1
        /\ \A j \in 1 .. m - 1 : fly'[d][j] = fly[d][j + 1]
        /\ Head(fly[d]) = fly[d][1] /\ Head(fly[d]).by \in Int
  <2>1. b \in Seq(Leg) /\ fly[d] \in Seq(Switch)
    BY <1>1 DEF Linked, Inv, Flying
  <2>2. fly'[d] = Tail(fly[d]) /\ Head(fly[d]) \in Switch
    BY <1>3, Flown DEF Linked, Inv, Flying
  <2> PICK fly1 : fly1 = fly[d]
    OBVIOUS
  <2>3. /\ fly1 \in Seq(Switch) /\ fly1 # <<>>
        /\ Len(fly1) \in Nat /\ Len(fly1) # 0 /\ Len(b) \in Nat
    BY <1>3, <2>1, LenProperties, EmptySeq
  <2>4. /\ Len(Tail(fly1)) = Len(fly1) - 1 /\ Head(fly1) = fly1[1]
        /\ \A j \in 1 .. Len(fly1) - 1 : Tail(fly1)[j] = fly1[j + 1]
    BY <2>3, HeadTailProperties
  <2>5. Head(fly[d]).by \in Int
    BY <2>2 DEF Switch
  <2> QED BY <2>2, <2>3, <2>4, <2>5
<1>5. n - m >= 1 /\ at[d] = b[n - m].space
  BY <1>2, <1>4 DEF Route, Ahead
<1> PICK to : to = b[n - m + 1].space
  OBVIOUS
<1>6. n - m + 1 \in 1 .. n /\ 1 \in 1 .. m
  BY <1>4, <1>5
<1>7. On(strip, d, to)
  BY <1>2, <1>4, <1>6 DEF Route
<1>8. Leads(d, 1, to)
  <2>1. Leads(d, 1, b[Ahead(d, b) + 1].space)
    BY <1>2, <1>4, <1>6 DEF Route
  <2> QED BY <1>4, <2>1 DEF Ahead
<1>9. at'[d] = to
  <2> DEFINE f == Head(fly[d])
             far == IndexOf(strip[d], at[d]) + f.by
             i == IF far < 1 THEN 1 ELSE IF far > Len(strip[d]) THEN Len(strip[d]) ELSE far
  <2>1. at'[d] = IF f.by # 0 THEN strip[d][i] ELSE IF On(strip, d, f.to) THEN f.to ELSE at[d]
    BY DEF Land, Linked, Inv, Arranged
  <2>2. f.to = to
    BY <1>4, <1>8 DEF Leads
  <2>3. CASE f.by = 0
    BY <1>7, <2>1, <2>2, <2>3
  <2>4. CASE f.by # 0
    <3>1. f.by = IndexOf(strip[d], to) - IndexOf(strip[d], at[d])
      BY <1>4, <1>8, <2>4 DEF Leads
    <3>2. strip[d] \in Seq(Spaces) /\ strip[d] # <<>>
      BY <1>7, OnSpaces DEF Linked, Inv, Arranged
    <3>3. /\ IndexOf(strip[d], to) \in 1 .. Len(strip[d])
          /\ strip[d][IndexOf(strip[d], to)] = to
      BY <1>7, <3>2, IndexIn DEF On
    <3>4. IndexOf(strip[d], at[d]) \in 1 .. Len(strip[d]) /\ Len(strip[d]) \in Nat
      BY <3>2, IndexIn, LenProperties DEF Linked, Inv, Arranged, On
    <3>5. far = IndexOf(strip[d], to)
      BY <3>1, <3>3, <3>4
    <3> HIDE DEF far
    <3>6. i = IndexOf(strip[d], to)
      BY <3>3, <3>4, <3>5
    <3> HIDE DEF i, f
    <3> QED BY <2>1, <2>4, <3>3, <3>6
  <2> QED BY <2>3, <2>4
<1>10. Ahead(d, b)' = n - m + 1
  <2>1. Ahead(d, b)' = n - (m - 1)
    BY <1>4 DEF Ahead
  <2> QED BY <2>1
<1>11. ASSUME NEW j \in 1 .. Len(fly'[d]) PROVE Leads(d, j, b[n - m + 1 + j].space)'
  <2>1. j + 1 \in 1 .. m /\ j \in 1 .. m - 1 /\ j + 1 # 1
    BY <1>4
  <2>2. Leads(d, j + 1, b[Ahead(d, b) + (j + 1)].space)
    BY <1>2, <1>4, <2>1 DEF Route
  <2>3. Ahead(d, b) + (j + 1) = n - m + 1 + j
    BY <1>4, <2>1 DEF Ahead
  <2>4. fly[d][j + 1].to = b[n - m + 1 + j].space /\ fly[d][j + 1].by = 0
    BY <2>1, <2>2, <2>3 DEF Leads
  <2> QED BY <1>4, <2>1, <2>4 DEF Leads
<1>12. Route(d, burst[d])'
  <2>1. \A x : On(strip', d, x) <=> On(strip, d, x)
    BY <1>3 DEF On
  <2>2. n - m + 1 >= 1
    BY <1>5
  <2> QED BY <1>1, <1>2, <1>3, <1>9, <1>10, <1>11, <2>1, <2>2 DEF Route
<1>13. Aims(d, cursor[d], b[Len(b)].space)'
  BY <1>2, <1>3 DEF Aims
<1> QED BY <1>1, <1>3, <1>12, <1>13 DEF Chained

\* A step is taken: the burst is one Space longer, and so is what is under way.
LEMMA RouteGrows ==
  ASSUME NEW d \in Displays, NEW b \in Seq(Leg), NEW fly1 \in Seq(Switch), fly1 = fly[d],
         Route(d, b), NEW f \in Switch, NEW delta \in Int,
         fly'[d] = Append(fly1, f), UNCHANGED <<strip, at, obs>>,
         f.to = Neighbor(strip[d], b[Len(b)].space, delta), On(strip, d, f.to),
         \A i \in 1 .. Len(b) : b[i].space # f.to,
         \/ f.by = 0
         \/ fly1 = <<>> /\ f.by = IndexOf(strip[d], f.to) - IndexOf(strip[d], b[Len(b)].space)
  PROVE  /\ Append(b, [space |-> f.to, delta |-> delta]) \in Seq(Leg)
         /\ Route(d, Append(b, [space |-> f.to, delta |-> delta]))'
<1>1. PICK leg : leg = [space |-> f.to, delta |-> delta]
  OBVIOUS
<1>2. PICK c : c = Append(b, leg)
  OBVIOUS
<1>3. leg \in Leg /\ leg.space = f.to /\ leg.delta = delta
  BY <1>1 DEF Leg, Switch
<1>4. PICK n \in Nat, m \in Nat :
        /\ n = Len(b) /\ m = Len(fly1) /\ (m = 0 <=> fly1 = <<>>)
        /\ c \in Seq(Leg) /\ c # <<>> /\ Len(c) = n + 1
        /\ c[n + 1] = leg /\ \A i \in 1 .. n : c[i] = b[i]
        /\ Len(fly'[d]) = m + 1 /\ fly'[d][m + 1] = f
        /\ \A j \in 1 .. m : fly'[d][j] = fly1[j]
  BY <1>2, <1>3, LenProperties, EmptySeq, AppendProperties
<1>5. n - m >= 1 /\ at[d] = b[n - m].space
  BY <1>4 DEF Route, Ahead
<1>6. Ahead(d, c)' = n - m
  BY <1>4 DEF Ahead
<1>7. \A i \in 1 .. n + 1 : On(strip', d, c[i].space)
  <2>1. \A i \in 1 .. n : On(strip', d, b[i].space)
    BY <1>4 DEF Route, On
  <2>2. On(strip', d, f.to)
    BY DEF On
  <2>3. \A i \in 1 .. n + 1 : i \in 1 .. n \/ i = n + 1
    OBVIOUS
  <2> QED BY <1>3, <1>4, <2>1, <2>2, <2>3
<1>8. \A i, j \in 1 .. n + 1 : c[i].space = c[j].space => i = j
  <2>1. \A i, j \in 1 .. n : b[i].space = b[j].space => i = j
    BY <1>4 DEF Route
  <2>2. \A i \in 1 .. n + 1 : i \in 1 .. n \/ i = n + 1
    OBVIOUS
  <2> QED BY <1>3, <1>4, <2>1, <2>2
<1>9. ASSUME NEW i \in 2 .. n + 1
      PROVE  c[i].space = Neighbor(strip'[d], c[i-1].space, c[i].delta)
  <2>1. CASE i \in 2 .. n
    <3>1. b[i].space = Neighbor(strip[d], b[i-1].space, b[i].delta)
      BY <1>4, <2>1 DEF Route
    <3>2. i \in 1 .. n /\ i - 1 \in 1 .. n
      BY <2>1
    <3> QED BY <1>4, <3>1, <3>2
  <2>2. CASE i = n + 1
    <3>1. i - 1 = n /\ n \in 1 .. n
      BY <1>4, <1>5, <2>2
    <3> QED BY <1>3, <1>4, <2>2, <3>1
  <2> QED BY <2>1, <2>2
<1>10. at'[d] = c[n - m].space
  <2>1. n - m \in 1 .. n
    BY <1>4, <1>5
  <2> QED BY <1>4, <1>5, <2>1
<1>11. ASSUME NEW j \in 1 .. m + 1 PROVE Leads(d, j, c[n - m + j].space)'
  <2>1. CASE j \in 1 .. m
    <3>1. Leads(d, j, b[Ahead(d, b) + j].space)
      BY <1>4, <2>1 DEF Route
    <3>2. Ahead(d, b) + j = n - m + j /\ n - m + j \in 1 .. n
      BY <1>4, <1>5, <2>1 DEF Ahead
    <3>3. c[n - m + j] = b[n - m + j] /\ fly'[d][j] = fly[d][j]
      BY <1>4, <2>1, <3>2
    <3> QED BY <3>1, <3>2, <3>3 DEF Leads
  <2>2. CASE j = m + 1
    <3>0. n - m + j = n + 1
      BY <2>2
    <3>1. n - m + j = n + 1 /\ fly'[d][j] = f /\ c[n + 1].space = f.to
      BY <1>3, <1>4, <2>2, <3>0
    <3>2. fly1 = <<>> => m = 0 /\ j = 1 /\ at[d] = b[n].space
      BY <1>4, <1>5, <2>2
    <3> QED BY <1>4, <3>1, <3>2 DEF Leads
  <2> QED BY <2>1, <2>2
<1>12. Route(d, c)'
  BY <1>4, <1>5, <1>6, <1>7, <1>8, <1>9, <1>10, <1>11 DEF Route
<1> QED BY <1>1, <1>2, <1>4, <1>12

\* The strips stay without repetition when a display goes, comes, or loses a Space.
LEMMA OnceUnplug ==
  ASSUME Linked, NEW d \in Displays, NEW e \in Displays, Unplug(d, e)
  PROVE  Once(strip')
<1> PICK s : s = strip
  OBVIOUS
<1>1. /\ d # e /\ Once(s) /\ s \in [Displays -> Seq(Spaces)]
      /\ strip' = [s EXCEPT ![d] = <<>>, ![e] = @ \o s[d]]
  BY DEF Unplug, Linked, Inv, Arranged
<1>0. PICK m \in Nat : m = Len(s[e])
  BY <1>1, LenProperties
<1>2. /\ Len(s[e] \o s[d]) = m + Len(s[d]) /\ Len(s[d]) \in Nat
      /\ \A i \in 1 .. m + Len(s[d]) :
           (s[e] \o s[d])[i] = IF i <= m THEN s[e][i] ELSE s[d][i - m]
  BY <1>0, <1>1, ConcatProperties, LenProperties
<1>3. /\ strip'[d] = <<>> /\ strip'[e] = s[e] \o s[d]
      /\ \A x \in Displays : x \notin {d, e} => strip'[x] = s[x]
  BY <1>1
<1>4. ASSUME NEW x \in Displays, NEW i \in 1 .. Len(strip'[x])
      PROVE  \/ x # d /\ i \in 1 .. Len(s[x]) /\ strip'[x][i] = s[x][i]
             \/ x = e /\ i \in Int /\ i - m \in 1 .. Len(s[d]) /\ strip'[x][i] = s[d][i - m]
  <2>1. CASE x = d
    BY <1>3, <2>1
  <2>2. CASE x = e
    <3>1. i \in 1 .. m + Len(s[d]) /\ strip'[x][i] = IF i <= m THEN s[e][i] ELSE s[d][i - m]
      BY <1>2, <1>3, <2>2
    <3>2. CASE i <= m
      <4>1. i \in 1 .. m
        BY <3>1, <3>2
      <4> QED BY <1>0, <1>1, <2>2, <3>1, <3>2, <4>1
    <3>3. CASE ~(i <= m)
      <4>1. PICK l \in Nat : l = Len(s[d])
        BY <1>2
      <4>2. i \in 1 .. m + l
        BY <3>1, <4>1
      <4>3. i \in Int /\ i - m \in 1 .. l
        BY <3>3, <4>2
      <4> QED BY <2>2, <3>1, <3>3, <4>1, <4>3
    <3> QED BY <3>2, <3>3
  <2>3. CASE x \notin {d, e}
    BY <1>3, <2>3
  <2> QED BY <2>1, <2>2, <2>3
<1>5. ASSUME NEW x \in Displays, NEW y \in Displays, NEW i \in 1 .. Len(strip'[x]),
             NEW j \in 1 .. Len(strip'[y]), strip'[x][i] = strip'[y][j]
      PROVE  x = y /\ i = j
  <2>1. CASE x # d /\ i \in 1 .. Len(s[x]) /\ strip'[x][i] = s[x][i]
    BY <1>1, <1>4, <1>5, <2>1 DEF Once
  <2>2. CASE x = e /\ i \in Int /\ i - m \in 1 .. Len(s[d]) /\ strip'[x][i] = s[d][i - m]
    <3>1. CASE y # d /\ j \in 1 .. Len(s[y]) /\ strip'[y][j] = s[y][j]
      BY <1>1, <1>5, <2>2, <3>1 DEF Once
    <3>2. CASE y = e /\ j \in Int /\ j - m \in 1 .. Len(s[d]) /\ strip'[y][j] = s[d][j - m]
      <4>1. i - m = j - m
        BY <1>1, <1>5, <2>2, <3>2 DEF Once
      <4> QED BY <2>2, <3>2, <4>1
    <3> QED BY <1>4, <3>1, <3>2
  <2> QED BY <1>4, <2>1, <2>2
<1> QED BY <1>5 DEF Once

LEMMA OncePlug ==
  ASSUME Linked, NEW d \in Displays, NEW e \in Displays, NEW n \in Nat \ {0}, Plug(d, e, n)
  PROVE  Once(strip')
<1> PICK s : s = strip
  OBVIOUS
<1> DEFINE stays == SubSeq(s[e], 1, n)
           goes == SubSeq(s[e], n + 1, Len(s[e]))
<1>1. /\ Once(s) /\ s \in [Displays -> Seq(Spaces)]
      /\ n \in 1 .. Len(s[e]) - 1 /\ s[d] = <<>>
      /\ strip' = [s EXCEPT ![d] = goes, ![e] = stays]
  BY DEF Plug, Linked, Inv, Arranged
<1> PICK m \in Nat : m = Len(s[e])
  BY <1>1, LenProperties
<1>2. /\ Len(stays) = n /\ Len(goes) = m - n /\ n <= m
      /\ \A j \in 1 .. n : stays[j] = s[e][j]
      /\ \A j \in 1 .. m - n : goes[j] = s[e][n + j]
  BY <1>1, Divided
<1> HIDE DEF stays, goes
<1>3. /\ d # e /\ strip'[d] = goes /\ strip'[e] = stays
      /\ \A x \in Displays : x \notin {d, e} => strip'[x] = s[x]
  <2>1. Len(s[d]) = 0 /\ Len(s[e]) # 0
    BY <1>1, EmptySeq
  <2> QED BY <1>1, <2>1
<1>4. ASSUME NEW x \in Displays, NEW i \in 1 .. Len(strip'[x])
      PROVE  \/ x = d /\ i \in Int /\ n + i \in n + 1 .. m /\ strip'[x][i] = s[e][n + i]
             \/ x = e /\ i \in 1 .. n /\ strip'[x][i] = s[e][i]
             \/ x \notin {d, e} /\ i \in 1 .. Len(s[x]) /\ strip'[x][i] = s[x][i]
  <2>1. CASE x = d
    <3>1. i \in 1 .. m - n
      BY <1>2, <1>3, <2>1
    <3>2. i \in Int /\ n + i \in n + 1 .. m
      BY <3>1
    <3> QED BY <1>2, <1>3, <2>1, <3>1, <3>2
  <2>2. CASE x = e
    BY <1>2, <1>3, <2>2
  <2>3. CASE x \notin {d, e}
    BY <1>3, <2>3
  <2> QED BY <2>1, <2>2, <2>3
<1>5. n + 1 .. m \subseteq 1 .. Len(s[e]) /\ 1 .. n \subseteq 1 .. Len(s[e])
      /\ \A i \in 1 .. n : i \notin n + 1 .. m
  BY <1>2
<1>6. ASSUME NEW x \in Displays, NEW y \in Displays, NEW i \in 1 .. Len(strip'[x]),
             NEW j \in 1 .. Len(strip'[y]), strip'[x][i] = strip'[y][j]
      PROVE  x = y /\ i = j
  <2>1. CASE x = d /\ i \in Int /\ n + i \in n + 1 .. m /\ strip'[x][i] = s[e][n + i]
    <3>1. CASE y = d /\ j \in Int /\ n + j \in n + 1 .. m /\ strip'[y][j] = s[e][n + j]
      <4>1. n + i = n + j
        BY <1>1, <1>5, <1>6, <2>1, <3>1 DEF Once
      <4> QED BY <2>1, <3>1, <4>1
    <3>2. CASE y = e /\ j \in 1 .. n /\ strip'[y][j] = s[e][j]
      <4>1. n + i = j
        BY <1>1, <1>5, <1>6, <2>1, <3>2 DEF Once
      <4> QED BY <1>5, <2>1, <3>2, <4>1
    <3>3. CASE y \notin {d, e} /\ j \in 1 .. Len(s[y]) /\ strip'[y][j] = s[y][j]
      BY <1>1, <1>5, <1>6, <2>1, <3>3 DEF Once
    <3> QED BY <1>4, <3>1, <3>2, <3>3
  <2>2. CASE x = e /\ i \in 1 .. n /\ strip'[x][i] = s[e][i]
    <3>1. CASE y = d /\ j \in Int /\ n + j \in n + 1 .. m /\ strip'[y][j] = s[e][n + j]
      <4>1. i = n + j
        BY <1>1, <1>5, <1>6, <2>2, <3>1 DEF Once
      <4> QED BY <1>5, <2>2, <3>1, <4>1
    <3>2. CASE y = e /\ j \in 1 .. n /\ strip'[y][j] = s[e][j]
      BY <1>1, <1>5, <1>6, <2>2, <3>2 DEF Once
    <3>3. CASE y \notin {d, e} /\ j \in 1 .. Len(s[y]) /\ strip'[y][j] = s[y][j]
      BY <1>1, <1>5, <1>6, <2>2, <3>3 DEF Once
    <3> QED BY <1>4, <3>1, <3>2, <3>3
  <2>3. CASE x \notin {d, e} /\ i \in 1 .. Len(s[x]) /\ strip'[x][i] = s[x][i]
    <3>1. CASE y = d /\ j \in Int /\ n + j \in n + 1 .. m /\ strip'[y][j] = s[e][n + j]
      BY <1>1, <1>5, <1>6, <2>3, <3>1 DEF Once
    <3>2. CASE y = e /\ j \in 1 .. n /\ strip'[y][j] = s[e][j]
      BY <1>1, <1>5, <1>6, <2>3, <3>2 DEF Once
    <3>3. CASE y \notin {d, e} /\ j \in 1 .. Len(s[y]) /\ strip'[y][j] = s[y][j]
      BY <1>1, <1>5, <1>6, <2>3, <3>3 DEF Once
    <3> QED BY <1>4, <3>1, <3>2, <3>3
  <2> QED BY <1>4, <2>1, <2>2, <2>3
<1> QED BY <1>6 DEF Once

LEMMA OnceRemove ==
  ASSUME Linked, NEW d \in Displays, NEW space \in Spaces, RemoveSpace(d, space)
  PROVE  Once(strip') /\ \A x \in Displays : x # d => strip'[x] = strip[x]
<1> PICK s : s = strip
  OBVIOUS
<1>1. PICK k \in 1 .. Len(s[d]) :
        /\ Once(s) /\ s \in [Displays -> Seq(Spaces)]
        /\ strip' = [s EXCEPT ![d] = RemoveAt(s[d], k)]
  BY IndexIn DEF RemoveSpace, Linked, Inv, Arranged, On
<1> DEFINE rest == RemoveAt(s[d], k)
<1> PICK m \in Nat : m = Len(s[d])
  BY <1>1, LenProperties
<1>2. /\ Len(rest) = m - 1
      /\ \A j \in 1 .. m - 1 : rest[j] = IF j < k THEN s[d][j] ELSE s[d][j + 1]
  BY <1>1, WithoutAt
<1> HIDE DEF rest
<1>3. strip'[d] = rest /\ \A x \in Displays : x # d => strip'[x] = s[x]
  BY <1>1 DEF rest
<1> DEFINE org(x, i) == IF x = d /\ i >= k THEN i + 1 ELSE i
<1>4. ASSUME NEW x \in Displays, NEW i \in 1 .. Len(strip'[x])
      PROVE  org(x, i) \in 1 .. Len(s[x]) /\ strip'[x][i] = s[x][org(x, i)]
  <2>1. CASE x = d
    <3>1. i \in 1 .. m - 1 /\ strip'[x][i] = IF i < k THEN s[d][i] ELSE s[d][i + 1]
      BY <1>2, <1>3, <2>1
    <3>2. CASE i < k
      BY <2>1, <3>1, <3>2
    <3>3. CASE ~(i < k)
      BY <2>1, <3>1, <3>3
    <3> QED BY <3>2, <3>3
  <2>2. CASE x # d
    BY <1>3, <2>2
  <2> QED BY <2>1, <2>2
<1>5. ASSUME NEW x \in Displays, NEW y \in Displays, NEW i \in 1 .. Len(strip'[x]),
             NEW j \in 1 .. Len(strip'[y]), strip'[x][i] = strip'[y][j]
      PROVE  x = y /\ i = j
  <2> HIDE DEF org
  <2>0. /\ org(x, i) \in 1 .. Len(s[x]) /\ strip'[x][i] = s[x][org(x, i)]
        /\ org(y, j) \in 1 .. Len(s[y]) /\ strip'[y][j] = s[y][org(y, j)]
    BY <1>4
  <2>1. x = y /\ org(x, i) = org(y, j)
    <3>1. s[x][org(x, i)] = s[y][org(y, j)]
      BY <1>5, <2>0
    <3> QED BY <1>1, <2>0, <3>1 DEF Once
  <2>2. i \in Int /\ j \in Int
    OBVIOUS
  <2>3. i = j
    BY <2>1, <2>2 DEF org
  <2> QED BY <2>1, <2>3
<1> QED BY <1>3, <1>5 DEF Once

-----------------------------------------------------------------------------
\* Steps that leave every display but d as it is, and end its burst.
LEMMA EndsBurst ==
  ASSUME Linked, Inv', NEW d \in Displays, burst' = [burst EXCEPT ![d] = <<>>],
         Once(strip'), Once(obs'.strip),
         \A e \in Displays : e # d /\ burst[e] # <<>> =>
           /\ fly'[e] = fly[e] /\ strip'[e] = strip[e] /\ at'[e] = at[e]
           /\ obs'.strip[e] = strip[e] /\ Aims(e, cursor'[e], cursor[e].space)
  PROVE  Linked'
<1>1. burst' \in [Displays -> Seq(Leg)] /\ burst'[d] = <<>>
      /\ \A e \in Displays : e # d => burst'[e] = burst[e]
  BY EmptySeq DEF Linked
<1>2. ASSUME NEW e \in Displays PROVE Chained(e)'
  <2>1. CASE burst'[e] = <<>>
    BY <2>1 DEF Chained
  <2>2. CASE e # d /\ burst[e] # <<>>
    BY <1>1, <2>2, ChainKept DEF Linked
  <2> QED BY <1>1, <2>1, <2>2
<1> QED BY <1>1, <1>2 DEF Linked

\* Steps that end every burst.
LEMMA EndsAll ==
  ASSUME Inv', Once(strip'), Once(obs'.strip), burst' = [d \in Displays |-> <<>>]
  PROVE  Linked'
<1>1. burst' \in [Displays -> Seq(Leg)] /\ \A d \in Displays : Chained(d)'
  BY EmptySeq DEF Chained
<1> QED BY <1>1 DEF Linked

\* Steps that end none, and at most observe.
LEMMA EndsNone ==
  ASSUME Linked, Inv', UNCHANGED burst, Once(strip'), Once(obs'.strip),
         \A e \in Displays : burst[e] # <<>> =>
           /\ fly'[e] = fly[e] /\ strip'[e] = strip[e] /\ at'[e] = at[e]
           /\ obs'.strip[e] = strip[e] /\ Aims(e, cursor'[e], cursor[e].space)
  PROVE  Linked'
<1>1. ASSUME NEW e \in Displays PROVE Chained(e)'
  <2>1. CASE burst[e] = <<>>
    BY <2>1 DEF Chained
  <2>2. CASE burst[e] # <<>>
    BY <2>2, ChainKept DEF Linked
  <2> QED BY <2>1, <2>2
<1> QED BY <1>1 DEF Linked

LEMMA LandLinked == ASSUME Linked, Inv', NEW d \in Displays, Land(d) PROVE Linked'
<1>1. UNCHANGED <<strip, obs, cursor, burst>>
  BY DEF Land, eyes
<1>2. ASSUME NEW e \in Displays, e # d PROVE fly'[e] = fly[e] /\ at'[e] = at[e]
  BY <1>2 DEF Land, Linked, Inv, Flying, Arranged
<1>3. ASSUME NEW e \in Displays PROVE Chained(e)'
  <2>1. CASE burst[e] = <<>>
    BY <1>1, <2>1 DEF Chained
  <2>2. CASE burst[e] # <<>> /\ e = d
    BY <2>2, LandChain
  <2>3. CASE burst[e] # <<>> /\ e # d
    BY <1>1, <1>2, <2>3, SeenOk, ChainKept DEF Linked
  <2> QED BY <2>1, <2>2, <2>3
<1> QED BY <1>1, <1>3 DEF Linked

LEMMA UserLinked ==
  ASSUME Linked, Inv', NEW d \in Displays,
         Drop(d) \/ UserLooks(d) \/ \E s \in Spaces : UserSwitch(d, s)
  PROVE  Linked'
<1>1. UNCHANGED <<strip, obs, cursor>> /\ Once(strip') /\ Once(obs'.strip)
  BY DEF Drop, UserLooks, UserSwitch, World, eyes, world, Linked
<1>2. ASSUME NEW e \in Displays, e # d PROVE fly'[e] = fly[e] /\ at'[e] = at[e]
  BY <1>2 DEF Drop, UserLooks, UserSwitch, world, Linked, Inv, Flying, Arranged
<1>3. CASE burst' = [burst EXCEPT ![d] = <<>>]
  BY <1>1, <1>2, <1>3, SeenOk, EndsBurst
<1>4. CASE UserLooks(d)
  <2>1. UNCHANGED <<fly, at, burst>>
    BY <1>4 DEF UserLooks
  <2> QED BY <1>1, <2>1, SeenOk, EndsNone
<1> QED BY <1>3, <1>4 DEF Drop, UserSwitch

LEMMA RemoveLinked ==
  ASSUME Linked, Inv', NEW d \in Displays, NEW space \in Spaces, RemoveSpace(d, space)
  PROVE  Linked'
<1>1. UNCHANGED <<obs, cursor, fly>> /\ burst' = [burst EXCEPT ![d] = <<>>]
  BY DEF RemoveSpace, World, eyes
<1>2. \A e \in Displays : e # d => at'[e] = at[e]
  BY DEF RemoveSpace, Linked, Inv, Arranged
<1> QED BY <1>1, <1>2, OnceRemove, SeenOk, EndsBurst DEF Linked

LEMMA PlugLinked ==
  ASSUME Linked, Inv', NEW d \in Displays, NEW e \in Displays,
         Unplug(d, e) \/ \E n \in Nat \ {0} : Plug(d, e, n)
  PROVE  Linked'
<1>1. UNCHANGED obs /\ burst' = [x \in Displays |-> <<>>]
  BY DEF Unplug, Plug, World, eyes
<1> QED BY <1>1, OnceUnplug, OncePlug, EndsAll DEF Linked

LEMMA RefreshLinked == ASSUME Linked, Inv', Refresh \/ Recover PROVE Linked'
<1>1. Once(strip') /\ Once(obs'.strip) /\ UNCHANGED <<strip, at, fly>>
  BY DEF Refresh, Recover, Refreshed, Screen, world, Linked
<1>2. CASE Recover
  BY <1>1, <1>2, EndsAll DEF Recover
<1>3. CASE Refresh
  <2>1. UNCHANGED burst /\ \/ obs' = Screen /\ cursor' = Reconciled(Screen, cursor)
                           \/ UNCHANGED <<obs, cursor>>
    BY <1>3 DEF Refresh, Refreshed
  <2>2. ASSUME NEW e \in Displays, burst[e] # <<>>
        PROVE  obs'.strip[e] = strip[e] /\ Aims(e, cursor'[e], cursor[e].space)
    BY <2>1, <2>2, SeenOk
  <2> QED BY <1>1, <2>1, <2>2, EndsNone
<1> QED BY <1>2, <1>3

\* A switch to a Space of another display leaves what is under way on this one.
LEMMA TakenElsewhere ==
  ASSUME Linked, NEW o, o.strip \in [Displays -> Seq(Spaces)], Once(o.strip),
         NEW space, Known(o, space), FocusTaken(space) \/ \E by : StepTaken(space, by),
         NEW e \in Displays, e # DisplayOf(o, space), o.strip[e] = strip[e]
  PROVE  fly'[e] = fly[e]
<1>1. /\ DisplayOf(Screen, space) \in Displays
      /\ On(strip, DisplayOf(Screen, space), space)
  <2>1. Known(Screen, space)
    BY DEF FocusTaken, StepTaken
  <2>2. /\ DisplayOf(Screen, space) \in Displays
        /\ On(Screen.strip, DisplayOf(Screen, space), space)
    BY <2>1, DisplayOfOn
  <2>3. Screen.strip = strip
    BY DEF Screen
  <2> QED BY <2>2, <2>3
<1>2. DisplayOf(Screen, space) # e
  <2>1. On(strip, e, space) => On(o.strip, e, space)
    BY DEF On
  <2> QED BY <1>1, <2>1, DisplayOfIs
<1> QED BY <1>1, <1>2 DEF FocusTaken, StepTaken, Takes, Linked, Inv, Flying

LEMMA FocusLinked == ASSUME Linked, Inv', NEW space, Focus(space) PROVE Linked'
<1>1. /\ Known(obs, space) /\ UNCHANGED <<strip, at, obs>>
      /\ Once(strip') /\ Once(obs'.strip)
  BY DEF Focus, Command, world, Linked
<1>2. CASE UNCHANGED <<fly, cursor, hist, burst>>
  BY <1>1, <1>2, SeenOk, EndsNone
<1>3. CASE /\ FocusTaken(space) /\ Noted(obs, cursor, hist, space)
           /\ burst' = [burst EXCEPT ![DisplayOf(obs, space)] = <<>>]
  <2>1. DisplayOf(obs, space) \in Displays
    BY <1>1, DisplayOfOn
  <2>2. ASSUME NEW e \in Displays, e # DisplayOf(obs, space), burst[e] # <<>>
        PROVE  /\ fly'[e] = fly[e] /\ obs'.strip[e] = strip[e]
               /\ Aims(e, cursor'[e], cursor[e].space)
    <3>1. obs.strip[e] = strip[e] /\ Aims(e, cursor[e], cursor[e].space)
      BY <2>2, SeenOk
    <3>2. fly'[e] = fly[e]
      BY <1>1, <1>3, <2>2, <3>1, TakenElsewhere DEF Linked, Inv, Remembers, Arranged
    <3>3. cursor'[e] = cursor[e]
      <4>1. DOMAIN cursor = Displays
        BY DEF Linked, Inv, Remembers, Cursors
      <4>2. cursor' = [cursor EXCEPT ![DisplayOf(obs, space)] = [space |-> space, pending |-> TRUE]]
        BY <1>1, <1>3 DEF Noted
      <4> QED BY <2>2, <4>1, <4>2
    <3> QED BY <1>1, <3>1, <3>2, <3>3
  <2> QED BY <1>1, <1>3, <2>1, <2>2, EndsBurst
<1> QED BY <1>2, <1>3 DEF Focus

LEMMA FocusWorkspaceLinked ==
  ASSUME Linked, Inv', NEW space \in Spaces, FocusWorkspace(space)
  PROVE  Linked'
<1>1. PICK ok \in BOOLEAN :
        LET o == IF ok THEN Screen ELSE obs
            cs == IF ok THEN Reconciled(Screen, cursor) ELSE cursor
        IN  /\ obs' = o /\ On(o.strip, o.front, space)
            /\ \/ /\ FocusTaken(space)
                  /\ Noted(o, cs, Remembered(o), space)
                  /\ burst' = [burst EXCEPT ![o.front] = <<>>]
               \/ cursor' = cs /\ UNCHANGED <<fly, burst>>
  BY DEF FocusWorkspace
<1> DEFINE o == IF ok THEN Screen ELSE obs
           cs == IF ok THEN Reconciled(Screen, cursor) ELSE cursor
<1>2. /\ o.strip \in [Displays -> Seq(Spaces)] /\ Once(o.strip) /\ o.front \in Displays
      /\ DOMAIN cs = Displays
  BY DEF Linked, Inv, Remembers, Arranged, Screen, Reconciled, Cursors
<1>3. \A e \in Displays : burst[e] # <<>> =>
        o.strip[e] = strip[e] /\ Aims(e, cs[e], cursor[e].space)
  BY SeenOk
<1>4. /\ obs' = o /\ On(o.strip, o.front, space)
      /\ \/ /\ FocusTaken(space)
            /\ Noted(o, cs, Remembered(o), space)
            /\ burst' = [burst EXCEPT ![o.front] = <<>>]
         \/ cursor' = cs /\ UNCHANGED <<fly, burst>>
  BY <1>1
<1> HIDE DEF o, cs
<1>5. UNCHANGED <<strip, at>> /\ Once(strip') /\ Once(obs'.strip)
  BY <1>2, <1>4 DEF FocusWorkspace, Command, world, Linked
<1>6. Known(o, space) /\ DisplayOf(o, space) = o.front
  BY <1>2, <1>4, DisplayOfIs
<1>7. CASE cursor' = cs /\ UNCHANGED <<fly, burst>>
  BY <1>3, <1>4, <1>5, <1>7, EndsNone
<1>8. CASE /\ FocusTaken(space) /\ Noted(o, cs, Remembered(o), space)
           /\ burst' = [burst EXCEPT ![o.front] = <<>>]
  <2>1. ASSUME NEW e \in Displays, e # o.front, burst[e] # <<>>
        PROVE  /\ fly'[e] = fly[e] /\ obs'.strip[e] = strip[e]
               /\ Aims(e, cursor'[e], cursor[e].space)
    <3>1. fly'[e] = fly[e]
      BY <1>2, <1>3, <1>6, <1>8, <2>1, TakenElsewhere
    <3>2. cursor'[e] = cs[e]
      <4>1. cursor' = [cs EXCEPT ![o.front] = [space |-> space, pending |-> TRUE]]
        BY <1>6, <1>8 DEF Noted
      <4> QED BY <1>2, <2>1, <4>1
    <3> QED BY <1>3, <1>4, <2>1, <3>1, <3>2
  <2> QED BY <1>2, <1>5, <1>8, <2>1, EndsBurst
<1> QED BY <1>4, <1>7, <1>8

\* A step on display d, taken or refused.
LEMMA StepLinked ==
  ASSUME Linked, Inv', NEW d \in Displays, NEW delta \in {-1, 1}, Step(d, delta)
  PROVE  Linked'
<1> DEFINE fr == StepFrom(d)
           dest == Neighbor(obs.strip[d], fr, delta)
           dist == IndexOf(obs.strip[d], dest) - IndexOf(obs.strip[d], fr)
<1>1. PICK from, to, by : from = fr /\ to = dest /\ by = dist
  OBVIOUS
<1>2. /\ UNCHANGED <<strip, at, obs>> /\ Once(strip') /\ Once(obs'.strip)
      /\ Len(obs.strip[d]) > 1
      /\ \/ /\ StepTaken(to, by) /\ Noted(obs, cursor, hist, to)
            /\ burst' = [burst EXCEPT ![d] = Stepped(d, from, to, delta)]
         \/ /\ cursor' = [cursor EXCEPT ![d] = None]
            /\ burst' = [burst EXCEPT ![d] = <<>>] /\ UNCHANGED fly
  BY <1>1 DEF Step, Command, world, Linked
<1>3. /\ obs.strip[d] \in Seq(Spaces) /\ obs.strip[d] # <<>>
      /\ DOMAIN cursor = Displays /\ obs.strip \in [Displays -> Seq(Spaces)]
  BY <1>2, EmptySeq DEF Linked, Inv, Remembers, Arranged, Cursors
<1>4. On(obs.strip, d, from)
  <2>1. Head(obs.strip[d]) \in ToSet(obs.strip[d])
    BY <1>3 DEF ToSet
  <2> QED BY <1>1, <2>1 DEF StepFrom, On
<1>5. to = Neighbor(obs.strip[d], from, delta) /\ On(obs.strip, d, to)
  BY <1>1, <1>3, <1>4, NeighborIn DEF On
<1>6. by = IndexOf(obs.strip[d], to) - IndexOf(obs.strip[d], from) /\ by \in Int
  <2>1. by = IndexOf(obs.strip[d], to) - IndexOf(obs.strip[d], from)
    BY <1>1
  <2>2. IndexOf(obs.strip[d], to) \in 1 .. Len(obs.strip[d])
        /\ IndexOf(obs.strip[d], from) \in 1 .. Len(obs.strip[d])
    BY <1>3, <1>4, <1>5, IndexIn DEF On
  <2> QED BY <2>1, <2>2
<1>7. Known(obs, to) /\ DisplayOf(obs, to) = d /\ to \in Spaces /\ from \in Spaces
  BY <1>3, <1>4, <1>5, DisplayOfIs, OnSpaces DEF Linked
<1>8. CASE /\ cursor' = [cursor EXCEPT ![d] = None]
           /\ burst' = [burst EXCEPT ![d] = <<>>] /\ UNCHANGED fly
  BY <1>2, <1>3, <1>8, SeenOk, EndsBurst
<1>9. CASE /\ StepTaken(to, by) /\ Noted(obs, cursor, hist, to)
           /\ burst' = [burst EXCEPT ![d] = Stepped(d, from, to, delta)]
  <2>1. cursor' = [cursor EXCEPT ![d] = [space |-> to, pending |-> TRUE]]
    BY <1>7, <1>9 DEF Noted
  <2>2. ASSUME NEW e \in Displays, e # d, burst[e] # <<>>
        PROVE  /\ fly'[e] = fly[e] /\ obs'.strip[e] = strip[e]
               /\ Aims(e, cursor'[e], cursor[e].space)
    <3>1. obs.strip[e] = strip[e] /\ Aims(e, cursor[e], cursor[e].space)
      BY <2>2, SeenOk
    <3>2. fly'[e] = fly[e]
      BY <1>3, <1>7, <1>9, <2>2, <3>1, TakenElsewhere DEF Linked
    <3>3. cursor'[e] = cursor[e]
      BY <1>3, <2>1, <2>2
    <3> QED BY <1>2, <3>1, <3>2, <3>3
  <2>3. CASE Stepped(d, from, to, delta) = <<>>
    BY <1>2, <1>9, <2>2, <2>3, EndsBurst
  <2>4. CASE Stepped(d, from, to, delta) # <<>>
    <3> DEFINE start == IF burst[d] # <<>> THEN burst[d]
                        ELSE IF fly[d] = <<>> /\ obs.strip = strip /\ from = at[d]
                        THEN <<[space |-> from, delta |-> 0]>> ELSE <<>>
    <3>1. PICK b : b = start
      OBVIOUS
    <3>2. /\ b # <<>> /\ \A i \in 1 .. Len(b) : b[i].space # to
          /\ burst'[d] = Append(b, [space |-> to, delta |-> delta])
      BY <1>9, <2>4, <3>1 DEF Stepped, Linked
    <3>3. b \in Seq(Leg) /\ Route(d, b) /\ b[Len(b)].space = from
      <4>1. CASE burst[d] # <<>>
        <5>1. b \in Seq(Leg) /\ Route(d, b) /\ Aims(d, cursor[d], b[Len(b)].space)
          BY <3>1, <4>1 DEF Linked, Chained
        <5>2. Len(b) \in 1 .. Len(b)
          BY <3>2, <5>1, LenProperties, EmptySeq
        <5>3. On(obs.strip, d, cursor[d].space)
          BY <5>1, <5>2 DEF Route, Aims, On
        <5>4. from = cursor[d].space
          BY <1>1, <5>1, <5>3 DEF StepFrom, Aims
        <5> QED BY <5>1, <5>4 DEF Aims
      <4>2. CASE burst[d] = <<>>
        <5>1. /\ b = <<[space |-> from, delta |-> 0]>>
              /\ fly[d] = <<>> /\ obs.strip = strip /\ from = at[d]
          BY <3>1, <3>2, <4>2
        <5>2. [space |-> from, delta |-> 0] \in Leg
          BY <1>7 DEF Leg
        <5>3. /\ b \in Seq(Leg) /\ Len(b) = 1 /\ b[1].space = from
              /\ Len(fly[d]) = 0
          BY <5>1, <5>2, EmptySeq
        <5>4. Ahead(d, b) = 1
          BY <5>3 DEF Ahead
        <5>5. On(strip, d, from)
          BY <1>4, <5>1
        <5> QED BY <3>2, <5>1, <5>3, <5>4, <5>5 DEF Route
      <4> QED BY <4>1, <4>2
    <3>4. obs.strip[d] = strip[d] /\ On(strip, d, to) /\ On(strip, d, from)
      BY <1>4, <1>5, <3>3 DEF Route, On
    <3>5. DisplayOf(Screen, to) = d
      <4>1. Screen.strip = strip /\ strip \in [Displays -> Seq(Spaces)]
        BY DEF Screen, Linked, Inv, Arranged
      <4> QED BY <3>4, <4>1, DisplayOfIs DEF Linked
    <3>6. PICK f \in Switch :
            /\ fly'[d] = Append(fly[d], f) /\ f.to = to
            /\ f.by = 0 \/ (fly[d] = <<>> /\ f.by = by)
      <4>1. [to |-> to, by |-> 0] \in Switch /\ [to |-> to, by |-> by] \in Switch
        BY <1>6, <1>7 DEF Switch
      <4>2. \/ Takes(d, [to |-> to, by |-> 0])
            \/ fly[d] = <<>> /\ Takes(d, [to |-> to, by |-> by])
        BY <1>9, <3>5 DEF StepTaken, Animating
      <4>3. \/ fly' = [fly EXCEPT ![d] = Append(@, [to |-> to, by |-> 0])]
            \/ /\ fly[d] = <<>>
               /\ fly' = [fly EXCEPT ![d] = Append(@, [to |-> to, by |-> by])]
        BY <4>2 DEF Takes
      <4>4. DOMAIN fly = Displays
        BY DEF Linked, Inv, Flying
      <4> QED BY <4>1, <4>3, <4>4
    <3>7. PICK fly1 \in Seq(Switch) : fly1 = fly[d]
      BY DEF Linked, Inv, Flying
    <3>8. delta \in Int
      OBVIOUS
    <3>9. /\ Append(b, [space |-> to, delta |-> delta]) \in Seq(Leg)
          /\ Route(d, Append(b, [space |-> to, delta |-> delta]))'
      <4>1. f.to = Neighbor(strip[d], b[Len(b)].space, delta)
        BY <1>5, <3>3, <3>4, <3>6
      <4>2. \/ f.by = 0
            \/ /\ fly1 = <<>>
               /\ f.by = IndexOf(strip[d], f.to) - IndexOf(strip[d], b[Len(b)].space)
        BY <1>6, <3>3, <3>4, <3>6, <3>7
      <4>3. On(strip, d, f.to) /\ \A i \in 1 .. Len(b) : b[i].space # f.to
        BY <3>2, <3>4, <3>6
      <4>4. fly'[d] = Append(fly1, f)
        BY <3>6, <3>7
      <4>5. /\ Append(b, [space |-> f.to, delta |-> delta]) \in Seq(Leg)
            /\ Route(d, Append(b, [space |-> f.to, delta |-> delta]))'
        BY <1>2, <3>3, <3>7, <3>8, <4>1, <4>2, <4>3, <4>4, RouteGrows
      <4> QED BY <3>6, <4>5
    <3>10. burst' \in [Displays -> Seq(Leg)]
           /\ \A e \in Displays : e # d => burst'[e] = burst[e]
      BY <1>9, <3>2, <3>9 DEF Linked
    <3>11. Chained(d)'
      <4>1. PICK c : c = burst'[d]
        OBVIOUS
      <4>2. Route(d, c)' /\ c[Len(c)].space = to
        BY <3>2, <3>3, <3>9, <4>1, AppendProperties, LenProperties
      <4>3. Aims(d, cursor[d], to)'
        <5>1. cursor'[d] = [space |-> to, pending |-> TRUE]
          BY <1>3, <2>1
        <5>2. [space |-> to, pending |-> TRUE] \in [space : Spaces, pending : BOOLEAN]
          BY <1>7
        <5>3. cursor'[d] # None
          BY <5>1, <5>2, NavigationAssumption
        <5> QED BY <5>1, <5>3 DEF Aims
      <4> QED BY <4>1, <4>2, <4>3 DEF Chained
    <3>12. ASSUME NEW e \in Displays, e # d PROVE Chained(e)'
      <4>1. CASE burst[e] = <<>>
        BY <3>10, <3>12, <4>1 DEF Chained
      <4>2. CASE burst[e] # <<>>
        BY <1>2, <2>2, <3>10, <3>12, <4>2, ChainKept DEF Linked
      <4> QED BY <4>1, <4>2
    <3> QED BY <1>2, <3>10, <3>11, <3>12 DEF Linked
  <2> QED BY <2>3, <2>4
<1> QED BY <1>2, <1>8, <1>9

LEMMA LinkedNext == ASSUME Linked, [Next]_vars PROVE Linked'
<1>1. Inv'
  BY InvNext DEF Linked
<1>2. CASE \E d, e \in Displays :
             Unplug(d, e) \/ \E n \in 1 .. Cardinality(Spaces) : Plug(d, e, n)
  <2>1. ASSUME NEW d \in Displays, NEW e \in Displays,
               NEW n \in 1 .. Cardinality(Spaces), Plug(d, e, n)
        PROVE  Linked'
    <3>1. n \in 1 .. Len(strip[e]) - 1 /\ strip[e] \in Seq(Spaces)
      BY <2>1 DEF Plug, Linked, Inv, Arranged
    <3>2. n \in Nat \ {0}
      BY <3>1, LenProperties
    <3> QED BY <1>1, <2>1, <3>2, PlugLinked
  <2> QED BY <1>1, <1>2, <2>1, PlugLinked
<1>3. CASE UNCHANGED vars
  <2>1. UNCHANGED <<strip, at, fly, obs, cursor, burst>>
    BY <1>3 DEF vars, world, eyes
  <2> QED BY <1>1, <2>1, SeenOk, EndsNone DEF Linked
<1>4. CASE FocusRecent
  BY <1>1, <1>4, FocusLinked DEF FocusRecent
<1> QED
  BY <1>1, <1>2, <1>3, <1>4, LandLinked, UserLinked, RemoveLinked, RefreshLinked,
     StepLinked, FocusLinked, FocusWorkspaceLinked DEF Next

-----------------------------------------------------------------------------
\* A cursor and a history name Spaces of their own display, whatever displays
\* and Spaces come and go (reconcile_space_cursors, refresh_observation).
THEOREM OnOwnDisplayHolds == Spec => []OnOwnDisplay
<1>1. Inv => OnOwnDisplay
  BY DEF Inv, Remembers, Cursors, Histories, OnOwnDisplay
<1> QED BY <1>1, InvInit, InvNext, PTL DEF Spec

\* The published state names a Space of the display it names, and is what a
\* query would answer (maybe_publish_public_state, current_public_state).
THEOREM PublishedAgreesHolds == Spec => []PublishedAgrees
<1>1. Inv => PublishedAgrees
  <2> SUFFICES ASSUME Inv PROVE PublishedAgrees
    OBVIOUS
  <2>1. obs.front \in Displays /\ hist[obs.front].cur # None
        /\ On(obs.strip, obs.front, hist[obs.front].cur)
    BY DEF Inv, Remembers, Arranged, Histories
  <2>2. shown = [display |-> obs.front, space |-> hist[obs.front].cur]
    BY <2>1 DEF Inv, Remembers, Public
  <2> QED BY <2>1, <2>2 DEF Inv, Remembers, PublishedAgrees
<1> QED BY <1>1, InvInit, InvNext, PTL DEF Spec

\* However fast steps are pressed, and whatever the engine observes meanwhile,
\* each starts where the one before went (focus_space_step, space_cursors).
THEOREM ChainedStepsHolds == Spec => []ChainedSteps
<1>1. Linked => ChainedSteps
  <2> SUFFICES ASSUME Linked, NEW d \in Displays, NEW i \in 2 .. Len(burst[d])
               PROVE  burst[d][i].space =
                        Neighbor(strip[d], burst[d][i-1].space, burst[d][i].delta)
    BY DEF ChainedSteps
  <2>1. CASE burst[d] = <<>>
    BY <2>1
  <2>2. CASE burst[d] # <<>>
    BY <2>2 DEF Linked, Chained, Route
  <2> QED BY <2>1, <2>2
<1> QED BY <1>1, LinkedInit, LinkedNext, PTL DEF Spec
=============================================================================
