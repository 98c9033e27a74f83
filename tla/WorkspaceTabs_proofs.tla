------------------------ MODULE WorkspaceTabs_proofs ------------------------
(***************************************************************************)
(* What holds for every finite set of workspaces and every number of        *)
(* requests: the types, the tabs above all, that the active pointer stays   *)
(* on its tab, that the last thing the user asked of a tab is shown, and    *)
(* that the store follows the server.                                       *)
(***************************************************************************)
EXTENDS WorkspaceTabs, SequenceTheorems, FiniteSetTheorems, TLAPS

-----------------------------------------------------------------------------
(* The order of the tabs *)

\* A sequence without its element at i.
LEMMA SplicedFacts ==
  ASSUME NEW S, NEW s \in Seq(S), NEW i \in 1 .. Len(s)
  PROVE  /\ Spliced(s, i) \in Seq(S)
         /\ Len(Spliced(s, i)) = Len(s) - 1
         /\ \A k \in 1 .. Len(s) - 1 :
              Spliced(s, i)[k] = IF k < i THEN s[k] ELSE s[k + 1]
<1> DEFINE low == SubSeq(s, 1, i - 1)
           high == SubSeq(s, i + 1, Len(s))
<1>1. Len(s) \in Nat /\ \A k \in 1 .. Len(s) : s[k] \in S
  BY LenProperties, ElementOfSeq
<1>2. /\ low \in Seq(S) /\ Len(low) = i - 1
      /\ \A k \in 1 .. i - 1 : low[k] = s[k]
  <2>1. \A k \in 1 .. i - 1 : s[k] \in S
    BY <1>1
  <2> HIDE DEF low
  <2>2. /\ low \in Seq(S) /\ Len(low) = IF 1 <= i - 1 THEN (i - 1) - 1 + 1 ELSE 0
        /\ \A k \in 1 .. (i - 1) - 1 + 1 : low[k] = s[1 + k - 1]
    BY <2>1, <1>1, SubSeqProperties DEF low
  <2> QED BY <2>2, <1>1
<1>3. /\ high \in Seq(S) /\ Len(high) = Len(s) - i
      /\ \A k \in 1 .. Len(s) - i : high[k] = s[i + k]
  <2>1. \A k \in i + 1 .. Len(s) : s[k] \in S
    BY <1>1
  <2> HIDE DEF high
  <2>2. /\ high \in Seq(S)
        /\ Len(high) = IF i + 1 <= Len(s) THEN Len(s) - (i + 1) + 1 ELSE 0
        /\ \A k \in 1 .. Len(s) - (i + 1) + 1 : high[k] = s[(i + 1) + k - 1]
    BY <2>1, <1>1, SubSeqProperties DEF high
  <2> QED BY <2>2, <1>1
<1> HIDE DEF low, high
<1>4. /\ low \o high \in Seq(S) /\ Len(low \o high) = Len(low) + Len(high)
      /\ \A k \in 1 .. Len(low) + Len(high) :
           (low \o high)[k] = IF k <= Len(low) THEN low[k] ELSE high[k - Len(low)]
  BY <1>2, <1>3, ConcatProperties
<1>5. Spliced(s, i) = low \o high
  BY DEF Spliced, low, high
<1>6. ASSUME NEW k \in 1 .. Len(s) - 1
      PROVE  Spliced(s, i)[k] = IF k < i THEN s[k] ELSE s[k + 1]
  <2>1. CASE k < i
    <3>1. k \in 1 .. Len(low) + Len(high) /\ k <= Len(low) /\ k \in 1 .. i - 1
      BY <2>1, <1>1, <1>2, <1>3
    <3> QED BY <3>1, <2>1, <1>2, <1>4, <1>5
  <2>2. CASE ~(k < i)
    <3>1. /\ k \in 1 .. Len(low) + Len(high) /\ ~(k <= Len(low))
          /\ k - Len(low) \in 1 .. Len(s) - i /\ i + (k - Len(low)) = k + 1
      BY <2>2, <1>1, <1>2, <1>3
    <3>2. Spliced(s, i)[k] = high[k - Len(low)]
      BY <3>1, <1>4, <1>5
    <3>3. high[k - Len(low)] = s[i + (k - Len(low))]
      BY <3>1, <1>3
    <3>4. s[i + (k - Len(low))] = s[k + 1]
      BY <3>1
    <3>5. Spliced(s, i)[k] = s[k + 1]
      BY <3>2, <3>3, <3>4
    <3> QED BY <3>5, <2>2
  <2> QED BY <2>1, <2>2
<1>7. Len(low) + Len(high) = Len(s) - 1
  BY <1>1, <1>2, <1>3
<1>8. Spliced(s, i) \in Seq(S) /\ Len(Spliced(s, i)) = Len(low) + Len(high)
  BY <1>4, <1>5
<1> QED BY <1>6, <1>7, <1>8

\* What being the tabs of a window comes to.
LEMMA TabStateFacts ==
  ASSUME NEW ts \in TabStates
  PROVE  /\ ts = [order |-> ts.order, active |-> ts.active]
         /\ ts.order \in Seq(TabIds) /\ Len(ts.order) \in Nat
         /\ DOMAIN ts.order = 1 .. Len(ts.order)
         /\ ts.active \in 0 .. Len(ts.order)
         /\ \A i \in 1 .. Len(ts.order) : ts.order[i] \in TabIds
         /\ \A i, j \in 1 .. Len(ts.order) :
              ts.order[i] = ts.order[j] => i = j
<1>1. ts.order \in Seq(TabIds)
  BY DEF TabStates
<1>2. Len(ts.order) \in Nat /\ DOMAIN ts.order = 1 .. Len(ts.order)
  BY <1>1, LenProperties
<1>3. \A i \in 1 .. Len(ts.order) : ts.order[i] \in TabIds
  BY <1>1, ElementOfSeq
<1> QED BY <1>1, <1>2, <1>3 DEF TabStates

\* The tabs of a window, put together.
LEMMA IsTabState ==
  ASSUME NEW order \in Seq(TabIds), NEW active \in 0 .. Len(order),
         \A i, j \in 1 .. Len(order) : order[i] = order[j] => i = j
  PROVE  [order |-> order, active |-> active] \in TabStates
<1>1. Len(order) \in Nat /\ DOMAIN order = 1 .. Len(order)
  BY LenProperties
<1> QED BY <1>1 DEF TabStates

\* The place of a tab is the only one where it is.
LEMMA PlaceFacts ==
  ASSUME NEW ts \in TabStates, NEW tab, Holds(ts.order, tab)
  PROVE  /\ Place(ts.order, tab) \in 1 .. Len(ts.order)
         /\ ts.order[Place(ts.order, tab)] = tab
         /\ \A i \in 1 .. Len(ts.order) :
              ts.order[i] = tab => i = Place(ts.order, tab)
<1>1. DOMAIN ts.order = 1 .. Len(ts.order)
  BY TabStateFacts
<1>2. \E i \in DOMAIN ts.order : ts.order[i] = tab
  BY DEF Holds
<1>3. Place(ts.order, tab) \in DOMAIN ts.order /\ ts.order[Place(ts.order, tab)] = tab
  BY <1>2 DEF Place
<1> QED BY <1>1, <1>3, TabStateFacts

\* Whatever becomes of the tabs, the pointer does not go while there are tabs,
\* and stays on its tab while it is there.
Follows(ts, us) ==
  /\ ts.active # 0 /\ us.order # <<>> => us.active # 0
  /\ ts.active # 0 /\ Holds(us.order, ts.order[ts.active])
       => us.active # 0 /\ us.order[us.active] = ts.order[ts.active]

\* A tab that is closed is gone and the others are there.
LEMMA CloseFacts ==
  ASSUME NEW ts \in TabStates, NEW tab
  PROVE  /\ Close(ts, tab) \in TabStates
         /\ Follows(ts, Close(ts, tab))
         /\ \A t : Holds(Close(ts, tab).order, t) <=> Holds(ts.order, t) /\ t # tab
<1> DEFINE i == Place(ts.order, tab)
           rest == Spliced(ts.order, i)
           active == IF ts.active > i \/ ts.active > Len(rest)
                     THEN ts.active - 1 ELSE ts.active
<1>1. CASE ~Holds(ts.order, tab)
  <2>1. Close(ts, tab) = ts
    BY <1>1 DEF Close
  <2>2. Follows(ts, ts)
    BY DEF Follows
  <2> QED BY <1>1, <2>1, <2>2
<1>2. CASE Holds(ts.order, tab)
  <2>1. /\ ts.order \in Seq(TabIds) /\ Len(ts.order) \in Nat
        /\ DOMAIN ts.order = 1 .. Len(ts.order)
        /\ ts.active \in 0 .. Len(ts.order)
        /\ \A j, k \in 1 .. Len(ts.order) : ts.order[j] = ts.order[k] => j = k
    BY TabStateFacts
  <2>2. /\ i \in 1 .. Len(ts.order) /\ ts.order[i] = tab
        /\ \A k \in 1 .. Len(ts.order) : ts.order[k] = tab => k = i
    BY <1>2, PlaceFacts
  <2> HIDE DEF i
  <2>3. /\ rest \in Seq(TabIds) /\ Len(rest) = Len(ts.order) - 1
        /\ \A k \in 1 .. Len(ts.order) - 1 :
             rest[k] = IF k < i THEN ts.order[k] ELSE ts.order[k + 1]
    BY <2>1, <2>2, SplicedFacts
  <2>4. Close(ts, tab) = [order |-> rest, active |-> active]
    BY <1>2 DEF Close, i
  <2> HIDE DEF rest
  <2>5. DOMAIN rest = 1 .. Len(rest)
    BY <2>3, LenProperties
  <2>6. \A j, k \in 1 .. Len(rest) : rest[j] = rest[k] => j = k
    <3> SUFFICES ASSUME NEW j \in 1 .. Len(rest), NEW k \in 1 .. Len(rest),
                        rest[j] = rest[k]
                 PROVE  j = k
      OBVIOUS
    <3>1. /\ j \in 1 .. Len(ts.order) /\ j + 1 \in 1 .. Len(ts.order)
          /\ k \in 1 .. Len(ts.order) /\ k + 1 \in 1 .. Len(ts.order)
      BY <2>1, <2>3
    <3>2. (IF j < i THEN j ELSE j + 1) = (IF k < i THEN k ELSE k + 1)
      BY <3>1, <2>1, <2>3
    <3> QED BY <3>1, <3>2, <2>2
  <2>7. active \in 0 .. Len(rest)
    BY <2>1, <2>2, <2>3
  <2>8. Close(ts, tab) \in TabStates
    <3> HIDE DEF active
    <3> QED BY <2>3, <2>4, <2>6, <2>7, IsTabState
  <2>9. \A t : Holds(rest, t) <=> Holds(ts.order, t) /\ t # tab
    <3>1. ASSUME NEW t, Holds(rest, t) PROVE Holds(ts.order, t) /\ t # tab
      <4>1. PICK k \in 1 .. Len(rest) : rest[k] = t
        BY <3>1, <2>5 DEF Holds
      <4>2. /\ k \in 1 .. Len(ts.order) /\ k + 1 \in 1 .. Len(ts.order)
            /\ t = ts.order[IF k < i THEN k ELSE k + 1]
            /\ i # (IF k < i THEN k ELSE k + 1)
        BY <4>1, <2>1, <2>2, <2>3
      <4> QED BY <4>2, <2>1, <2>2 DEF Holds
    <3>2. ASSUME NEW t, Holds(ts.order, t), t # tab PROVE Holds(rest, t)
      <4>1. PICK k \in 1 .. Len(ts.order) : ts.order[k] = t
        BY <3>2, <2>1 DEF Holds
      <4>2. k # i
        BY <4>1, <3>2, <2>2
      <4>3. CASE k < i
        <5>1. k \in 1 .. Len(rest) /\ rest[k] = t
          BY <4>1, <4>3, <2>1, <2>2, <2>3
        <5> QED BY <5>1, <2>5 DEF Holds
      <4>4. CASE k > i
        <5>1. k - 1 \in 1 .. Len(rest) /\ rest[k - 1] = t
          <6>1. k - 1 \in 1 .. Len(ts.order) - 1 /\ ~(k - 1 < i) /\ (k - 1) + 1 = k
            BY <4>4, <2>1, <2>2
          <6> QED BY <6>1, <4>1, <2>3
        <5> QED BY <5>1, <2>5 DEF Holds
      <4> QED BY <4>2, <4>3, <4>4, <2>1, <2>2
    <3> QED BY <3>1, <3>2
  <2>10. Follows(ts, Close(ts, tab))
    <3>1. ts.active # 0 /\ rest # <<>> => active # 0
      <4>1. rest # <<>> => Len(rest) \in Nat \ {0}
        BY <2>3, EmptySeq
      <4> QED BY <4>1, <2>1, <2>2, <2>3
    <3>2. ASSUME ts.active # 0, Holds(rest, ts.order[ts.active])
          PROVE  active # 0 /\ rest[active] = ts.order[ts.active]
      <4>1. ts.active \in 1 .. Len(ts.order) /\ ts.active # i
        BY <3>2, <2>1, <2>2, <2>9
      <4>2. CASE ts.active < i
        <5>1. /\ active = ts.active /\ active \in 1 .. Len(ts.order) - 1
              /\ active < i
          BY <4>1, <4>2, <2>1, <2>2, <2>3
        <5> HIDE DEF active
        <5> QED BY <5>1, <2>3
      <4>3. CASE ts.active > i
        <5>1. /\ active = ts.active - 1 /\ active \in 1 .. Len(ts.order) - 1
              /\ ~(active < i) /\ active + 1 = ts.active
          BY <4>1, <4>3, <2>1, <2>2
        <5> HIDE DEF active
        <5>2. rest[active] = ts.order[active + 1]
          BY <5>1, <2>3
        <5>3. active # 0
          BY <5>1
        <5> QED BY <5>1, <5>2, <5>3
      <4> QED BY <4>1, <4>2, <4>3, <2>1, <2>2
    <3> HIDE DEF active
    <3> QED BY <3>1, <3>2, <2>4 DEF Follows
  <2> QED BY <2>4, <2>8, <2>9, <2>10
<1> QED BY <1>1, <1>2

\* Tabs that are new come after those that are there.
LEMMA JoinFacts ==
  ASSUME NEW ts \in TabStates, NEW news \in Seq(TabIds),
         \A i, j \in 1 .. Len(news) : news[i] = news[j] => i = j,
         \A i \in 1 .. Len(news) : ~Holds(ts.order, news[i])
  PROVE  LET us == [order |-> ts.order \o news, active |-> ts.active]
         IN  /\ us \in TabStates
             /\ Follows(ts, us)
             /\ \A t : Holds(ts.order, t) => Holds(us.order, t)
             /\ \A i \in 1 .. Len(news) : Holds(us.order, news[i])
<1> DEFINE order == ts.order \o news
<1>1. /\ ts.order \in Seq(TabIds) /\ Len(ts.order) \in Nat
      /\ DOMAIN ts.order = 1 .. Len(ts.order)
      /\ ts.active \in 0 .. Len(ts.order)
      /\ \A j, k \in 1 .. Len(ts.order) : ts.order[j] = ts.order[k] => j = k
  BY TabStateFacts
<1>2. Len(news) \in Nat /\ DOMAIN news = 1 .. Len(news)
  BY LenProperties
<1>3. /\ order \in Seq(TabIds) /\ Len(order) = Len(ts.order) + Len(news)
      /\ \A k \in 1 .. Len(ts.order) + Len(news) :
           order[k] = IF k <= Len(ts.order) THEN ts.order[k]
                                            ELSE news[k - Len(ts.order)]
  BY <1>1, ConcatProperties
<1> HIDE DEF order
<1>4. DOMAIN order = 1 .. Len(order)
  BY <1>3, LenProperties
<1>5. \A k \in 1 .. Len(ts.order) : k \in 1 .. Len(order) /\ order[k] = ts.order[k]
  BY <1>1, <1>2, <1>3
<1>6. ASSUME NEW k \in 1 .. Len(news)
      PROVE  /\ Len(ts.order) + k \in 1 .. Len(order)
             /\ order[Len(ts.order) + k] = news[k]
  <2>1. /\ Len(ts.order) + k \in 1 .. Len(ts.order) + Len(news)
        /\ ~(Len(ts.order) + k <= Len(ts.order))
        /\ (Len(ts.order) + k) - Len(ts.order) = k
    BY <1>1, <1>2
  <2> QED BY <2>1, <1>3
<1>7. ASSUME NEW j \in 1 .. Len(order), j > Len(ts.order)
      PROVE  /\ j - Len(ts.order) \in 1 .. Len(news)
             /\ order[j] = news[j - Len(ts.order)]
  BY <1>7, <1>1, <1>2, <1>3
<1>8. ASSUME NEW j \in 1 .. Len(order), NEW k \in 1 .. Len(order),
             order[j] = order[k], j <= Len(ts.order)
      PROVE  j = k
  <2>1. j \in 1 .. Len(ts.order)
    BY <1>8, <1>1
  <2>2. CASE k <= Len(ts.order)
    <3>1. k \in 1 .. Len(ts.order)
      BY <2>2, <1>1
    <3> QED BY <2>1, <3>1, <1>1, <1>5, <1>8
  <2>3. CASE k > Len(ts.order)
    <3>1. k - Len(ts.order) \in 1 .. Len(news) /\ order[k] = news[k - Len(ts.order)]
      BY <2>3, <1>7
    <3>2. ts.order[j] = news[k - Len(ts.order)]
      BY <3>1, <2>1, <1>5, <1>8
    <3>3. Holds(ts.order, news[k - Len(ts.order)])
      BY <3>2, <2>1, <1>1 DEF Holds
    <3> QED BY <3>1, <3>3
  <2> QED BY <2>2, <2>3, <1>1, <1>2, <1>3
<1>9. \A j, k \in 1 .. Len(order) : order[j] = order[k] => j = k
  <2> SUFFICES ASSUME NEW j \in 1 .. Len(order), NEW k \in 1 .. Len(order),
                      order[j] = order[k]
               PROVE  j = k
    OBVIOUS
  <2>1. CASE j <= Len(ts.order)
    BY <2>1, <1>8
  <2>2. CASE k <= Len(ts.order)
    BY <2>2, <1>8
  <2>3. CASE j > Len(ts.order) /\ k > Len(ts.order)
    <3>1. j - Len(ts.order) = k - Len(ts.order)
      BY <2>3, <1>7
    <3> QED BY <3>1, <1>1, <1>2, <1>3
  <2> QED BY <2>1, <2>2, <2>3, <1>1, <1>2, <1>3
<1>10. [order |-> order, active |-> ts.active] \in TabStates
  BY <1>1, <1>2, <1>3, <1>9, IsTabState
<1>11. \A t : Holds(ts.order, t) => Holds(order, t)
  BY <1>1, <1>4, <1>5 DEF Holds
<1>12. \A k \in 1 .. Len(news) : Holds(order, news[k])
  BY <1>4, <1>6 DEF Holds
<1>13. Follows(ts, [order |-> order, active |-> ts.active])
  <2>1. ts.active # 0 => ts.active \in 1 .. Len(ts.order)
    BY <1>1
  <2> QED BY <2>1, <1>5 DEF Follows
<1> QED BY <1>10, <1>11, <1>12, <1>13 DEF order

\* A tab that is added is there, after the others.
LEMMA AddFacts ==
  ASSUME NEW ts \in TabStates, NEW tab \in TabIds
  PROVE  /\ Add(ts, tab) \in TabStates
         /\ Follows(ts, Add(ts, tab))
         /\ \A t : Holds(ts.order, t) => Holds(Add(ts, tab).order, t)
         /\ Holds(Add(ts, tab).order, tab)
<1>1. CASE Holds(ts.order, tab)
  BY <1>1 DEF Add, Follows
<1>2. CASE ~Holds(ts.order, tab)
  <2>1. /\ <<tab>> \in Seq(TabIds) /\ Len(<<tab>>) = 1 /\ <<tab>>[1] = tab
    OBVIOUS
  <2>2. ts.order \in Seq(TabIds)
    BY TabStateFacts
  <2>3. Append(ts.order, tab) = ts.order \o <<tab>>
    BY <2>2, AppendIsConcat
  <2>4. Add(ts, tab) = [order |-> ts.order \o <<tab>>, active |-> ts.active]
    BY <1>2, <2>3 DEF Add
  <2> DEFINE news == <<tab>>
  <2>5. \A i, j \in 1 .. Len(news) : news[i] = news[j] => i = j
    BY <2>1
  <2>6. \A i \in 1 .. Len(news) : ~Holds(ts.order, news[i])
    BY <1>2, <2>1
  <2>7. 1 \in 1 .. Len(news)
    BY <2>1
  <2>8. news \in Seq(TabIds) /\ news[1] = tab
    BY <2>1
  <2> HIDE DEF news
  <2>9. LET us == [order |-> ts.order \o news, active |-> ts.active]
        IN  /\ us \in TabStates
            /\ Follows(ts, us)
            /\ \A t : Holds(ts.order, t) => Holds(us.order, t)
            /\ \A i \in 1 .. Len(news) : Holds(us.order, news[i])
    BY <2>5, <2>6, <2>8, JoinFacts
  <2>10. Add(ts, tab) = [order |-> ts.order \o news, active |-> ts.active]
    BY <2>4 DEF news
  <2> QED BY <2>7, <2>8, <2>9, <2>10
<1> QED BY <1>1, <1>2
\* A tab that is pointed to, if it is there.
LEMMA PointFacts ==
  ASSUME NEW ts \in TabStates, NEW tab
  PROVE  /\ Point(ts, tab) \in TabStates
         /\ Point(ts, tab).order = ts.order
         /\ ts.active # 0 => Point(ts, tab).active # 0
<1>1. CASE ~Holds(ts.order, tab)
  BY <1>1 DEF Point
<1>2. CASE Holds(ts.order, tab)
  <2>1. Place(ts.order, tab) \in 1 .. Len(ts.order)
    BY <1>2, PlaceFacts
  <2> DEFINE i == Place(ts.order, tab)
  <2> HIDE DEF i
  <2>2. i \in 0 .. Len(ts.order) /\ i # 0
    BY <2>1, TabStateFacts DEF i
  <2>3. [order |-> ts.order, active |-> i] \in TabStates
    BY <2>2, TabStateFacts, IsTabState
  <2> QED BY <1>2, <2>2, <2>3 DEF Point, i
<1> QED BY <1>1, <1>2

\* The workspace takes the place of Home and leaves its own.
LEMMA HomeBecomesFacts ==
  ASSUME NEW ts \in TabStates, NEW w \in Workspaces
  PROVE  LET us == HomeBecomes(ts, w)
         IN  /\ us \in TabStates
             /\ ts.active # 0 /\ us.order # <<>> => us.active # 0
             /\ ts.active # 0 /\ ts.order[ts.active] # w
                  /\ Holds(us.order, ts.order[ts.active])
                  => us.active # 0 /\ us.order[us.active] = ts.order[ts.active]
             /\ \A t \in Workspaces : Holds(ts.order, t) => Holds(us.order, t)
             /\ Holds(us.order, w)
<1> w \in TabIds /\ w # Home
  BY TabsAssumption DEF TabIds
<1>1. CASE ~Holds(ts.order, Home)
  <2>1. HomeBecomes(ts, w) = Add(ts, w)
    BY <1>1 DEF HomeBecomes
  <2> QED BY <2>1, AddFacts DEF Follows
<1>2. CASE Holds(ts.order, Home)
  <2> DEFINE rest == Close(ts, w)
             i == Place(rest.order, Home)
             order == [rest.order EXCEPT ![i] = w]
  <2>1. /\ rest \in TabStates /\ Follows(ts, rest)
        /\ \A t : Holds(rest.order, t) <=> Holds(ts.order, t) /\ t # w
    BY CloseFacts
  <2>2. HomeBecomes(ts, w) = [order |-> order, active |-> rest.active]
    BY <1>2 DEF HomeBecomes
  <2> HIDE DEF rest
  <2>3. /\ rest.order \in Seq(TabIds) /\ Len(rest.order) \in Nat
        /\ DOMAIN rest.order = 1 .. Len(rest.order)
        /\ rest.active \in 0 .. Len(rest.order)
        /\ \A j, k \in 1 .. Len(rest.order) :
             rest.order[j] = rest.order[k] => j = k
    BY <2>1, TabStateFacts
  <2>4. Holds(rest.order, Home)
    BY <1>2, <2>1
  <2>5. /\ i \in 1 .. Len(rest.order) /\ rest.order[i] = Home
        /\ \A k \in 1 .. Len(rest.order) : rest.order[k] = Home => k = i
    BY <2>1, <2>4, PlaceFacts
  <2> HIDE DEF i
  <2>6. /\ order \in Seq(TabIds) /\ Len(order) = Len(rest.order)
        /\ \A j \in 1 .. Len(rest.order) :
             order[j] = IF j = i THEN w ELSE rest.order[j]
    BY <2>3, <2>5, ExceptSeq
  <2> HIDE DEF order
  <2>7. DOMAIN order = 1 .. Len(order)
    BY <2>6, LenProperties
  <2>8. \A j \in 1 .. Len(rest.order) : rest.order[j] # w
    BY <2>1, <2>3 DEF Holds
  <2>9. \A j, k \in 1 .. Len(order) : order[j] = order[k] => j = k
    BY <2>3, <2>5, <2>6, <2>8
  <2>10. [order |-> order, active |-> rest.active] \in TabStates
    <3>1. rest.active \in 0 .. Len(order)
      BY <2>3, <2>6
    <3> QED BY <3>1, <2>6, <2>9, IsTabState
  <2>11. ts.active # 0 /\ order # <<>> => rest.active # 0
    <3>1. rest.order # <<>>
      BY <2>3, <2>5
    <3> QED BY <3>1, <2>1 DEF Follows
  <2>12. \A t : Holds(order, t) <=> t = w \/ (Holds(rest.order, t) /\ t # Home)
    <3>1. ASSUME NEW t, Holds(order, t)
          PROVE  t = w \/ (Holds(rest.order, t) /\ t # Home)
      BY <3>1, <2>3, <2>5, <2>6, <2>7 DEF Holds
    <3>2. Holds(order, w)
      BY <2>5, <2>6, <2>7 DEF Holds
    <3>3. ASSUME NEW t, Holds(rest.order, t), t # Home PROVE Holds(order, t)
      <4>1. PICK k \in 1 .. Len(rest.order) : rest.order[k] = t
        BY <3>3, <2>3 DEF Holds
      <4>2. k # i
        BY <4>1, <3>3, <2>5
      <4> QED BY <4>1, <4>2, <2>6, <2>7 DEF Holds
    <3> QED BY <3>1, <3>2, <3>3
  <2>13. ASSUME ts.active # 0, ts.order[ts.active] # w,
                Holds(order, ts.order[ts.active])
         PROVE  rest.active # 0 /\ order[rest.active] = ts.order[ts.active]
    <3>1. Holds(rest.order, ts.order[ts.active]) /\ ts.order[ts.active] # Home
      BY <2>12, <2>13
    <3>2. rest.active # 0 /\ rest.order[rest.active] = ts.order[ts.active]
      BY <3>1, <2>1, <2>13 DEF Follows
    <3>3. rest.active \in 1 .. Len(rest.order) /\ rest.active # i
      BY <3>1, <3>2, <2>3, <2>5
    <3> QED BY <3>2, <3>3, <2>6
  <2>14. /\ \A t \in Workspaces : Holds(ts.order, t) => Holds(order, t)
         /\ Holds(order, w)
    BY <2>1, <2>12, TabsAssumption
  <2> QED BY <2>2, <2>10, <2>11, <2>13, <2>14
<1> QED BY <1>1, <1>2
\* No tab but the one that is added comes.
LEMMA AddOnly ==
  ASSUME NEW ts \in TabStates, NEW tab \in TabIds, NEW t, t # tab,
         Holds(Add(ts, tab).order, t)
  PROVE  Holds(ts.order, t)
<1>1. CASE Holds(ts.order, tab)
  BY <1>1 DEF Add
<1>2. CASE ~Holds(ts.order, tab)
  <2>1. Add(ts, tab).order = Append(ts.order, tab) /\ ts.order \in Seq(TabIds)
    BY <1>2, TabStateFacts DEF Add
  <2> HIDE DEF Add
  <2>2. PICK i \in DOMAIN Append(ts.order, tab) : Append(ts.order, tab)[i] = t
    BY <2>1 DEF Holds
  <2>3. i \in DOMAIN ts.order /\ ts.order[i] = t
    BY <2>1, <2>2
  <2> QED BY <2>3 DEF Holds
<1> QED BY <1>1, <1>2

\* No tab but that of the workspace comes in the place of Home.
LEMMA HomeBecomesOnly ==
  ASSUME NEW ts \in TabStates, NEW w \in Workspaces, NEW t, t # w,
         Holds(HomeBecomes(ts, w).order, t)
  PROVE  Holds(ts.order, t)
<1> w \in TabIds
  BY DEF TabIds
<1>1. CASE ~Holds(ts.order, Home)
  BY <1>1, AddOnly DEF HomeBecomes
<1>2. CASE Holds(ts.order, Home)
  <2> DEFINE rest == Close(ts, w)
             order == [rest.order EXCEPT ![Place(rest.order, Home)] = w]
  <2>1. HomeBecomes(ts, w).order = order
    BY <1>2 DEF HomeBecomes
  <2>2. \A u : Holds(rest.order, u) <=> Holds(ts.order, u) /\ u # w
    BY CloseFacts
  <2> HIDE DEF rest
  <2>3. PICK i \in DOMAIN order : order[i] = t
    BY <2>1 DEF Holds
  <2>4. i \in DOMAIN rest.order /\ rest.order[i] = t
    BY <2>3
  <2> QED BY <2>2, <2>4 DEF Holds
<1> QED BY <1>1, <1>2
-----------------------------------------------------------------------------
(* The inductive invariant *)

\* A wish that stands has its intent, and one to be open its tab.
WishKept ==
  \A w \in Workspaces :
    /\ wish[w] = "open" => w \in pendingOpen /\ Holds(tabs.order, w)
    /\ wish[w] = "shut" => w \in pendingClose

TabInv == TypeOK /\ WishKept

\* What a change of the tabs has to do for the pointer, and does when it
\* follows its tab.
LEMMA FollowingStays ==
  ASSUME TypeOK, Follows(tabs, tabs')
  PROVE  ActiveStays
  BY DEF ActiveStays, ActiveTab, Follows

\* The state of a request is that of one under way, unless it is fresh or used.
LEMMA UnderWayTyped ==
  ASSUME TypeOK, NEW r \in Requests, IsUnderWay(r)
  PROVE  /\ request[r] \in UnderWay
         /\ request[r].ws \in Workspaces
  BY DEF TypeOK, IsUnderWay, UnderWay

-----------------------------------------------------------------------------
(* The user *)

\* An opening adds the tab and the intent with the wish.
LEMMA OpenTabStep ==
  ASSUME TabInv, NEW r \in Requests, NEW w \in Workspaces, OpenTab(r, w)
  PROVE  TabInv' /\ ActiveStays
<1> w \in TabIds
  BY DEF TabIds
<1> USE DEF TabInv
<1>1. /\ tabs' \in TabStates /\ Follows(tabs, tabs')
      /\ \A t : Holds(tabs.order, t) => Holds(tabs'.order, t)
      /\ Holds(tabs'.order, w)
  BY AddFacts DEF OpenTab, TypeOK
<1>2. ServerTypes' /\ StoreTypes'
  BY DEF OpenTab, TypeOK, ServerTypes, StoreTypes, serverVars
<1>3. IntentTypes'
  BY DEF OpenTab, TypeOK, IntentTypes
<1>4. request' \in [Requests -> UnderWay \cup {Fresh, Settled}]
  BY DEF OpenTab, Sent, TypeOK, UnderWay
<1>5. HistoryTypes'
  BY DEF OpenTab, TypeOK, HistoryTypes, Live
<1>6. WishKept'
  BY <1>1 DEF OpenTab, WishKept, TypeOK, HistoryTypes
<1>7. ActiveStays
  BY <1>1, FollowingStays
<1> QED BY <1>1, <1>2, <1>3, <1>4, <1>5, <1>6, <1>7 DEF TypeOK

\* A closing leaves the tabs and has its intent with the wish.
LEMMA CloseTabStep ==
  ASSUME TabInv, NEW r \in Requests, NEW w \in Workspaces, CloseTab(r, w)
  PROVE  TabInv' /\ ActiveStays
<1> USE DEF TabInv
<1>1. tabs' = tabs
  BY DEF CloseTab
<1>2. ServerTypes' /\ StoreTypes'
  BY DEF CloseTab, TypeOK, ServerTypes, StoreTypes, serverVars
<1>3. IntentTypes'
  BY DEF CloseTab, TypeOK, IntentTypes
<1>4. request' \in [Requests -> UnderWay \cup {Fresh, Settled}]
  BY DEF CloseTab, Sent, TypeOK, UnderWay
<1>5. HistoryTypes'
  BY DEF CloseTab, TypeOK, HistoryTypes, Live
<1>6. WishKept'
  BY <1>1 DEF CloseTab, WishKept, TypeOK, HistoryTypes
<1>7. ActiveStays
  BY <1>1, FollowingStays DEF Follows
<1> QED BY <1>1, <1>2, <1>3, <1>4, <1>5, <1>6, <1>7 DEF TypeOK

\* Home is closed or added, the user goes to a tab: nothing but the tabs.
LEMMA HomeStep ==
  ASSUME TabInv, CloseHome \/ EnsureHome \/ (\E tab \in TabIds : SetActive(tab))
  PROVE  TabInv' /\ ActiveStays
<1> USE DEF TabInv
<1> Home \in TabIds /\ Home \notin Workspaces
  BY TabsAssumption DEF TabIds
<1>1. UNCHANGED <<serverVars, hydrated, ids, entry, intentVars, request, wish,
                  unheard, undone>>
  BY DEF CloseHome, EnsureHome, SetActive
<1>2. /\ tabs' \in TabStates
      /\ \A w \in Workspaces : Holds(tabs.order, w) => Holds(tabs'.order, w)
      /\ ActiveStays
  <2>1. CASE CloseHome
    <3>1. /\ tabs' \in TabStates /\ Follows(tabs, tabs')
          /\ \A w \in Workspaces : Holds(tabs.order, w) => Holds(tabs'.order, w)
      BY <2>1, CloseFacts DEF CloseHome, TypeOK
    <3> QED BY <3>1, FollowingStays
  <2>2. CASE EnsureHome
    <3>1. /\ tabs' \in TabStates /\ Follows(tabs, tabs')
          /\ \A w : Holds(tabs.order, w) => Holds(tabs'.order, w)
      BY <2>2, AddFacts DEF EnsureHome, TypeOK
    <3> QED BY <3>1, FollowingStays
  <2>3. ASSUME NEW tab \in TabIds, SetActive(tab)
        PROVE  /\ tabs' \in TabStates
               /\ \A w \in Workspaces : Holds(tabs.order, w) => Holds(tabs'.order, w)
               /\ ActiveStays
    <3>1. /\ tabs' \in TabStates /\ tabs'.order = tabs.order
          /\ tabs.active # 0 => tabs'.active # 0
      BY <2>3, PointFacts DEF SetActive, TypeOK
    <3> QED BY <2>3, <3>1 DEF ActiveStays
  <2> QED BY <2>1, <2>2, <2>3
<1>3. ServerTypes' /\ StoreTypes' /\ IntentTypes' /\ HistoryTypes'
  BY <1>1 DEF TypeOK, ServerTypes, StoreTypes, IntentTypes, HistoryTypes,
              serverVars, intentVars
<1>4. request' \in [Requests -> UnderWay \cup {Fresh, Settled}]
  BY <1>1 DEF TypeOK
<1>5. WishKept'
  BY <1>1, <1>2 DEF WishKept, intentVars
<1> QED BY <1>2, <1>3, <1>4, <1>5 DEF TypeOK

\* Home becomes a workspace: the only step that moves an active tab.
LEMMA ConvertHomeStep ==
  ASSUME TabInv, NEW r \in Requests, NEW w \in Workspaces, ConvertHome(r, w)
  PROVE  TabInv' /\ ActiveStays
<1> USE DEF TabInv
<1>1. /\ tabs' \in TabStates
      /\ tabs.active # 0 /\ tabs'.order # <<>> => tabs'.active # 0
      /\ tabs.active # 0 /\ tabs.order[tabs.active] # w
           /\ Holds(tabs'.order, tabs.order[tabs.active])
           => tabs'.active # 0 /\ tabs'.order[tabs'.active] = tabs.order[tabs.active]
      /\ \A t \in Workspaces : Holds(tabs.order, t) => Holds(tabs'.order, t)
      /\ Holds(tabs'.order, w)
  BY HomeBecomesFacts DEF ConvertHome, TypeOK
<1>2. ServerTypes' /\ StoreTypes'
  BY DEF ConvertHome, TypeOK, ServerTypes, StoreTypes, serverVars
<1>3. IntentTypes'
  BY DEF ConvertHome, TypeOK, IntentTypes, intentVars
<1>4. request' \in [Requests -> UnderWay \cup {Fresh, Settled}]
  <2>1. Unawaited("open", w) \in UnderWay
    BY DEF Unawaited, UnderWay
  <2> QED BY <2>1 DEF ConvertHome, TypeOK
<1>5. HistoryTypes'
  BY DEF ConvertHome, TypeOK, HistoryTypes, Live
<1>6. WishKept'
  BY <1>1 DEF ConvertHome, WishKept, TypeOK, HistoryTypes, intentVars
<1>7. ActiveStays
  <2>1. tabs' = HomeBecomes(tabs, w) /\ w # Home
    BY TabsAssumption DEF ConvertHome
  <2> QED BY <1>1, <2>1 DEF ActiveStays, ActiveTab
<1> QED BY <1>1, <1>2, <1>3, <1>4, <1>5, <1>6, <1>7 DEF TypeOK

\* A workspace the window does not know leaves the tabs, and its wish goes.
LEMMA StaleRouteStep ==
  ASSUME TabInv, NEW w \in Workspaces, StaleRoute(w)
  PROVE  TabInv' /\ ActiveStays
<1> USE DEF TabInv
<1>1. /\ tabs' \in TabStates /\ Follows(tabs, tabs')
      /\ \A t : Holds(tabs'.order, t) <=> Holds(tabs.order, t) /\ t # w
  BY CloseFacts DEF StaleRoute, TypeOK
<1>2. ServerTypes' /\ StoreTypes' /\ IntentTypes'
  BY DEF StaleRoute, TypeOK, ServerTypes, StoreTypes, IntentTypes, serverVars,
         intentVars
<1>3. request' \in [Requests -> UnderWay \cup {Fresh, Settled}] /\ HistoryTypes'
  BY DEF StaleRoute, TypeOK, HistoryTypes
<1>4. WishKept'
  BY <1>1 DEF StaleRoute, WishKept, TypeOK, HistoryTypes, intentVars
<1> QED BY <1>1, <1>2, <1>3, <1>4, FollowingStays DEF TypeOK

\* A deletion takes the tab with the entry and the wish, or does nothing.
LEMMA DeleteStep ==
  ASSUME TabInv, NEW r \in Requests, NEW w \in Workspaces, Delete(r, w)
  PROVE  TabInv' /\ ActiveStays
<1> USE DEF TabInv
<1>1. /\ tabs' \in TabStates /\ Follows(tabs, tabs')
      /\ \/ tabs' = tabs /\ wish' = wish
         \/ /\ \A t : Holds(tabs'.order, t) <=> Holds(tabs.order, t) /\ t # w
            /\ wish' = [wish EXCEPT ![w] = "none"]
  <2>1. CASE entry[w] \in Live
    BY <2>1, CloseFacts DEF Delete, TypeOK
  <2>2. CASE entry[w] \notin Live
    BY <2>2 DEF Delete, TypeOK, Follows
  <2> QED BY <2>1, <2>2
<1>2. ServerTypes' /\ IntentTypes'
  BY DEF Delete, TypeOK, ServerTypes, IntentTypes, serverVars, intentVars
<1>3. StoreTypes'
  BY DEF Delete, TypeOK, StoreTypes
<1>4. request' \in [Requests -> UnderWay \cup {Fresh, Settled}]
  <2>1. ASSUME NEW prev \in Live \cup {"nothing"}, NEW had \in BOOLEAN,
               Sent(r, "delete", w, FALSE, prev, had)
        PROVE  request' \in [Requests -> UnderWay \cup {Fresh, Settled}]
    BY <2>1 DEF Sent, TypeOK, UnderWay
  <2>2. Holds(tabs.order, w) \in BOOLEAN
    BY DEF Holds
  <2>3. CASE entry[w] \in Live
    <3>1. Sent(r, "delete", w, FALSE, entry[w], Holds(tabs.order, w))
      BY <2>3 DEF Delete
    <3> QED BY <3>1, <2>1, <2>2, <2>3
  <2>4. CASE entry[w] \notin Live
    BY <2>4, <2>1 DEF Delete
  <2> QED BY <2>3, <2>4
<1>5. HistoryTypes'
  BY <1>1 DEF Delete, TypeOK, HistoryTypes
<1>6. WishKept'
  BY <1>1 DEF Delete, WishKept, TypeOK, HistoryTypes, intentVars
<1> QED BY <1>1, <1>2, <1>3, <1>4, <1>5, <1>6, FollowingStays DEF TypeOK
-----------------------------------------------------------------------------
(* The server and the stream *)

WireTypes == UNION {[S -> Live \cup {"deleted"}] : S \in SUBSET Workspaces}

\* A frame that is sent keeps the types of the wire.
LEMMA PushTyped ==
  ASSUME TypeOK, NEW frame \in WireTypes
  PROVE  Push(frame) \in Seq(WireTypes)
<1>1. wire \in Seq(WireTypes)
  BY DEF TypeOK, ServerTypes, WireTypes
<1> QED BY <1>1 DEF Push

\* A change of one workspace is a frame.
LEMMA ChangeTyped ==
  ASSUME NEW w \in Workspaces, NEW state \in Live \cup {"deleted"}
  PROVE  Change(w, state) \in WireTypes
<1>1. Change(w, state) \in [{w} -> Live \cup {"deleted"}]
  BY DEF Change
<1>2. {w} \in SUBSET Workspaces
  OBVIOUS
<1> QED BY <1>1, <1>2 DEF WireTypes

\* A request commits: the window sees nothing of it yet.
LEMMA CommitStep ==
  ASSUME TabInv, NEW r \in Requests, Commit(r)
  PROVE  TabInv' /\ ActiveStays
<1> USE DEF TabInv
<1> DEFINE q == request[r]
           state == CASE q.kind = "open"   -> "open"
                      [] q.kind = "close"  -> "shut"
                      [] q.kind = "delete" -> "deleted"
<1>1. q \in UnderWay /\ q.ws \in Workspaces
  BY UnderWayTyped DEF Commit
<1>2. state \in Live \cup {"deleted"}
  BY <1>1 DEF UnderWay, Live
<1>3. Push(Change(q.ws, state)) \in Seq(WireTypes)
  <2> HIDE DEF q, state
  <2> QED BY <1>1, <1>2, ChangeTyped, PushTyped
<1>4. ServerTypes'
  <2>1. wire' \in Seq(WireTypes)
    BY <1>3 DEF Commit, TypeOK, ServerTypes, WireTypes
  <2>2. row' \in [Workspaces -> Live \cup {"none", "deleted"}]
    <3>1. row' = [row EXCEPT ![q.ws] = state] \/ row' = row
      BY DEF Commit
    <3> HIDE DEF q, state
    <3> QED BY <3>1, <1>1, <1>2 DEF TypeOK, ServerTypes
  <2>3. UNCHANGED <<linked, moves, drops>>
    BY DEF Commit
  <2> QED BY <2>1, <2>2, <2>3 DEF TypeOK, ServerTypes, WireTypes
<1>5. request' \in [Requests -> UnderWay \cup {Fresh, Settled}]
  <2>1. [q EXCEPT !.web = "done"] \in UnderWay
    BY <1>1 DEF UnderWay
  <2> QED BY <2>1 DEF Commit, TypeOK
<1>6. UNCHANGED <<hydrated, ids, entry, tabs, pendingClose, pendingOpen, wish,
                  undone>>
  BY DEF Commit, intentVars
<1>7. HistoryTypes'
  <2>1. unheard' = unheard \cup {q.ws} \/ unheard' = unheard
    BY DEF Commit
  <2> HIDE DEF q
  <2> QED BY <2>1, <1>1, <1>6 DEF TypeOK, HistoryTypes
<1>8. StoreTypes' /\ IntentTypes' /\ (tabs \in TabStates)' /\ WishKept'
  BY <1>6 DEF TypeOK, StoreTypes, IntentTypes, WishKept
<1>9. ActiveStays
  BY <1>6, FollowingStays DEF Follows
<1> QED BY <1>4, <1>5, <1>7, <1>8, <1>9 DEF TypeOK

\* What others do, and the coming and going of the stream.
LEMMA WorldStep ==
  ASSUME TabInv, (\E w \in Workspaces : Elsewhere(w)) \/ Connect \/ Drop
  PROVE  TabInv' /\ ActiveStays
<1> USE DEF TabInv
<1>1. UNCHANGED <<hydrated, ids, entry, tabs, pendingClose, pendingOpen, request,
                  wish, undone>>
  BY DEF Elsewhere, Connect, Drop, intentVars
<1>2. ServerTypes' /\ unheard' \subseteq Workspaces
  <2>1. ASSUME NEW w \in Workspaces, Elsewhere(w)
        PROVE  ServerTypes' /\ unheard' \subseteq Workspaces
    <3>1. PICK state \in Live \cup {"deleted"} :
            /\ moves' = moves \/ (moves < MaxMoves /\ moves' = moves + 1)
            /\ row' = [row EXCEPT ![w] = state]
            /\ wire' = Push(Change(w, state))
            /\ unheard' \in {unheard \cup {w}, unheard}
      BY <2>1 DEF Elsewhere
    <3>2. wire' \in Seq(WireTypes)
      BY <3>1, ChangeTyped, PushTyped
    <3>3. row' \in [Workspaces -> Live \cup {"none", "deleted"}]
      BY <3>1 DEF TypeOK, ServerTypes
    <3>4. moves' \in 0 .. MaxMoves
      BY <3>1, BoundsAssumption DEF TypeOK, ServerTypes
    <3>5. UNCHANGED <<linked, drops>>
      BY <2>1 DEF Elsewhere
    <3>6. unheard' \subseteq Workspaces
      BY <3>1 DEF TypeOK, HistoryTypes
    <3> QED BY <3>2, <3>3, <3>4, <3>5, <3>6 DEF TypeOK, ServerTypes, WireTypes
  <2>2. CASE Connect
    <3> DEFINE live == {v \in Workspaces : row[v] \in Live}
               dump == [w \in live |-> row[w]]
    <3>1. dump \in [live -> Live \cup {"deleted"}] /\ live \in SUBSET Workspaces
      OBVIOUS
    <3>2. dump \in WireTypes
      <4> HIDE DEF dump, live
      <4> QED BY <3>1 DEF WireTypes
    <3>3. wire' = <<dump>>
      BY <2>2 DEF Connect
    <3> HIDE DEF dump, live
    <3>4. wire' \in Seq(WireTypes)
      BY <3>2, <3>3
    <3>5. UNCHANGED <<row, moves, drops, unheard>> /\ linked' = TRUE
      BY <2>2 DEF Connect
    <3> QED BY <3>4, <3>5 DEF TypeOK, ServerTypes, WireTypes, HistoryTypes
  <2>3. CASE Drop
    <3>1. <<>> \in Seq(WireTypes)
      OBVIOUS
    <3>2. wire' = <<>> /\ linked' = FALSE /\ UNCHANGED <<row, moves, unheard>>
      BY <2>3 DEF Drop
    <3>3. drops' \in 0 .. MaxDrops
      BY <2>3, BoundsAssumption DEF Drop, TypeOK, ServerTypes
    <3> QED BY <3>1, <3>2, <3>3 DEF TypeOK, ServerTypes, WireTypes, HistoryTypes
  <2> QED BY <2>1, <2>2, <2>3
<1>3. /\ HistoryTypes' /\ StoreTypes' /\ IntentTypes' /\ (tabs \in TabStates)'
      /\ request' \in [Requests -> UnderWay \cup {Fresh, Settled}] /\ WishKept'
  BY <1>1, <1>2 DEF TypeOK, HistoryTypes, StoreTypes, IntentTypes, WishKept
<1>4. ActiveStays
  BY <1>1, FollowingStays DEF Follows
<1> QED BY <1>2, <1>3, <1>4 DEF TypeOK

\* What a frame touches stays a request.
LEMMA TouchedTyped ==
  ASSUME TypeOK, NEW carried
  PROVE  Touched(carried) \in [Requests -> UnderWay \cup {Fresh, Settled}]
<1>1. ASSUME NEW r \in Requests, IsUnderWay(r), NEW b \in BOOLEAN
      PROVE  [request[r] EXCEPT !.touched = b] \in UnderWay
  BY <1>1, UnderWayTyped DEF UnderWay
<1>2. \A r \in Requests : (request[r].prev # "nothing") \in BOOLEAN
  OBVIOUS
<1> QED BY <1>1, <1>2 DEF Touched, TypeOK

\* The head of the wire is a frame, and its rest is a wire.
LEMMA WireFacts ==
  ASSUME TypeOK, wire # <<>>
  PROVE  /\ Head(wire) \in [DOMAIN Head(wire) -> Live \cup {"deleted"}]
         /\ DOMAIN Head(wire) \subseteq Workspaces
         /\ Tail(wire) \in Seq(WireTypes)
<1>1. wire \in Seq(WireTypes)
  BY DEF TypeOK, ServerTypes, WireTypes
<1>2. Head(wire) \in WireTypes /\ Tail(wire) \in Seq(WireTypes)
  BY <1>1, HeadTailProperties
<1>3. PICK S \in SUBSET Workspaces : Head(wire) \in [S -> Live \cup {"deleted"}]
  BY <1>2 DEF WireTypes
<1> QED BY <1>2, <1>3

\* A frame adds tabs at the end, and says of a workspace what the user means.
LEMMA DeliverStep ==
  ASSUME TabInv, Deliver
  PROVE  TabInv' /\ ActiveStays
<1> USE DEF TabInv
<1> DEFINE frame == Head(wire)
           told == [w \in Workspaces |->
                      IF w \in DOMAIN frame THEN OpenAsMeant(w, frame[w])
                                            ELSE entry[w]]
           adds == IF hydrated THEN {w \in DOMAIN frame \ ids : told[w] = "open"}
                   ELSE {w \in DOMAIN frame : told[w] = "open" /\
                           \A v \in Workspaces : ~Holds(tabs.order, v)}
           new == {w \in adds : ~Holds(tabs.order, w)}
<1>1. /\ frame \in [DOMAIN frame -> Live \cup {"deleted"}]
      /\ DOMAIN frame \subseteq Workspaces
      /\ Tail(wire) \in Seq(WireTypes)
  BY WireFacts DEF Deliver
<1>2. /\ entry' = told
      /\ ids' = ids \cup DOMAIN frame
      /\ request' = Touched(DOMAIN frame)
      /\ hydrated' = TRUE /\ wire' = Tail(wire)
      /\ undone' = undone \ DOMAIN frame
      /\ UNCHANGED <<row, linked, moves, drops, intentVars, wish, unheard>>
  BY DEF Deliver
<1>3. PICK news \in SetToSeqs(new) :
        tabs' = [order |-> tabs.order \o news, active |-> tabs.active]
  BY DEF Deliver
<1>4. \A w \in DOMAIN frame : frame[w] \in Live
  BY <1>1 DEF Deliver
<1>5. StoreTypes'
  <2>1. \A w \in Workspaces : told[w] \in Live \cup {"never", "tomb"}
    BY <1>1, <1>4 DEF OpenAsMeant, TypeOK, StoreTypes, Live
  <2>2. told = [w \in Workspaces |-> told[w]]
    OBVIOUS
  <2> HIDE DEF told, frame
  <2> QED BY <1>1, <1>2, <2>1, <2>2 DEF TypeOK, StoreTypes
<1>6. new \subseteq Workspaces /\ \A w \in new : ~Holds(tabs.order, w)
  BY <1>1
<1> HIDE DEF frame, told, adds, new
<1>7. /\ news \in Seq(TabIds)
      /\ \A i, j \in 1 .. Len(news) : news[i] = news[j] => i = j
      /\ \A i \in 1 .. Len(news) : ~Holds(tabs.order, news[i])
  <2>1. Cardinality(new) \in Nat
    BY <1>6, TabsAssumption, FS_Subset, FS_CardinalityType
  <2>2. /\ news \in [1 .. Cardinality(new) -> new]
        /\ \A i, j \in 1 .. Cardinality(new) : i # j => news[i] # news[j]
    BY DEF SetToSeqs
  <2>3. news \in Seq(TabIds) /\ Len(news) = Cardinality(new)
    BY <2>1, <2>2, <1>6 DEF TabIds
  <2> QED BY <2>1, <2>2, <2>3, <1>6
<1>8. /\ tabs' \in TabStates /\ Follows(tabs, tabs')
      /\ \A t : Holds(tabs.order, t) => Holds(tabs'.order, t)
  BY <1>3, <1>7, JoinFacts DEF TypeOK
<1>9. ServerTypes' /\ IntentTypes' /\ HistoryTypes'
  BY <1>1, <1>2 DEF TypeOK, ServerTypes, IntentTypes, HistoryTypes, intentVars,
                    WireTypes
<1>10. request' \in [Requests -> UnderWay \cup {Fresh, Settled}]
  BY <1>2, TouchedTyped
<1>11. WishKept'
  BY <1>2, <1>8 DEF WishKept, intentVars
<1>12. ActiveStays
  BY <1>8, FollowingStays
<1> QED BY <1>5, <1>8, <1>9, <1>10, <1>11, <1>12 DEF TypeOK

\* The frame of a deletion takes the tab and the wish.
LEMMA DeliverDeletionStep ==
  ASSUME TabInv, NEW w \in Workspaces, DeliverDeletion(w)
  PROVE  TabInv' /\ ActiveStays
<1> USE DEF TabInv
<1>1. /\ tabs' \in TabStates /\ Follows(tabs, tabs')
      /\ \A t : Holds(tabs'.order, t) <=> Holds(tabs.order, t) /\ t # w
  BY CloseFacts DEF DeliverDeletion, TypeOK
<1>2. Tail(wire) \in Seq(WireTypes)
  BY WireFacts DEF DeliverDeletion
<1>3. ServerTypes' /\ IntentTypes'
  BY <1>2 DEF DeliverDeletion, TypeOK, ServerTypes, IntentTypes, intentVars, WireTypes
<1>4. StoreTypes'
  BY DEF DeliverDeletion, TypeOK, StoreTypes
<1>5. request' \in [Requests -> UnderWay \cup {Fresh, Settled}]
  BY TouchedTyped DEF DeliverDeletion
<1>6. HistoryTypes'
  BY DEF DeliverDeletion, TypeOK, HistoryTypes
<1>7. WishKept'
  BY <1>1 DEF DeliverDeletion, WishKept, TypeOK, HistoryTypes, intentVars
<1> QED BY <1>1, <1>3, <1>4, <1>5, <1>6, <1>7, FollowingStays DEF TypeOK

-----------------------------------------------------------------------------
(* The answers *)

\* A deletion that has succeeded ends the intents with the wish.
LEMMA SucceedStep ==
  ASSUME TabInv, NEW r \in Requests, Succeed(r)
  PROVE  TabInv' /\ ActiveStays
<1> USE DEF TabInv
<1> DEFINE w == request[r].ws
<1>1. w \in Workspaces
  BY UnderWayTyped DEF Succeed, Awaited
<1>2. /\ \/ /\ pendingClose' = pendingClose \ {w}
            /\ pendingOpen' = pendingOpen \ {w}
            /\ wish' = [wish EXCEPT ![w] = "none"]
         \/ UNCHANGED <<intentVars, wish>>
      /\ request' = [request EXCEPT ![r] = Settled]
      /\ UNCHANGED <<serverVars, hydrated, ids, entry, tabs, unheard, undone>>
  BY DEF Succeed
<1> HIDE DEF w
<1>3. ServerTypes' /\ StoreTypes' /\ (tabs \in TabStates)'
  BY <1>2 DEF TypeOK, ServerTypes, StoreTypes, serverVars
<1>4. IntentTypes' /\ HistoryTypes'
  BY <1>1, <1>2 DEF TypeOK, IntentTypes, HistoryTypes, intentVars
<1>5. request' \in [Requests -> UnderWay \cup {Fresh, Settled}]
  BY <1>2 DEF TypeOK
<1>6. WishKept'
  BY <1>1, <1>2 DEF WishKept, TypeOK, HistoryTypes, intentVars
<1>7. ActiveStays
  BY <1>2, FollowingStays DEF Follows
<1> QED BY <1>3, <1>4, <1>5, <1>6, <1>7 DEF TypeOK

\* A failure undoes the intent with the wish that goes with it, or puts a tab
\* back.
LEMMA FailStep ==
  ASSUME TabInv, NEW r \in Requests, Fail(r)
  PROVE  TabInv' /\ ActiveStays
<1> USE DEF TabInv
<1> DEFINE q == request[r]
           w == q.ws
<1>1. q \in UnderWay /\ w \in Workspaces /\ w \in TabIds
  BY UnderWayTyped DEF Fail, Awaited, TabIds
<1>2. /\ request' = [request EXCEPT ![r] = Settled]
         \/ request' = [request EXCEPT ![r] = Unawaited(q.kind, w)]
      /\ undone' \in {undone, undone \cup {w}}
      /\ \/ /\ pendingOpen' = pendingOpen \ {w}
            /\ tabs' \in {Close(tabs, w), tabs}
            /\ wish' = [wish EXCEPT ![w] = IF @ = "open" THEN "none" ELSE @]
            /\ UNCHANGED <<pendingClose, entry>>
         \/ /\ pendingClose' = pendingClose \ {w}
            /\ wish' = [wish EXCEPT ![w] = IF @ = "shut" THEN "none" ELSE @]
            /\ UNCHANGED <<pendingOpen, entry, tabs>>
         \/ /\ \/ entry' = [entry EXCEPT ![w] = q.prev] /\ q.prev # "nothing"
               \/ entry' = entry
            /\ tabs' \in {Add(tabs, w), tabs}
            /\ UNCHANGED <<intentVars, wish>>
      /\ UNCHANGED <<serverVars, hydrated, ids, unheard>>
  BY DEF Fail, Restores, WithoutClose
<1>3. Unawaited(q.kind, w) \in UnderWay
  BY <1>1 DEF Unawaited, UnderWay
<1>4. q.prev # "nothing" => q.prev \in Live
  BY <1>1 DEF UnderWay
<1> HIDE DEF q, w
<1>5. /\ tabs' \in TabStates /\ Follows(tabs, tabs')
      /\ \A t : t # w /\ Holds(tabs.order, t) => Holds(tabs'.order, t)
  <2>1. CASE tabs' = Close(tabs, w)
    BY <2>1, CloseFacts DEF TypeOK
  <2>2. CASE tabs' = Add(tabs, w)
    BY <2>2, <1>1, AddFacts DEF TypeOK
  <2>3. CASE tabs' = tabs
    BY <2>3 DEF TypeOK, Follows
  <2> QED BY <1>2, <2>1, <2>2, <2>3
<1>6. ServerTypes' /\ HistoryTypes' /\ IntentTypes'
  BY <1>1, <1>2 DEF TypeOK, ServerTypes, HistoryTypes, IntentTypes, serverVars,
                    intentVars
<1>7. StoreTypes'
  BY <1>1, <1>2, <1>4 DEF TypeOK, StoreTypes
<1>8. request' \in [Requests -> UnderWay \cup {Fresh, Settled}]
  BY <1>2, <1>3 DEF TypeOK
<1>9. WishKept'
  <2>1. ASSUME NEW v \in Workspaces, v # w
        PROVE  /\ wish'[v] = "open" => v \in pendingOpen' /\ Holds(tabs'.order, v)
               /\ wish'[v] = "shut" => v \in pendingClose'
    BY <2>1, <1>1, <1>2, <1>5 DEF WishKept, TypeOK, HistoryTypes, intentVars
  <2>2. /\ wish'[w] = "open" => w \in pendingOpen' /\ Holds(tabs'.order, w)
        /\ wish'[w] = "shut" => w \in pendingClose'
    <3>1. wish'[w] = "open" => Holds(tabs'.order, w)
      <4>1. CASE tabs' \in {Add(tabs, w), tabs}
        <5>1. Holds(tabs.order, w) => Holds(tabs'.order, w)
          BY <4>1, <1>1, AddFacts DEF TypeOK
        <5> QED BY <5>1, <1>1, <1>2 DEF WishKept, TypeOK, HistoryTypes
      <4>2. CASE tabs' \notin {Add(tabs, w), tabs}
        BY <4>2, <1>1, <1>2 DEF TypeOK, HistoryTypes
      <4> QED BY <4>1, <4>2
    <3> QED BY <3>1, <1>1, <1>2 DEF WishKept, TypeOK, HistoryTypes, intentVars
  <2> QED BY <2>1, <2>2 DEF WishKept
<1>10. ActiveStays
  BY <1>5, FollowingStays
<1> QED BY <1>5, <1>6, <1>7, <1>8, <1>9, <1>10 DEF TypeOK
-----------------------------------------------------------------------------
(* The theorems *)

LEMMA InitInv ==
  ASSUME Init
  PROVE  TabInv
<1>1. tabs \in TabStates
  <2>1. tabs.order \in StoredOrders
    BY DEF Init
  <2>2. PICK S \in SUBSET TabIds : tabs.order \in SetToSeqs(S)
    BY <2>1 DEF StoredOrders
  <2>3. IsFiniteSet(TabIds)
    BY TabsAssumption, FS_AddElement DEF TabIds
  <2>4. Cardinality(S) \in Nat
    BY <2>3, FS_Subset, FS_CardinalityType
  <2>5. /\ tabs.order \in [1 .. Cardinality(S) -> S]
        /\ \A i, j \in 1 .. Cardinality(S) : i # j => tabs.order[i] # tabs.order[j]
    BY <2>2 DEF SetToSeqs
  <2>6. tabs.order \in Seq(TabIds) /\ Len(tabs.order) = Cardinality(S)
    BY <2>4, <2>5
  <2>7. tabs = [order |-> tabs.order, active |-> tabs.active]
        /\ tabs.active \in 0 .. Cardinality(TabIds) /\ tabs.active <= Len(tabs.order)
    BY DEF Init
  <2>8. Cardinality(TabIds) \in Nat
    BY <2>3, FS_CardinalityType
  <2>9. tabs.active \in 0 .. Len(tabs.order)
    BY <2>4, <2>6, <2>7, <2>8
  <2>10. \A i, j \in 1 .. Len(tabs.order) : tabs.order[i] = tabs.order[j] => i = j
    BY <2>5, <2>6
  <2>11. [order |-> tabs.order, active |-> tabs.active] \in TabStates
    BY <2>6, <2>9, <2>10, IsTabState
  <2> QED BY <2>7, <2>11
<1>2. <<>> \in Seq(WireTypes)
  OBVIOUS
<1>3. ServerTypes
  <2>1. wire \in Seq(WireTypes)
    BY <1>2 DEF Init
  <2>2. moves \in 0 .. MaxMoves /\ drops \in 0 .. MaxDrops
    BY BoundsAssumption DEF Init
  <2>3. row \in [Workspaces -> Live \cup {"none", "deleted"}] /\ linked \in BOOLEAN
    BY DEF Init, Live
  <2> QED BY <2>1, <2>2, <2>3 DEF ServerTypes, WireTypes
<1>4. StoreTypes /\ IntentTypes /\ HistoryTypes
  BY DEF Init, StoreTypes, IntentTypes, HistoryTypes
<1>5. request \in [Requests -> UnderWay \cup {Fresh, Settled}] /\ WishKept
  BY DEF Init, WishKept
<1> QED BY <1>1, <1>3, <1>4, <1>5 DEF TabInv, TypeOK

LEMMA NextInv ==
  ASSUME TabInv, [Next]_vars
  PROVE  TabInv' /\ ActiveStays
<1>1. CASE TabActs
  BY <1>1, OpenTabStep, CloseTabStep, ConvertHomeStep, DeleteStep, HomeStep,
     StaleRouteStep DEF TabActs
<1>2. CASE WorldActs
  BY <1>2, CommitStep, WorldStep DEF WorldActs
<1>3. CASE WindowActs
  BY <1>3, DeliverStep, DeliverDeletionStep, SucceedStep, FailStep DEF WindowActs
<1>4. CASE UNCHANGED vars
  <2>1. TabInv'
    BY <1>4 DEF vars, serverVars, intentVars, TabInv, TypeOK, ServerTypes,
                StoreTypes, IntentTypes, HistoryTypes, WishKept
  <2>2. ActiveStays
    BY <1>4 DEF vars, ActiveStays, ActiveTab
  <2> QED BY <2>1, <2>2
<1> QED BY <1>1, <1>2, <1>3, <1>4 DEF Next

LEMMA AlwaysInv == Spec => []TabInv
<1>1. Init => TabInv
  BY InitInv
<1>2. TabInv /\ [Next]_vars => TabInv'
  BY NextInv
<1> QED BY <1>1, <1>2, PTL DEF Spec

\* The tabs are an order without duplicates with a pointer into it, whatever is
\* opened, closed, converted, deleted and restored; and the two intents for a
\* workspace exclude each other.
THEOREM TabsTypeCorrect == Spec => []TypeOK
<1>1. TabInv => TypeOK
  BY DEF TabInv
<1> QED BY <1>1, AlwaysInv, PTL

\* The last thing the user asked of a tab is what the window shows, for any
\* number of workspaces and requests, in whatever order requests commit, fail
\* and frames arrive.
THEOREM IntentsHold == Spec => []IntentHolds
<1>1. TabInv => IntentHolds
  BY DEF TabInv, TypeOK, IntentTypes, WishKept, IntentHolds, Shown
<1> QED BY <1>1, AlwaysInv, PTL

\* The active pointer stays on its tab, however many tabs there are and wherever
\* among them tabs are added and removed.
THEOREM ActiveFollows == Spec => ActiveKeepsItsTab
<1>1. TabInv /\ [Next]_vars => [ActiveStays]_vars
  BY NextInv
<1> QED BY <1>1, AlwaysInv, PTL DEF Spec, ActiveKeepsItsTab

-----------------------------------------------------------------------------
(* What the window still has to hear.  That the store agrees with the server  *)
(* at rest is what is left, when nothing is on its way, of what holds always:  *)
(* the last frame about a workspace says what the server says; and when no     *)
(* frame is left the window holds that, or the snapshot of a deletion under    *)
(* way does, which a failure would put back.                                   *)

\* The frames of a queue that tell of w, and what the last of them says.
TellsOf(queue, w) == {i \in DOMAIN queue : w \in DOMAIN queue[i]}
LastSays(queue, w, state) ==
  \A i \in TellsOf(queue, w) :
    (\A j \in TellsOf(queue, w) : j <= i) => queue[i][w] = state

\* A deletion under way whose snapshot a failure would restore.
Snapshot(q) == q \notin {Fresh, Settled} /\ q.prev # "nothing" /\ ~q.touched

Snapshots ==
  \A r \in Requests : Snapshot(request[r]) =>
    /\ request[r].kind = "delete" /\ request[r].awaited
    /\ entry[request[r].ws] = "tomb"
    /\ \A s \in Requests :
         Snapshot(request[s]) /\ request[s].ws = request[r].ws => s = r

\* A deletion the server has carried out and the window waits for.
CarriedOut(q) == q \notin {Fresh, Settled} /\ q.kind = "delete" /\ q.web = "done"

DoneDeletions ==
  \A r \in Requests : CarriedOut(request[r]) => row[request[r].ws] = "deleted"

DeletionsTold ==
  \A w \in Workspaces : \A i \in TellsOf(wire, w) :
    wire[i][w] = "deleted" =>
      w \in unheard /\ \A j \in TellsOf(wire, w) : j <= i

UnheardAreDeleted == \A w \in unheard : row[w] = "deleted"

Gone(w) ==
  /\ TellsOf(wire, w) = {}
  /\ w \notin ids /\ entry[w] = "tomb" /\ ~Holds(tabs.order, w)
  /\ \A r \in Requests : ~(Snapshot(request[r]) /\ request[r].ws = w)

GoneForGood == \A w \in Workspaces \ unheard : row[w] = "deleted" => Gone(w)

AsServed(w, state) ==
  state = row[w] \/ w \in pendingOpen \cup pendingClose \cup undone

Held(w) ==
  /\ w \in ids
  /\ \/ entry[w] \in Live /\ AsServed(w, entry[w])
     \/ \E r \in Requests : /\ Snapshot(request[r]) /\ request[r].ws = w
                            /\ AsServed(w, request[r].prev)

Followed ==
  linked => \A w \in Workspaces : row[w] \in Live =>
    /\ LastSays(wire, w, row[w])
    /\ TellsOf(wire, w) = {} => Held(w)

FollowInv == Snapshots /\ DoneDeletions /\ DeletionsTold /\ UnheardAreDeleted
             /\ GoneForGood /\ Followed
-----------------------------------------------------------------------------
(* Frames *)

\* A queue that has become longer by a frame on one workspace.
Longer(longer, queue, w, state) == longer = Append(queue, Change(w, state))

\* A frame that is sent is news of the one workspace it tells of,
LEMMA PushOthers ==
  ASSUME NEW queue \in Seq(WireTypes), NEW w \in Workspaces, NEW state,
         NEW v \in Workspaces, NEW longer, Longer(longer, queue, w, state), v # w
  PROVE  /\ TellsOf(longer, v) = TellsOf(queue, v)
         /\ \A i \in TellsOf(queue, v) : longer[i] = queue[i]
<1>1. /\ DOMAIN longer = DOMAIN queue \cup {Len(queue) + 1}
      /\ longer[Len(queue) + 1] = Change(w, state)
      /\ \A i \in DOMAIN queue : longer[i] = queue[i]
  BY DEF Longer
<1>2. DOMAIN Change(w, state) = {w}
  BY DEF Change
<1> QED BY <1>1, <1>2 DEF TellsOf

\* and the last word on it.
LEMMA PushTold ==
  ASSUME NEW queue \in Seq(WireTypes), NEW w \in Workspaces, NEW state,
         NEW longer, Longer(longer, queue, w, state)
  PROVE  /\ TellsOf(longer, w) = TellsOf(queue, w) \cup {Len(queue) + 1}
         /\ longer[Len(queue) + 1][w] = state
         /\ \A i \in TellsOf(queue, w) : longer[i] = queue[i]
         /\ \A i \in TellsOf(longer, w) : i \in Nat /\ i <= Len(queue) + 1
         /\ Len(queue) \in Nat
<1>1. /\ DOMAIN queue = 1 .. Len(queue) /\ DOMAIN longer = 1 .. (Len(queue) + 1)
      /\ Len(queue) \in Nat
      /\ longer[Len(queue) + 1] = Change(w, state)
      /\ \A i \in DOMAIN queue : longer[i] = queue[i]
  BY DEF Longer
<1>2. DOMAIN Change(w, state) = {w} /\ Change(w, state)[w] = state
  BY DEF Change
<1>3. TellsOf(longer, w) = TellsOf(queue, w) \cup {Len(queue) + 1}
  BY <1>1, <1>2 DEF TellsOf
<1> QED BY <1>1, <1>2, <1>3 DEF TellsOf

\* The same of the wire.
LEMMA WireOthers ==
  ASSUME wire \in Seq(WireTypes), NEW w \in Workspaces, NEW state,
         Longer(wire', wire, w, state)
  PROVE  \A v \in Workspaces \ {w} :
           /\ TellsOf(wire', v) = TellsOf(wire, v)
           /\ \A i \in TellsOf(wire, v) : wire'[i] = wire[i]
  BY PushOthers

\* What is left when the first frame is handled.
LEMMA RestFacts ==
  ASSUME NEW queue \in Seq(WireTypes), queue # <<>>, NEW v
  PROVE  /\ \A state : LastSays(queue, v, state) => LastSays(Tail(queue), v, state)
         /\ TellsOf(Tail(queue), v) = {} /\ v \notin DOMAIN Head(queue)
              => TellsOf(queue, v) = {}
         /\ TellsOf(queue, v) = {}
              => TellsOf(Tail(queue), v) = {} /\ v \notin DOMAIN Head(queue)
         /\ TellsOf(Tail(queue), v) = {} /\ v \in DOMAIN Head(queue)
              => \A state : LastSays(queue, v, state) => Head(queue)[v] = state
         /\ \A i \in TellsOf(Tail(queue), v) :
              /\ i \in Nat /\ i + 1 \in TellsOf(queue, v)
              /\ Tail(queue)[i] = queue[i + 1]
         /\ v \in DOMAIN Head(queue) => 1 \in TellsOf(queue, v)
<1> DEFINE rest == Tail(queue)
<1>1. /\ rest \in Seq(WireTypes) /\ Len(rest) = Len(queue) - 1
      /\ \A i \in 1 .. Len(rest) : rest[i] = queue[i + 1]
      /\ Len(queue) \in Nat /\ Len(queue) # 0 /\ Head(queue) = queue[1]
  BY HeadTailProperties, EmptySeq
<1>2. DOMAIN rest = 1 .. Len(rest) /\ DOMAIN queue = 1 .. Len(queue)
  BY <1>1
<1> HIDE DEF rest
<1>3. \A i \in DOMAIN rest : i \in Nat /\ i + 1 \in DOMAIN queue /\ rest[i] = queue[i + 1]
  BY <1>1, <1>2
<1>4. \A i \in DOMAIN queue : i # 1 => i - 1 \in DOMAIN rest /\ rest[i - 1] = queue[i]
  BY <1>1, <1>2
<1>5. 1 \in DOMAIN queue /\ \A i \in DOMAIN queue : i \in Nat /\ 1 <= i
  BY <1>1, <1>2
<1>6. \A i \in TellsOf(rest, v) :
        i \in Nat /\ i + 1 \in TellsOf(queue, v) /\ rest[i] = queue[i + 1]
  BY <1>3 DEF TellsOf
<1>7. \A i \in TellsOf(queue, v) :
        i \in Nat /\ 1 <= i /\ (i # 1 => i - 1 \in TellsOf(rest, v))
  BY <1>4, <1>5 DEF TellsOf
<1>8. 1 \in TellsOf(queue, v) <=> v \in DOMAIN Head(queue)
  BY <1>1, <1>5 DEF TellsOf
<1>9. ASSUME NEW state, LastSays(queue, v, state)
      PROVE  LastSays(rest, v, state)
  <2> SUFFICES ASSUME NEW i \in TellsOf(rest, v), \A j \in TellsOf(rest, v) : j <= i
               PROVE  rest[i][v] = state
    BY DEF LastSays
  <2>1. \A j \in TellsOf(queue, v) : j <= i + 1
    BY <1>6, <1>7
  <2> QED BY <2>1, <1>6, <1>9 DEF LastSays
<1>10. TellsOf(rest, v) = {} /\ v \notin DOMAIN Head(queue) => TellsOf(queue, v) = {}
  BY <1>7, <1>8
<1>11. TellsOf(queue, v) = {} => TellsOf(rest, v) = {} /\ v \notin DOMAIN Head(queue)
  BY <1>6, <1>8
<1>12. ASSUME TellsOf(rest, v) = {}, v \in DOMAIN Head(queue), NEW state,
              LastSays(queue, v, state)
       PROVE  Head(queue)[v] = state
  <2>1. \A j \in TellsOf(queue, v) : j <= 1
    BY <1>7, <1>12
  <2> QED BY <2>1, <1>1, <1>8, <1>12 DEF LastSays
<1> QED BY <1>6, <1>8, <1>9, <1>10, <1>11, <1>12 DEF rest
-----------------------------------------------------------------------------
(* The window alone *)

FollowAll == TypeOK /\ FollowInv

\* A step of the window that leaves its entries alone: no snapshot comes, one
\* that goes is of a workspace that is no more, an intent that goes is undone,
\* and no tab comes back of a workspace that is gone.
LEMMA QuietStep ==
  ASSUME FollowAll, UNCHANGED <<serverVars, ids, entry, unheard>>,
         \A r \in Requests :
           \/ request'[r] = request[r]
           \/ /\ ~Snapshot(request'[r])
              /\ CarriedOut(request'[r]) => row[request'[r].ws] = "deleted"
              /\ Snapshot(request[r]) => row[request[r].ws] \notin Live,
         \A w \in Workspaces :
           row[w] \in Live /\ w \in pendingOpen \cup pendingClose \cup undone
             => w \in pendingOpen' \cup pendingClose' \cup undone',
         \A w \in Workspaces :
           entry[w] = "tomb" /\ ~Holds(tabs.order, w) /\ row[w] = "deleted"
             /\ (\A r \in Requests : ~(Snapshot(request[r]) /\ request[r].ws = w))
             => ~Holds(tabs'.order, w)
  PROVE  FollowInv'
<1> USE DEF FollowAll, FollowInv
<1>1. UNCHANGED <<row, linked, wire, ids, entry, unheard>>
  BY DEF serverVars
<1>2. \A r \in Requests : Snapshot(request'[r]) => request'[r] = request[r]
  OBVIOUS
<1>3. Snapshots'
  BY <1>1, <1>2 DEF Snapshots
<1>4. DoneDeletions'
  BY <1>1 DEF DoneDeletions
<1>5. DeletionsTold' /\ UnheardAreDeleted'
  BY <1>1 DEF DeletionsTold, UnheardAreDeleted
<1>6. GoneForGood'
  BY <1>1, <1>2 DEF GoneForGood, Gone
<1>7. Followed'
  <2> SUFFICES ASSUME linked, NEW w \in Workspaces, row[w] \in Live
               PROVE  (/\ LastSays(wire, w, row[w])
                       /\ TellsOf(wire, w) = {} => Held(w))'
    BY <1>1 DEF Followed
  <2>1. LastSays(wire, w, row[w]) /\ (TellsOf(wire, w) = {} => Held(w))
    BY DEF Followed
  <2>2. ASSUME Held(w) PROVE Held(w)'
    <3>1. \A state : AsServed(w, state) => AsServed(w, state)'
      BY <1>1 DEF AsServed
    <3>2. ASSUME NEW r \in Requests, Snapshot(request[r]), request[r].ws = w
          PROVE  request'[r] = request[r]
      BY <3>2
    <3> QED BY <2>2, <1>1, <3>1, <3>2 DEF Held
  <2> QED BY <1>1, <2>1, <2>2
<1> QED BY <1>3, <1>4, <1>5, <1>6, <1>7

\* What the requests without a snapshot are.
LEMMA RequestKinds ==
  ASSUME FollowAll, NEW r \in Requests
  PROVE  /\ ~Snapshot(Fresh) /\ ~Snapshot(Settled)
         /\ ~CarriedOut(Fresh) /\ ~CarriedOut(Settled)
         /\ \A kind, w : ~Snapshot(Unawaited(kind, w)) /\ ~CarriedOut(Unawaited(kind, w))
         /\ Snapshot(request[r]) =>
              /\ IsUnderWay(r) /\ request[r].kind = "delete" /\ request[r].awaited
              /\ entry[request[r].ws] = "tomb"
              /\ request[r].ws \in Workspaces /\ request[r].prev \in Live
  BY UnderWayTyped DEF Snapshot, CarriedOut, Unawaited, FollowAll, FollowInv,
                       Snapshots, IsUnderWay, UnderWay

\* A request that is sent without a snapshot.
LEMMA SentQuietly ==
  ASSUME FollowAll, NEW r \in Requests, NEW kind, NEW w, NEW inserted, NEW had,
         Sent(r, kind, w, inserted, "nothing", had)
  PROVE  \A s \in Requests :
           \/ request'[s] = request[s]
           \/ /\ ~Snapshot(request'[s]) /\ ~CarriedOut(request'[s])
              /\ ~Snapshot(request[s])
<1>1. /\ request \in [Requests -> UnderWay \cup {Fresh, Settled}]
      /\ request[r] = Fresh
      /\ request' = [request EXCEPT ![r] =
           [kind |-> kind, ws |-> w, inserted |-> inserted, prev |-> "nothing",
            touched |-> FALSE, had |-> had, web |-> "pending", awaited |-> TRUE]]
  BY DEF Sent, FollowAll, TypeOK
<1>2. /\ \A s \in Requests : s # r => request'[s] = request[s]
      /\ request'[r].prev = "nothing" /\ request'[r].web = "pending"
  BY <1>1
<1> QED BY <1>1, <1>2 DEF Snapshot, CarriedOut

LEMMA OpenTabFollows ==
  ASSUME FollowAll, NEW r \in Requests, NEW w \in Workspaces, OpenTab(r, w)
  PROVE  FollowInv'
<1>1. /\ UNCHANGED <<serverVars, ids, entry, unheard, undone>>
      /\ pendingClose' = pendingClose \ {w} /\ pendingOpen' = pendingOpen \cup {w}
      /\ tabs' = Add(tabs, w) /\ entry[w] # "tomb"
  BY DEF OpenTab, Clickable
<1>2. \A s \in Requests :
        \/ request'[s] = request[s]
        \/ /\ ~Snapshot(request'[s]) /\ ~CarriedOut(request'[s])
           /\ ~Snapshot(request[s])
  BY SentQuietly DEF OpenTab
<1>3. \A v \in Workspaces : v # w /\ ~Holds(tabs.order, v) => ~Holds(tabs'.order, v)
  BY <1>1, AddOnly DEF FollowAll, TypeOK, TabIds
<1> QED BY <1>1, <1>2, <1>3, QuietStep

LEMMA CloseTabFollows ==
  ASSUME FollowAll, NEW r \in Requests, NEW w \in Workspaces, CloseTab(r, w)
  PROVE  FollowInv'
<1>1. /\ UNCHANGED <<serverVars, ids, entry, unheard, undone, tabs>>
      /\ pendingClose' = pendingClose \cup {w} /\ pendingOpen' = pendingOpen \ {w}
  BY DEF CloseTab
<1>2. \A s \in Requests :
        \/ request'[s] = request[s]
        \/ /\ ~Snapshot(request'[s]) /\ ~CarriedOut(request'[s])
           /\ ~Snapshot(request[s])
  BY SentQuietly DEF CloseTab
<1> QED BY <1>1, <1>2, QuietStep

\* Home's tabs and the pointer: no tab of a workspace comes.
LEMMA HomeFollows ==
  ASSUME FollowAll,
         \/ CloseHome \/ EnsureHome \/ \E tab \in TabIds : SetActive(tab)
         \/ \E w \in Workspaces : StaleRoute(w)
  PROVE  FollowInv'
<1>1. UNCHANGED <<serverVars, ids, entry, unheard, undone, request, pendingOpen,
                  pendingClose>>
  BY DEF CloseHome, EnsureHome, SetActive, StaleRoute, intentVars
<1>2. \A v \in Workspaces : ~Holds(tabs.order, v) => ~Holds(tabs'.order, v)
  <2> tabs \in TabStates /\ Home \in TabIds /\ Home \notin Workspaces
    BY TabsAssumption DEF FollowAll, TypeOK, TabIds
  <2>1. CASE CloseHome
    BY <2>1, CloseFacts DEF CloseHome
  <2>2. CASE EnsureHome
    BY <2>2, AddOnly DEF EnsureHome
  <2>3. CASE \E tab \in TabIds : SetActive(tab)
    BY <2>3 DEF SetActive, Point
  <2>4. CASE \E w \in Workspaces : StaleRoute(w)
    BY <2>4, CloseFacts DEF StaleRoute
  <2> QED BY <2>1, <2>2, <2>3, <2>4
<1> QED BY <1>1, <1>2, QuietStep

LEMMA ConvertHomeFollows ==
  ASSUME FollowAll, NEW r \in Requests, NEW w \in Workspaces, ConvertHome(r, w)
  PROVE  FollowInv'
<1>1. /\ UNCHANGED <<serverVars, ids, entry, unheard, undone>>
      /\ \/ pendingClose' = pendingClose \ {w} /\ pendingOpen' = pendingOpen \cup {w}
         \/ UNCHANGED <<pendingClose, pendingOpen>>
      /\ tabs' = HomeBecomes(tabs, w) /\ entry[w] # "tomb"
  BY DEF ConvertHome, Clickable, intentVars
<1>2. \A s \in Requests :
        \/ request'[s] = request[s]
        \/ ~Snapshot(request'[s]) /\ ~CarriedOut(request'[s]) /\ ~Snapshot(request[s])
  <2>1. \/ request' = request
        \/ request[r] = Fresh /\ request' = [request EXCEPT ![r] = Unawaited("open", w)]
    BY DEF ConvertHome
  <2>2. request \in [Requests -> UnderWay \cup {Fresh, Settled}]
    BY DEF FollowAll, TypeOK
  <2> QED BY <2>1, <2>2, RequestKinds
<1>3. \A v \in Workspaces : v # w /\ ~Holds(tabs.order, v) => ~Holds(tabs'.order, v)
  BY <1>1, HomeBecomesOnly DEF FollowAll, TypeOK
<1> QED BY <1>1, <1>2, <1>3, QuietStep

LEMMA SucceedFollows ==
  ASSUME FollowAll, NEW r \in Requests, Succeed(r)
  PROVE  FollowInv'
<1> DEFINE w == request[r].ws
<1>1. /\ UNCHANGED <<serverVars, ids, entry, unheard, undone, tabs>>
      /\ request' = [request EXCEPT ![r] = Settled]
      /\ IsUnderWay(r) /\ request[r].web = "done"
      /\ \/ /\ request[r].kind = "delete"
            /\ pendingClose' = pendingClose \ {w} /\ pendingOpen' = pendingOpen \ {w}
         \/ UNCHANGED <<pendingClose, pendingOpen>>
  BY DEF Succeed, Awaited, intentVars
<1>2. request[r].kind = "delete" => row[w] = "deleted"
  BY <1>1 DEF FollowAll, FollowInv, DoneDeletions, CarriedOut, IsUnderWay
<1>3. request \in [Requests -> UnderWay \cup {Fresh, Settled}]
  BY DEF FollowAll, TypeOK
<1>4. \A s \in Requests :
        \/ request'[s] = request[s]
        \/ /\ ~Snapshot(request'[s]) /\ ~CarriedOut(request'[s])
           /\ Snapshot(request[s]) => row[request[s].ws] \notin Live
  BY <1>1, <1>2, <1>3, RequestKinds DEF Live
<1>5. "deleted" \notin Live
  BY DEF Live
<1> HIDE DEF w
<1> QED BY <1>1, <1>2, <1>4, <1>5, QuietStep
\* A deletion takes the entry and keeps it as the snapshot.
LEMMA DeleteFollows ==
  ASSUME FollowAll, NEW r \in Requests, NEW w \in Workspaces, Delete(r, w)
  PROVE  FollowInv'
<1> USE DEF FollowAll, FollowInv
<1>1. /\ UNCHANGED <<row, linked, wire, ids, pendingClose, pendingOpen, unheard,
                     undone>>
      /\ entry[w] # "tomb"
  BY DEF Delete, Clickable, serverVars, intentVars
<1>2. CASE entry[w] \notin Live
  <2>1. /\ UNCHANGED <<serverVars, ids, entry, unheard, undone, tabs>>
        /\ Sent(r, "delete", w, FALSE, "nothing", FALSE)
    BY <1>2 DEF Delete
  <2>2. \A s \in Requests :
          \/ request'[s] = request[s]
          \/ ~Snapshot(request'[s]) /\ ~CarriedOut(request'[s]) /\ ~Snapshot(request[s])
    BY <2>1, SentQuietly
  <2> QED BY <1>1, <2>1, <2>2, QuietStep
<1>3. CASE entry[w] \in Live
  <2> DEFINE had == Holds(tabs.order, w)
             q == [kind |-> "delete", ws |-> w, inserted |-> FALSE,
                   prev |-> entry[w], touched |-> FALSE, had |-> had,
                   web |-> "pending", awaited |-> TRUE]
  <2>1. /\ entry' = [entry EXCEPT ![w] = "tomb"]
        /\ tabs' = Close(tabs, w)
        /\ request[r] = Fresh
        /\ request' = [request EXCEPT ![r] = q]
    BY <1>3 DEF Delete, Sent
  <2>2. q \in UnderWay
    <3>1. had \in BOOLEAN
      BY DEF Holds
    <3> HIDE DEF had
    <3> QED BY <1>3, <3>1 DEF UnderWay
  <2>3. /\ Snapshot(q) /\ ~CarriedOut(q) /\ q.ws = w /\ q.prev = entry[w]
        /\ q.kind = "delete" /\ q.awaited
    BY <1>3, <2>2, MarksAssumption DEF Snapshot, CarriedOut, Live
  <2>4. request \in [Requests -> UnderWay \cup {Fresh, Settled}]
        /\ entry \in [Workspaces -> Live \cup {"never", "tomb"}] /\ tabs \in TabStates
    BY DEF TypeOK, StoreTypes
  <2> HIDE DEF q
  <2>5. /\ request'[r] = q /\ \A s \in Requests : s # r => request'[s] = request[s]
        /\ entry'[w] = "tomb" /\ \A v \in Workspaces : v # w => entry'[v] = entry[v]
    BY <2>1, <2>4
  <2>6. \A s \in Requests : Snapshot(request[s]) => request[s].ws # w /\ s # r
    BY <1>1, <2>1, RequestKinds
  <2>7. Snapshots'
    <3> SUFFICES ASSUME NEW s \in Requests, Snapshot(request'[s])
                 PROVE  /\ request'[s].kind = "delete" /\ request'[s].awaited
                        /\ entry'[request'[s].ws] = "tomb"
                        /\ \A t \in Requests :
                             Snapshot(request'[t]) /\ request'[t].ws = request'[s].ws
                               => t = s
      BY DEF Snapshots
    <3>1. CASE s = r
      BY <3>1, <2>3, <2>5, <2>6
    <3>2. CASE s # r
      BY <3>2, <2>3, <2>5, <2>6, RequestKinds DEF Snapshots
    <3> QED BY <3>1, <3>2
  <2>8. DoneDeletions'
    BY <1>1, <2>3, <2>5 DEF DoneDeletions
  <2>9. DeletionsTold' /\ UnheardAreDeleted'
    BY <1>1 DEF DeletionsTold, UnheardAreDeleted
  <2>10. GoneForGood'
    <3>1. w \notin unheard => row[w] # "deleted"
      BY <1>1 DEF GoneForGood, Gone
    <3>2. \A v \in Workspaces : ~Holds(tabs.order, v) => ~Holds(tabs'.order, v)
      BY <2>1, <2>4, CloseFacts
    <3> QED BY <1>1, <2>3, <2>5, <3>1, <3>2 DEF GoneForGood, Gone
  <2>11. Followed'
    <3> SUFFICES ASSUME linked, NEW v \in Workspaces, row[v] \in Live
                 PROVE  (/\ LastSays(wire, v, row[v])
                         /\ TellsOf(wire, v) = {} => Held(v))'
      BY <1>1 DEF Followed
    <3>1. LastSays(wire, v, row[v]) /\ (TellsOf(wire, v) = {} => Held(v))
      BY DEF Followed
    <3>2. \A state : AsServed(v, state) => AsServed(v, state)'
      BY <1>1 DEF AsServed
    <3>3. ASSUME Held(v) PROVE Held(v)'
      <4>1. CASE v = w
        <5>1. ~ \E s \in Requests : Snapshot(request[s]) /\ request[s].ws = w
          BY <2>6
        <5>2. w \in ids /\ AsServed(w, entry[w])
          BY <3>3, <4>1, <5>1 DEF Held
        <5>3. Snapshot(request'[r]) /\ request'[r].ws = w /\ request'[r].prev = entry[w]
          BY <2>3, <2>5
        <5>4. AsServed(w, entry[w]) => AsServed(w, request[r].prev)'
          BY <1>1, <5>3 DEF AsServed
        <5> QED BY <1>1, <4>1, <5>2, <5>3, <5>4 DEF Held
      <4>2. CASE v # w
        BY <1>1, <2>5, <2>6, <3>2, <3>3, <4>2 DEF Held
      <4> QED BY <4>1, <4>2
    <3> QED BY <1>1, <3>1, <3>3
  <2> QED BY <2>7, <2>8, <2>9, <2>10, <2>11
<1> QED BY <1>2, <1>3

\* A failure undoes an intent, or puts back what the snapshot has kept.
LEMMA FailFollows ==
  ASSUME FollowAll, NEW r \in Requests, Fail(r)
  PROVE  FollowInv'
<1> USE DEF FollowAll, FollowInv
<1> DEFINE q == request[r]
           w == q.ws
<1>1. /\ q \in UnderWay /\ w \in Workspaces /\ w \in TabIds
      /\ q \notin {Fresh, Settled} /\ q.awaited
  BY UnderWayTyped DEF Fail, Awaited, TabIds, IsUnderWay
<1>2. UNCHANGED <<serverVars, hydrated, ids, unheard>>
  BY DEF Fail
<1>3. request \in [Requests -> UnderWay \cup {Fresh, Settled}]
      /\ entry \in [Workspaces -> Live \cup {"never", "tomb"}] /\ tabs \in TabStates
  BY DEF TypeOK, StoreTypes
<1>4. /\ ~Snapshot(request'[r]) /\ ~CarriedOut(request'[r])
      /\ \A s \in Requests : s # r => request'[s] = request[s]
  <2>1. \/ request' = [request EXCEPT ![r] = Settled]
        \/ request' = [request EXCEPT ![r] = Unawaited(q.kind, w)]
    BY DEF Fail
  <2> QED BY <1>3, <2>1, RequestKinds
<1>5. CASE ~Snapshot(q)
  <2>1. /\ entry' = entry
        /\ \A v \in Workspaces : ~Holds(tabs.order, v) => ~Holds(tabs'.order, v)
        /\ \A v \in Workspaces : v \in pendingOpen \cup pendingClose \cup undone
             => v \in pendingOpen' \cup pendingClose' \cup undone'
    <3>1. CASE q.kind = "open"
      <4>1. /\ undone' = undone \cup {w} /\ pendingOpen' = pendingOpen \ {w}
            /\ tabs' \in {Close(tabs, w), tabs} /\ UNCHANGED <<pendingClose, entry>>
        BY <3>1 DEF Fail
      <4> HIDE DEF q, w
      <4> QED BY <4>1, <1>3, CloseFacts
    <3>2. CASE q.kind = "close"
      <4>1. /\ undone' = undone \cup {w} /\ pendingClose' = pendingClose \ {w}
            /\ UNCHANGED <<pendingOpen, entry, tabs>>
        BY <3>2 DEF Fail, WithoutClose
      <4> HIDE DEF q, w
      <4> QED BY <4>1
    <3>3. CASE q.kind = "delete"
      <4>1. ~Restores(q)
        BY <1>1, <1>5 DEF Snapshot, Restores
      <4>2. undone' = undone /\ UNCHANGED <<intentVars, entry, tabs>>
        BY <3>3, <4>1 DEF Fail
      <4> QED BY <4>2 DEF intentVars
    <3>4. q.kind \in {"open", "close", "delete"}
      BY <1>1 DEF UnderWay
    <3> QED BY <3>1, <3>2, <3>3, <3>4
  <2>2. \A s \in Requests :
          \/ request'[s] = request[s]
          \/ ~Snapshot(request'[s]) /\ ~CarriedOut(request'[s]) /\ ~Snapshot(request[s])
    BY <1>4, <1>5
  <2> HIDE DEF q, w
  <2> QED BY <1>2, <2>1, <2>2, QuietStep
<1>6. CASE Snapshot(q)
  <2>1. q.kind = "delete" /\ q.prev \in Live /\ Restores(q)
    BY <1>6, RequestKinds DEF Snapshot, Restores
  <2>2. /\ entry' = [entry EXCEPT ![w] = q.prev] /\ tabs' = Add(tabs, w)
        /\ UNCHANGED <<pendingOpen, pendingClose, undone>>
    BY <2>1 DEF Fail, intentVars
  <2>3. UNCHANGED <<row, linked, wire, ids, unheard>>
    BY <1>2 DEF serverVars
  <2>4. \A s \in Requests : s # r /\ Snapshot(request[s]) => request[s].ws # w
    BY <1>6 DEF Snapshots
  <2>5. w \notin unheard => row[w] # "deleted"
    BY <1>1, <1>6 DEF GoneForGood, Gone
  <2>6. \A v \in Workspaces : v # w /\ ~Holds(tabs.order, v) => ~Holds(tabs'.order, v)
    BY <1>1, <1>3, <2>2, AddOnly
  <2> HIDE DEF w
  <2>7. entry'[w] = q.prev /\ \A v \in Workspaces : v # w => entry'[v] = entry[v]
    BY <1>1, <1>3, <2>2
  <2>8. Snapshots'
    BY <1>4, <2>4, <2>7, RequestKinds DEF Snapshots
  <2>9. DoneDeletions' /\ DeletionsTold' /\ UnheardAreDeleted'
    BY <1>4, <2>3 DEF DoneDeletions, DeletionsTold, UnheardAreDeleted
  <2>10. GoneForGood'
    BY <1>4, <2>3, <2>5, <2>6, <2>7 DEF GoneForGood, Gone
  <2>11. Followed'
    <3> SUFFICES ASSUME linked, NEW v \in Workspaces, row[v] \in Live
                 PROVE  (/\ LastSays(wire, v, row[v])
                         /\ TellsOf(wire, v) = {} => Held(v))'
      BY <2>3 DEF Followed
    <3>1. LastSays(wire, v, row[v]) /\ (TellsOf(wire, v) = {} => Held(v))
      BY DEF Followed
    <3>2. \A state : AsServed(v, state) => AsServed(v, state)'
      BY <2>2, <2>3 DEF AsServed
    <3>3. ASSUME Held(v) PROVE Held(v)'
      <4>1. CASE v = w
        <5>1. entry[w] = "tomb" /\ "tomb" \notin Live
          BY <1>6, RequestKinds DEF w, Live
        <5>2. PICK s \in Requests : /\ Snapshot(request[s]) /\ request[s].ws = w
                                    /\ AsServed(w, request[s].prev)
          BY <3>3, <4>1, <5>1 DEF Held
        <5>3. s = r
          BY <2>4, <5>2
        <5>4. entry'[v] = q.prev /\ AsServed(v, q.prev)
          BY <2>7, <4>1, <5>2, <5>3
        <5>5. AsServed(v, entry[v])'
          BY <2>2, <2>3, <5>4 DEF AsServed
        <5> QED BY <2>1, <2>3, <3>3, <5>4, <5>5 DEF Held
      <4>2. CASE v # w
        <5>1. \A s \in Requests : Snapshot(request[s]) /\ request[s].ws = v => s # r
          BY <4>2 DEF w
        <5> QED BY <1>4, <2>3, <2>7, <3>2, <3>3, <4>2, <5>1 DEF Held
      <4> QED BY <4>1, <4>2
    <3> QED BY <2>3, <3>1, <3>3
  <2> QED BY <2>8, <2>9, <2>10, <2>11
<1> QED BY <1>5, <1>6
-----------------------------------------------------------------------------
(* The server and the stream *)

\* A row changes and a frame tells of it, while no snapshot comes or goes.
LEMMA ChangeFollows ==
  ASSUME FollowAll, NEW w \in Workspaces, NEW state \in Live \cup {"deleted"},
         row[w] # "deleted", row' = [row EXCEPT ![w] = state],
         wire' = Push(Change(w, state)),
         unheard' = IF state = "deleted" THEN unheard \cup {w} ELSE unheard,
         UNCHANGED <<linked, ids, entry, tabs, pendingOpen, pendingClose, undone>>,
         \A r \in Requests :
           /\ Snapshot(request'[r]) <=> Snapshot(request[r])
           /\ Snapshot(request[r]) =>
                /\ request'[r].kind = request[r].kind
                /\ request'[r].ws = request[r].ws
                /\ request'[r].prev = request[r].prev
                /\ request'[r].awaited = request[r].awaited
           /\ CarriedOut(request'[r]) => row'[request'[r].ws] = "deleted"
  PROVE  FollowInv'
<1> USE DEF FollowAll, FollowInv
<1>1. /\ wire \in Seq(WireTypes)
      /\ row \in [Workspaces -> Live \cup {"none", "deleted"}]
      /\ unheard \subseteq Workspaces
  BY DEF TypeOK, ServerTypes, WireTypes, HistoryTypes
<1>2. row'[w] = state /\ \A v \in Workspaces : v # w => row'[v] = row[v]
  BY <1>1
<1>3. Snapshots'
  BY DEF Snapshots
<1>4. DoneDeletions'
  BY DEF DoneDeletions
<1>5. w \notin unheard
  BY DEF UnheardAreDeleted
<1>6. UnheardAreDeleted'
  BY <1>1, <1>2 DEF UnheardAreDeleted
<1>7. DeletionsTold'
  <2> SUFFICES ASSUME NEW v \in Workspaces, NEW i \in TellsOf(wire', v),
                      wire'[i][v] = "deleted"
               PROVE  v \in unheard' /\ \A j \in TellsOf(wire', v) : j <= i
    BY DEF DeletionsTold
  <2>1. CASE ~linked
    BY <2>1 DEF Push, DeletionsTold
  <2>2. CASE linked
    <3>1. Longer(wire', wire, w, state)
      BY <2>2 DEF Push, Longer
    <3>2. CASE v # w
      <4>1. TellsOf(wire', v) = TellsOf(wire, v) /\ wire'[i] = wire[i]
        BY <1>1, <3>1, <3>2, WireOthers
      <4> QED BY <4>1 DEF DeletionsTold
    <3>3. CASE v = w
      <4>1. \/ i \in TellsOf(wire, w) /\ wire'[i] = wire[i]
            \/ wire'[i][w] = state /\ \A j \in TellsOf(wire', w) : j <= i
        BY <1>1, <3>1, <3>3, PushTold
      <4>2. \A k \in TellsOf(wire, w) : wire[k][w] # "deleted"
        BY <1>5 DEF DeletionsTold
      <4> QED BY <3>3, <4>1, <4>2
    <3> QED BY <3>2, <3>3
  <2> QED BY <2>1, <2>2
<1>8. GoneForGood'
  <2> SUFFICES ASSUME NEW v \in Workspaces, v \notin unheard', row'[v] = "deleted"
               PROVE  Gone(v)'
    BY DEF GoneForGood
  <2>1. v # w
    BY <1>2
  <2>2. Gone(v)
    BY <1>2, <2>1 DEF GoneForGood
  <2>3. wire' = wire \/ Longer(wire', wire, w, state)
    BY DEF Push, Longer
  <2>4. TellsOf(wire', v) = {}
    BY <1>1, <2>1, <2>2, <2>3, WireOthers DEF Gone
  <2> QED BY <2>2, <2>4 DEF Gone
<1>9. Followed'
  <2> SUFFICES ASSUME linked, NEW v \in Workspaces, row'[v] \in Live
               PROVE  /\ LastSays(wire', v, row'[v])
                      /\ TellsOf(wire', v) = {} => Held(v)'
    BY DEF Followed
  <2>1. Longer(wire', wire, w, state)
    BY DEF Push, Longer
  <2>2. CASE v = w
    <3> DEFINE n == Len(wire) + 1
    <3>1. n \in TellsOf(wire', w) /\ n \in Nat /\ wire'[n][w] = state
      BY <1>1, <2>1, PushTold
    <3>2. \A i \in TellsOf(wire', w) : i \in Nat /\ i <= n
      BY <1>1, <2>1, PushTold
    <3> HIDE DEF n
    <3>3. \A i \in TellsOf(wire', w) :
            (\A j \in TellsOf(wire', w) : j <= i) => i = n
      BY <3>1, <3>2
    <3> QED BY <1>2, <2>2, <3>1, <3>3 DEF LastSays
  <2>3. CASE v # w
    <3>1. /\ TellsOf(wire', v) = TellsOf(wire, v)
          /\ \A i \in TellsOf(wire, v) : wire'[i] = wire[i]
      BY <1>1, <2>1, <2>3, WireOthers
    <3>2. LastSays(wire, v, row[v]) /\ (TellsOf(wire, v) = {} => Held(v))
      BY <1>2, <2>3 DEF Followed
    <3>3. LastSays(wire', v, row'[v])
      BY <1>2, <2>3, <3>1, <3>2 DEF LastSays
    <3>4. ASSUME Held(v) PROVE Held(v)'
      BY <1>2, <2>3, <3>4 DEF Held, AsServed
    <3> QED BY <3>1, <3>2, <3>3, <3>4
  <2> QED BY <2>2, <2>3
<1> QED BY <1>3, <1>4, <1>6, <1>7, <1>8, <1>9

LEMMA CommitFollows ==
  ASSUME FollowAll, NEW r \in Requests, Commit(r)
  PROVE  FollowInv'
<1> DEFINE q == request[r]
<1>1. q \in UnderWay /\ q.ws \in Workspaces /\ q \notin {Fresh, Settled}
  BY UnderWayTyped DEF Commit, FollowAll, IsUnderWay
<1>2. request \in [Requests -> UnderWay \cup {Fresh, Settled}]
  BY DEF FollowAll, TypeOK
<1>3. PICK u : u = IF q.awaited THEN [q EXCEPT !.web = "done"] ELSE Settled
  OBVIOUS
<1>4. request' = [request EXCEPT ![r] = u]
  BY <1>3 DEF Commit
<1>5. request'[r] = u /\ \A s \in Requests : s # r => request'[s] = request[s]
  BY <1>2, <1>4
<1>6. /\ UNCHANGED <<linked, ids, entry, tabs, pendingOpen, pendingClose, undone>>
      /\ q.web = "pending"
  BY DEF Commit, intentVars
<1>7. /\ Snapshot(u) <=> Snapshot(q)
      /\ Snapshot(q) => u.kind = q.kind /\ u.ws = q.ws /\ u.prev = q.prev
                        /\ u.awaited = q.awaited
      /\ CarriedOut(u) => u.kind = "delete" /\ u.ws = q.ws /\ q.kind = "delete"
  <2>1. CASE q.awaited
    <3>1. /\ u.kind = q.kind /\ u.ws = q.ws /\ u.prev = q.prev
          /\ u.awaited = q.awaited /\ u.touched = q.touched /\ u \in UnderWay
      BY <1>1, <1>3, <2>1 DEF UnderWay
    <3> QED BY <1>1, <3>1, MarksAssumption DEF Snapshot, CarriedOut
  <2>2. CASE ~q.awaited
    <3>1. u = Settled /\ ~Snapshot(q) /\ ~Snapshot(u) /\ ~CarriedOut(u)
      BY <1>3, <2>2, RequestKinds
    <3> QED BY <3>1
  <2> QED BY <2>1, <2>2
<1>8. CASE row[q.ws] # "deleted"
  <2> DEFINE state == CASE q.kind = "open"   -> "open"
                        [] q.kind = "close"  -> "shut"
                        [] q.kind = "delete" -> "deleted"
  <2>1. state \in Live \cup {"deleted"} /\ (state = "deleted" <=> q.kind = "delete")
    BY <1>1 DEF UnderWay, Live
  <2>2. /\ row' = [row EXCEPT ![q.ws] = state] /\ wire' = Push(Change(q.ws, state))
        /\ unheard' = IF q.kind = "delete" THEN unheard \cup {q.ws} ELSE unheard
    BY <1>8 DEF Commit
  <2>3. PICK s \in Live \cup {"deleted"}, w \in Workspaces : s = state /\ w = q.ws
    BY <1>1, <2>1
  <2> HIDE DEF state
  <2>4. row \in [Workspaces -> Live \cup {"none", "deleted"}]
    BY DEF FollowAll, TypeOK, ServerTypes
  <2>5. /\ row' = [row EXCEPT ![w] = s] /\ wire' = Push(Change(w, s))
        /\ unheard' = IF s = "deleted" THEN unheard \cup {w} ELSE unheard
        /\ row[w] # "deleted"
    BY <1>8, <2>1, <2>2, <2>3
  <2>6. ASSUME NEW t \in Requests, CarriedOut(request'[t])
        PROVE  row'[request'[t].ws] = "deleted"
    <3>1. CASE t = r
      BY <1>5, <1>7, <2>1, <2>3, <2>4, <2>5, <2>6, <3>1
    <3>2. CASE t # r
      <4>1. row[request[t].ws] = "deleted" /\ request[t].ws # w /\ request'[t] = request[t]
        BY <1>5, <2>5, <2>6, <3>2 DEF FollowAll, FollowInv, DoneDeletions
      <4>2. request[t].ws \in Workspaces
        BY <2>6, <4>1, UnderWayTyped DEF CarriedOut, FollowAll, IsUnderWay
      <4> QED BY <2>4, <2>5, <4>1, <4>2
    <3> QED BY <3>1, <3>2
  <2>7. \A t \in Requests :
          /\ Snapshot(request'[t]) <=> Snapshot(request[t])
          /\ Snapshot(request[t]) =>
               /\ request'[t].kind = request[t].kind
               /\ request'[t].ws = request[t].ws
               /\ request'[t].prev = request[t].prev
               /\ request'[t].awaited = request[t].awaited
    BY <1>5, <1>7
  <2> QED BY <1>6, <2>5, <2>6, <2>7, ChangeFollows
<1>9. CASE row[q.ws] = "deleted"
  <2> USE DEF FollowAll, FollowInv
  <2>1. UNCHANGED <<row, wire, unheard>>
    BY <1>9 DEF Commit
  <2>2. \A t \in Requests :
          /\ Snapshot(request'[t]) <=> Snapshot(request[t])
          /\ Snapshot(request[t]) =>
               /\ request'[t].kind = request[t].kind
               /\ request'[t].ws = request[t].ws
               /\ request'[t].prev = request[t].prev
               /\ request'[t].awaited = request[t].awaited
    BY <1>5, <1>7
  <2>3. \A t \in Requests : CarriedOut(request'[t]) => row[request'[t].ws] = "deleted"
    BY <1>5, <1>7, <1>9 DEF DoneDeletions
  <2>4. Snapshots'
    BY <1>6, <2>2 DEF Snapshots
  <2>5. DoneDeletions' /\ DeletionsTold' /\ UnheardAreDeleted'
    BY <2>1, <2>3 DEF DoneDeletions, DeletionsTold, UnheardAreDeleted
  <2>6. GoneForGood'
    BY <1>6, <2>1, <2>2 DEF GoneForGood, Gone
  <2>7. Followed'
    BY <1>6, <2>1, <2>2 DEF Followed, Held, AsServed
  <2> QED BY <2>4, <2>5, <2>6, <2>7
<1> QED BY <1>8, <1>9

\* What others do is told while there is a stream; and the dump of a new one
\* tells of every workspace that is there.
LEMMA WorldFollows ==
  ASSUME FollowAll, (\E w \in Workspaces : Elsewhere(w)) \/ Connect \/ Drop
  PROVE  FollowInv'
<1> USE DEF FollowAll, FollowInv
<1>1. UNCHANGED <<ids, entry, tabs, pendingClose, pendingOpen, request, undone>>
  BY DEF Elsewhere, Connect, Drop, intentVars
<1>2. ASSUME NEW w \in Workspaces, Elsewhere(w)
      PROVE  FollowInv'
  <2>1. PICK state \in Live \cup {"deleted"} :
          /\ row[w] \in Live \cup {"none"}
          /\ row' = [row EXCEPT ![w] = state]
          /\ wire' = Push(Change(w, state))
          /\ unheard' = IF state = "deleted" THEN unheard \cup {w} ELSE unheard
          /\ linked' = linked
    BY <1>2 DEF Elsewhere
  <2>2. row[w] # "deleted" /\ row \in [Workspaces -> Live \cup {"none", "deleted"}]
    BY <2>1 DEF Live, TypeOK, ServerTypes
  <2>3. ASSUME NEW r \in Requests, CarriedOut(request[r])
        PROVE  row'[request[r].ws] = "deleted"
    <3>1. row[request[r].ws] = "deleted"
      BY <2>3 DEF DoneDeletions
    <3>2. request[r].ws \in Workspaces
      BY <2>3, UnderWayTyped DEF CarriedOut, IsUnderWay
    <3> QED BY <2>1, <2>2, <3>1, <3>2
  <2> HIDE DEF FollowAll, FollowInv
  <2> QED BY <1>1, <2>1, <2>2, <2>3, ChangeFollows
<1>3. CASE Connect \/ Drop
  <2> DEFINE live == {v \in Workspaces : row[v] \in Live}
             dump == [v \in live |-> row[v]]
  <2>1. /\ UNCHANGED <<row, unheard>>
        /\ \/ linked' = TRUE /\ wire' = <<dump>>
           \/ linked' = FALSE /\ wire' = <<>>
    BY <1>3 DEF Connect, Drop
  <2>2. DOMAIN <<dump>> = {1} /\ <<dump>>[1] = dump /\ DOMAIN dump = live
    <3> HIDE DEF live
    <3> QED OBVIOUS
  <2>3. /\ \A v \in live : dump[v] = row[v]
        /\ \A v \in Workspaces : v \in live <=> row[v] \in Live
    OBVIOUS
  <2>4. DOMAIN <<>> = {} /\ "deleted" \notin Live
    BY DEF Live
  <2> HIDE DEF dump, live
  <2>5. \A v : TellsOf(wire', v) =
                 IF linked' /\ v \in live THEN {1} ELSE {}
    BY <2>1, <2>2, <2>4 DEF TellsOf
  <2>6. Snapshots'
    BY <1>1 DEF Snapshots
  <2>7. DoneDeletions' /\ UnheardAreDeleted'
    BY <1>1, <2>1 DEF DoneDeletions, UnheardAreDeleted
  <2>8. \A v \in Workspaces : \A i \in TellsOf(wire', v) :
          i = 1 /\ linked' /\ v \in live /\ wire'[i][v] = row[v]
    BY <2>1, <2>2, <2>3, <2>5
  <2>9. DeletionsTold'
    BY <2>3, <2>4, <2>8 DEF DeletionsTold
  <2>10. GoneForGood'
    BY <1>1, <2>1, <2>3, <2>4, <2>5 DEF GoneForGood, Gone
  <2>11. Followed'
    <3> SUFFICES ASSUME linked', NEW v \in Workspaces, row[v] \in Live
                 PROVE  LastSays(wire', v, row[v]) /\ TellsOf(wire', v) # {}
      BY <2>1 DEF Followed
    <3> QED BY <2>3, <2>5, <2>8 DEF LastSays
  <2> QED BY <2>6, <2>7, <2>9, <2>10, <2>11
<1> QED BY <1>2, <1>3
\* A frame takes the snapshots of what it tells of.
LEMMA TouchedFacts ==
  ASSUME FollowAll, NEW carried, request' = Touched(carried), NEW r \in Requests
  PROVE  /\ Snapshot(request'[r]) <=>
              Snapshot(request[r]) /\ request[r].ws \notin carried
         /\ Snapshot(request'[r]) => request'[r] = request[r]
         /\ CarriedOut(request'[r]) =>
              CarriedOut(request[r]) /\ request'[r].ws = request[r].ws
<1>1. request'[r] = IF IsUnderWay(r) /\ request[r].ws \in carried
                    THEN [request[r] EXCEPT !.touched = request[r].prev # "nothing"]
                    ELSE request[r]
  BY DEF Touched
<1>2. CASE IsUnderWay(r) /\ request[r].ws \in carried
  <2>1. request[r] \in UnderWay
    BY <1>2, UnderWayTyped DEF FollowAll
  <2>2. /\ request'[r].prev = request[r].prev
        /\ request'[r].touched = (request[r].prev # "nothing")
        /\ request'[r].kind = request[r].kind /\ request'[r].web = request[r].web
        /\ request'[r].ws = request[r].ws
    BY <1>1, <1>2, <2>1 DEF UnderWay
  <2>3. ~Snapshot(request'[r])
    BY <2>2 DEF Snapshot
  <2> QED BY <1>2, <2>2, <2>3 DEF CarriedOut, IsUnderWay
<1>3. CASE ~(IsUnderWay(r) /\ request[r].ws \in carried)
  BY <1>1, <1>3 DEF Snapshot, IsUnderWay
<1> QED BY <1>2, <1>3

\* A frame of workspaces that are there gives each what the server, or the
\* user's intent, says.
LEMMA DeliverFollows ==
  ASSUME FollowAll, Deliver
  PROVE  FollowInv'
<1> USE DEF FollowAll, FollowInv
<1> DEFINE frame == Head(wire)
           told == [w \in Workspaces |->
                      IF w \in DOMAIN frame THEN OpenAsMeant(w, frame[w])
                                            ELSE entry[w]]
           adds == IF hydrated THEN {w \in DOMAIN frame \ ids : told[w] = "open"}
                   ELSE {w \in DOMAIN frame : told[w] = "open" /\
                           \A v \in Workspaces : ~Holds(tabs.order, v)}
           new == {w \in adds : ~Holds(tabs.order, w)}
<1>1. /\ frame \in [DOMAIN frame -> Live \cup {"deleted"}]
      /\ DOMAIN frame \subseteq Workspaces
      /\ wire \in Seq(WireTypes) /\ wire # <<>>
      /\ \A w \in DOMAIN frame : frame[w] # "deleted"
  BY WireFacts DEF Deliver, TypeOK, ServerTypes, WireTypes
<1>2. PICK carried : carried = DOMAIN frame
  OBVIOUS
<1>3. /\ ids' = ids \cup carried
      /\ request' = Touched(carried)
      /\ wire' = Tail(wire)
      /\ undone' = undone \ carried
      /\ UNCHANGED <<row, linked, pendingClose, pendingOpen, unheard>>
  BY <1>2 DEF Deliver, intentVars
<1>4. /\ \A w \in carried : entry'[w] = OpenAsMeant(w, frame[w])
      /\ \A w \in Workspaces \ carried : entry'[w] = entry[w]
  <2>1. entry' = told
    BY DEF Deliver
  <2> QED BY <1>1, <1>2, <2>1
<1>5. ASSUME NEW w \in Workspaces, w \notin carried, ~Holds(tabs.order, w)
      PROVE  ~Holds(tabs'.order, w)
  <2>1. PICK news \in SetToSeqs(new) :
          tabs' = [order |-> tabs.order \o news, active |-> tabs.active]
    BY DEF Deliver
  <2>2. new \subseteq carried /\ carried \subseteq Workspaces
    BY <1>1, <1>2
  <2> HIDE DEF new
  <2>3. Cardinality(new) \in Nat
    BY <2>2, TabsAssumption, FS_Subset, FS_CardinalityType
  <2>4. news \in [1 .. Cardinality(new) -> new]
    BY DEF SetToSeqs
  <2>5. news \in Seq(TabIds) /\ \A i \in DOMAIN news : news[i] \in carried
    BY <2>2, <2>3, <2>4 DEF TabIds
  <2>6. tabs.order \in Seq(TabIds)
    BY TabStateFacts DEF TypeOK
  <2>7. ASSUME NEW i \in DOMAIN (tabs.order \o news)
        PROVE  (tabs.order \o news)[i] # w
    <3>1. \/ i \in DOMAIN tabs.order /\ (tabs.order \o news)[i] = tabs.order[i]
          \/ \E j \in DOMAIN news : (tabs.order \o news)[i] = news[j]
      <4>1. CASE i <= Len(tabs.order)
        BY <2>5, <2>6, <2>7, <4>1
      <4>2. CASE i > Len(tabs.order)
        <5>1. /\ i - Len(tabs.order) \in DOMAIN news
              /\ (tabs.order \o news)[i] = news[i - Len(tabs.order)]
          BY <2>5, <2>6, <2>7, <4>2
        <5> QED BY <5>1
      <4> QED BY <2>5, <2>6, <2>7, <4>1, <4>2
    <3> QED BY <1>5, <2>5, <3>1 DEF Holds
  <2> QED BY <2>1, <2>7 DEF Holds
<1> HIDE DEF told, adds, new
<1>6. \A w \in Workspaces :
        /\ \A state : LastSays(wire, w, state) => LastSays(wire', w, state)
        /\ TellsOf(wire', w) = {} /\ w \notin carried => TellsOf(wire, w) = {}
        /\ TellsOf(wire, w) = {} => TellsOf(wire', w) = {} /\ w \notin carried
        /\ TellsOf(wire', w) = {} /\ w \in carried
             => \A state : LastSays(wire, w, state) => frame[w] = state
        /\ \A i \in TellsOf(wire', w) :
             i \in Nat /\ i + 1 \in TellsOf(wire, w) /\ wire'[i] = wire[i + 1]
  BY <1>1, <1>2, <1>3, RestFacts
<1> HIDE DEF frame
<1>7. Snapshots'
  <2>1. ASSUME NEW r \in Requests, Snapshot(request'[r])
        PROVE  /\ Snapshot(request[r]) /\ request'[r] = request[r]
               /\ request[r].ws \in Workspaces \ carried
    BY <1>3, <2>1, TouchedFacts, RequestKinds
  <2> QED BY <1>4, <2>1 DEF Snapshots
<1>8. DoneDeletions' /\ UnheardAreDeleted'
  BY <1>3, TouchedFacts DEF DoneDeletions, UnheardAreDeleted
<1>9. DeletionsTold'
  <2> SUFFICES ASSUME NEW w \in Workspaces, NEW i \in TellsOf(wire', w),
                      wire'[i][w] = "deleted"
               PROVE  w \in unheard /\ \A j \in TellsOf(wire', w) : j <= i
    BY <1>3 DEF DeletionsTold
  <2>1. i \in Nat /\ i + 1 \in TellsOf(wire, w) /\ wire'[i] = wire[i + 1]
    BY <1>6
  <2>2. w \in unheard /\ \A j \in TellsOf(wire, w) : j <= i + 1
    BY <2>1 DEF DeletionsTold
  <2>3. \A j \in TellsOf(wire', w) : j \in Nat /\ j + 1 \in TellsOf(wire, w)
    BY <1>6
  <2> QED BY <2>1, <2>2, <2>3
<1>10. GoneForGood'
  <2> SUFFICES ASSUME NEW w \in Workspaces \ unheard, row[w] = "deleted"
               PROVE  Gone(w)'
    BY <1>3 DEF GoneForGood
  <2>1. Gone(w)
    BY DEF GoneForGood
  <2>2. TellsOf(wire', w) = {} /\ w \notin carried
    BY <1>6, <2>1 DEF Gone
  <2>3. \A r \in Requests : ~(Snapshot(request'[r]) /\ request'[r].ws = w)
    BY <1>3, <2>1, TouchedFacts DEF Gone
  <2> QED BY <1>3, <1>4, <1>5, <2>1, <2>2, <2>3 DEF Gone
<1>11. Followed'
  <2> SUFFICES ASSUME linked, NEW w \in Workspaces, row[w] \in Live
               PROVE  /\ LastSays(wire', w, row[w])
                      /\ TellsOf(wire', w) = {} => Held(w)'
    BY <1>3 DEF Followed
  <2>1. LastSays(wire, w, row[w]) /\ (TellsOf(wire, w) = {} => Held(w))
    BY DEF Followed
  <2>2. ASSUME TellsOf(wire', w) = {} PROVE Held(w)'
    <3>1. CASE w \in carried
      <4>1. entry'[w] = OpenAsMeant(w, row[w])
        BY <1>4, <1>6, <2>1, <2>2, <3>1
      <4>2. entry'[w] \in Live /\ (entry'[w] = row[w] \/ w \in pendingOpen \cup pendingClose)
        BY <4>1 DEF OpenAsMeant, Live
      <4> QED BY <1>3, <3>1, <4>2 DEF Held, AsServed
    <3>2. CASE w \notin carried
      <4>1. Held(w)
        BY <1>6, <2>1, <2>2, <3>2
      <4>2. \A r \in Requests : Snapshot(request[r]) /\ request[r].ws = w
              => Snapshot(request'[r]) /\ request'[r] = request[r]
        BY <1>3, <3>2, TouchedFacts
      <4> QED BY <1>3, <1>4, <3>2, <4>1, <4>2 DEF Held, AsServed
    <3> QED BY <3>1, <3>2
  <2> QED BY <1>6, <2>1, <2>2
<1> QED BY <1>7, <1>8, <1>9, <1>10, <1>11

\* The frame of a deletion is the last word, and all is gone with it.
LEMMA DeliverDeletionFollows ==
  ASSUME FollowAll, NEW w \in Workspaces, DeliverDeletion(w)
  PROVE  FollowInv'
<1> USE DEF FollowAll, FollowInv
<1>1. /\ wire \in Seq(WireTypes) /\ wire # <<>>
      /\ entry \in [Workspaces -> Live \cup {"never", "tomb"}] /\ tabs \in TabStates
  BY DEF DeliverDeletion, TypeOK, ServerTypes, WireTypes, StoreTypes
<1>2. DOMAIN Head(wire) = {w} /\ Head(wire)[w] = "deleted"
  BY DEF DeliverDeletion, Change
<1>3. /\ ids' = ids \ {w}
      /\ entry' = [entry EXCEPT ![w] = "tomb"]
      /\ tabs' = Close(tabs, w)
      /\ request' = Touched({w})
      /\ unheard' = unheard \ {w}
      /\ undone' = undone \ {w}
      /\ wire' = Tail(wire)
      /\ UNCHANGED <<row, linked, pendingClose, pendingOpen>>
  BY DEF DeliverDeletion, intentVars
<1>4. entry'[w] = "tomb" /\ \A v \in Workspaces : v # w => entry'[v] = entry[v]
  BY <1>1, <1>3
<1>5. \A t : Holds(tabs'.order, t) <=> Holds(tabs.order, t) /\ t # w
  BY <1>1, <1>3, CloseFacts
<1>6. \A v \in Workspaces :
        /\ \A state : LastSays(wire, v, state) => LastSays(wire', v, state)
        /\ TellsOf(wire', v) = {} /\ v # w => TellsOf(wire, v) = {}
        /\ TellsOf(wire, v) = {} => TellsOf(wire', v) = {}
        /\ \A i \in TellsOf(wire', v) :
             i \in Nat /\ i + 1 \in TellsOf(wire, v) /\ wire'[i] = wire[i + 1]
  BY <1>1, <1>2, <1>3, RestFacts
<1>7. 1 \in TellsOf(wire, w) /\ wire[1] = Head(wire)
  BY <1>1, <1>2, RestFacts, HeadTailProperties
<1>8. row[w] = "deleted" /\ TellsOf(wire', w) = {}
  <2>1. w \in unheard /\ \A j \in TellsOf(wire, w) : j <= 1
    BY <1>2, <1>7 DEF DeletionsTold
  <2>2. \A i \in TellsOf(wire', w) : i \in Nat /\ i + 1 <= 1 /\ i \in 1 .. Len(wire')
    BY <1>1, <1>3, <1>6, <2>1, HeadTailProperties DEF TellsOf
  <2> QED BY <2>1, <2>2 DEF UnheardAreDeleted
<1>9. Snapshots'
  <2>1. ASSUME NEW r \in Requests, Snapshot(request'[r])
        PROVE  /\ Snapshot(request[r]) /\ request'[r] = request[r]
               /\ request[r].ws \in Workspaces \ {w}
    BY <1>3, <2>1, TouchedFacts, RequestKinds
  <2> QED BY <1>4, <2>1 DEF Snapshots
<1>10. DoneDeletions' /\ UnheardAreDeleted'
  BY <1>3, TouchedFacts DEF DoneDeletions, UnheardAreDeleted
<1>11. DeletionsTold'
  <2> SUFFICES ASSUME NEW v \in Workspaces, NEW i \in TellsOf(wire', v),
                      wire'[i][v] = "deleted"
               PROVE  v \in unheard' /\ \A j \in TellsOf(wire', v) : j <= i
    BY DEF DeletionsTold
  <2>1. i \in Nat /\ i + 1 \in TellsOf(wire, v) /\ wire'[i] = wire[i + 1] /\ v # w
    BY <1>6, <1>8
  <2>2. v \in unheard /\ \A j \in TellsOf(wire, v) : j <= i + 1
    BY <2>1 DEF DeletionsTold
  <2>3. \A j \in TellsOf(wire', v) : j \in Nat /\ j + 1 \in TellsOf(wire, v)
    BY <1>6
  <2> QED BY <1>3, <2>1, <2>2, <2>3
<1>12. GoneForGood'
  <2> SUFFICES ASSUME NEW v \in Workspaces, v \notin unheard', row[v] = "deleted"
               PROVE  Gone(v)'
    BY <1>3 DEF GoneForGood
  <2>1. CASE v = w
    BY <1>3, <1>4, <1>5, <1>8, <2>1, TouchedFacts DEF Gone
  <2>2. CASE v # w
    <3>1. Gone(v)
      BY <1>3, <2>2 DEF GoneForGood
    <3> QED BY <1>3, <1>4, <1>5, <1>6, <2>2, <3>1, TouchedFacts DEF Gone
  <2> QED BY <2>1, <2>2
<1>13. Followed'
  <2> SUFFICES ASSUME linked, NEW v \in Workspaces, row[v] \in Live
               PROVE  /\ LastSays(wire', v, row[v])
                      /\ TellsOf(wire', v) = {} => Held(v)'
    BY <1>3 DEF Followed
  <2>1. LastSays(wire, v, row[v]) /\ (TellsOf(wire, v) = {} => Held(v))
    BY DEF Followed
  <2>2. v # w
    BY <1>8 DEF Live
  <2>3. ASSUME Held(v) PROVE Held(v)'
    <3>1. \A r \in Requests : Snapshot(request[r]) /\ request[r].ws = v
            => Snapshot(request'[r]) /\ request'[r] = request[r]
      BY <1>3, <2>2, TouchedFacts
    <3> QED BY <1>3, <1>4, <2>2, <2>3, <3>1 DEF Held, AsServed
  <2> QED BY <1>6, <2>1, <2>2, <2>3
<1> QED BY <1>9, <1>10, <1>11, <1>12, <1>13
-----------------------------------------------------------------------------
(* Following the server *)

LEMMA InitFollows ==
  ASSUME Init
  PROVE  FollowInv
<1>1. \A r \in Requests : ~Snapshot(request[r]) /\ ~CarriedOut(request[r])
  BY DEF Init, Snapshot, CarriedOut
<1>2. \A w : TellsOf(wire, w) = {}
  BY DEF Init, TellsOf
<1>3. \A w \in Workspaces : row[w] # "deleted"
  BY DEF Init
<1>4. ~linked /\ unheard = {}
  BY DEF Init
<1> QED BY <1>1, <1>2, <1>3, <1>4
        DEF FollowInv, Snapshots, DoneDeletions, DeletionsTold, UnheardAreDeleted,
            GoneForGood, Followed

LEMMA NextFollows ==
  ASSUME FollowAll, [Next]_vars
  PROVE  FollowInv'
<1>1. CASE TabActs
  BY <1>1, OpenTabFollows, CloseTabFollows, ConvertHomeFollows, DeleteFollows,
     HomeFollows DEF TabActs
<1>2. CASE WorldActs
  BY <1>2, CommitFollows, WorldFollows DEF WorldActs
<1>3. CASE WindowActs
  BY <1>3, DeliverFollows, DeliverDeletionFollows, SucceedFollows, FailFollows
     DEF WindowActs
<1>4. CASE UNCHANGED vars
  BY <1>4, QuietStep DEF vars, intentVars
<1> QED BY <1>1, <1>2, <1>3, <1>4 DEF Next

\* At rest the window holds what the server has and shows no tab of a workspace
\* that is gone, for any number of workspaces and requests, whatever was lost with
\* the stream and however deletions, their failures and the frames crossed.
THEOREM StoreFollows == Spec => []StoreFollowsServer
<1>1. Init => FollowInv
  BY InitFollows
<1>2. TypeOK /\ FollowInv /\ [Next]_vars => FollowInv'
  BY NextFollows DEF FollowAll
<1>3. TypeOK /\ FollowInv => StoreFollowsServer
  <2> SUFFICES ASSUME TypeOK, FollowInv, AtRest, NEW w \in Workspaces \ unheard
               PROVE  /\ row[w] \in Live =>
                           /\ w \in ids /\ entry[w] \in Live
                           /\ \/ entry[w] = row[w]
                              \/ w \in pendingOpen \cup pendingClose \cup undone
                      /\ row[w] = "deleted" => w \notin ids /\ ~Shown(w)
    BY DEF StoreFollowsServer
  <2>1. linked /\ TellsOf(wire, w) = {} /\ \A r \in Requests : ~Snapshot(request[r])
    BY DEF AtRest, TellsOf, Snapshot, IsUnderWay
  <2>2. row[w] \in Live => Held(w)
    BY <2>1 DEF FollowInv, Followed
  <2>3. row[w] = "deleted" => w \notin ids /\ ~Holds(tabs.order, w)
    BY DEF FollowInv, GoneForGood, Gone
  <2> QED BY <2>1, <2>2, <2>3 DEF Held, AsServed, Shown
<1> QED BY <1>1, <1>2, <1>3, TabsTypeCorrect, PTL DEF Spec
=============================================================================
