-------------------------- MODULE GuestCalls_proofs --------------------------
(* Proofs about GuestCalls, for any guests, administrators, zones and ids.     *)
EXTENDS GuestCalls, FiniteSetTheorems, SequenceTheorems, WellFoundedInduction, TLAPS

------------------------------------------------------------------------------
(* Least elements, and induction along a sequence *)

LEMMA LeastElement ==
  ASSUME NEW S \in SUBSET Nat, S # {}
  PROVE  \E x \in S : \A y \in S : x <= y
<1> DEFINE less == {pair \in Nat \X Nat : pair[1] < pair[2]}
<1>1. IsWellFoundedOn(less, Nat)
  BY NatLessThanWellFounded DEF OpToRel
<1>2. PICK x \in S : \A y \in S : ~(<<y, x>> \in less)
  BY <1>1, WFMin
<1>3. ASSUME NEW y \in S PROVE x <= y
  <2>1. x \in Nat /\ y \in Nat /\ (y < x => <<y, x>> \in less)
    OBVIOUS
  <2> QED
    BY <1>2, <2>1
<1> QED
  BY <1>3

\* What holds of the first value of a run, and of each next one, holds of all.
LEMMA AlongARun ==
  ASSUME NEW n \in Nat, NEW Good, NEW run,
         run[0] \in Good[0],
         \A i \in 1..n : run[i - 1] \in Good[i - 1] => run[i] \in Good[i]
  PROVE  \A i \in 0..n : run[i] \in Good[i]
<1> DEFINE bad == {i \in 0..n : run[i] \notin Good[i]}
<1>1. SUFFICES ASSUME bad # {} PROVE FALSE
  OBVIOUS
<1>2. PICK i \in bad : \A j \in bad : i <= j
  <2>1. bad \in SUBSET Nat
    OBVIOUS
  <2> HIDE DEF bad
  <2> QED
    BY <1>1, <2>1, LeastElement
<1>3. i # 0 /\ i - 1 \in 0..n /\ i - 1 \notin bad
  BY <1>2
<1> QED
  BY <1>2, <1>3

RunsOf(n, Good, first, step) ==
    {run \in [0..n -> Good] :
        run[0] = first /\ \A i \in 1..n : run[i] = step[<<i, run[i - 1]>>]}

\* A run with n steps exists, whatever its steps are, if they stay in a set.
LEMMA RunExists ==
  ASSUME NEW n \in Nat, NEW Good, NEW first \in Good, NEW step \in [(1..n) \X Good -> Good]
  PROVE  RunsOf(n, Good, first, step) # {}
<1> DEFINE Runs(k) == RunsOf(k, Good, first, step)
<1> USE DEF RunsOf
<1> DEFINE bad == {k \in 0..n : Runs(k) = {}}
<1>1. SUFFICES ASSUME bad # {} PROVE FALSE
  <2>1. n \in 0..n
    OBVIOUS
  <2>2. bad = {} => Runs(n) # {}
    BY <2>1
  <2> QED
    BY <2>2
<1>2. PICK k \in bad : \A j \in bad : k <= j
  <2>1. bad \in SUBSET Nat
    OBVIOUS
  <2> HIDE DEF bad
  <2> QED
    BY <1>1, <2>1, LeastElement
<1>3. k # 0
  <2>1. [i \in 0..0 |-> first] \in Runs(0)
    OBVIOUS
  <2> QED
    BY <1>2, <2>1
<1>4. PICK run : run \in Runs(k - 1)
  <2>1. k - 1 \in 0..n /\ k - 1 \notin bad
    BY <1>2, <1>3
  <2> QED
    BY <2>1
<1> DEFINE longer == [i \in 0..k |-> IF i = k THEN step[<<k, run[k - 1]>>] ELSE run[i]]
<1>5. longer \in Runs(k)
  <2>1. k \in 1..n /\ run \in [0..(k - 1) -> Good]
    BY <1>2, <1>3, <1>4
  <2>2. <<k, run[k - 1]>> \in (1..n) \X Good
    BY <2>1
  <2>3. longer \in [0..k -> Good] /\ longer[0] = first
    BY <1>3, <1>4, <2>1, <2>2
  <2>4. ASSUME NEW i \in 1..k PROVE longer[i] = step[<<i, longer[i - 1]>>]
    <3>1. i - 1 \in 0..k /\ i - 1 # k /\ longer[i - 1] = run[i - 1]
      BY <2>1
    <3>2. CASE i = k
      BY <3>1, <3>2
    <3>3. CASE i # k
      <4>1. i \in 1..(k - 1)
        BY <2>1, <3>3
      <4> QED
        BY <1>4, <3>1, <3>3, <4>1
    <3> QED
      BY <3>2, <3>3
  <2> QED
    BY <2>3, <2>4
<1> QED
  BY <1>2, <1>5

------------------------------------------------------------------------------
(* The promotions of all zones, one after the other *)

LEMMA PromotingRun ==
  ASSUME NEW STATE Good, Tables \in Good,
         \A s \in Good, z \in Zones : PromoteZone(s, z) \in Good,
         NEW order \in Seq(Zones)
  PROVE  /\ \A i \in 0..Len(order) : Promoting(order)[i] \in Good
         /\ Promoting(order)[0] = Tables
         /\ \A i \in 1..Len(order) :
                Promoting(order)[i] = PromoteZone(Promoting(order)[i - 1], order[i])
<1> DEFINE n == Len(order)
           next(done, i) == IF i = 0 THEN Tables ELSE PromoteZone(done[i - 1], order[i])
           IsRun(done) == done = [i \in 0..n |-> next(done, i)]
           step == [pair \in (1..n) \X Good |-> PromoteZone(pair[2], order[pair[1]])]
<1>1. n \in Nat /\ \A i \in 1..n : order[i] \in Zones
  BY LenProperties, ElementOfSeq
<1>2. step \in [(1..n) \X Good -> Good]
  BY <1>1
<1> HIDE DEF n
<1>3. PICK run \in [0..n -> Good] :
        run[0] = Tables /\ \A i \in 1..n : run[i] = step[<<i, run[i - 1]>>]
  <2> HIDE DEF step
  <2> QED
    <3>1. PICK run : run \in RunsOf(n, Good, Tables, step)
      BY <1>1, <1>2, RunExists
    <3> QED
      BY <3>1 DEF RunsOf
<1>4. IsRun(run)
  <2>1. ASSUME NEW i \in 0..n PROVE run[i] = next(run, i)
    <3>1. CASE i = 0
      BY <1>3, <3>1
    <3>2. CASE i # 0
      <4>1. i \in 1..n /\ i - 1 \in 0..n /\ run[i - 1] \in Good
        BY <1>1, <1>3, <3>2
      <4> QED
        BY <1>3, <3>2, <4>1
    <3> QED
      BY <3>1, <3>2
  <2> QED
    BY <1>3, <2>1
<1> HIDE DEF IsRun
<1>5. IsRun(CHOOSE done : IsRun(done))
  BY <1>4, Zenon
<1>6. IsRun(Promoting(order))
  <2>1. Promoting(order) = CHOOSE done : IsRun(done)
    BY DEF Promoting, IsRun, n
  <2> QED
    BY <1>5, <2>1
<1> DEFINE done == Promoting(order)
<1>7. done[0] = Tables /\ \A i \in 1..n : done[i] = PromoteZone(done[i - 1], order[i])
  BY <1>1, <1>6 DEF IsRun
<1> HIDE DEF done
<1>8. \A i \in 1..n : done[i - 1] \in Good => done[i] \in Good
  BY <1>1, <1>7
<1>9. \A i \in 0..n : done[i] \in Good
  <2> DEFINE goods == [i \in 0..n |-> Good]
  <2>1. n \in Nat /\ done[0] \in goods[0]
    BY <1>1, <1>7
  <2>2. \A i \in 1..n : done[i - 1] \in goods[i - 1] => done[i] \in goods[i]
    BY <1>1, <1>8
  <2> HIDE DEF goods
  <2>3. \A i \in 0..n : done[i] \in goods[i]
    BY <2>1, <2>2, AlongARun
  <2> QED
    BY <2>1, <2>3 DEF goods
<1> QED
  BY <1>7, <1>9 DEF done, n

LEMMA PromotionsStay ==
  ASSUME NEW STATE Good, Tables \in Good,
         \A s \in Good, z \in Zones : PromoteZone(s, z) \in Good
  PROVE  Promotions \subseteq Good
<1>1. Cardinality(Zones) \in Nat
  BY CallConstantsOK, FS_CardinalityType
<1>2. ZoneOrders \subseteq Seq(Zones)
  BY <1>1 DEF ZoneOrders, SetToSeqs
<1>3. ASSUME NEW order \in ZoneOrders PROVE Promoting(order)[Len(order)] \in Good
  <2>1. Len(order) \in Nat /\ Len(order) \in 0..Len(order)
    BY <1>2, LenProperties
  <2> QED
    BY <1>2, <2>1, PromotingRun
<1> QED
  BY <1>3 DEF Promotions

------------------------------------------------------------------------------
(* Sound tables: what LineExclusive, OneCallPerGuest and QueueSound say, of any *)
(* tables and not of the variables alone.                                        *)

TablesOK == [call : [CallIds -> Call \cup {NoCall}], activeOf : [CallGuests -> CallIds \cup {0}],
             queue : [Zones -> Seq(Item)], started : Seq(CallIds)]

OneLine(s) == \A c, d \in Live(s) : s.call[c].zone = s.call[d].zone => c = d

OneCall(s) ==
    /\ \A c \in Live(s) : s.activeOf[s.call[c].guest] = c
    /\ \A g \in CallGuests : s.activeOf[g] # 0 => InCall(s, g) /\ s.call[s.activeOf[g]].guest = g

OnceInLine(s) ==
    \A z \in Zones : \A i, j \in DOMAIN s.queue[z] : s.queue[z][i].guest = s.queue[z][j].guest => i = j

NotCalledHere(s) ==
    \A z \in Zones : \A i \in DOMAIN s.queue[z] :
        InCall(s, s.queue[z][i].guest) => s.call[s.activeOf[s.queue[z][i].guest]].zone # z

SoundTables == {s \in TablesOK : OneLine(s) /\ OneCall(s) /\ OnceInLine(s) /\ NotCalledHere(s)}

LEMMA LiveIsCall ==
  ASSUME NEW s \in TablesOK
  PROVE  /\ \A c \in CallIds : c \in Live(s) <=> s.call[c] \in Call
         /\ \A c \in Live(s) : /\ s.call[c].zone \in Zones /\ s.call[c].guest \in CallGuests
                               /\ s.call[c].admin \in Admins
         /\ 0 \notin CallIds
BY CallConstantsOK DEF TablesOK, Live, Call, NoCall

LEMMA QueueFacts ==
  ASSUME NEW s \in TablesOK, NEW z \in Zones
  PROVE  /\ s.queue[z] \in Seq(Item) /\ Len(s.queue[z]) \in Nat
         /\ DOMAIN s.queue[z] = 1..Len(s.queue[z])
         /\ \A i \in DOMAIN s.queue[z] :
                /\ s.queue[z][i] \in Item
                /\ s.queue[z][i].guest \in CallGuests /\ s.queue[z][i].admin \in Admins
<1>1. s.queue[z] \in Seq(Item)
  BY DEF TablesOK
<1>2. Len(s.queue[z]) \in Nat /\ DOMAIN s.queue[z] = 1..Len(s.queue[z])
  BY <1>1, LenProperties
<1>3. \A i \in DOMAIN s.queue[z] : s.queue[z][i] \in Item
  BY <1>1, <1>2, ElementOfSeq
<1> QED
  BY <1>1, <1>2, <1>3 DEF Item

\* Ending calls, live or not, keeps the tables sound (_drop_call).
LEMMA DropSound ==
  ASSUME NEW STATE s, s \in SoundTables, NEW over
  PROVE  /\ DropCalls(s, over) \in SoundTables
         /\ Live(DropCalls(s, over)) = Live(s) \ over
         /\ DropCalls(s, over).queue = s.queue
         /\ DropCalls(s, over).started = s.started
         /\ \A c \in CallIds : DropCalls(s, over).call[c] = IF c \in over THEN NoCall ELSE s.call[c]
<1> DEFINE t == DropCalls(s, over)
<1>1. s \in TablesOK /\ OneLine(s) /\ OneCall(s) /\ OnceInLine(s) /\ NotCalledHere(s)
  BY DEF SoundTables
<1>2. /\ t \in TablesOK /\ t.queue = s.queue /\ t.started = s.started
      /\ \A c \in CallIds : t.call[c] = IF c \in over THEN NoCall ELSE s.call[c]
      /\ \A g \in CallGuests :
             t.activeOf[g] = IF /\ s.activeOf[g] \in over \cap Live(s)
                                /\ s.call[s.activeOf[g]].guest = g THEN 0 ELSE s.activeOf[g]
  BY <1>1 DEF DropCalls, TablesOK
<1> HIDE DEF t
<1>3. /\ Live(t) = Live(s) \ over
      /\ \A c \in Live(t) : t.call[c] = s.call[c]
  BY <1>2 DEF Live, NoCall
<1>4. OneLine(t)
  BY <1>1, <1>3 DEF OneLine
<1>5. OneCall(t)
  <2>1. ASSUME NEW c \in Live(t) PROVE t.activeOf[t.call[c].guest] = c
    BY <1>1, <1>2, <1>3, <2>1, LiveIsCall DEF OneCall
  <2>2. ASSUME NEW g \in CallGuests, t.activeOf[g] # 0
        PROVE  InCall(t, g) /\ t.call[t.activeOf[g]].guest = g
    BY <1>1, <1>2, <1>3, <2>2 DEF OneCall, InCall
  <2> QED
    BY <2>1, <2>2 DEF OneCall
<1>6. \A g \in CallGuests : InCall(t, g) => InCall(s, g) /\ t.activeOf[g] = s.activeOf[g]
  BY <1>2, <1>3 DEF InCall
<1>7. OnceInLine(t)
  BY <1>1, <1>2 DEF OnceInLine
<1>8. NotCalledHere(t)
  <2> SUFFICES ASSUME NEW z \in Zones, NEW i \in DOMAIN s.queue[z], InCall(t, s.queue[z][i].guest)
               PROVE  t.call[t.activeOf[s.queue[z][i].guest]].zone # z
    BY <1>2 DEF NotCalledHere
  <2> DEFINE g == s.queue[z][i].guest
  <2>1. g \in CallGuests
    BY <1>1, QueueFacts
  <2>2. InCall(s, g) /\ t.activeOf[g] = s.activeOf[g] /\ t.activeOf[g] \in Live(t)
    BY <1>6, <2>1 DEF InCall
  <2>3. s.call[s.activeOf[g]].zone # z
    BY <1>1, <2>2 DEF NotCalledHere
  <2> QED
    BY <1>3, <2>2, <2>3
<1> QED
  BY <1>2, <1>3, <1>4, <1>5, <1>7, <1>8 DEF SoundTables, t

\* A free line, a guest who is in no call and does not wait there: the call that
\* starts keeps the tables sound (create_call).
LEMMA StartSound ==
  ASSUME NEW STATE s, s \in SoundTables, NEW z \in Zones, NEW item \in Item,
         FreeIds(s) # {}, ~ZoneBusy(s, z), ~InCall(s, item.guest), ~Waiting(s, item.guest, z)
  PROVE  LET t == StartCall(s, z, item) IN
         /\ t \in SoundTables /\ t.queue = s.queue
         /\ \E c \in FreeIds(s) :
               /\ c \in CallIds /\ s.call[c].state = "none" /\ task[c].pc = "idle"
               /\ t.call[c].state = "ringing" /\ t.call[c].zone = z /\ t.call[c].guest = item.guest
               /\ t.started = Append(s.started, c)
               /\ \A d \in CallIds \ {c} : t.call[d] = s.call[d]
<1> DEFINE t == StartCall(s, z, item)
           c == CHOOSE free \in FreeIds(s) : TRUE
           new == [state |-> "ringing", zone |-> z, guest |-> item.guest,
                   admin |-> item.admin, role |-> item.role, esc |-> item.esc]
<1>1. s \in TablesOK /\ OneLine(s) /\ OneCall(s) /\ OnceInLine(s) /\ NotCalledHere(s)
  BY DEF SoundTables
<1>2. c \in FreeIds(s)
  OBVIOUS
<1>3. c \in CallIds /\ c # 0 /\ s.call[c].state = "none" /\ task[c].pc = "idle" /\ c \notin Live(s)
  BY <1>2, CallConstantsOK DEF FreeIds, Live
<1>4. new \in Call /\ item.guest \in CallGuests
  BY DEF Item, Call
<1>5. t = [s EXCEPT !.call[c] = new, !.activeOf[item.guest] = c, !.started = Append(@, c)]
  BY DEF StartCall
<1> HIDE DEF t, c
<1>6. /\ t.queue = s.queue /\ t.started = Append(s.started, c)
      /\ t.call[c] = new /\ \A d \in CallIds \ {c} : t.call[d] = s.call[d]
      /\ t.activeOf[item.guest] = c
      /\ \A g \in CallGuests \ {item.guest} : t.activeOf[g] = s.activeOf[g]
  BY <1>1, <1>3, <1>4, <1>5 DEF TablesOK
<1>7. t \in TablesOK
  <2>1. s.started \in Seq(CallIds)
    BY <1>1 DEF TablesOK
  <2>2. Append(s.started, c) \in Seq(CallIds)
    BY <1>3, <2>1, AppendProperties
  <2> QED
    BY <1>1, <1>3, <1>4, <1>5, <2>2 DEF TablesOK
<1>8. Live(t) = Live(s) \cup {c}
  BY <1>3, <1>6 DEF Live
<1>9. OneLine(t)
  <2>1. t.call[c].zone = z
    BY <1>6
  <2>2. \A d \in Live(s) : d \in CallIds \ {c} /\ t.call[d] = s.call[d] /\ s.call[d].zone # z
    BY <1>3, <1>6 DEF Live, ZoneBusy
  <2> QED
    BY <1>1, <1>8, <2>1, <2>2 DEF OneLine
<1>10. OneCall(t)
  <2>1. ASSUME NEW d \in Live(t) PROVE t.activeOf[t.call[d].guest] = d
    <3>1. CASE d = c
      BY <1>6, <3>1
    <3>2. CASE d # c
      <4>1. d \in Live(s) /\ s.activeOf[s.call[d].guest] = d /\ s.call[d].guest \in CallGuests
        BY <1>1, <1>8, <3>2, LiveIsCall DEF OneCall
      <4>2. s.call[d].guest # item.guest
        <5>1. d \in CallIds /\ d # 0
          BY <1>1, <4>1, LiveIsCall DEF Live
        <5> QED
          BY <4>1, <5>1 DEF InCall
      <4>3. t.call[d] = s.call[d]
        BY <1>6, <3>2, <4>1 DEF Live
      <4> QED
        BY <1>6, <4>1, <4>2, <4>3
    <3> QED
      BY <3>1, <3>2
  <2>2. ASSUME NEW g \in CallGuests, t.activeOf[g] # 0
        PROVE  InCall(t, g) /\ t.call[t.activeOf[g]].guest = g
    <3>1. CASE g = item.guest
      BY <1>3, <1>6, <1>8, <3>1 DEF InCall
    <3>2. CASE g # item.guest
      <4>1. s.activeOf[g] # 0 /\ t.activeOf[g] = s.activeOf[g]
        BY <1>6, <2>2, <3>2
      <4>2. s.activeOf[g] \in Live(s) /\ s.call[s.activeOf[g]].guest = g
        BY <1>1, <4>1 DEF OneCall, InCall
      <4>3. t.call[s.activeOf[g]] = s.call[s.activeOf[g]]
        BY <1>3, <1>6, <4>2 DEF Live
      <4> QED
        BY <1>8, <4>1, <4>2, <4>3 DEF InCall
    <3> QED
      BY <3>1, <3>2
  <2> QED
    BY <2>1, <2>2 DEF OneCall
<1>11. OnceInLine(t)
  BY <1>1, <1>6 DEF OnceInLine
<1>12. NotCalledHere(t)
  <2> SUFFICES ASSUME NEW y \in Zones, NEW i \in DOMAIN s.queue[y], InCall(t, s.queue[y][i].guest)
               PROVE  t.call[t.activeOf[s.queue[y][i].guest]].zone # y
    BY <1>6 DEF NotCalledHere
  <2> DEFINE g == s.queue[y][i].guest
  <2>1. g \in CallGuests
    BY <1>1, QueueFacts
  <2>2. CASE g = item.guest
    BY <1>6, <2>2 DEF Waiting
  <2>3. CASE g # item.guest
    <3>1. t.activeOf[g] = s.activeOf[g] /\ s.activeOf[g] # 0
      BY <1>6, <2>1, <2>3 DEF InCall
    <3>2. s.activeOf[g] \in Live(s) /\ InCall(s, g)
      BY <1>1, <2>1, <3>1 DEF OneCall, InCall
    <3>3. t.call[s.activeOf[g]] = s.call[s.activeOf[g]]
      BY <1>3, <1>6, <3>2 DEF Live
    <3> QED
      BY <1>1, <3>1, <3>2, <3>3 DEF NotCalledHere
  <2> QED
    BY <2>2, <2>3
<1>13. t \in SoundTables
  BY <1>7, <1>9, <1>10, <1>11, <1>12 DEF SoundTables
<1> QED
  BY <1>2, <1>3, <1>6, <1>13 DEF t

------------------------------------------------------------------------------
(* Waiting lines *)

\* r is q without its first h items.
Suffix(r, q, h) == Len(r) = Len(q) - h /\ \A i \in 1..Len(r) : r[i] = q[i + h]

LEMMA CutIsSuffix ==
  ASSUME NEW q \in Seq(Item), NEW h \in 0..Len(q)
  PROVE  SubSeq(q, h + 1, Len(q)) \in Seq(Item) /\ Suffix(SubSeq(q, h + 1, Len(q)), q, h)
<1>1. Len(q) \in Nat /\ \A i \in 1..Len(q) : q[i] \in Item
  BY LenProperties, ElementOfSeq
<1>2. /\ SubSeq(q, h + 1, Len(q)) \in Seq(Item)
      /\ Len(SubSeq(q, h + 1, Len(q))) = IF h + 1 <= Len(q) THEN Len(q) - (h + 1) + 1 ELSE 0
      /\ \A i \in 1..(Len(q) - (h + 1) + 1) : SubSeq(q, h + 1, Len(q))[i] = q[h + 1 + i - 1]
  <2>1. h + 1 \in Int /\ Len(q) \in Int /\ \A i \in (h + 1)..Len(q) : q[i] \in Item
    BY <1>1
  <2> QED
    BY <2>1, SubSeqProperties
<1> QED
  BY <1>1, <1>2 DEF Suffix

LEMMA SuffixOfSuffix ==
  ASSUME NEW q \in Seq(Item), NEW r \in Seq(Item), NEW p \in Seq(Item),
         NEW h \in 0..Len(q), NEW k \in 0..Len(r), Suffix(r, q, h), Suffix(p, r, k)
  PROVE  h + k \in 0..Len(q) /\ Suffix(p, q, h + k)
<1>1. Len(q) \in Nat /\ Len(r) \in Nat /\ Len(p) \in Nat
  BY LenProperties
<1> QED
  BY <1>1 DEF Suffix

\* The first items of a line are dropped.
LEMMA CutSound ==
  ASSUME NEW STATE s, s \in SoundTables, NEW z \in Zones, NEW r \in Seq(Item),
         NEW h \in 0..Len(s.queue[z]), Suffix(r, s.queue[z], h)
  PROVE  LET t == [s EXCEPT !.queue[z] = r] IN
         /\ t \in SoundTables
         /\ t.call = s.call /\ t.activeOf = s.activeOf /\ t.started = s.started
         /\ t.queue[z] = r /\ \A y \in Zones \ {z} : t.queue[y] = s.queue[y]
         /\ h > 0 => ~Waiting(t, s.queue[z][h].guest, z)
<1> DEFINE t == [s EXCEPT !.queue[z] = r]
<1>1. s \in TablesOK /\ OneLine(s) /\ OneCall(s) /\ OnceInLine(s) /\ NotCalledHere(s)
  BY DEF SoundTables
<1>2. /\ t.call = s.call /\ t.activeOf = s.activeOf /\ t.started = s.started
      /\ t.queue[z] = r /\ \A y \in Zones \ {z} : t.queue[y] = s.queue[y]
      /\ t \in TablesOK
  BY <1>1 DEF TablesOK
<1>3. /\ Len(s.queue[z]) \in Nat /\ DOMAIN s.queue[z] = 1..Len(s.queue[z])
      /\ Len(r) \in Nat /\ DOMAIN r = 1..Len(r)
  BY <1>1, QueueFacts, LenProperties
<1> HIDE DEF t
<1>4. \A i \in DOMAIN r : i + h \in DOMAIN s.queue[z] /\ r[i] = s.queue[z][i + h]
  BY <1>3 DEF Suffix
<1>5. OneLine(t) /\ OneCall(t)
  BY <1>1, <1>2 DEF OneLine, OneCall, InCall, Live
<1>6. OnceInLine(t)
  <2> SUFFICES ASSUME NEW y \in Zones, NEW i \in DOMAIN t.queue[y], NEW j \in DOMAIN t.queue[y],
                      t.queue[y][i].guest = t.queue[y][j].guest
               PROVE  i = j
    BY DEF OnceInLine
  <2>1. CASE y = z
    <3>1. i \in DOMAIN r /\ j \in DOMAIN r /\ r[i].guest = r[j].guest
      BY <1>2, <2>1
    <3>2. /\ i + h \in DOMAIN s.queue[z] /\ j + h \in DOMAIN s.queue[z]
          /\ s.queue[z][i + h].guest = s.queue[z][j + h].guest
      BY <1>4, <3>1
    <3>3. i + h = j + h
      BY <1>1, <3>2 DEF OnceInLine
    <3> QED
      BY <1>3, <3>1, <3>3
  <2>2. CASE y # z
    BY <1>1, <1>2, <2>2 DEF OnceInLine
  <2> QED
    BY <2>1, <2>2
<1>7. NotCalledHere(t)
  <2>1. \A g : InCall(t, g) <=> InCall(s, g)
    BY <1>2 DEF InCall, Live
  <2> SUFFICES ASSUME NEW y \in Zones, NEW i \in DOMAIN t.queue[y], InCall(s, t.queue[y][i].guest)
               PROVE  s.call[s.activeOf[t.queue[y][i].guest]].zone # y
    BY <1>2, <2>1 DEF NotCalledHere
  <2>2. \E j \in DOMAIN s.queue[y] : t.queue[y][i] = s.queue[y][j]
    <3>1. CASE y = z
      BY <1>2, <1>4, <3>1
    <3>2. CASE y # z
      BY <1>2, <3>2
    <3> QED
      BY <3>1, <3>2
  <2> QED
    BY <1>1, <2>2 DEF NotCalledHere
<1>8. h > 0 => ~Waiting(t, s.queue[z][h].guest, z)
  <2> SUFFICES ASSUME h > 0, NEW i \in DOMAIN r, r[i].guest = s.queue[z][h].guest PROVE FALSE
    BY <1>2 DEF Waiting
  <2>1. h \in DOMAIN s.queue[z] /\ i + h \in DOMAIN s.queue[z] /\ i + h # h
    BY <1>3, <1>4
  <2> QED
    BY <1>1, <1>4, <2>1 DEF OnceInLine
<1> QED
  BY <1>2, <1>5, <1>6, <1>7, <1>8 DEF SoundTables, t

\* A guest who neither waits here nor is called from here joins the line.
LEMMA ParkSound ==
  ASSUME NEW STATE s, s \in SoundTables, NEW z \in Zones, NEW item \in Item,
         ~Waiting(s, item.guest, z),
         InCall(s, item.guest) => s.call[s.activeOf[item.guest]].zone # z
  PROVE  LET t == [s EXCEPT !.queue[z] = Append(@, item)] IN
         t \in SoundTables /\ t.call = s.call /\ t.started = s.started
<1> DEFINE t == [s EXCEPT !.queue[z] = Append(@, item)]
           q == s.queue[z]
           n == Len(s.queue[z])
<1>1. s \in TablesOK /\ OneLine(s) /\ OneCall(s) /\ OnceInLine(s) /\ NotCalledHere(s)
  BY DEF SoundTables
<1>2. q \in Seq(Item) /\ n \in Nat /\ DOMAIN q = 1..n
  BY <1>1, QueueFacts
<1>3. /\ Append(q, item) \in Seq(Item) /\ DOMAIN Append(q, item) = 1..(n + 1)
      /\ \A i \in 1..n : Append(q, item)[i] = q[i]
      /\ Append(q, item)[n + 1] = item
  BY <1>2, AppendProperties, LenProperties
<1>4. /\ t.call = s.call /\ t.activeOf = s.activeOf /\ t.started = s.started
      /\ t.queue[z] = Append(q, item) /\ \A y \in Zones \ {z} : t.queue[y] = s.queue[y]
      /\ t \in TablesOK
  BY <1>1, <1>3 DEF TablesOK
<1> HIDE DEF t
<1>5. OneLine(t) /\ OneCall(t)
  BY <1>1, <1>4 DEF OneLine, OneCall, InCall, Live
<1>6. \A i \in 1..n : q[i].guest # item.guest
  BY <1>2 DEF Waiting
<1>7. OnceInLine(t)
  <2> SUFFICES ASSUME NEW y \in Zones, NEW i \in DOMAIN t.queue[y], NEW j \in DOMAIN t.queue[y],
                      t.queue[y][i].guest = t.queue[y][j].guest
               PROVE  i = j
    BY DEF OnceInLine
  <2>1. CASE y = z
    <3>1. i \in 1..(n + 1) /\ j \in 1..(n + 1)
      BY <1>3, <1>4, <2>1
    <3>2. Append(q, item)[i].guest = Append(q, item)[j].guest
      BY <1>4, <2>1
    <3>3. CASE i \in 1..n /\ j \in 1..n
      <4>1. i \in DOMAIN q /\ j \in DOMAIN q /\ q[i].guest = q[j].guest
        BY <1>2, <1>3, <3>2, <3>3
      <4> HIDE DEF n
      <4> QED
        BY <1>1, <4>1 DEF OnceInLine
    <3>4. CASE i = n + 1 /\ j \in 1..n
      BY <1>3, <1>6, <3>2, <3>4
    <3>5. CASE i \in 1..n /\ j = n + 1
      BY <1>3, <1>6, <3>2, <3>5
    <3> QED
      BY <1>2, <3>1, <3>3, <3>4, <3>5
  <2>2. CASE y # z
    BY <1>1, <1>4, <2>2 DEF OnceInLine
  <2> QED
    BY <2>1, <2>2
<1>8. NotCalledHere(t)
  <2> SUFFICES ASSUME NEW y \in Zones, NEW i \in DOMAIN t.queue[y], InCall(s, t.queue[y][i].guest)
               PROVE  s.call[s.activeOf[t.queue[y][i].guest]].zone # y
    BY <1>4 DEF NotCalledHere, InCall, Live
  <2>1. CASE y = z /\ i = n + 1
    BY <1>3, <1>4, <2>1
  <2>2. CASE ~(y = z /\ i = n + 1)
    <3>1. i \in DOMAIN s.queue[y] /\ t.queue[y][i] = s.queue[y][i]
      <4>1. CASE y = z
        <5>1. i \in 1..(n + 1) /\ i # n + 1
          BY <1>3, <1>4, <2>2, <4>1
        <5>2. i \in 1..n
          BY <1>2, <5>1
        <5> QED
          BY <1>2, <1>3, <1>4, <4>1, <5>2
      <4>2. CASE y # z
        BY <1>4, <4>2
      <4> QED
        BY <4>1, <4>2
    <3> QED
      BY <1>1, <3>1 DEF NotCalledHere
  <2> QED
    BY <2>1, <2>2
<1> QED
  BY <1>4, <1>5, <1>7, <1>8 DEF SoundTables, t

------------------------------------------------------------------------------
(* What a walk over the waiting lines may have done to the tables: calls that  *)
(* were there are untouched, new ones ring with no handler of their own, and a *)
(* line that was free lost its first items only. Their guests are in calls by  *)
(* now, and a new call of the zone is the one of the last of them.             *)

Gone(s, z) == Len(queue[z]) - Len(s.queue[z])

NewCalls(s) == Live(s) \ Live(Tables)

LineCut(s, z) == Gone(s, z) \in 0..Len(queue[z]) /\ Suffix(s.queue[z], queue[z], Gone(s, z))

LineServed(s, z) ==
    /\ LineCut(s, z)
    /\ Gone(s, z) > 0 => ~ZoneBusy(Tables, z)
    /\ \A j \in 1..Gone(s, z) : InCall(s, queue[z][j].guest)
    /\ \A c \in NewCalls(s) : s.call[c].zone = z =>
           Gone(s, z) > 0 /\ queue[z][Gone(s, z)].guest = s.call[c].guest

CallsStand(s) ==
    /\ \A c \in Live(Tables) : s.call[c] = call[c]
    /\ \A c \in NewCalls(s) : s.call[c].state = "ringing" /\ task[c].pc = "idle"
    /\ \A i \in DOMAIN s.started : s.started[i] \in NewCalls(s)

Promoted == {s \in SoundTables : CallsStand(s) /\ \A z \in Zones : LineServed(s, z)}

\* In sound tables a guest is in a call when some live call is theirs.
LEMMA CalledGuest ==
  ASSUME NEW s \in SoundTables, NEW g \in CallGuests
  PROVE  /\ InCall(s, g) <=> \E c \in Live(s) : s.call[c].guest = g
         /\ InCall(s, g) => s.activeOf[g] \in Live(s) /\ s.call[s.activeOf[g]].guest = g
<1>1. s \in TablesOK /\ OneCall(s)
  BY DEF SoundTables
<1> QED
  BY <1>1, LiveIsCall DEF OneCall, InCall, Live

\* A line that is free after a walk was free before it.
LEMMA FreeBefore ==
  ASSUME NEW s, CallsStand(s), NEW z, ~ZoneBusy(s, z)
  PROVE  ~ZoneBusy(Tables, z)
<1>1. \A c \in Live(Tables) : c \in Live(s) /\ s.call[c] = Tables.call[c]
  BY DEF CallsStand, Live, Tables
<1> QED
  BY <1>1 DEF ZoneBusy

LEMMA NothingPromoted ==
  ASSUME Tables \in SoundTables
  PROVE  Tables \in Promoted
<1>1. Tables \in TablesOK
  BY DEF SoundTables
<1>2. ASSUME NEW z \in Zones PROVE LineServed(Tables, z)
  <2>1. Len(queue[z]) \in Nat /\ Tables.queue[z] = queue[z]
    BY <1>1, QueueFacts DEF Tables
  <2>2. Gone(Tables, z) = 0 /\ NewCalls(Tables) = {}
    BY <2>1 DEF Gone, NewCalls
  <2> QED
    BY <2>1, <2>2 DEF LineServed, LineCut, Suffix
<1>3. CallsStand(Tables)
  BY DEF CallsStand, NewCalls, Tables
<1> QED
  BY <1>2, <1>3 DEF Promoted

\* Dropping the first items of a line.
LEMMA CutServes ==
  ASSUME Tables \in SoundTables, NEW STATE s, s \in Promoted, NEW z \in Zones, NEW r \in Seq(Item),
         NEW h \in 0..Len(s.queue[z]), Suffix(r, s.queue[z], h),
         NEW STATE t, t.call = s.call, t.activeOf = s.activeOf, t.started = s.started,
         t.queue[z] = r, \A y \in Zones \ {z} : t.queue[y] = s.queue[y]
  PROVE  /\ CallsStand(t) /\ NewCalls(t) = NewCalls(s)
         /\ Gone(s, z) \in Nat /\ Gone(t, z) = Gone(s, z) + h /\ LineCut(t, z)
         /\ \A j \in 1..Gone(t, z) :
                \/ j \in 1..Gone(s, z)
                \/ j - Gone(s, z) \in 1..h /\ queue[z][j] = s.queue[z][j - Gone(s, z)]
         /\ \A y \in Zones \ {z} : LineServed(t, y)
<1>1. s \in SoundTables /\ s \in TablesOK /\ Tables \in TablesOK /\ CallsStand(s)
  BY DEF Promoted, SoundTables
<1>2. /\ CallsStand(t) /\ NewCalls(t) = NewCalls(s)
      /\ \A g : InCall(t, g) <=> InCall(s, g)
  BY <1>1 DEF CallsStand, NewCalls, Live, InCall
<1>3. /\ queue[z] \in Seq(Item) /\ s.queue[z] \in Seq(Item)
      /\ Len(queue[z]) \in Nat /\ Len(s.queue[z]) \in Nat /\ Len(r) \in Nat
  BY <1>1, QueueFacts, LenProperties DEF Tables
<1>4. LineCut(s, z) /\ Gone(s, z) \in 0..Len(queue[z])
  BY DEF Promoted, LineServed, LineCut
<1>5. Gone(t, z) = Gone(s, z) + h
  <2>1. Len(r) = Len(s.queue[z]) - h /\ h \in Int
    BY <1>3 DEF Suffix
  <2> QED
    BY <1>3, <2>1 DEF Gone
<1>6. LineCut(t, z)
  BY <1>3, <1>4, <1>5, SuffixOfSuffix DEF LineCut
<1>7. ASSUME NEW j \in 1..Gone(t, z), j \notin 1..Gone(s, z)
      PROVE  j - Gone(s, z) \in 1..h /\ queue[z][j] = s.queue[z][j - Gone(s, z)]
  <2>1. j - Gone(s, z) \in 1..h /\ j - Gone(s, z) \in 1..Len(s.queue[z])
        /\ (j - Gone(s, z)) + Gone(s, z) = j
    BY <1>3, <1>4, <1>5, <1>7
  <2>2. \A i \in 1..Len(s.queue[z]) : s.queue[z][i] = queue[z][i + Gone(s, z)]
    BY <1>4 DEF LineCut, Suffix
  <2>3. s.queue[z][j - Gone(s, z)] = queue[z][(j - Gone(s, z)) + Gone(s, z)]
    BY <2>1, <2>2
  <2> QED
    BY <2>1, <2>3
<1>8. ASSUME NEW y \in Zones \ {z} PROVE LineServed(t, y)
  <2>1. LineServed(s, y) /\ Gone(t, y) = Gone(s, y)
    BY DEF Promoted, Gone
  <2> QED
    BY <1>2, <2>1 DEF LineServed, LineCut
<1>9. Gone(s, z) \in Nat
  BY <1>3, <1>4
<1>10. \A j \in 1..Gone(t, z) :
          \/ j \in 1..Gone(s, z)
          \/ j - Gone(s, z) \in 1..h /\ queue[z][j] = s.queue[z][j - Gone(s, z)]
  BY <1>7
<1> QED
  BY <1>2, <1>5, <1>6, <1>8, <1>9, <1>10

\* Passing over guests who are in calls is something a walk may do.
LEMMA PassPromoted ==
  ASSUME Tables \in SoundTables, NEW STATE s, s \in Promoted, NEW z \in Zones, NEW r \in Seq(Item),
         NEW h \in 0..Len(s.queue[z]), Suffix(r, s.queue[z], h),
         ~ZoneBusy(s, z), \A i \in 1..h : InCall(s, s.queue[z][i].guest)
  PROVE  [s EXCEPT !.queue[z] = r] \in Promoted
<1> DEFINE t == [s EXCEPT !.queue[z] = r]
<1>1. /\ t \in SoundTables /\ t.call = s.call /\ t.activeOf = s.activeOf /\ t.started = s.started
      /\ t.queue[z] = r /\ \A y \in Zones \ {z} : t.queue[y] = s.queue[y]
  BY CutSound DEF Promoted
<1> HIDE DEF t
<1>2. /\ CallsStand(t) /\ NewCalls(t) = NewCalls(s) /\ LineCut(t, z)
      /\ \A j \in 1..Gone(t, z) :
             \/ j \in 1..Gone(s, z)
             \/ j - Gone(s, z) \in 1..h /\ queue[z][j] = s.queue[z][j - Gone(s, z)]
      /\ \A y \in Zones \ {z} : LineServed(t, y)
  BY <1>1, CutServes
<1>3. \A g : InCall(t, g) <=> InCall(s, g)
  BY <1>1 DEF InCall, Live
<1>4. \A j \in 1..Gone(s, z) : InCall(s, queue[z][j].guest)
  BY DEF Promoted, LineServed
<1>5. \A c \in NewCalls(t) : t.call[c].zone # z
  BY <1>1, <1>2 DEF NewCalls, ZoneBusy
<1>6. ~ZoneBusy(Tables, z)
  BY FreeBefore DEF Promoted
<1>7. LineServed(t, z)
  BY <1>2, <1>3, <1>4, <1>5, <1>6 DEF LineServed
<1> QED
  BY <1>1, <1>2, <1>7 DEF Promoted, t

LEMMA PromoteZoneStays ==
  ASSUME Tables \in SoundTables, NEW STATE s, s \in Promoted, NEW z \in Zones
  PROVE  PromoteZone(s, z) \in Promoted
<1> DEFINE q == s.queue[z]
           halt == {i \in DOMAIN q : AdminBusy(s, q[i].admin) \/ ~InCall(s, q[i].guest)}
           h == CHOOSE i \in halt : \A j \in halt : i <= j
           cut == [s EXCEPT !.queue[z] = SubSeq(q, h + 1, Len(q))]
<1>1. s \in SoundTables /\ s \in TablesOK /\ Tables \in TablesOK
  BY DEF Promoted, SoundTables
<1>2. /\ q \in Seq(Item) /\ Len(q) \in Nat /\ DOMAIN q = 1..Len(q)
      /\ \A i \in DOMAIN q : q[i] \in Item
  BY <1>1, QueueFacts
<1>3. PromoteZone(s, z) =
        IF ZoneBusy(s, z) \/ FreeIds(s) = {} THEN s
        ELSE IF halt = {} THEN [s EXCEPT !.queue[z] = <<>>]
        ELSE IF AdminBusy(s, q[h].admin) THEN [s EXCEPT !.queue[z] = SubSeq(q, h, Len(q))]
        ELSE StartCall(cut, z, q[h])
  BY DEF PromoteZone
<1>4. CASE ZoneBusy(s, z) \/ FreeIds(s) = {}
  BY <1>3, <1>4
<1>5. CASE ~ZoneBusy(s, z) /\ FreeIds(s) # {} /\ halt = {}
  <2>1. <<>> \in Seq(Item) /\ Len(q) \in 0..Len(q) /\ Suffix(<<>>, q, Len(q))
    BY <1>2 DEF Suffix
  <2>2. \A i \in 1..Len(q) : InCall(s, q[i].guest)
    BY <1>2, <1>5
  <2>3. [s EXCEPT !.queue[z] = <<>>] \in Promoted
    BY <1>5, <2>1, <2>2, PassPromoted
  <2> QED
    BY <1>3, <1>5, <2>3
<1>6. CASE ~ZoneBusy(s, z) /\ FreeIds(s) # {} /\ halt # {}
  <2>1. h \in halt /\ h \in 1..Len(q) /\ \A j \in halt : h <= j
    <3>1. halt \in SUBSET Nat
      BY <1>2
    <3>2. \E i \in halt : \A j \in halt : i <= j
      <4> HIDE DEF halt
      <4> QED
        BY <1>6, <3>1, LeastElement
    <3>3. h \in halt /\ \A j \in halt : h <= j
      <4> HIDE DEF halt
      <4> QED
        BY <3>2
    <3>4. h \in 1..Len(q)
      BY <1>2, <3>3
    <3> HIDE DEF h, halt
    <3> QED
      BY <3>3, <3>4
  <2>2. q[h] \in Item /\ (AdminBusy(s, q[h].admin) \/ ~InCall(s, q[h].guest))
    BY <1>2, <2>1
  <2>3. \A i \in 1..h - 1 : InCall(s, q[i].guest)
    <3>1. ASSUME NEW i \in 1..h - 1 PROVE i \in DOMAIN q /\ i \notin halt
      <4> HIDE DEF halt, h
      <4>1. i \in DOMAIN q /\ ~(h <= i)
        BY <1>2, <2>1
      <4> QED
        BY <2>1, <4>1
    <3> QED
      BY <3>1
  <2> HIDE DEF h, halt
  <2>4. CASE AdminBusy(s, q[h].admin)
    <3>1. h - 1 \in 0..Len(q) /\ (h - 1) + 1 = h
      BY <1>2, <2>1
    <3>2. SubSeq(q, h, Len(q)) \in Seq(Item) /\ Suffix(SubSeq(q, h, Len(q)), q, h - 1)
      <4>1. \A k \in 0..Len(q) : /\ SubSeq(q, k + 1, Len(q)) \in Seq(Item)
                                 /\ Suffix(SubSeq(q, k + 1, Len(q)), q, k)
        BY <1>2, CutIsSuffix
      <4>2. /\ SubSeq(q, (h - 1) + 1, Len(q)) \in Seq(Item)
            /\ Suffix(SubSeq(q, (h - 1) + 1, Len(q)), q, h - 1)
        BY <3>1, <4>1
      <4> QED
        BY <3>1, <4>2
    <3>3. [s EXCEPT !.queue[z] = SubSeq(q, h, Len(q))] \in Promoted
      BY <1>6, <2>3, <3>1, <3>2, PassPromoted
    <3> QED
      BY <1>3, <1>6, <2>4, <3>3
  <2>5. CASE ~AdminBusy(s, q[h].admin)
    <3> DEFINE item == q[h]
               rest == SubSeq(q, h + 1, Len(q))
               t == StartCall(cut, z, item)
    <3>1. h \in 0..Len(q) /\ h > 0 /\ h \in DOMAIN q
      BY <1>2, <2>1
    <3>2. rest \in Seq(Item) /\ Suffix(rest, q, h) /\ cut = [s EXCEPT !.queue[z] = rest]
      BY <1>2, <3>1, CutIsSuffix
    <3> HIDE DEF rest
    <3>3. /\ cut \in SoundTables /\ cut.call = s.call /\ cut.activeOf = s.activeOf
          /\ cut.started = s.started /\ cut.queue[z] = rest
          /\ \A y \in Zones \ {z} : cut.queue[y] = s.queue[y]
      <4>1. cut \in SoundTables
        BY <1>1, <3>1, <3>2, CutSound
      <4> HIDE DEF cut
      <4>2. /\ cut.call = s.call /\ cut.activeOf = s.activeOf /\ cut.started = s.started
            /\ cut.queue = [s.queue EXCEPT ![z] = rest] /\ s.queue \in [Zones -> Seq(Item)]
        BY <1>1, <3>2 DEF TablesOK
      <4> QED
        BY <4>1, <4>2
    <3>4. ~Waiting(cut, item.guest, z)
      BY <1>1, <3>1, <3>2, CutSound
    <3> HIDE DEF cut
    <3>5. /\ CallsStand(cut) /\ NewCalls(cut) = NewCalls(s)
          /\ Gone(s, z) \in Nat /\ Gone(cut, z) = Gone(s, z) + h /\ LineCut(cut, z)
          /\ \A j \in 1..Gone(cut, z) :
                 \/ j \in 1..Gone(s, z)
                 \/ j - Gone(s, z) \in 1..h /\ queue[z][j] = q[j - Gone(s, z)]
          /\ \A y \in Zones \ {z} : LineServed(cut, y)
      <4>1. rest \in Seq(Item) /\ h \in 0..Len(s.queue[z]) /\ Suffix(rest, s.queue[z], h)
        BY <3>1, <3>2
      <4>2. \A j \in 1..Gone(cut, z) :
                \/ j \in 1..Gone(s, z)
                \/ j - Gone(s, z) \in 1..h /\ queue[z][j] = s.queue[z][j - Gone(s, z)]
        BY <3>3, <4>1, CutServes
      <4> QED
        BY <3>3, <4>1, <4>2, CutServes
    <3>6. /\ Live(cut) = Live(s) /\ FreeIds(cut) = FreeIds(s)
          /\ ~ZoneBusy(cut, z) /\ \A g : InCall(cut, g) <=> InCall(s, g)
      BY <1>6, <3>3, <3>5 DEF Live, FreeIds, ZoneBusy, InCall
    <3>7. /\ t \in SoundTables /\ t.queue = cut.queue
          /\ \E c \in FreeIds(cut) :
                 /\ c \in CallIds /\ cut.call[c].state = "none" /\ task[c].pc = "idle"
                 /\ t.call[c].state = "ringing" /\ t.call[c].zone = z /\ t.call[c].guest = item.guest
                 /\ t.started = Append(cut.started, c)
                 /\ \A d \in CallIds \ {c} : t.call[d] = cut.call[d]
      <4>1. /\ cut \in SoundTables /\ item \in Item /\ FreeIds(cut) # {} /\ ~ZoneBusy(cut, z)
            /\ ~InCall(cut, item.guest)
        BY <1>6, <2>2, <2>5, <3>3, <3>5, <3>6
      <4> HIDE DEF item
      <4> QED
        BY <3>4, <4>1, StartSound
    <3>8. PICK c \in CallIds : /\ cut.call[c].state = "none" /\ task[c].pc = "idle"
                               /\ t.call[c].state = "ringing"
                               /\ t.call[c].zone = z /\ t.call[c].guest = item.guest
                               /\ t.started = Append(cut.started, c)
                               /\ \A d \in CallIds \ {c} : t.call[d] = cut.call[d]
      BY <3>7
    <3> HIDE DEF t, item
    <3>9. /\ Live(t) = Live(cut) \cup {c} /\ c \notin Live(cut) /\ c \notin Live(Tables)
          /\ NewCalls(t) = NewCalls(cut) \cup {c}
      BY <3>3, <3>5, <3>8 DEF NewCalls, CallsStand, Live, Tables
    <3>10. \A d \in Live(cut) : t.call[d] = cut.call[d]
      BY <3>8, <3>9 DEF Live
    <3>11. CallsStand(t)
      <4>1. \A i \in DOMAIN t.started : t.started[i] \in NewCalls(t)
        <5>1. cut.started \in Seq(CallIds)
          BY <3>3, <3>5 DEF SoundTables, TablesOK
        <5>2. \A i \in DOMAIN t.started :
                  \/ i \in DOMAIN cut.started /\ t.started[i] = cut.started[i]
                  \/ t.started[i] = c
          BY <3>8, <5>1
        <5> QED
          BY <3>3, <3>5, <3>9, <5>2 DEF CallsStand
      <4>2. /\ \A d \in Live(Tables) : t.call[d] = call[d]
            /\ \A d \in NewCalls(t) : t.call[d].state = "ringing" /\ task[d].pc = "idle"
        BY <3>3, <3>5, <3>8, <3>9, <3>10 DEF CallsStand, NewCalls, Live
      <4> QED
        BY <4>1, <4>2 DEF CallsStand
    <3>12. \A g \in CallGuests : InCall(s, g) \/ g = item.guest => InCall(t, g)
      BY <3>3, <3>5, <3>6, <3>7, <3>8, <3>9, <3>10, CalledGuest
    <3>13. ASSUME NEW y \in Zones, NEW j \in 1..Gone(cut, y) PROVE queue[y][j].guest \in CallGuests
      <4>1. LineCut(cut, y)
        BY <3>3, <3>5 DEF LineServed
      <4>2. DOMAIN queue[y] = 1..Len(queue[y]) /\ Len(queue[y]) \in Nat
        BY <1>1, QueueFacts DEF Tables
      <4>3. j \in DOMAIN Tables.queue[y] /\ Tables.queue[y] = queue[y]
        BY <4>1, <4>2 DEF LineCut, Tables
      <4> QED
        BY <1>1, <4>3, QueueFacts
    <3>14. ASSUME NEW y \in Zones \ {z} PROVE LineServed(t, y)
      <4>1. Gone(t, y) = Gone(cut, y) /\ LineServed(cut, y)
        BY <3>3, <3>5, <3>7 DEF Gone
      <4>2. \A j \in 1..Gone(t, y) : InCall(t, queue[y][j].guest)
        BY <3>6, <3>12, <3>13, <4>1 DEF LineServed
      <4>3. LineCut(t, y)
        BY <3>7, <4>1 DEF LineServed, LineCut
      <4>4. \A d \in NewCalls(t) : t.call[d].zone = y => d \in NewCalls(cut) /\ t.call[d] = cut.call[d]
        BY <3>8, <3>9, <3>10 DEF NewCalls
      <4> QED
        BY <4>1, <4>2, <4>3, <4>4 DEF LineServed
    <3>15. LineServed(t, z)
      <4>1. Gone(t, z) = Gone(cut, z) /\ LineCut(t, z)
        BY <3>3, <3>5, <3>7 DEF Gone, LineCut
      <4>2. ASSUME NEW j \in 1..Gone(t, z) PROVE InCall(t, queue[z][j].guest)
        <5>1. CASE j \in 1..Gone(s, z)
          <6>1. InCall(s, queue[z][j].guest)
            BY <5>1 DEF Promoted, LineServed
          <6> QED
            BY <3>12, <3>13, <4>1, <6>1
        <5>2. CASE j \notin 1..Gone(s, z)
          <6>1. j - Gone(s, z) \in 1..h /\ queue[z][j] = q[j - Gone(s, z)]
            BY <3>3, <3>5, <4>1, <5>2
          <6>2. CASE j - Gone(s, z) = h
            BY <3>12, <3>13, <4>1, <6>1, <6>2 DEF item
          <6>3. CASE j - Gone(s, z) # h
            <7>1. j - Gone(s, z) \in 1..h - 1
              BY <2>1, <3>3, <3>5, <6>1, <6>3
            <7> QED
              BY <2>3, <3>12, <3>13, <4>1, <6>1, <7>1
          <6> QED
            BY <6>2, <6>3
        <5> QED
          BY <5>1, <5>2
      <4>3. Gone(t, z) > 0 /\ queue[z][Gone(t, z)].guest = item.guest
        <5>1. /\ h \in Nat /\ h > 0 /\ Gone(t, z) \in 1..Gone(cut, z)
              /\ Gone(t, z) \notin 1..Gone(s, z) /\ Gone(t, z) - Gone(s, z) = h
          BY <2>1, <3>1, <3>3, <3>5, <4>1
        <5>2. queue[z][Gone(t, z)] = q[h]
          BY <3>3, <3>5, <5>1
        <5> QED
          BY <3>3, <3>5, <5>1, <5>2 DEF item
      <4>4. \A d \in NewCalls(t) : t.call[d].zone = z => d = c
        BY <3>6, <3>9, <3>10 DEF NewCalls, ZoneBusy
      <4>5. ~ZoneBusy(Tables, z)
        BY <1>6, FreeBefore DEF Promoted
      <4> QED
        BY <3>8, <4>1, <4>2, <4>3, <4>4, <4>5 DEF LineServed
    <3>16. t \in Promoted
      BY <3>7, <3>11, <3>14, <3>15 DEF Promoted
    <3> QED
      BY <1>3, <1>6, <2>5, <3>16 DEF t, item
  <2> QED
    BY <2>4, <2>5
<1> QED
  BY <1>4, <1>5, <1>6

\* All the promotions a handler makes at once, in any order of the zones.
LEMMA PromotionsPromoted ==
  ASSUME Tables \in SoundTables
  PROVE  Promotions \subseteq Promoted
BY NothingPromoted, PromoteZoneStays, PromotionsStay
------------------------------------------------------------------------------
(* The inductive invariant *)

\* A broadcast under way is about some call, and who retries knows the guest.
Fits(t) ==
    /\ t.pc = "deliver" => t.todo # <<>>
    /\ "retry" \in {t.pc, t.then} => t.pc # "closing" /\ t.guest \in CallGuests

\* An id whose own handler, the one its ring timer started, went past the time
\* out names no call: it is not given away before that handler is done.
HandlersFit ==
    /\ \A c \in CallIds : task[c].pc \notin {"idle", "timeout"} => call[c].state = "none"
    /\ \A k \in Tasks : Fits(task[k])

CallInv == CallTypeOK /\ Tables \in SoundTables /\ HandlersFit

HandlerFits(k) == Fits(task'[k])
LEMMA IdleIsTask == Idle \in Task
<1>1. (CHOOSE z \in Zones : TRUE) \in Zones /\ <<>> \in Seq(CallIds)
  BY CallConstantsOK
<1> QED
  BY <1>1 DEF Idle, Task

LEMMA TablesAreTyped ==
  ASSUME Tables' \in SoundTables
  PROVE  /\ call' \in [CallIds -> Call \cup {NoCall}]
         /\ activeOf' \in [CallGuests -> CallIds \cup {0}]
         /\ queue' \in [Zones -> Seq(Item)]
BY DEF SoundTables, TablesOK, Tables

\* The tables a handler leaves are the ones it worked on.
LEMMA Settled ==
  ASSUME NEW STATE s, s \in SoundTables,
         call' = s.call, activeOf' = s.activeOf, queue' = s.queue
  PROVE  /\ Tables' \in SoundTables
         /\ call' \in [CallIds -> Call \cup {NoCall}]
         /\ activeOf' \in [CallGuests -> CallIds \cup {0}]
         /\ queue' \in [Zones -> Seq(Item)]
<1> DEFINE t == [call |-> call', activeOf |-> activeOf', queue |-> queue', started |-> <<>>]
<1>1. s \in TablesOK /\ OneLine(s) /\ OneCall(s) /\ OnceInLine(s) /\ NotCalledHere(s)
  BY DEF SoundTables
<1>2. Tables' = t
  BY DEF Tables
<1>3. t \in TablesOK /\ t.call = s.call /\ t.activeOf = s.activeOf /\ t.queue = s.queue
  BY <1>1 DEF TablesOK
<1> HIDE DEF t
<1>4. Live(t) = Live(s) /\ \A g : InCall(t, g) <=> InCall(s, g)
  BY <1>3 DEF InCall, Live
<1>5. t \in SoundTables
  BY <1>1, <1>3, <1>4 DEF SoundTables, OneLine, OneCall, OnceInLine, NotCalledHere
<1> QED
  BY <1>2, <1>3, <1>5 DEF TablesOK

\* What a handler may be left with once its broadcasts are done.
Onward(then, g) ==
    /\ then \in {"idle", "promote", "retry"} /\ g \in CallGuests \cup {NoCaller}
    /\ then = "retry" => g \in CallGuests

LEMMA DeliverSound ==
  ASSUME NEW STATE s, s \in SoundTables, NEW STATE todo, todo \in Seq(CallIds),
         NEW STATE strict, strict \in BOOLEAN, NEW STATE then, NEW STATE g, Onward(then, g),
         CallTypeOK, NEW k \in Tasks, Deliver(k, s, todo, strict, then, g)
  PROVE  /\ Tables' \in SoundTables /\ task' \in [Tasks -> Task] /\ HandlerFits(k)
         /\ \A j \in Tasks \ {k} : task'[j] = task[j]
         /\ queue' = s.queue /\ \A c \in CallIds : call'[c] \in {s.call[c], NoCall}
<1> DEFINE reached(c) == c \in Live(s) /\ Receivers(s, c) \cap online # {}
           missed == {i \in DOMAIN todo : \A j \in 1..i : ~reached(todo[j])}
           m == Cardinality(missed)
           t == IF strict THEN DropCalls(s, {todo[i] : i \in missed}) ELSE s
           next == IF m < Len(todo)
                   THEN [Idle EXCEPT !.pc = "deliver", !.then = then, !.strict = strict, !.guest = g,
                                     !.todo = SubSeq(todo, m + 1, Len(todo)),
                                     !.to = Receivers(s, todo[m + 1]) \cap online]
                   ELSE [Idle EXCEPT !.pc = then, !.guest = g]
<1>1. Suspend(k, t, next)
  BY DEF Deliver
<1>2. m \in Nat
  <2>1. Len(todo) \in Nat /\ DOMAIN todo = 1..Len(todo)
    BY LenProperties
  <2>2. IsFiniteSet(1..Len(todo))
    BY <2>1, FS_Interval
  <2>3. missed \subseteq 1..Len(todo)
    BY <2>1
  <2> HIDE DEF missed
  <2> QED
    BY <2>2, <2>3, FS_Subset, FS_CardinalityType
<1>3. next \in Task /\ Fits(next)
  <2>1. m < Len(todo) => /\ SubSeq(todo, m + 1, Len(todo)) \in Seq(CallIds)
                         /\ SubSeq(todo, m + 1, Len(todo)) # <<>>
    <3>1. Len(todo) \in Nat /\ \A i \in 1..Len(todo) : todo[i] \in CallIds
      BY LenProperties, ElementOfSeq
    <3> HIDE DEF m
    <3>2. m + 1 \in Int /\ \A i \in (m + 1)..Len(todo) : todo[i] \in CallIds
      BY <1>2, <3>1
    <3>3. /\ SubSeq(todo, m + 1, Len(todo)) \in Seq(CallIds)
          /\ Len(SubSeq(todo, m + 1, Len(todo)))
                = IF m + 1 <= Len(todo) THEN Len(todo) - (m + 1) + 1 ELSE 0
      BY <3>1, <3>2, SubSeqProperties
    <3>4. m < Len(todo) => Len(SubSeq(todo, m + 1, Len(todo))) # 0
      BY <1>2, <3>1, <3>3
    <3> QED
      BY <3>3, <3>4, EmptySeq
  <2>2. Receivers(s, todo[m + 1]) \cap online \subseteq Users
    BY DEF CallTypeOK
  <2>3. (CHOOSE z \in Zones : TRUE) \in Zones /\ <<>> \in Seq(CallIds)
    BY CallConstantsOK
  <2> HIDE DEF m
  <2> QED
    BY <2>1, <2>2, <2>3 DEF Task, Idle, Onward, Fits
<1>4. t \in SoundTables /\ t.queue = s.queue /\ \A c \in CallIds : t.call[c] \in {s.call[c], NoCall}
  BY DropSound
<1> HIDE DEF t, next
<1>5. /\ call' = t.call /\ activeOf' = t.activeOf /\ queue' = t.queue
      /\ task' = [task EXCEPT ![k] = next] /\ task \in [Tasks -> Task]
  BY <1>1 DEF Suspend, CallTypeOK
<1>6. Tables' \in SoundTables
  BY <1>4, <1>5, Settled
<1> QED
  BY <1>3, <1>4, <1>5, <1>6 DEF HandlerFits

\* A handler's step keeps HandlersFit when the calls it starts have ids whose
\* own handler is idle.
LEMMA RestKept ==
  ASSUME HandlersFit, NEW k \in Tasks, \A j \in Tasks \ {k} : task'[j] = task[j], HandlerFits(k),
         \A c \in CallIds : call[c].state = "none" /\ call'[c].state # "none" => task[c].pc = "idle",
         k \in CallIds /\ task'[k].pc \notin {"idle", "timeout"} => call'[k].state = "none"
  PROVE  HandlersFit'
BY DEF HandlersFit, HandlerFits, Tasks

------------------------------------------------------------------------------
(* First come, first served *)

OrderKept(c) ==
    LET z == call'[c].zone
    IN \A i \in DOMAIN queue[z] :
           (\E j \in DOMAIN queue'[z] : queue'[z][j].guest = queue[z][i].guest)
               => \E j \in 1..i - 1 : queue[z][j].guest = call'[c].guest

ServedInOrder ==
    \A c \in CallIds : call[c].state = "none" /\ call'[c].state = "ringing" => OrderKept(c)

\* Who is left in a line after a walk stood behind everybody whose call started.
LEMMA WalkServesInOrder ==
  ASSUME Tables \in SoundTables, NEW STATE s, s \in Promoted,
         NEW c \in CallIds, call[c].state = "none", call'[c].state = "ringing",
         call'[c] \in {s.call[c], NoCall},
         \A z \in Zones : \A i \in DOMAIN queue[z] :
             (\E j \in DOMAIN queue'[z] : queue'[z][j].guest = queue[z][i].guest)
                 => \E j \in DOMAIN s.queue[z] : s.queue[z][j].guest = queue[z][i].guest
  PROVE  OrderKept(c)
<1> DEFINE z == call'[c].zone
<1>1. s \in TablesOK /\ Tables \in TablesOK /\ OnceInLine(Tables)
  BY DEF Promoted, SoundTables
<1>2. call'[c] = s.call[c] /\ c \in NewCalls(s) /\ z \in Zones
  <2>1. call'[c] = s.call[c]
    BY DEF NoCall
  <2>2. c \in Live(s) /\ c \notin Live(Tables)
    BY <2>1 DEF Live, Tables
  <2> QED
    BY <1>1, <2>1, <2>2, LiveIsCall DEF NewCalls
<1>3. LineServed(s, z)
  BY <1>2 DEF Promoted
<1> HIDE DEF z
<1>4. PICK j \in 1..Gone(s, z) : queue[z][j].guest = call'[c].guest
  <2>1. Gone(s, z) > 0 /\ queue[z][Gone(s, z)].guest = call'[c].guest /\ Gone(s, z) \in Int
    BY <1>2, <1>3 DEF LineServed, LineCut, z
  <2> QED
    BY <2>1
<1> SUFFICES ASSUME NEW i \in DOMAIN queue[z],
                    \E l \in DOMAIN queue'[z] : queue'[z][l].guest = queue[z][i].guest
             PROVE  \E l \in 1..i - 1 : queue[z][l].guest = call'[c].guest
  BY DEF z, OrderKept
<1>5. PICK l \in DOMAIN s.queue[z] : s.queue[z][l].guest = queue[z][i].guest
  BY <1>2
<1>6. /\ DOMAIN s.queue[z] = 1..Len(s.queue[z]) /\ DOMAIN queue[z] = 1..Len(queue[z])
      /\ Len(s.queue[z]) \in Nat /\ Len(queue[z]) \in Nat
  BY <1>1, <1>2, QueueFacts DEF Tables
<1>7. /\ l + Gone(s, z) \in DOMAIN queue[z] /\ s.queue[z][l] = queue[z][l + Gone(s, z)]
  <2>1. Gone(s, z) \in 0..Len(queue[z]) /\ Len(s.queue[z]) = Len(queue[z]) - Gone(s, z)
    BY <1>3 DEF LineServed, LineCut, Suffix
  <2>2. l \in 1..Len(s.queue[z]) /\ s.queue[z][l] = queue[z][l + Gone(s, z)]
    BY <1>3, <1>5, <1>6 DEF LineServed, LineCut, Suffix
  <2> QED
    BY <1>6, <2>1, <2>2
<1>8. l + Gone(s, z) = i
  <2>1. queue[z][l + Gone(s, z)].guest = queue[z][i].guest
    BY <1>5, <1>7
  <2> QED
    BY <1>1, <1>2, <1>7, <2>1 DEF OnceInLine, Tables
<1>9. j \in 1..i - 1
  BY <1>3, <1>5, <1>6, <1>8 DEF LineServed, LineCut
<1> QED
  BY <1>4, <1>9
------------------------------------------------------------------------------
(* The invites *)

\* Nobody who was in no call and did not wait here is called from here.
LEMMA CalledElsewhere ==
  ASSUME Tables \in SoundTables, NEW STATE s, s \in Promoted, NEW z \in Zones, NEW g \in CallGuests,
         ~InCall(Tables, g), ~Waiting(Tables, g, z)
  PROVE  InCall(s, g) => s.call[s.activeOf[g]].zone # z
<1> SUFFICES ASSUME InCall(s, g), s.call[s.activeOf[g]].zone = z PROVE FALSE
  OBVIOUS
<1> DEFINE c == s.activeOf[g]
<1>1. s \in TablesOK /\ OneCall(s) /\ Tables \in TablesOK /\ OneCall(Tables)
  BY DEF Promoted, SoundTables
<1>2. c \in Live(s) /\ s.call[c].guest = g
  BY <1>1 DEF OneCall, InCall
<1>3. c \notin Live(Tables)
  <2>1. ASSUME c \in Live(Tables) PROVE Tables.activeOf[g] = c /\ c # 0
    <3>1. Tables.call[c] = s.call[c]
      BY <2>1 DEF Promoted, CallsStand, Tables
    <3> QED
      BY <1>1, <1>2, <2>1, <3>1, LiveIsCall DEF OneCall, Live
  <2> QED
    BY <2>1 DEF InCall
<1>4. LineServed(s, z) /\ c \in NewCalls(s)
  BY <1>2, <1>3 DEF Promoted, NewCalls
<1>5. PICK j \in 1..Gone(s, z) : queue[z][j].guest = g
  <2>1. Gone(s, z) > 0 /\ queue[z][Gone(s, z)].guest = g /\ Gone(s, z) \in Int
    BY <1>2, <1>4 DEF LineServed, LineCut
  <2> QED
    BY <2>1
<1>6. j \in DOMAIN Tables.queue[z] /\ Tables.queue[z] = queue[z]
  BY <1>1, <1>4, QueueFacts DEF LineServed, LineCut, Tables
<1> QED
  BY <1>5, <1>6 DEF Waiting

LEMMA InviteAgainSound ==
  ASSUME CallInv, NEW u \in Tasks, NEW g \in CallGuests, InCall(Tables, g), InviteAgain(u, Tables, g)
  PROVE  /\ Tables' \in SoundTables /\ task' \in [Tasks -> Task] /\ HandlerFits(u)
         /\ \A j \in Tasks \ {u} : task'[j] = task[j]
         /\ queue' = queue /\ \A c \in CallIds : call'[c] \in {call[c], NoCall}
<1>1. Tables \in SoundTables /\ CallTypeOK /\ task \in [Tasks -> Task]
  BY DEF CallInv, CallTypeOK
<1>2. activeOf[g] \in CallIds
  BY DEF InCall, Live, Tables
<1>3. CASE Suspend(u, Tables, Idle)
  <2>1. /\ call' = Tables.call /\ activeOf' = Tables.activeOf /\ queue' = Tables.queue
        /\ task' = [task EXCEPT ![u] = Idle]
    BY <1>3 DEF Suspend
  <2>2. Idle \in Task
    BY IdleIsTask
  <2>3. Tables' \in SoundTables
    BY <1>1, <2>1, Settled
  <2> QED
    BY <1>1, <2>1, <2>2, <2>3 DEF Tables, HandlerFits, Idle, Fits
<1>4. CASE Deliver(u, Tables, <<activeOf[g]>>, TRUE, "idle", NoCaller)
  <2>1. <<activeOf[g]>> \in Seq(CallIds)
    BY <1>2
  <2>2. /\ Tables' \in SoundTables /\ task' \in [Tasks -> Task] /\ HandlerFits(u)
        /\ \A j \in Tasks \ {u} : task'[j] = task[j]
        /\ queue' = Tables.queue /\ \A c \in CallIds : call'[c] \in {Tables.call[c], NoCall}
    BY <1>1, <1>4, <2>1, DeliverSound DEF Onward
  <2> QED
    BY <2>2 DEF Tables
<1> QED
  BY <1>3, <1>4 DEF InviteAgain

LEMMA EnqueueOrStartSound ==
  ASSUME CallInv, NEW u \in Users, NEW z \in Zones, NEW item \in Item, NEW STATE s, s \in Promoted,
         ~InCall(Tables, item.guest), ~Waiting(Tables, item.guest, z), EnqueueOrStart(u, z, item, s)
  PROVE  /\ Tables' \in SoundTables /\ task' \in [Tasks -> Task] /\ HandlerFits(u)
         /\ \A j \in Tasks \ {u} : task'[j] = task[j]
         /\ \A c \in CallIds : call[c].state = "none" /\ call'[c].state # "none" => task[c].pc = "idle"
         /\ ServedInOrder
<1> DEFINE g == item.guest
           parked == [s EXCEPT !.queue[z] = Append(@, item)]
           new == StartCall(s, z, item)
<1>1. /\ Tables \in SoundTables /\ CallTypeOK /\ u \in Tasks /\ g \in CallGuests
      /\ s \in SoundTables /\ s \in TablesOK /\ s.started \in Seq(CallIds)
      /\ Tables \in TablesOK
  BY DEF CallInv, Tasks, Item, Promoted, SoundTables, TablesOK
<1>2. \A c \in CallIds : call[c].state = "none" /\ s.call[c].state # "none" => task[c].pc = "idle"
  <2>1. ASSUME NEW c \in CallIds, call[c].state = "none", s.call[c].state # "none"
        PROVE  c \in NewCalls(s)
    BY <2>1 DEF NewCalls, Live, Tables
  <2> QED
    BY <2>1 DEF Promoted, CallsStand
<1>3. InCall(s, g) => s.call[s.activeOf[g]].zone # z
  BY <1>1, CalledElsewhere
\* Whatever is delivered from the promoted tables as they are.
<1>4. ASSUME NEW then, NEW h, Onward(then, h), Deliver(u, s, s.started, TRUE, then, h)
      PROVE  /\ Tables' \in SoundTables /\ task' \in [Tasks -> Task] /\ HandlerFits(u)
             /\ \A j \in Tasks \ {u} : task'[j] = task[j]
             /\ queue' = s.queue /\ \A c \in CallIds : call'[c] \in {s.call[c], NoCall}
  BY <1>1, <1>4, DeliverSound
<1>5. ASSUME queue' = s.queue, \A c \in CallIds : call'[c] \in {s.call[c], NoCall}
      PROVE  ServedInOrder
  BY <1>1, <1>5, WalkServesInOrder DEF ServedInOrder
<1>6. ASSUME \A c \in CallIds : call'[c] \in {s.call[c], NoCall}
      PROVE  \A c \in CallIds : call[c].state = "none" /\ call'[c].state # "none" => task[c].pc = "idle"
  BY <1>2, <1>6 DEF NoCall
<1>7. CASE Deliver(u, s, s.started, TRUE, "idle", NoCaller)
  BY <1>4, <1>5, <1>6, <1>7 DEF Onward
<1>8. CASE Deliver(u, s, s.started, TRUE, "retry", g)
  BY <1>1, <1>4, <1>5, <1>6, <1>8 DEF Onward
<1>9. CASE ~Waiting(s, g, z) /\ Deliver(u, parked, s.started, TRUE, "idle", NoCaller)
  <2>1. parked \in SoundTables /\ parked.call = s.call
    BY <1>1, <1>3, <1>9, ParkSound
  <2> HIDE DEF parked
  <2>2. /\ Tables' \in SoundTables /\ task' \in [Tasks -> Task] /\ HandlerFits(u)
        /\ \A j \in Tasks \ {u} : task'[j] = task[j]
        /\ queue' = parked.queue /\ \A c \in CallIds : call'[c] \in {s.call[c], NoCall}
    <3>1. Deliver(u, parked, s.started, TRUE, "idle", NoCaller) /\ parked \in SoundTables
      BY <1>9, <2>1
    <3>2. /\ Tables' \in SoundTables /\ task' \in [Tasks -> Task] /\ HandlerFits(u)
          /\ \A j \in Tasks \ {u} : task'[j] = task[j]
          /\ queue' = parked.queue /\ \A c \in CallIds : call'[c] \in {parked.call[c], NoCall}
      BY <1>1, <3>1, DeliverSound DEF Onward
    <3> QED
      BY <2>1, <3>2
  <2>3. ASSUME NEW y \in Zones, NEW i \in DOMAIN queue[y], NEW j \in DOMAIN queue'[y],
               queue'[y][j].guest = queue[y][i].guest
        PROVE  \E l \in DOMAIN s.queue[y] : s.queue[y][l].guest = queue[y][i].guest
    <3>1. CASE y # z
      BY <1>1, <2>2, <2>3, <3>1 DEF TablesOK, parked
    <3>2. CASE y = z
      <4>1. queue'[z] = Append(s.queue[z], item) /\ s.queue[z] \in Seq(Item)
        BY <1>1, <2>2 DEF TablesOK, parked
      <4>2. queue[z][i].guest # g
        BY <3>2 DEF Waiting, Tables
      <4>3. /\ DOMAIN queue'[z] = 1..(Len(s.queue[z]) + 1) /\ Len(s.queue[z]) \in Nat
            /\ \A l \in 1..Len(s.queue[z]) : queue'[z][l] = s.queue[z][l]
            /\ queue'[z][Len(s.queue[z]) + 1] = item
            /\ DOMAIN s.queue[z] = 1..Len(s.queue[z])
        BY <4>1, AppendProperties, LenProperties
      <4>4. j # Len(s.queue[z]) + 1
        BY <2>3, <3>2, <4>2, <4>3
      <4>5. j \in 1..Len(s.queue[z])
        BY <3>2, <4>3, <4>4
      <4> QED
        BY <2>3, <3>2, <4>3, <4>5
    <3> QED
      BY <3>1, <3>2
  <2>4. ServedInOrder
    <3>1. \A y \in Zones : \A i \in DOMAIN queue[y] :
              (\E j \in DOMAIN queue'[y] : queue'[y][j].guest = queue[y][i].guest)
                  => \E l \in DOMAIN s.queue[y] : s.queue[y][l].guest = queue[y][i].guest
      BY <2>3
    <3>2. ASSUME NEW c \in CallIds, call[c].state = "none", call'[c].state = "ringing"
          PROVE  OrderKept(c)
      <4>1. call'[c] \in {s.call[c], NoCall}
        BY <2>2
      <4> QED
        BY <1>1, <3>1, <3>2, <4>1, WalkServesInOrder
    <3> QED
      BY <3>2 DEF ServedInOrder
  <2> QED
    BY <1>6, <2>2, <2>4
<1>10. CASE /\ ~Waiting(s, g, z) /\ ~LineBusy(s, z, item.admin) /\ s.queue[z] = <<>>
            /\ ~InCall(s, g) /\ FreeIds(s) # {} /\ Deliver(u, new, new.started, TRUE, "idle", NoCaller)
  <2>1. ~ZoneBusy(s, z)
    BY <1>10 DEF LineBusy
  <2>2. /\ new \in SoundTables /\ new.queue = s.queue
        /\ \E c \in FreeIds(s) :
               /\ c \in CallIds /\ s.call[c].state = "none" /\ task[c].pc = "idle"
               /\ new.call[c].state = "ringing" /\ new.call[c].zone = z /\ new.call[c].guest = g
               /\ new.started = Append(s.started, c)
               /\ \A d \in CallIds \ {c} : new.call[d] = s.call[d]
    BY <1>1, <1>10, <2>1, StartSound
  <2>3. PICK c \in CallIds : /\ task[c].pc = "idle" /\ new.call[c].zone = z
                             /\ \A d \in CallIds \ {c} : new.call[d] = s.call[d]
    BY <2>2
  <2>4. new.started \in Seq(CallIds)
    BY <2>2 DEF SoundTables, TablesOK
  <2> HIDE DEF new
  <2>5. /\ Tables' \in SoundTables /\ task' \in [Tasks -> Task] /\ HandlerFits(u)
        /\ \A j \in Tasks \ {u} : task'[j] = task[j]
        /\ queue' = new.queue /\ \A d \in CallIds : call'[d] \in {new.call[d], NoCall}
    BY <1>1, <1>10, <2>2, <2>4, DeliverSound DEF Onward
  <2>6. ASSUME NEW d \in CallIds, call[d].state = "none", call'[d].state # "none"
        PROVE  task[d].pc = "idle"
    BY <1>2, <2>3, <2>5, <2>6 DEF NoCall
  <2>7. ServedInOrder
    <3>1. SUFFICES ASSUME NEW d \in CallIds, call[d].state = "none", call'[d].state = "ringing"
                   PROVE  OrderKept(d)
      BY DEF ServedInOrder
    <3>2. CASE d = c
      <4>1. call'[d].zone = z /\ queue'[z] = <<>>
        BY <1>10, <2>2, <2>3, <2>5, <3>1, <3>2 DEF NoCall
      <4>2. DOMAIN queue'[call'[d].zone] = {}
        BY <4>1
      <4> QED
        BY <4>2 DEF OrderKept
    <3>3. CASE d # c
      <4>1. call'[d] \in {s.call[d], NoCall} /\ queue' = s.queue
        BY <2>2, <2>3, <2>5, <3>3
      <4> QED
        BY <1>1, <3>1, <4>1, WalkServesInOrder
    <3> QED
      BY <3>2, <3>3
  <2> QED
    BY <2>5, <2>6, <2>7
<1> QED
  BY <1>7, <1>8, <1>9, <1>10 DEF EnqueueOrStart
LEMMA InviteKeeps ==
  ASSUME CallInv, NEW u \in Users, NEW z \in Zones, NEW item \in Item, Invite(u, z, item)
  PROVE  CallInv' /\ ServedInOrder
<1> DEFINE g == item.guest
<1>1. /\ Tables \in SoundTables /\ CallTypeOK /\ HandlersFit /\ u \in Tasks /\ u \notin CallIds
      /\ g \in CallGuests /\ cancelled' = cancelled /\ online' = online /\ access' = access
  BY CallConstantsOK DEF CallInv, Invite, Tasks, Users, Item
<1>2. /\ Tables' \in SoundTables /\ task' \in [Tasks -> Task] /\ HandlerFits(u)
      /\ \A j \in Tasks \ {u} : task'[j] = task[j]
      /\ \A c \in CallIds : call[c].state = "none" /\ call'[c].state # "none" => task[c].pc = "idle"
      /\ ServedInOrder
  <2>1. ASSUME \A c \in CallIds : call'[c] \in {call[c], NoCall}
        PROVE  /\ \A c \in CallIds : call[c].state = "none" => call'[c].state = "none"
               /\ ServedInOrder
    BY <2>1 DEF NoCall, ServedInOrder
  <2>2. CASE InCall(Tables, g)
    BY <1>1, <2>1, <2>2, InviteAgainSound DEF Invite
  <2>3. CASE ~InCall(Tables, g) /\ Waiting(Tables, g, z)
    <3>1. Suspend(u, Tables, Idle)
      BY <2>3 DEF Invite
    <3>2. /\ call' = Tables.call /\ activeOf' = Tables.activeOf /\ queue' = Tables.queue
          /\ task' = [task EXCEPT ![u] = Idle]
      BY <3>1 DEF Suspend
    <3>3. Tables' \in SoundTables /\ Idle \in Task
      BY <1>1, <3>2, Settled, IdleIsTask
    <3> QED
      BY <1>1, <2>1, <3>2, <3>3 DEF CallTypeOK, Tables, HandlerFits, Idle, Fits
  <2>4. CASE ~InCall(Tables, g) /\ ~Waiting(Tables, g, z)
    <3>1. PICK s \in IF LineBusy(Tables, z, item.admin) THEN {Tables} ELSE Promotions :
              EnqueueOrStart(u, z, item, s)
      BY <2>4 DEF Invite
    <3>2. s \in Promoted
      BY <1>1, <3>1, NothingPromoted, PromotionsPromoted
    <3> QED
      BY <2>4, <3>1, <3>2, EnqueueOrStartSound
  <2> QED
    BY <2>2, <2>3, <2>4
<1>3. HandlersFit'
  BY <1>1, <1>2, RestKept
<1>4. CallTypeOK'
  BY <1>1, <1>2, TablesAreTyped DEF CallTypeOK
<1> QED
  BY <1>2, <1>3, <1>4 DEF CallInv
------------------------------------------------------------------------------
(* Leaving a waiting line *)

\* r is q without some of its items, and holds no guest twice.
Thinner(r, q) ==
    /\ r \in Seq(Item)
    /\ Lines!Thinned(r, q)
    /\ \A i, j \in DOMAIN r : r[i].guest = r[j].guest => i = j

\* Nobody but g left q.
Spares(r, q, g) == \A k \in DOMAIN q : q[k].guest # g => \E j \in DOMAIN r : r[j] = q[k]

LEMMA ThinnedHolds ==
  ASSUME NEW r, NEW q, Lines!Thinned(r, q)
  PROVE  \A i \in DOMAIN r : \E j \in DOMAIN q : r[i] = q[j]
BY DEF Lines!Thinned

LEMMA SuffixThinned ==
  ASSUME NEW r \in Seq(Item), NEW q \in Seq(Item), NEW h \in Nat, Suffix(r, q, h)
  PROVE  Lines!Thinned(r, q)
<1> DEFINE place == [i \in DOMAIN r |-> i + h]
<1>1. /\ Len(r) \in Nat /\ DOMAIN r = 1..Len(r) /\ Len(q) \in Nat /\ DOMAIN q = 1..Len(q)
      /\ Len(r) = Len(q) - h /\ \A i \in 1..Len(r) : r[i] = q[i + h]
  BY LenProperties DEF Suffix
<1>2. place \in [DOMAIN r -> DOMAIN q]
  BY <1>1
<1>3. /\ \A i, j \in DOMAIN r : i < j => place[i] < place[j]
      /\ \A i \in DOMAIN r : r[i] = q[place[i]]
  BY <1>1
<1> HIDE DEF place
<1> QED
  BY <1>2, <1>3 DEF Lines!Thinned

LEMMA SameThinned ==
  ASSUME NEW q \in Seq(Item)
  PROVE  Lines!Thinned(q, q)
<1>1. Len(q) \in Nat /\ Suffix(q, q, 0)
  BY LenProperties DEF Suffix
<1> QED
  BY <1>1, SuffixThinned

LEMMA LinesAreThin ==
  ASSUME CallInv
  PROVE  queue \in [Zones -> Seq(Item)] /\ \A z \in Zones : Thinner(queue[z], queue[z])
<1>1. OnceInLine(Tables) /\ queue \in [Zones -> Seq(Item)]
  BY DEF CallInv, CallTypeOK, SoundTables
<1> QED
  BY <1>1, SameThinned DEF OnceInLine, Tables, Thinner

LEMMA ThinSound ==
  ASSUME Tables \in SoundTables, call' = call, activeOf' = activeOf,
         queue' \in [Zones -> Seq(Item)], \A z \in Zones : Thinner(queue'[z], queue[z])
  PROVE  Tables' \in SoundTables
<1> DEFINE s == Tables
           t == [call |-> call', activeOf |-> activeOf', queue |-> queue', started |-> <<>>]
<1>1. /\ s \in TablesOK /\ OneLine(s) /\ OneCall(s) /\ OnceInLine(s) /\ NotCalledHere(s)
      /\ s.call = call /\ s.activeOf = activeOf /\ s.queue = queue /\ s.started = <<>>
  BY DEF SoundTables, Tables
<1>2. Tables' = t
  BY DEF Tables
<1> HIDE DEF s
<1>3. /\ t \in TablesOK /\ t.call = s.call /\ t.activeOf = s.activeOf
      /\ \A z \in Zones : Thinner(t.queue[z], s.queue[z])
  BY <1>1 DEF TablesOK
<1> HIDE DEF t
<1>4. Live(t) = Live(s) /\ \A g : InCall(t, g) <=> InCall(s, g)
  BY <1>3 DEF InCall, Live
<1>5. OneLine(t) /\ OneCall(t)
  BY <1>1, <1>3, <1>4 DEF OneLine, OneCall
<1>6. OnceInLine(t)
  BY <1>3 DEF OnceInLine, Thinner
<1>7. NotCalledHere(t)
  <2> SUFFICES ASSUME NEW z \in Zones, NEW i \in DOMAIN t.queue[z], InCall(s, t.queue[z][i].guest)
               PROVE  s.call[s.activeOf[t.queue[z][i].guest]].zone # z
    BY <1>3, <1>4 DEF NotCalledHere
  <2>1. PICK j \in DOMAIN s.queue[z] : t.queue[z][i] = s.queue[z][j]
    BY <1>3, ThinnedHolds DEF Thinner
  <2> QED
    BY <1>1, <2>1 DEF NotCalledHere
<1> QED
  BY <1>2, <1>3, <1>5, <1>6, <1>7 DEF SoundTables

LEMMA RemoveAtThins ==
  ASSUME NEW q, Thinner(q, q), NEW i \in DOMAIN q
  PROVE  Thinner(RemoveAt(q, i), q) /\ Spares(RemoveAt(q, i), q, q[i].guest)
<1> DEFINE front == SubSeq(q, 1, i - 1)
           back == SubSeq(q, i + 1, Len(q))
           n == Len(q)
           r == RemoveAt(q, i)
<1>1. q \in Seq(Item) /\ n \in Nat /\ DOMAIN q = 1..n /\ i \in 1..n /\ \A j \in 1..n : q[j] \in Item
  BY LenProperties, ElementOfSeq DEF Thinner
<1>2. /\ front \in Seq(Item) /\ Len(front) = i - 1
      /\ \A j \in 1..(i - 1) : front[j] = q[j]
  <2>1. 1 \in Int /\ i - 1 \in Int /\ \A j \in 1..(i - 1) : q[j] \in Item
    BY <1>1
  <2>2. /\ front \in Seq(Item) /\ Len(front) = IF 1 <= i - 1 THEN i - 1 - 1 + 1 ELSE 0
        /\ \A j \in 1..(i - 1 - 1 + 1) : front[j] = q[1 + j - 1]
    BY <2>1, SubSeqProperties
  <2> HIDE DEF front
  <2> QED
    BY <1>1, <2>2
<1>3. /\ back \in Seq(Item) /\ Len(back) = n - i
      /\ \A j \in 1..(n - i) : back[j] = q[i + j]
  <2>1. i + 1 \in Int /\ n \in Int /\ \A j \in (i + 1)..n : q[j] \in Item
    BY <1>1
  <2>2. /\ back \in Seq(Item) /\ Len(back) = IF i + 1 <= n THEN n - (i + 1) + 1 ELSE 0
        /\ \A j \in 1..(n - (i + 1) + 1) : back[j] = q[i + 1 + j - 1]
    BY <2>1, SubSeqProperties
  <2>3. ASSUME NEW j \in 1..(n - i)
        PROVE  j \in 1..(n - (i + 1) + 1) /\ i + 1 + j - 1 = i + j
    BY <1>1
  <2> HIDE DEF back, n
  <2>4. Len(back) = n - i
    BY <1>1, <2>2
  <2>5. ASSUME NEW j \in 1..(n - i) PROVE back[j] = q[i + j]
    <3>1. back[j] = q[i + 1 + j - 1]
      BY <2>2, <2>3
    <3> QED
      BY <2>3, <3>1
  <2> QED
    BY <2>2, <2>4, <2>5
<1>4. r = front \o back
  BY DEF RemoveAt
<1> HIDE DEF front, back, r
<1>5. /\ r \in Seq(Item) /\ Len(r) = n - 1 /\ DOMAIN r = 1..(n - 1)
      /\ \A j \in 1..(n - 1) : r[j] = IF j <= i - 1 THEN front[j] ELSE back[j - (i - 1)]
  <2>1. /\ r \in Seq(Item) /\ Len(r) = Len(front) + Len(back)
        /\ \A j \in 1..(Len(front) + Len(back)) :
               r[j] = IF j <= Len(front) THEN front[j] ELSE back[j - Len(front)]
    BY <1>2, <1>3, <1>4, ConcatProperties
  <2> QED
    BY <1>1, <1>2, <1>3, <2>1, LenProperties
<1>6. \A j \in 1..(n - 1) : r[j] = IF j < i THEN q[j] ELSE q[j + 1]
  <2>1. ASSUME NEW j \in 1..(n - 1) PROVE r[j] = IF j < i THEN q[j] ELSE q[j + 1]
    <3>1. CASE j < i
      BY <1>1, <1>2, <1>5, <3>1
    <3>2. CASE ~(j < i)
      <4>1. j - (i - 1) \in 1..(n - i) /\ i + (j - (i - 1)) = j + 1
        BY <1>1, <3>2
      <4> QED
        BY <1>1, <1>3, <1>5, <3>2, <4>1
    <3> QED
      BY <3>1, <3>2
  <2> QED
    BY <2>1
<1>7. Lines!Thinned(r, q)
  <2> DEFINE place == [j \in DOMAIN r |-> IF j < i THEN j ELSE j + 1]
  <2>1. place \in [DOMAIN r -> DOMAIN q]
    BY <1>1, <1>5
  <2>2. \A j, k \in DOMAIN r : j < k => place[j] < place[k]
    BY <1>1, <1>5
  <2>3. \A j \in DOMAIN r : r[j] = q[place[j]]
    BY <1>5, <1>6
  <2> HIDE DEF place
  <2> QED
    BY <2>1, <2>2, <2>3 DEF Lines!Thinned
<1>8. ASSUME NEW j \in DOMAIN r, NEW k \in DOMAIN r, r[j].guest = r[k].guest PROVE j = k
  <2> DEFINE at(l) == IF l < i THEN l ELSE l + 1
  <2>1. /\ at(j) \in DOMAIN q /\ at(k) \in DOMAIN q
        /\ r[j] = q[at(j)] /\ r[k] = q[at(k)]
    <3>1. ASSUME NEW l \in 1..(n - 1) PROVE at(l) \in 1..n /\ r[l] = q[at(l)]
      BY <1>1, <1>6
    <3> HIDE DEF at
    <3> QED
      BY <1>1, <1>5, <3>1
  <2>2. at(j) = at(k)
    <3> HIDE DEF at
    <3> QED
      BY <1>8, <2>1 DEF Thinner
  <2> QED
    BY <1>1, <1>5, <2>2
<1>9. ASSUME NEW k \in 1..n, k # i PROVE \E j \in 1..(n - 1) : r[j] = q[k]
  <2>1. CASE k < i
    <3>1. k \in 1..(n - 1)
      BY <1>1, <2>1
    <3> QED
      BY <1>6, <2>1, <3>1
  <2>2. CASE ~(k < i)
    <3>1. k - 1 \in 1..(n - 1) /\ ~(k - 1 < i) /\ (k - 1) + 1 = k
      BY <1>1, <1>9, <2>2
    <3> QED
      BY <1>6, <3>1
  <2> QED
    BY <2>1, <2>2
<1>10. Spares(r, q, q[i].guest)
  BY <1>1, <1>5, <1>9 DEF Spares
<1> QED
  BY <1>5, <1>7, <1>8, <1>10 DEF Thinner, r

\* The walk of remove_queued_for_guest keeps an item at most once, in its order.
LEMMA WithoutThins ==
  ASSUME NEW q, Thinner(q, q), NEW g
  PROVE  Thinner(Without(q, g), q) /\ Spares(Without(q, g), q, g)
<1> DEFINE n == Len(q)
           next(kept, i) == IF i = 0 THEN <<>>
                            ELSE IF q[i].guest = g THEN kept[i - 1] ELSE Append(kept[i - 1], q[i])
           IsRun(kept) == kept = [i \in 0..n |-> next(kept, i)]
           step == [pair \in (1..n) \X Seq(Item) |->
                       IF q[pair[1]].guest = g THEN pair[2] ELSE Append(pair[2], q[pair[1]])]
           kept == Keeping(q, g)
           FromFirst(i) == {r \in Seq(Item) :
               /\ \E place \in [DOMAIN r -> 1..i] :
                      /\ \A j, k \in DOMAIN r : j < k => place[j] < place[k]
                      /\ \A j \in DOMAIN r : r[j] = q[place[j]]
               /\ \A k \in 1..i : q[k].guest # g => \E j \in DOMAIN r : r[j] = q[k]
               /\ \A j, k \in DOMAIN r : r[j].guest = r[k].guest => j = k}
           good == [i \in 0..n |-> FromFirst(i)]
<1>1. n \in Nat /\ DOMAIN q = 1..n /\ (\A i \in 1..n : q[i] \in Item) /\ <<>> \in Seq(Item)
  BY LenProperties, ElementOfSeq DEF Thinner
<1>2. step \in [(1..n) \X Seq(Item) -> Seq(Item)]
  BY <1>1, AppendProperties
<1> HIDE DEF n
<1>3. PICK run : run \in RunsOf(n, Seq(Item), <<>>, step)
  <2> HIDE DEF step
  <2> QED
    BY <1>1, <1>2, RunExists
<1>4. IsRun(run)
  <2>1. ASSUME NEW i \in 0..n PROVE run[i] = next(run, i)
    <3>1. CASE i = 0
      BY <1>3, <3>1 DEF RunsOf
    <3>2. CASE i # 0
      <4>1. i \in 1..n /\ i - 1 \in 0..n /\ run[i - 1] \in Seq(Item)
        BY <1>1, <1>3, <3>2 DEF RunsOf
      <4> QED
        BY <1>3, <3>2, <4>1 DEF RunsOf
    <3> QED
      BY <3>1, <3>2
  <2> QED
    BY <1>3, <2>1 DEF RunsOf
<1> HIDE DEF IsRun
<1>5. IsRun(CHOOSE k : IsRun(k))
  BY <1>4, Zenon
<1>6. IsRun(kept)
  <2>1. kept = CHOOSE k : IsRun(k)
    BY DEF Keeping, IsRun, n
  <2> QED
    BY <1>5, <2>1
<1>7. /\ kept[0] = <<>>
      /\ \A i \in 1..n : kept[i] = IF q[i].guest = g THEN kept[i - 1] ELSE Append(kept[i - 1], q[i])
  <2>1. kept = [i \in 0..n |-> next(kept, i)]
    BY <1>6 DEF IsRun
  <2> HIDE DEF kept
  <2>2. \A i \in 0..n : kept[i] = next(kept, i)
    BY <2>1
  <2>3. 0 \in 0..n /\ \A i \in 1..n : i \in 0..n /\ i # 0
    BY <1>1
  <2> QED
    BY <2>2, <2>3
<1> HIDE DEF kept
<1>8. \A i \in 0..n : good[i] = FromFirst(i)
  OBVIOUS
<1>9. kept[0] \in good[0]
  <2> DEFINE none == <<>>
  <2>1. /\ none \in Seq(Item) /\ DOMAIN none = {} /\ none \in [DOMAIN none -> 1..0]
        /\ \A k : k \notin 1..0
    BY <1>1
  <2> HIDE DEF none
  <2>2. none \in FromFirst(0)
    BY <2>1
  <2>3. 0 \in 0..n /\ kept[0] = none
    BY <1>1, <1>7 DEF none
  <2> HIDE DEF FromFirst, good
  <2> QED
    BY <1>8, <2>2, <2>3
<1>10. ASSUME NEW i \in 1..n, kept[i - 1] \in good[i - 1] PROVE kept[i] \in good[i]
  <2> DEFINE r == kept[i - 1]
  <2>1. r \in FromFirst(i - 1)
    <3>1. i - 1 \in 0..n
      BY <1>1
    <3> HIDE DEF FromFirst, good
    <3> QED
      BY <1>8, <1>10, <3>1
  <2>2. /\ r \in Seq(Item) /\ \A j, k \in DOMAIN r : r[j].guest = r[k].guest => j = k
        /\ Len(r) \in Nat /\ DOMAIN r = 1..Len(r)
    BY <2>1, LenProperties
  <2>3. PICK place \in [DOMAIN r -> 1..(i - 1)] :
          /\ \A j, k \in DOMAIN r : j < k => place[j] < place[k]
          /\ \A j \in DOMAIN r : r[j] = q[place[j]]
    BY <2>1
  <2> HIDE DEF r
  <2>4. \A j \in DOMAIN r : place[j] \in 1..(i - 1) /\ place[j] \in 1..n /\ place[j] < i /\ place[j] \in 1..i
    BY <1>1, <2>3
  <2>9. \A k \in 1..i : k # i /\ q[k].guest # g => \E j \in DOMAIN r : r[j] = q[k]
    <3>1. \A k \in 1..(i - 1) : q[k].guest # g => \E j \in DOMAIN kept[i - 1] : kept[i - 1][j] = q[k]
      BY <2>1 DEF r
    <3>2. \A k \in 1..i : k # i => k \in 1..(i - 1)
      BY <1>1
    <3> QED
      BY <3>1, <3>2 DEF r
  <2>5. \A j \in DOMAIN r : r[j].guest # q[i].guest
    <3>1. SUFFICES ASSUME NEW j \in DOMAIN r PROVE r[j].guest # q[i].guest
      OBVIOUS
    <3>2. place[j] \in DOMAIN q /\ i \in DOMAIN q /\ place[j] # i /\ r[j] = q[place[j]]
      BY <1>1, <2>3, <2>4
    <3> QED
      BY <3>2 DEF Thinner
  <2>6. i \in 0..n
    BY <1>1
  <2>7. CASE q[i].guest = g
    <3>1. place \in [DOMAIN r -> 1..i]
      BY <2>4
    <3>2. kept[i] = r /\ r \in FromFirst(i)
      BY <1>7, <2>2, <2>3, <2>7, <2>9, <3>1 DEF r
    <3> HIDE DEF FromFirst, good
    <3> QED
      BY <1>8, <2>6, <3>2
  <2>8. CASE q[i].guest # g
    <3> DEFINE t == Append(r, q[i])
               stand == [j \in DOMAIN t |-> IF j = Len(r) + 1 THEN i ELSE place[j]]
    <3>1. /\ t \in Seq(Item) /\ DOMAIN t = 1..(Len(r) + 1)
          /\ \A j \in 1..Len(r) : t[j] = r[j]
          /\ t[Len(r) + 1] = q[i]
      BY <1>1, <2>2, AppendProperties, LenProperties
    <3> HIDE DEF t
    <3>2. ASSUME NEW j \in DOMAIN t
          PROVE  \/ j \in DOMAIN r /\ t[j] = r[j] /\ stand[j] = place[j] /\ j < Len(r) + 1
                 \/ j = Len(r) + 1 /\ t[j] = q[i] /\ stand[j] = i
      <4>1. j \in 1..Len(r) \/ j = Len(r) + 1
        BY <2>2, <3>1
      <4> QED
        BY <2>2, <3>1, <4>1
    <3>3. stand \in [DOMAIN t -> 1..i]
      <4>1. \A j \in DOMAIN t : stand[j] \in 1..i
        <5> HIDE DEF stand
        <5> QED
          BY <2>4, <3>2
      <4> QED
        BY <4>1
    <3> HIDE DEF stand
    <3>4. \A j, k \in DOMAIN t : j < k => stand[j] < stand[k]
      <4>1. SUFFICES ASSUME NEW j \in DOMAIN t, NEW k \in DOMAIN t, j < k PROVE stand[j] < stand[k]
        OBVIOUS
      <4>2. j \in DOMAIN r /\ stand[j] = place[j]
        BY <2>2, <3>1, <3>2, <4>1
      <4>3. CASE k \in DOMAIN r /\ stand[k] = place[k]
        BY <2>3, <4>1, <4>2, <4>3
      <4>4. CASE stand[k] = i
        BY <2>4, <4>2, <4>4
      <4> QED
        BY <3>2, <4>3, <4>4
    <3>5. \A j \in DOMAIN t : t[j] = q[stand[j]]
      BY <2>3, <3>2
    <3>6. \A j, k \in DOMAIN t : t[j].guest = t[k].guest => j = k
      BY <2>2, <2>5, <3>2
    <3>7. kept[i] = t
      BY <1>7, <2>8 DEF r, t
    <3>8. \A k \in 1..i : q[k].guest # g => \E j \in DOMAIN t : t[j] = q[k]
      <4>1. \A j \in DOMAIN r : j \in DOMAIN t /\ t[j] = r[j]
        BY <2>2, <3>1
      <4>2. Len(r) + 1 \in DOMAIN t
        BY <2>2, <3>1
      <4> QED
        BY <2>9, <3>1, <4>1, <4>2
    <3>9. t \in FromFirst(i)
      BY <3>1, <3>3, <3>4, <3>5, <3>6, <3>8
    <3> HIDE DEF FromFirst, good
    <3> QED
      BY <1>8, <2>6, <3>7, <3>9
  <2> QED
    BY <2>7, <2>8
<1>11. kept[n] \in good[n]
  <2>1. n \in 0..n
    BY <1>1
  <2> HIDE DEF good
  <2> QED
    BY <1>1, <1>9, <1>10, <2>1, AlongARun
<1> QED
  <2>1. Without(q, g) = kept[n]
    BY DEF Without, kept, n
  <2>2. kept[n] \in FromFirst(n)
    BY <1>1, <1>11
  <2> HIDE DEF kept
  <2>3. /\ kept[n] \in Seq(Item) /\ Lines!Thinned(kept[n], q)
        /\ \A j, k \in DOMAIN kept[n] : kept[n][j].guest = kept[n][k].guest => j = k
    BY <1>1, <2>2 DEF Lines!Thinned
  <2>4. Spares(kept[n], q, g)
    BY <1>1, <2>2 DEF Spares
  <2> QED
    BY <2>1, <2>3, <2>4 DEF Thinner
------------------------------------------------------------------------------
(* Every step keeps the invariant, and serves a line in its order. *)

LEMMA TablesStand ==
  ASSUME CallInv, UNCHANGED <<call, activeOf, queue>>
  PROVE  Tables' \in SoundTables /\ ServedInOrder
BY Settled DEF CallInv, Tables, ServedInOrder

LEMMA AutoClosedIsAccess ==
  ASSUME CallTypeOK, NEW g, NEW z
  PROVE  AutoClosed(g, z) \in [CallGuests -> {"pending", "approved", "rejected"}]
BY DEF CallTypeOK, AutoClosed

LEMMA LateInviteKeeps ==
  ASSUME CallInv, NEW u \in Users, NEW id, LateInvite(u, id),
         access' \in [CallGuests -> {"pending", "approved", "rejected"}]
  PROVE  CallInv' /\ ServedInOrder
BY TablesStand DEF CallInv, LateInvite, CallTypeOK, HandlersFit

\* CALL_ACCEPT, and an administrator of the zone who takes a call over.
LEMMA OwnKeeps ==
  ASSUME CallInv, NEW c \in CallIds, NEW STATE row, row \in Call, call[c].state # "none",
         row.zone = call[c].zone, row.guest = call[c].guest, call' = [call EXCEPT ![c] = row],
         UNCHANGED <<activeOf, queue, cancelled, task, online, access>>
  PROVE  CallInv' /\ ServedInOrder
<1> DEFINE s == Tables
           t == [s EXCEPT !.call[c] = row]
<1>1. /\ CallTypeOK /\ HandlersFit /\ call \in [CallIds -> Call \cup {NoCall}]
      /\ s \in TablesOK /\ OneLine(s) /\ OneCall(s) /\ OnceInLine(s) /\ NotCalledHere(s)
      /\ s.call = call
  BY DEF CallInv, SoundTables, Tables, CallTypeOK
<1>2. call' = t.call /\ activeOf' = t.activeOf /\ queue' = t.queue
  BY DEF Tables
<1> HIDE DEF s
<1>3. /\ t \in TablesOK /\ t.activeOf = s.activeOf /\ t.queue = s.queue
      /\ t.call[c] = row /\ \A d \in CallIds \ {c} : t.call[d] = s.call[d]
  BY <1>1 DEF TablesOK
<1> HIDE DEF t
<1>4. row.state # "none"
  BY DEF Call
<1>5. Live(t) = Live(s) /\ \A g : InCall(t, g) <=> InCall(s, g)
  BY <1>1, <1>3, <1>4 DEF Live, InCall
<1>6. \A d \in CallIds : t.call[d].zone = s.call[d].zone /\ t.call[d].guest = s.call[d].guest
  BY <1>1, <1>3
<1>7. OneLine(t)
  BY <1>1, <1>5, <1>6 DEF OneLine, Live
<1>8. OneCall(t)
  BY <1>1, <1>3, <1>5, <1>6 DEF OneCall, Live, InCall
<1>9. OnceInLine(t) /\ NotCalledHere(t)
  <2>1. \A g : InCall(t, g) => t.activeOf[g] = s.activeOf[g] /\ t.activeOf[g] \in CallIds
    BY <1>3 DEF InCall, Live
  <2>2. OnceInLine(t)
    BY <1>1, <1>3 DEF OnceInLine
  <2>3. NotCalledHere(t)
    <3>1. ASSUME NEW z \in Zones, NEW i \in DOMAIN t.queue[z], InCall(t, t.queue[z][i].guest)
          PROVE  t.call[t.activeOf[t.queue[z][i].guest]].zone # z
      <4> DEFINE g == t.queue[z][i].guest
      <4>1. i \in DOMAIN s.queue[z] /\ g = s.queue[z][i].guest
        BY <1>3
      <4>2. InCall(s, g) /\ t.activeOf[g] = s.activeOf[g] /\ t.activeOf[g] \in CallIds
        BY <1>5, <2>1, <3>1
      <4>3. s.call[s.activeOf[g]].zone # z
        BY <1>1, <4>1, <4>2 DEF NotCalledHere
      <4> QED
        BY <1>6, <4>2, <4>3
    <3> QED
      BY <3>1 DEF NotCalledHere
  <2> QED
    BY <2>2, <2>3
<1>10. Tables' \in SoundTables
  <2>1. t \in SoundTables
    BY <1>3, <1>7, <1>8, <1>9 DEF SoundTables
  <2> QED
    BY <1>2, <2>1, Settled
<1>11. \A d \in CallIds : call'[d].state = "none" <=> call[d].state = "none"
  BY <1>1, <1>4
<1>12. ServedInOrder /\ HandlersFit'
  BY <1>1, <1>11 DEF ServedInOrder, HandlersFit
<1>13. CallTypeOK'
  BY <1>1, <1>10, TablesAreTyped DEF CallTypeOK
<1> QED
  BY <1>10, <1>12, <1>13 DEF CallInv

LEMMA AcceptKeeps ==
  ASSUME CallInv, NEW u \in Users, NEW c \in CallIds, Accept(u, c)
  PROVE  CallInv' /\ ServedInOrder
<1> DEFINE row == [OwnedBy(u, c) EXCEPT !.state = "connected"]
<1>1. call[c] \in Call
  BY DEF CallInv, CallTypeOK, Accept, Party, NoCall
<1>2. row \in Call /\ row.zone = call[c].zone /\ row.guest = call[c].guest
  BY <1>1 DEF OwnedBy, Call
<1>3. /\ call[c].state # "none" /\ call' = [call EXCEPT ![c] = row]
      /\ UNCHANGED <<activeOf, queue, cancelled, task, online, access>>
  BY DEF Accept, Party
<1> HIDE DEF row
<1> QED
  BY <1>2, <1>3, OwnKeeps

LEMMA TakeOverKeeps ==
  ASSUME CallInv, NEW a \in Admins, NEW c \in CallIds, TakeOver(a, c)
  PROVE  CallInv' /\ ServedInOrder
<1> DEFINE row == OwnedBy(a, c)
<1>1. call[c] \in Call
  BY DEF CallInv, CallTypeOK, TakeOver, Party, NoCall
<1>2. row \in Call /\ row.zone = call[c].zone /\ row.guest = call[c].guest
  BY <1>1 DEF OwnedBy, Call
<1>3. /\ call[c].state # "none" /\ call' = [call EXCEPT ![c] = row]
      /\ UNCHANGED <<activeOf, queue, cancelled, task, online, access>>
  BY DEF TakeOver, Party
<1> HIDE DEF row
<1> QED
  BY <1>2, <1>3, OwnKeeps

LEMMA EndingIsTask ==
  ASSUME CallTypeOK, NEW c \in CallIds, call[c].state # "none",
         NEW STATE auto, NEW STATE strict, strict \in BOOLEAN
  PROVE  Ending(c, auto, strict) \in Task /\ Fits(Ending(c, auto, strict))
<1>1. call[c].guest \in CallGuests /\ call[c].zone \in Zones
  BY DEF CallTypeOK, Call, NoCall
<1> QED
  BY <1>1, IdleIsTask DEF Ending, Idle, Task, Fits

\* The end of a call, by a party or by its own ring timer.
LEMMA EndKeeps ==
  ASSUME CallInv, NEW k \in Tasks, NEW c \in CallIds, NEW STATE next, next \in Task,
         Fits(next), k \in CallIds => k = c,
         Suspend(k, DropCall(Tables, c), next), UNCHANGED <<cancelled, online, access>>
  PROVE  CallInv' /\ ServedInOrder
<1> DEFINE t == DropCalls(Tables, {c})
<1>1. /\ CallTypeOK /\ HandlersFit /\ Tables \in SoundTables
      /\ call' = t.call /\ activeOf' = t.activeOf /\ queue' = t.queue
      /\ task' = [task EXCEPT ![k] = next] /\ task \in [Tasks -> Task]
  BY DEF CallInv, CallTypeOK, Suspend, DropCall
<1>2. t \in SoundTables /\ \A d \in CallIds : t.call[d] = IF d \in {c} THEN NoCall ELSE call[d]
  BY <1>1, DropSound DEF Tables
<1> HIDE DEF t
<1>3. Tables' \in SoundTables
  BY <1>1, <1>2, Settled
<1>4. call'[c].state = "none" /\ \A d \in CallIds : call'[d].state # "none" => call[d].state # "none"
  BY <1>1, <1>2 DEF NoCall
<1>5. ServedInOrder
  BY <1>4 DEF ServedInOrder
<1>6. HandlersFit'
  BY <1>1, <1>4, RestKept DEF HandlerFits
<1>7. CallTypeOK'
  BY <1>1, <1>3, TablesAreTyped DEF CallTypeOK
<1> QED
  BY <1>3, <1>5, <1>6, <1>7 DEF CallInv

LEMMA CloseKeeps ==
  ASSUME CallInv, NEW u \in Users, NEW c \in CallIds, NEW hangup \in BOOLEAN, Close(u, c, hangup)
  PROVE  CallInv' /\ ServedInOrder
<1> DEFINE auto == call[c].esc /\ call[c].state = "ringing" /\ ~hangup
<1>1. /\ u \in Tasks /\ u \notin CallIds /\ Suspend(u, DropCall(Tables, c), Ending(c, auto, TRUE))
      /\ UNCHANGED <<cancelled, online, access>>
  BY CallConstantsOK DEF Tasks, Users, Close
<1>2. Ending(c, auto, TRUE) \in Task /\ Fits(Ending(c, auto, TRUE))
  BY EndingIsTask DEF CallInv, Close, Party
<1> QED
  BY <1>1, <1>2, EndKeeps
LEMMA RunTimeoutKeeps ==
  ASSUME CallInv, NEW c \in CallIds, RunTimeout(c)
  PROVE  CallInv' /\ ServedInOrder
<1>1. c \in Tasks /\ CallTypeOK /\ Tables \in SoundTables /\ UNCHANGED <<cancelled, online, access>>
  BY DEF Tasks, CallInv, RunTimeout
<1>2. CASE call[c].state = "ringing"
  <2>1. Ending(c, call[c].esc, FALSE) \in Task /\ Fits(Ending(c, call[c].esc, FALSE))
    BY <1>1, <1>2, EndingIsTask
  <2>2. Suspend(c, DropCall(Tables, c), Ending(c, call[c].esc, FALSE))
    BY <1>2 DEF RunTimeout
  <2> QED
    BY <1>1, <2>1, <2>2, EndKeeps
<1>3. CASE call[c].state # "ringing"
  <2>1. UNCHANGED <<call, activeOf, queue>> /\ task' = [task EXCEPT ![c] = Idle]
    BY <1>3 DEF RunTimeout, Suspend, Tables
  <2>2. task' \in [Tasks -> Task] /\ HandlerFits(c) /\ task'[c].pc = "idle" /\ \A j \in Tasks \ {c} : task'[j] = task[j]
    BY <1>1, <2>1, IdleIsTask DEF CallTypeOK, Idle, HandlerFits, Fits
  <2>3. HandlersFit'
    BY <1>1, <2>1, <2>2, RestKept DEF CallInv, HandlerFits
  <2> QED
    BY <1>1, <2>1, <2>2, <2>3, TablesStand DEF CallInv, CallTypeOK
<1> QED
  BY <1>2, <1>3

LEMMA CancelQueuedKeeps ==
  ASSUME CallInv, NEW u \in Users, NEW z \in Zones, NEW id \in Ids, NEW esc \in BOOLEAN,
         CancelQueued(u, z, id, esc)
  PROVE  CallInv' /\ ServedInOrder
<1>1. PICK i \in DOMAIN queue[z] :
        /\ queue' = [queue EXCEPT ![z] = RemoveAt(@, i)]
        /\ task' = [task EXCEPT ![u] =
               IF queue[z][i].esc \/ esc
               THEN [Idle EXCEPT !.pc = "closing", !.guest = queue[z][i].guest, !.zone = z]
               ELSE Idle]
  BY DEF CancelQueued
<1>2. /\ CallTypeOK /\ HandlersFit /\ Tables \in SoundTables /\ u \in Tasks /\ u \notin CallIds
      /\ UNCHANGED <<call, activeOf, online, access>> /\ cancelled' \subseteq PendingIds
      /\ queue \in [Zones -> Seq(Item)]
  BY CallConstantsOK DEF CallInv, CallTypeOK, CancelQueued, Tasks, Users
<1>3. \A y \in Zones : Thinner(queue[y], queue[y])
  BY LinesAreThin
<1>4. Thinner(RemoveAt(queue[z], i), queue[z])
  BY <1>3, RemoveAtThins
<1>5. queue' \in [Zones -> Seq(Item)] /\ \A y \in Zones : Thinner(queue'[y], queue[y])
  BY <1>1, <1>2, <1>3, <1>4 DEF Thinner
<1>6. Tables' \in SoundTables
  BY <1>2, <1>5, ThinSound
<1>7. task' \in [Tasks -> Task] /\ HandlerFits(u) /\ \A j \in Tasks \ {u} : task'[j] = task[j]
  <2>1. queue[z][i] \in Item
    BY <1>2, LenProperties, ElementOfSeq
  <2> QED
    BY <1>1, <1>2, <2>1, IdleIsTask DEF CallTypeOK, Idle, Task, Item, HandlerFits, Fits
<1>8. HandlersFit' /\ ServedInOrder
  BY <1>2, <1>7, RestKept DEF ServedInOrder
<1>9. CallTypeOK'
  BY <1>2, <1>5, <1>7 DEF CallTypeOK
<1> QED
  BY <1>6, <1>8, <1>9 DEF CallInv

LEMMA RejectGuestKeeps ==
  ASSUME CallInv, NEW g \in CallGuests, RejectGuest(g)
  PROVE  CallInv' /\ ServedInOrder
<1>1. /\ CallTypeOK /\ HandlersFit /\ Tables \in SoundTables /\ queue \in [Zones -> Seq(Item)]
      /\ UNCHANGED <<call, activeOf, cancelled, task, online>>
      /\ queue' = [z \in Zones |-> Without(queue[z], g)]
      /\ access' = [access EXCEPT ![g] = "rejected"]
  BY DEF CallInv, CallTypeOK, RejectGuest
<1>2. \A z \in Zones : Thinner(queue[z], queue[z])
  BY LinesAreThin
<1>3. \A z \in Zones : Thinner(Without(queue[z], g), queue[z])
  BY <1>2, WithoutThins
<1>4. queue' \in [Zones -> Seq(Item)] /\ \A z \in Zones : Thinner(queue'[z], queue[z])
  BY <1>1, <1>3 DEF Thinner
<1>5. Tables' \in SoundTables
  BY <1>1, <1>4, ThinSound
<1>6. HandlersFit' /\ ServedInOrder
  BY <1>1 DEF HandlersFit, ServedInOrder
<1>7. CallTypeOK'
  BY <1>1, <1>4 DEF CallTypeOK
<1> QED
  BY <1>5, <1>6, <1>7 DEF CallInv

\* The rest of the handlers that resume: auto-close, promotions, a broadcast
\* that returned, and the retry of an invite. They run for an id only while it
\* names no call.
LEMMA ResumedIdRests ==
  ASSUME CallInv, NEW k \in Tasks, task[k].pc \notin {"idle", "timeout"},
         \A c \in CallIds : call[c].state = "none" /\ call'[c].state # "none" => task[c].pc = "idle"
  PROVE  k \in CallIds => call'[k].state = "none"
BY DEF CallInv, HandlersFit

LEMMA AutoCloseKeeps ==
  ASSUME CallInv, NEW k \in Tasks, AutoClose(k)
  PROVE  CallInv' /\ ServedInOrder
<1> DEFINE next == [Idle EXCEPT !.pc = task[k].then, !.strict = task[k].strict]
<1>1. /\ CallTypeOK /\ HandlersFit /\ task[k] \in Task /\ task \in [Tasks -> Task]
      /\ UNCHANGED <<call, activeOf, queue, cancelled, online>>
      /\ task' = [task EXCEPT ![k] = next] /\ task[k].pc = "closing"
      /\ access' \in [CallGuests -> {"pending", "approved", "rejected"}]
  BY AutoClosedIsAccess DEF CallInv, CallTypeOK, AutoClose
<1>2. next \in Task /\ Fits(next)
  BY <1>1, IdleIsTask DEF Idle, Task, HandlersFit, Fits
<1> HIDE DEF next
<1>3. task' \in [Tasks -> Task] /\ HandlerFits(k) /\ \A j \in Tasks \ {k} : task'[j] = task[j]
  BY <1>1, <1>2 DEF HandlerFits
<1>4. HandlersFit'
  BY <1>1, <1>3, RestKept, ResumedIdRests
<1> QED
  BY <1>1, <1>3, <1>4, TablesStand DEF CallInv, CallTypeOK

LEMMA PromoteReadyKeeps ==
  ASSUME CallInv, NEW k \in Tasks, PromoteReady(k)
  PROVE  CallInv' /\ ServedInOrder
<1>1. PICK s \in Promotions : Deliver(k, s, s.started, task[k].strict, "idle", NoCaller)
  BY DEF PromoteReady
<1>2. /\ CallTypeOK /\ HandlersFit /\ Tables \in SoundTables /\ task[k].strict \in BOOLEAN
      /\ task[k].pc = "promote" /\ UNCHANGED <<cancelled, online, access>>
  BY DEF CallInv, CallTypeOK, PromoteReady, Task
<1>3. s \in Promoted
  BY <1>1, <1>2, PromotionsPromoted
<1>4. s \in SoundTables /\ s.started \in Seq(CallIds)
  BY <1>3 DEF Promoted, SoundTables, TablesOK
<1>5. /\ Tables' \in SoundTables /\ task' \in [Tasks -> Task] /\ HandlerFits(k)
      /\ \A j \in Tasks \ {k} : task'[j] = task[j]
      /\ queue' = s.queue /\ \A c \in CallIds : call'[c] \in {s.call[c], NoCall}
  BY <1>1, <1>2, <1>4, DeliverSound DEF Onward
<1>6. ServedInOrder
  BY <1>2, <1>3, <1>5, WalkServesInOrder DEF ServedInOrder
<1>7. ASSUME NEW c \in CallIds, call[c].state = "none", call'[c].state # "none"
      PROVE  task[c].pc = "idle"
  <2>1. c \in NewCalls(s)
    BY <1>5, <1>7 DEF NewCalls, Live, Tables, NoCall
  <2> QED
    BY <1>3, <2>1 DEF Promoted, CallsStand
<1>8. HandlersFit'
  BY <1>2, <1>5, <1>7, RestKept, ResumedIdRests
<1>9. CallTypeOK'
  BY <1>2, <1>5, TablesAreTyped DEF CallTypeOK
<1> QED
  BY <1>5, <1>6, <1>8, <1>9 DEF CallInv

LEMMA DeliveredKeeps ==
  ASSUME CallInv, NEW k \in Tasks, Delivered(k)
  PROVE  CallInv' /\ ServedInOrder
<1> DEFINE t == task[k]
           over == IF t.strict /\ t.to = {} THEN DropCall(Tables, Head(t.todo)) ELSE Tables
<1>1. /\ CallTypeOK /\ HandlersFit /\ Tables \in SoundTables /\ t \in Task
      /\ t.pc = "deliver" /\ UNCHANGED <<cancelled, online, access>>
      /\ Deliver(k, over, Tail(t.todo), t.strict, t.then, t.guest)
  BY DEF CallInv, CallTypeOK, Delivered
<1>2. over \in SoundTables /\ \A c \in CallIds : over.call[c] \in {call[c], NoCall}
  BY <1>1, DropSound DEF DropCall, Tables
<1>3. Tail(t.todo) \in Seq(CallIds)
  <2>1. t.todo \in Seq(CallIds) /\ t.todo # <<>>
    BY <1>1 DEF Task, HandlersFit, Fits
  <2> QED
    BY <2>1, HeadTailProperties
<1>4. /\ t.strict \in BOOLEAN /\ t.then \in {"idle", "promote", "retry"}
      /\ t.guest \in CallGuests \cup {NoCaller}
      /\ Onward(t.then, t.guest)
  BY <1>1 DEF Task, Onward, HandlersFit, Fits
<1>5. PICK s \in SoundTables, rest \in Seq(CallIds), strict \in BOOLEAN,
           after \in {"idle", "promote", "retry"}, caller \in CallGuests \cup {NoCaller} :
        /\ Deliver(k, s, rest, strict, after, caller)
        /\ Onward(after, caller)
        /\ \A c \in CallIds : s.call[c] \in {call[c], NoCall}
  <2> HIDE DEF over
  <2> QED
    BY <1>1, <1>2, <1>3, <1>4
<1>6. /\ Tables' \in SoundTables /\ task' \in [Tasks -> Task] /\ HandlerFits(k)
      /\ \A j \in Tasks \ {k} : task'[j] = task[j]
      /\ \A c \in CallIds : call'[c] \in {s.call[c], NoCall}
  <2>1. CallTypeOK
    BY <1>1
  <2>2. Deliver(k, s, rest, strict, after, caller)
    BY <1>5
  <2>3. Onward(after, caller)
    BY <1>5
  <2> HIDE DEF t, over
  <2> QED
    BY <2>1, <2>2, <2>3, DeliverSound
<1>7. \A c \in CallIds : call'[c].state # "none" => call[c].state # "none"
  BY <1>5, <1>6 DEF NoCall
<1>8. ServedInOrder
  BY <1>7 DEF ServedInOrder
<1>9. HandlersFit'
  BY <1>1, <1>6, <1>7, RestKept, ResumedIdRests
<1>10. CallTypeOK'
  BY <1>1, <1>6, TablesAreTyped DEF CallTypeOK
<1> QED
  BY <1>6, <1>8, <1>9, <1>10 DEF CallInv
LEMMA RetryKeeps ==
  ASSUME CallInv, NEW k \in Tasks, Retry(k)
  PROVE  CallInv' /\ ServedInOrder
<1> DEFINE g == task[k].guest
<1>1. /\ CallTypeOK /\ HandlersFit /\ Tables \in SoundTables /\ task[k].pc = "retry"
      /\ cancelled' = cancelled /\ access' = access /\ online' \subseteq Users
  BY DEF CallInv, CallTypeOK, Retry
<1>2. /\ Tables' \in SoundTables /\ task' \in [Tasks -> Task] /\ HandlerFits(k)
      /\ \A j \in Tasks \ {k} : task'[j] = task[j]
      /\ \A c \in CallIds : call'[c] \in {call[c], NoCall}
  <2>1. CASE InCall(Tables, g)
    <3>1. g \in CallGuests
      BY <1>1 DEF HandlersFit, Fits
    <3>2. InviteAgain(k, Tables, g)
      BY <2>1 DEF Retry
    <3> QED
      BY <2>1, <3>1, <3>2, InviteAgainSound
  <2>2. CASE ~InCall(Tables, g)
    <3>1. Suspend(k, Tables, Idle)
      BY <2>2 DEF Retry
    <3>2. /\ UNCHANGED <<call, activeOf, queue>> /\ task' = [task EXCEPT ![k] = Idle]
      BY <3>1 DEF Suspend, Tables
    <3> QED
      BY <1>1, <3>2, TablesStand, IdleIsTask DEF CallTypeOK, HandlerFits, Idle, Fits
  <2> QED
    BY <2>1, <2>2
<1>3. \A c \in CallIds : call'[c].state # "none" => call[c].state # "none"
  BY <1>2 DEF NoCall
<1>4. ServedInOrder
  BY <1>3 DEF ServedInOrder
<1>5. HandlersFit'
  BY <1>1, <1>2, <1>3, RestKept, ResumedIdRests
<1>6. CallTypeOK'
  BY <1>1, <1>2, TablesAreTyped DEF CallTypeOK
<1> QED
  BY <1>2, <1>4, <1>5, <1>6 DEF CallInv
LEMMA TimerFiresKeeps ==
  ASSUME CallInv, NEW c \in CallIds, TimerFires(c)
  PROVE  CallInv' /\ ServedInOrder
<1>1. /\ c \in Tasks /\ CallTypeOK /\ HandlersFit /\ task \in [Tasks -> Task] /\ task[c] \in Task
      /\ UNCHANGED <<call, activeOf, queue, cancelled, online, access>>
      /\ task' = [task EXCEPT ![c] = [task[c] EXCEPT !.pc = "timeout"]]
      /\ task[c].pc = "idle"
  BY DEF CallInv, CallTypeOK, TimerFires, Tasks
<1>2. [task[c] EXCEPT !.pc = "timeout"] \in Task /\ Fits([task[c] EXCEPT !.pc = "timeout"])
  BY <1>1 DEF Task, HandlersFit, Fits
<1>3. task' \in [Tasks -> Task] /\ HandlerFits(c) /\ \A j \in Tasks \ {c} : task'[j] = task[j]
  BY <1>1, <1>2 DEF HandlerFits
<1>4. HandlersFit'
  BY <1>1, <1>2, <1>3, RestKept
<1> QED
  BY <1>1, <1>3, <1>4, TablesStand DEF CallInv, CallTypeOK

LEMMA SocketKeeps ==
  ASSUME CallInv, NEW u \in Users, Connect(u) \/ Disconnect(u)
  PROVE  CallInv' /\ ServedInOrder
<1>1. CASE Connect(u)
  BY <1>1, TablesStand DEF CallInv, Connect, CallTypeOK, HandlersFit
<1>2. CASE Disconnect(u)
  <2>1. /\ CallTypeOK /\ HandlersFit /\ task \in [Tasks -> Task] /\ online' \subseteq Users
        /\ UNCHANGED <<call, activeOf, queue, cancelled, access>>
        /\ task' = [k \in Tasks |-> [task[k] EXCEPT !.to = @ \ {u}]]
    BY <1>2 DEF CallInv, CallTypeOK, Disconnect
  <2>2. ASSUME NEW k \in Tasks
        PROVE  /\ task'[k] \in Task /\ task'[k].pc = task[k].pc
               /\ Fits(task'[k])
    <3>1. task[k] \in Task /\ Fits(task[k]) /\ task'[k] = [task[k] EXCEPT !.to = @ \ {u}]
      BY <2>1 DEF HandlersFit
    <3> QED
      BY <3>1 DEF Task, Fits
  <2>3. task' \in [Tasks -> Task]
    BY <2>1, <2>2
  <2>4. HandlersFit'
    BY <2>1, <2>2 DEF HandlersFit, Tasks
  <2> QED
    BY <2>1, <2>3, <2>4, TablesStand DEF CallInv, CallTypeOK
<1> QED
  BY <1>1, <1>2

LEMMA ApproveGuestKeeps ==
  ASSUME CallInv, NEW g \in CallGuests, ApproveGuest(g)
  PROVE  CallInv' /\ ServedInOrder
BY TablesStand DEF CallInv, ApproveGuest, CallTypeOK, HandlersFit

LEMMA CancelUnknownKeeps ==
  ASSUME CallInv, NEW u \in Users, NEW g \in CallGuests, NEW id \in PendingIds, NEW esc \in BOOLEAN,
         CancelUnknown(u, g, id, esc)
  PROVE  CallInv' /\ ServedInOrder
<1>1. access' \in [CallGuests -> {"pending", "approved", "rejected"}]
  BY AutoClosedIsAccess DEF CallInv, CallTypeOK, CancelUnknown
<1> QED
  BY <1>1, TablesStand DEF CallInv, CancelUnknown, CallTypeOK, HandlersFit

LEMMA InviteStepKeeps ==
  ASSUME CallInv, InviteStep
  PROVE  CallInv' /\ ServedInOrder
<1>1. /\ Escalations \subseteq BOOLEAN /\ ZoneOf \in [CallGuests -> Zones] /\ AdminOf \in [CallGuests -> Admins]
      /\ CallGuests \subseteq Users /\ Admins \subseteq Users
      /\ access \in [CallGuests -> {"pending", "approved", "rejected"}] /\ CallTypeOK
  BY CallConstantsOK DEF Users, CallInv, CallTypeOK
<1>2. ASSUME NEW g \in CallGuests, NEW esc \in Escalations, GuestInvite(g, esc)
      PROVE  CallInv' /\ ServedInOrder
  <2> DEFINE item == [guest |-> g, admin |-> AdminOf[g], role |-> "guest", esc |-> esc]
  <2>1. item \in Item /\ ZoneOf[g] \in Zones /\ g \in Users
    BY <1>1 DEF Item
  <2>2. Invite(g, ZoneOf[g], item)
    BY <1>2 DEF GuestInvite
  <2> HIDE DEF item
  <2> QED
    BY <2>1, <2>2, InviteKeeps
<1>3. ASSUME NEW g \in CallGuests, NEW esc \in Escalations, NEW id \in PendingIds,
             LateGuestInvite(g, esc, id)
      PROVE  CallInv' /\ ServedInOrder
  <2>1. LateInvite(g, id) /\ access' = IF esc THEN AutoClosed(g, ZoneOf[g]) ELSE access
    BY <1>3 DEF LateGuestInvite
  <2>2. access' \in [CallGuests -> {"pending", "approved", "rejected"}]
    BY <1>1, <2>1, AutoClosedIsAccess
  <2> QED
    BY <1>1, <2>1, <2>2, LateInviteKeeps
<1>4. ASSUME NEW a \in Admins, NEW g \in CallGuests, NEW z \in Zones, NEW esc \in Escalations,
             AdminInvite(a, g, z, esc)
      PROVE  CallInv' /\ ServedInOrder
  <2> DEFINE item == [guest |-> g, admin |-> a, role |-> "admin", esc |-> esc]
  <2>1. item \in Item /\ a \in Users
    BY <1>1 DEF Item
  <2>2. Invite(a, z, item)
    BY <1>4 DEF AdminInvite
  <2> HIDE DEF item
  <2> QED
    BY <2>1, <2>2, InviteKeeps
<1>5. ASSUME NEW a \in Admins, NEW id \in PendingIds, LateAdminInvite(a, id)
      PROVE  CallInv' /\ ServedInOrder
  <2>1. LateInvite(a, id) /\ access' = access
    BY <1>5 DEF LateAdminInvite
  <2> QED
    BY <1>1, <2>1, LateInviteKeeps
<1> QED
  BY <1>2, <1>3, <1>4, <1>5 DEF InviteStep

LEMMA ResumeKeeps ==
  ASSUME CallInv, NEW k \in Tasks, Resume(k)
  PROVE  CallInv' /\ ServedInOrder
BY RunTimeoutKeeps, AutoCloseKeeps, PromoteReadyKeeps, DeliveredKeeps, RetryKeeps DEF Resume

LEMMA CallStepKeeps ==
  ASSUME CallInv, NEW c \in CallIds, CallStep(c)
  PROVE  CallInv' /\ ServedInOrder
BY AcceptKeeps, CloseKeeps, TakeOverKeeps, TimerFiresKeeps DEF CallStep

LEMMA CancelStepKeeps ==
  ASSUME CallInv, CancelStep
  PROVE  CallInv' /\ ServedInOrder
<1>1. Escalations \subseteq BOOLEAN
  BY CallConstantsOK
<1>2. ASSUME NEW u \in Users, NEW esc \in Escalations, NEW z \in Zones, NEW id \in Ids,
             CancelQueued(u, z, id, esc)
      PROVE  CallInv' /\ ServedInOrder
  BY <1>1, <1>2, CancelQueuedKeeps
<1>3. ASSUME NEW u \in Users, NEW esc \in Escalations, NEW g \in CallGuests, NEW id \in PendingIds,
             CancelUnknown(u, g, id, esc)
      PROVE  CallInv' /\ ServedInOrder
  BY <1>1, <1>3, CancelUnknownKeeps
<1> QED
  BY <1>2, <1>3 DEF CancelStep

LEMMA StepKeeps ==
  ASSUME CallInv, [CallNext]_callVars
  PROVE  CallInv' /\ ServedInOrder
<1>1. CASE UNCHANGED callVars
  <2>1. UNCHANGED <<call, activeOf, queue, cancelled, task, online, access>>
    BY <1>1 DEF callVars
  <2> QED
    BY <2>1, TablesStand DEF CallInv, CallTypeOK, HandlersFit
<1>2. CASE SocketStep
  BY <1>2, SocketKeeps DEF SocketStep
<1>3. CASE DecisionStep
  BY <1>3, ApproveGuestKeeps, RejectGuestKeeps DEF DecisionStep
<1> QED
  BY <1>1, <1>2, <1>3, InviteStepKeeps, CallStepKeeps, CancelStepKeeps, ResumeKeeps DEF CallNext

LEMMA InitSound ==
  ASSUME CallInit
  PROVE  CallInv
<1>1. /\ Tables.call = [c \in CallIds |-> NoCall] /\ Tables.activeOf = [g \in CallGuests |-> 0]
      /\ Tables.queue = [z \in Zones |-> <<>>] /\ Tables.started = <<>>
      /\ Tables \in TablesOK
  <2>1. <<>> \in Seq(Item) /\ <<>> \in Seq(CallIds)
    OBVIOUS
  <2> QED
    BY <2>1 DEF CallInit, Tables, TablesOK
<1>2. Live(Tables) = {}
  BY <1>1 DEF Live, NoCall
<1>3. OneLine(Tables) /\ OneCall(Tables)
  BY <1>1, <1>2 DEF OneLine, OneCall
<1>4. OnceInLine(Tables) /\ NotCalledHere(Tables)
  BY <1>1 DEF OnceInLine, NotCalledHere
<1>5. CallTypeOK
  <2>1. <<>> \in Seq(Item) /\ online \subseteq Users
    BY DEF CallInit
  <2> QED
    BY <2>1, IdleIsTask DEF CallInit, CallTypeOK
<1>6. HandlersFit
  BY DEF CallInit, HandlersFit, Fits, Idle, Tasks
<1> QED
  BY <1>1, <1>3, <1>4, <1>5, <1>6 DEF CallInv, SoundTables
------------------------------------------------------------------------------
(* Two facts about single steps *)

LEMMA DeliverTouches ==
  ASSUME task \in [Tasks -> Task], NEW k \in Tasks, NEW j \in Tasks \ {k}, NEW STATE s,
         NEW STATE todo, NEW STATE strict, NEW STATE then, NEW STATE g, Deliver(k, s, todo, strict, then, g)
  PROVE  task'[j] = task[j]
BY DEF Deliver, Suspend

LEMMA InviteTouches ==
  ASSUME task \in [Tasks -> Task], NEW k \in Tasks, NEW j \in Tasks \ {k}, NEW z, NEW item, Invite(k, z, item)
  PROVE  task'[j] = task[j]
<1>1. CASE InviteAgain(k, Tables, item.guest)
  BY <1>1, DeliverTouches DEF InviteAgain, Suspend
<1>2. CASE Suspend(k, Tables, Idle)
  BY <1>2 DEF Suspend
<1>3. ASSUME NEW s, EnqueueOrStart(k, z, item, s) PROVE task'[j] = task[j]
  BY <1>3, DeliverTouches DEF EnqueueOrStart
<1> QED
  BY <1>1, <1>2, <1>3 DEF Invite

\* The handler of an answered call's timer has not resumed, and when it does it
\* leaves the call alone.
LEMMA AnsweredStep ==
  ASSUME CallInv, CallNext, NEW c \in CallIds, call[c].state = "connected", call'[c].state = "none"
  PROVE  task'[c] = task[c]
<1>1. /\ task \in [Tasks -> Task] /\ c \in Tasks /\ call' # call
      /\ task[c].pc \in {"idle", "timeout"} /\ \A u \in Users : u \in Tasks /\ c \in Tasks \ {u}
      /\ ZoneOf \in [CallGuests -> Zones]
  BY CallConstantsOK DEF CallInv, CallTypeOK, HandlersFit, Tasks, Users
<1>2. CASE InviteStep
  BY <1>1, <1>2, InviteTouches
     DEF InviteStep, GuestInvite, AdminInvite, LateGuestInvite, LateAdminInvite, LateInvite, Users
<1>3. ASSUME NEW d \in CallIds, CallStep(d) PROVE task'[c] = task[c]
  <2>1. ASSUME NEW u \in Users, NEW hangup \in BOOLEAN, Close(u, d, hangup) PROVE task'[c] = task[c]
    BY <1>1, <2>1 DEF Close, Suspend
  <2> QED
    BY <1>1, <1>3, <2>1 DEF CallStep, Accept, TakeOver, TimerFires
<1>4. CASE CancelStep
  BY <1>1, <1>4 DEF CancelStep, CancelQueued, CancelUnknown
<1>5. ASSUME NEW k \in Tasks, Resume(k) PROVE task'[c] = task[c]
  <2>1. ASSUME k \in CallIds, RunTimeout(k) PROVE task'[c] = task[c]
    <3>1. CASE k = c
      BY <1>1, <2>1, <3>1 DEF RunTimeout, Suspend, Tables
    <3>2. CASE k # c
      BY <1>1, <2>1, <3>2 DEF RunTimeout, Suspend
    <3> QED
      BY <3>1, <3>2
  <2>2. ASSUME k # c, PromoteReady(k) \/ Delivered(k) \/ Retry(k) PROVE task'[c] = task[c]
    <3>1. CASE PromoteReady(k)
      BY <1>1, <2>2, <3>1, DeliverTouches DEF PromoteReady
    <3>2. CASE Delivered(k)
      BY <1>1, <2>2, <3>2, DeliverTouches DEF Delivered
    <3>3. CASE Retry(k)
      BY <1>1, <2>2, <3>3, DeliverTouches DEF Retry, InviteAgain, Suspend
    <3> QED
      BY <2>2, <3>1, <3>2, <3>3
  <2>3. AutoClose(k) => call' = call
    BY DEF AutoClose
  <2>4. PromoteReady(k) \/ Delivered(k) \/ Retry(k) => k # c
    BY <1>1 DEF PromoteReady, Delivered, Retry
  <2> QED
    BY <1>1, <1>5, <2>1, <2>2, <2>3, <2>4 DEF Resume
<1>6. CASE SocketStep
  BY <1>1, <1>6 DEF SocketStep, Connect, Disconnect
<1>7. CASE DecisionStep
  BY <1>1, <1>7 DEF DecisionStep, ApproveGuest, RejectGuest
<1> QED
  BY <1>2, <1>3, <1>4, <1>5, <1>6, <1>7 DEF CallNext

LEMMA ApprovedStep ==
  ASSUME CallInv, CallNext, NEW g \in CallGuests, access[g] = "approved", access'[g] = "rejected"
  PROVE  RejectGuest(g)
<1>1. access \in [CallGuests -> {"pending", "approved", "rejected"}] /\ access' # access
  BY DEF CallInv, CallTypeOK
<1>2. \A h, z : access' # AutoClosed(h, z)
  <2>1. \A h, z : AutoClosed(h, z)[g] = access[g]
    BY <1>1 DEF AutoClosed
  <2> QED
    BY <2>1
<1>3. ~InviteStep
  <2>1. \A h, esc, id : ~LateGuestInvite(h, esc, id)
    BY <1>1, <1>2 DEF LateGuestInvite
  <2>2. \A u, z, item : ~Invite(u, z, item)
    BY <1>1 DEF Invite
  <2> QED
    BY <1>1, <2>1, <2>2 DEF InviteStep, GuestInvite, AdminInvite, LateAdminInvite
<1>4. \A c \in CallIds : ~CallStep(c)
  BY <1>1 DEF CallStep, Accept, Close, TakeOver, TimerFires
<1>5. ~CancelStep
  BY <1>1, <1>2 DEF CancelStep, CancelQueued, CancelUnknown
<1>6. \A k \in Tasks : ~Resume(k)
  <2>1. \A k : ~AutoClose(k)
    BY <1>2 DEF AutoClose
  <2> QED
    BY <1>1, <2>1 DEF Resume, RunTimeout, PromoteReady, Delivered, Retry
<1>7. ~SocketStep
  BY <1>1 DEF SocketStep, Connect, Disconnect
<1>8. PICK h \in CallGuests : ApproveGuest(h) \/ RejectGuest(h)
  BY <1>3, <1>4, <1>5, <1>6, <1>7 DEF CallNext, DecisionStep
<1>9. ~ApproveGuest(h)
  BY <1>1 DEF ApproveGuest
<1>10. h = g
  BY <1>1, <1>8, <1>9 DEF RejectGuest
<1> QED
  BY <1>8, <1>9, <1>10

------------------------------------------------------------------------------
(* Nobody is stranded: sockets that stay, and administrators who call guests from *)
(* the zone the guests are in.                                                     *)

\* What the instance assumes of the constants, and that an id is left for a call:
\* ids are drawn by uuid4 and never run out.
StableCalls ==
    /\ ~Dropouts
    /\ \A pair \in AdminCalls, z \in Zones : pair[1] \in AdminsOf[z] => z = ZoneOf[pair[2]]
IdsLeft == FreeIds(Tables) # {}

\* Someone is called, or nobody waits.
Attended(s) == Live(s) # {} \/ \A z \in Zones : s.queue[z] = <<>>

LEMMA IntervalSize == ASSUME NEW n \in Nat PROVE Cardinality(1..n) = n
BY FS_Interval

\* A line is walked over: it is empty now, or someone is called.
LEMMA PromoteZoneServes ==
  ASSUME Tables \in SoundTables, IdsLeft, NEW STATE s, s \in Promoted, NEW z \in Zones
  PROVE  LET t == PromoteZone(s, z)
         IN  \/ Live(t) # {}
             \/ /\ Live(s) = {} /\ t.queue[z] = <<>>
                /\ \A y \in Zones : s.queue[y] = <<>> => t.queue[y] = <<>>
<1> DEFINE q == s.queue[z]
           halt == {i \in DOMAIN q : AdminBusy(s, q[i].admin) \/ ~InCall(s, q[i].guest)}
           h == CHOOSE i \in halt : \A j \in halt : i <= j
           cut == [s EXCEPT !.queue[z] = SubSeq(q, h + 1, Len(q))]
           held == [s EXCEPT !.queue[z] = SubSeq(q, h, Len(q))]
           none == [s EXCEPT !.queue[z] = <<>>]
           t == PromoteZone(s, z)
<1>1. s \in SoundTables /\ s \in TablesOK /\ Tables \in TablesOK /\ CallsStand(s)
  BY DEF Promoted, SoundTables
<1>2. /\ q \in Seq(Item) /\ Len(q) \in Nat /\ DOMAIN q = 1..Len(q)
      /\ \A i \in DOMAIN q : q[i] \in Item
  BY <1>1, QueueFacts
<1>3. t = IF ZoneBusy(s, z) \/ FreeIds(s) = {} THEN s
          ELSE IF halt = {} THEN none
          ELSE IF AdminBusy(s, q[h].admin) THEN held
          ELSE StartCall(cut, z, q[h])
  BY DEF PromoteZone
<1>4. CASE Live(s) # {}
  <2>1. Live(none) = Live(s) /\ Live(held) = Live(s) /\ Live(cut) = Live(s) /\ FreeIds(cut) = FreeIds(s)
    BY DEF Live, FreeIds
  <2>2. ASSUME FreeIds(s) # {} PROVE Live(StartCall(cut, z, q[h])) # {}
    <3> DEFINE c == CHOOSE free \in FreeIds(cut) : TRUE
               new == [state |-> "ringing", zone |-> z, guest |-> q[h].guest,
                       admin |-> q[h].admin, role |-> q[h].role, esc |-> q[h].esc]
    <3>1. c \in CallIds
      BY <2>1, <2>2 DEF FreeIds
    <3>2. StartCall(cut, z, q[h]).call = [s.call EXCEPT ![c] = new]
      <4> HIDE DEF q, h
      <4> QED
        BY <1>1 DEF StartCall, TablesOK
    <3>3. StartCall(cut, z, q[h]).call[c] = new
      BY <1>1, <3>1, <3>2 DEF TablesOK
    <3>4. new.state # "none"
      OBVIOUS
    <3> HIDE DEF c, new, cut, q, h
    <3> QED
      BY <3>1, <3>3, <3>4 DEF Live
  <2> HIDE DEF none, held, cut, q, h, halt
  <2>3. Live(t) # {}
    BY <1>3, <1>4, <2>1, <2>2
  <2> QED
    BY <2>3
<1>5. CASE Live(s) = {}
  <2>1. ~ZoneBusy(s, z) /\ \A a : ~AdminBusy(s, a)
    BY <1>5 DEF ZoneBusy, AdminBusy
  <2>2. \A g : ~InCall(s, g)
    BY <1>5 DEF InCall
  <2>3. \A c \in CallIds : s.call[c].state = "none" /\ call[c].state = "none"
    <3>1. \A c \in CallIds : s.call[c].state = "none"
      BY <1>5 DEF Live
    <3>2. \A c \in Live(Tables) : s.call[c] = call[c]
      BY <1>1 DEF CallsStand
    <3> QED
      BY <3>1, <3>2 DEF Live, Tables
  <2>4. FreeIds(s) # {}
    BY <2>3 DEF IdsLeft, FreeIds, Tables
  <2>5. halt = DOMAIN q
    BY <2>2
  <2>6. CASE halt = {}
    <3>1. q = <<>>
      BY <1>2, <2>5, <2>6, EmptySeq
    <3>2. t = none
      BY <1>3, <2>1, <2>4, <2>6
    <3>3. none.queue = [s.queue EXCEPT ![z] = <<>>] /\ s.queue \in [Zones -> Seq(Item)]
      BY <1>1 DEF TablesOK
    <3>4. t.queue[z] = <<>> /\ \A y \in Zones : s.queue[y] = <<>> => t.queue[y] = <<>>
      BY <3>2, <3>3
    <3> QED
      BY <1>5, <3>4
  <2>7. CASE halt # {}
    <3>1. h \in halt /\ h \in 1..Len(q) /\ q[h] \in Item
      <4>1. halt \in SUBSET Nat
        BY <1>2
      <4>2. \E i \in halt : \A j \in halt : i <= j
        <5> HIDE DEF halt
        <5> QED
          BY <2>7, <4>1, LeastElement
      <4>3. h \in halt
        <5> HIDE DEF halt
        <5> QED
          BY <4>2
      <4> QED
        BY <1>2, <4>3
    <3> HIDE DEF h, halt
    <3>2. t = StartCall(cut, z, q[h])
      BY <1>3, <2>1, <2>4, <2>7
    <3> DEFINE c == CHOOSE free \in FreeIds(cut) : TRUE
               new == [state |-> "ringing", zone |-> z, guest |-> q[h].guest,
                       admin |-> q[h].admin, role |-> q[h].role, esc |-> q[h].esc]
    <3>3. c \in CallIds
      <4>1. FreeIds(cut) = FreeIds(s)
        BY DEF FreeIds
      <4> QED
        BY <2>4, <4>1 DEF FreeIds
    <3>4. StartCall(cut, z, q[h]).call = [s.call EXCEPT ![c] = new]
      <4> HIDE DEF q
      <4> QED
        BY <1>1 DEF StartCall, TablesOK
    <3>5. t.call[c] = new
      BY <1>1, <3>2, <3>3, <3>4 DEF TablesOK
    <3>6. Live(t) # {}
      BY <3>3, <3>5 DEF Live
    <3> QED
      BY <3>6
  <2> QED
    BY <2>6, <2>7
<1> QED
  BY <1>4, <1>5

LEMMA PromotionsServe ==
  ASSUME Tables \in SoundTables, IdsLeft, NEW STATE s, s \in Promotions
  PROVE  Attended(s)
<1>1. PICK order \in ZoneOrders : s = Promoting(order)[Len(order)]
  BY DEF Promotions
<1> DEFINE n == Len(order)
           done == Promoting(order)
<1>2. /\ order \in [1..Cardinality(Zones) -> Zones] /\ Cardinality(Zones) \in Nat
      /\ \A i, j \in 1..Cardinality(Zones) : i # j => order[i] # order[j]
  BY CallConstantsOK, FS_CardinalityType DEF ZoneOrders, SetToSeqs
<1>3. order \in Seq(Zones) /\ n = Cardinality(Zones) /\ n \in Nat
  BY <1>2, LenProperties
\* Every zone is walked over.
<1>4. ASSUME NEW z \in Zones PROVE \E i \in 1..n : order[i] = z
  <2>1. SUFFICES ASSUME \A i \in 1..n : order[i] # z PROVE FALSE
    OBVIOUS
  <2>2. IsFiniteSet(Zones \ {z}) /\ Cardinality(Zones \ {z}) = n - 1
    BY <1>3, CallConstantsOK, FS_RemoveElement
  <2>3. IsFiniteSet(1..n) /\ Cardinality(1..n) = n
    BY <1>3, FS_Interval
  <2>4. order \in [1..n -> Zones \ {z}]
    BY <1>2, <1>3, <2>1
  <2> HIDE DEF n
  <2>5. \E i, j \in 1..n : i # j /\ order[i] = order[j]
    BY <1>3, <2>2, <2>3, <2>4, FS_PigeonHole
  <2> QED
    BY <1>2, <1>3, <2>5
<1>5. /\ \A i \in 0..n : done[i] \in Promoted
      /\ done[0] = Tables /\ \A i \in 1..n : done[i] = PromoteZone(done[i - 1], order[i])
  <2>1. Tables \in Promoted /\ \A u \in Promoted, z \in Zones : PromoteZone(u, z) \in Promoted
    BY NothingPromoted, PromoteZoneStays
  <2> QED
    BY <1>3, <2>1, PromotingRun
<1> DEFINE good == [i \in 0..n |->
                        {u \in Promoted : Live(u) # {} \/ \A j \in 1..i : u.queue[order[j]] = <<>>}]
<1> HIDE DEF n, done
<1>6. done[0] \in good[0]
  BY <1>3, <1>5
<1>7. ASSUME NEW i \in 1..n, done[i - 1] \in good[i - 1] PROVE done[i] \in good[i]
  <2> DEFINE u == done[i - 1]
             v == done[i]
  <2>1. /\ u \in Promoted /\ v \in Promoted /\ v = PromoteZone(u, order[i]) /\ order[i] \in Zones
        /\ Live(u) # {} \/ \A j \in 1..(i - 1) : u.queue[order[j]] = <<>>
    BY <1>2, <1>3, <1>5, <1>7
  <2> HIDE DEF u, v
  <2>2. \/ Live(v) # {}
        \/ /\ Live(u) = {} /\ v.queue[order[i]] = <<>>
           /\ \A y \in Zones : u.queue[y] = <<>> => v.queue[y] = <<>>
    BY <2>1, PromoteZoneServes
  <2>3. Live(v) # {} \/ \A j \in 1..i : v.queue[order[j]] = <<>>
    <3>1. SUFFICES ASSUME Live(v) = {}, NEW j \in 1..i PROVE v.queue[order[j]] = <<>>
      OBVIOUS
    <3>2. j \in 1..n /\ (j = i \/ j \in 1..(i - 1)) /\ order[j] \in Zones
      BY <1>2, <1>3
    <3> QED
      BY <2>1, <2>2, <3>1, <3>2
  <2>4. i \in 0..n
    BY <1>3
  <2> QED
    BY <2>1, <2>3, <2>4 DEF v
<1>8. done[n] \in good[n]
  <2> HIDE DEF good
  <2>1. n \in 0..n
    BY <1>3
  <2> QED
    BY <1>3, <1>6, <1>7, <2>1, AlongARun
<1>9. Live(done[n]) # {} \/ \A j \in 1..n : done[n].queue[order[j]] = <<>>
  BY <1>3, <1>8
<1>10. s = done[n]
  BY <1>1 DEF done, n
<1> QED
  BY <1>4, <1>9, <1>10 DEF Attended

\* With everybody connected a delivery reaches whom it calls, and ends no call.
LEMMA DeliverReaches ==
  ASSUME CallTypeOK, online = Users, NEW STATE s, s \in SoundTables,
         NEW STATE todo, todo \in Seq(CallIds), NEW STATE strict, strict \in BOOLEAN,
         NEW STATE then, NEW STATE g, NEW k \in Tasks, Deliver(k, s, todo, strict, then, g)
  PROVE  /\ Live(Tables') = Live(s) /\ queue' = s.queue
         /\ \/ /\ task'[k].pc = "deliver" /\ task'[k].then = then /\ task'[k].to # {}
            \/ task'[k].pc = then /\ task'[k].then = "idle"
<1> DEFINE reached(c) == c \in Live(s) /\ Receivers(s, c) \cap online # {}
           missed == {i \in DOMAIN todo : \A j \in 1..i : ~reached(todo[j])}
           m == Cardinality(missed)
           over == {todo[i] : i \in missed}
           t == IF strict THEN DropCalls(s, over) ELSE s
           onTheWay == [Idle EXCEPT !.pc = "deliver", !.then = then, !.strict = strict, !.guest = g,
                                    !.todo = SubSeq(todo, m + 1, Len(todo)),
                                    !.to = Receivers(s, todo[m + 1]) \cap online]
           done == [Idle EXCEPT !.pc = then, !.guest = g]
           next == IF m < Len(todo) THEN onTheWay ELSE done
<1>1. Suspend(k, t, next)
  BY DEF Deliver
<1>2. \A c \in Live(s) : reached(c)
  <2>1. ASSUME NEW c \in Live(s) PROVE Receivers(s, c) \cap online # {}
    <3>1. s.call[c] \in Call /\ s.call[c].admin \in Users /\ s.call[c].guest \in Users
      BY <2>1 DEF SoundTables, TablesOK, Live, Call, NoCall, Users
    <3> QED
      BY <3>1 DEF Receivers, Call
  <2> QED
    BY <2>1
<1>3. Len(todo) \in Nat /\ DOMAIN todo = 1..Len(todo)
  BY LenProperties
<1>4. over \cap Live(s) = {}
  <2>1. ASSUME NEW i \in missed PROVE todo[i] \notin Live(s)
    BY <1>2, <1>3, <2>1
  <2> QED
    BY <2>1
<1>5. m < Len(todo) => reached(todo[m + 1])
  <2>1. SUFFICES ASSUME m < Len(todo) PROVE reached(todo[m + 1])
    OBVIOUS
  <2> DEFINE hit == {i \in 1..Len(todo) : reached(todo[i])}
  <2> HIDE DEF reached
  <2>2. hit # {}
    <3>1. SUFFICES ASSUME hit = {} PROVE FALSE
      OBVIOUS
    <3>2. missed = 1..Len(todo)
      BY <1>3, <3>1
    <3>3. Cardinality(1..Len(todo)) = Len(todo)
      BY <1>3, IntervalSize
    <3>4. m = Len(todo)
      BY <3>2, <3>3
    <3> HIDE DEF m
    <3> QED
      BY <1>3, <2>1, <3>4
  <2>3. PICK p \in hit : \A i \in hit : p <= i
    <3>1. hit \in SUBSET Nat
      OBVIOUS
    <3> HIDE DEF hit
    <3> QED
      BY <2>2, <3>1, LeastElement
  <2>4. missed = 1..(p - 1)
    <3>1. ASSUME NEW i \in 1..Len(todo), i < p PROVE i \in missed
      BY <1>3, <2>3, <3>1
    <3>2. ASSUME NEW i \in missed PROVE i < p
      <4>1. i \in 1..Len(todo) /\ p \in 1..Len(todo)
        BY <1>3
      <4>2. p \notin 1..i
        BY <3>2, <2>3
      <4> QED
        BY <4>1, <4>2
    <3> QED
      BY <1>3, <3>1, <3>2
  <2>5. m = p - 1
    <3>1. p \in 1..Len(todo)
      OBVIOUS
    <3>2. Cardinality(1..(p - 1)) = p - 1
      BY <1>3, <3>1, FS_Interval
    <3> QED
      BY <2>4, <3>2
  <2>6. m + 1 = p
    BY <1>3, <2>5
  <2> QED
    BY <2>6
<1> HIDE DEF missed, m
<1>6. Live(t) = Live(s) /\ t.queue = s.queue
  <2>1. Live(DropCalls(s, over)) = Live(s) \ over /\ DropCalls(s, over).queue = s.queue
    BY DropSound
  <2> HIDE DEF over
  <2> QED
    BY <1>4, <2>1
<1> HIDE DEF t, over
<1>7. call' = t.call /\ queue' = t.queue /\ task' = [task EXCEPT ![k] = next]
  BY <1>1 DEF Suspend
<1>8. Live(Tables') = Live(t)
  BY <1>7 DEF Live, Tables
<1>9. task'[k] = next
  BY <1>7 DEF CallTypeOK
<1>10. CASE m < Len(todo)
  <2>1. task'[k] = onTheWay /\ Receivers(s, todo[m + 1]) \cap online # {}
    BY <1>5, <1>9, <1>10
  <2>2. onTheWay.pc = "deliver" /\ onTheWay.then = then /\ onTheWay.to = Receivers(s, todo[m + 1]) \cap online
    BY DEF Idle
  <2> QED
    BY <1>6, <1>7, <1>8, <2>1, <2>2
<1>11. CASE ~(m < Len(todo))
  <2>1. task'[k] = done /\ done.pc = then /\ done.then = "idle"
    BY <1>9, <1>11 DEF Idle
  <2> QED
    BY <1>6, <1>7, <1>8, <2>1
<1> QED
  BY <1>10, <1>11

\* Nobody waits in a zone that is not their own, no invite is tried again, a
\* broadcast under way has receivers, and who closes a request may promote next.
Home(s) == \A z \in Zones : \A i \in DOMAIN s.queue[z] : ZoneOf[s.queue[z][i].guest] = z

Calm(t) ==
    /\ "retry" \notin {t.pc, t.then}
    /\ t.then = "promote" => t.pc = "closing"
    /\ t.pc = "deliver" => t.to # {}

StrandInv ==
    /\ online = Users /\ Home(Tables)
    /\ \A k \in Tasks : Calm(task[k])
    /\ NoStrandedQueue

Promotes(t) == "promote" \in {t.pc, t.then}

\* What a step of one handler has to show.
LEMMA StrandKept ==
  ASSUME StrandInv, NEW k \in Tasks, \A j \in Tasks \ {k} : task'[j] = task[j],
         Calm(task'[k]), online' = online, Home(Tables'), NoStrandedQueue'
  PROVE  StrandInv'
BY DEF StrandInv, Home, Tables, Tasks, Users

LEMMA AttendedServes ==
  ASSUME Attended(Tables')
  PROVE  NoStrandedQueue'
BY DEF Attended, NoStrandedQueue, Tables, Live

LEMMA PromoterServes ==
  ASSUME NEW k \in Tasks, Promotes(task'[k])
  PROVE  NoStrandedQueue'
<1>1. \E j \in Tasks : "promote" \in {task'[j].pc, task'[j].then}
  BY DEF Promotes
<1> QED
  BY <1>1 DEF NoStrandedQueue, Tasks, Users

\* A step that neither ends a call nor takes a promotion back.
LEMMA StillServed ==
  ASSUME NoStrandedQueue, Live(Tables') = Live(Tables),
         \A z \in Zones : queue'[z] # <<>> => queue[z] # <<>>,
         \A k \in Tasks : Promotes(task[k]) => Promotes(task'[k])
  PROVE  NoStrandedQueue'
<1>1. CASE \A z \in Zones : queue'[z] = <<>>
  BY <1>1 DEF NoStrandedQueue
<1>2. CASE \E z \in Zones : queue'[z] # <<>>
  <2>1. Live(Tables) # {} \/ \E k \in Tasks : Promotes(task[k])
    BY <1>2 DEF NoStrandedQueue, Promotes
  <2>2. Live(Tables') # {} \/ \E k \in Tasks : Promotes(task'[k])
    BY <2>1
  <2> QED
    BY <2>2 DEF NoStrandedQueue, Promotes, Tables, Live, Tasks, Users
<1> QED
  BY <1>1, <1>2

LEMMA PromotedStaysHome ==
  ASSUME Tables \in SoundTables, Home(Tables), NEW STATE s, s \in Promoted
  PROVE  Home(s)
<1>1. s \in TablesOK /\ Tables \in TablesOK
  BY DEF Promoted, SoundTables
<1>2. ASSUME NEW z \in Zones, NEW i \in DOMAIN s.queue[z]
      PROVE  ZoneOf[s.queue[z][i].guest] = z
  <2>1. LineCut(s, z)
    BY DEF Promoted, LineServed
  <2>2. /\ Len(s.queue[z]) \in Nat /\ DOMAIN s.queue[z] = 1..Len(s.queue[z])
        /\ Len(queue[z]) \in Nat /\ DOMAIN queue[z] = 1..Len(queue[z])
    BY <1>1, QueueFacts DEF Tables
  <2>3. i + Gone(s, z) \in DOMAIN queue[z] /\ s.queue[z][i] = queue[z][i + Gone(s, z)]
    BY <2>1, <2>2 DEF LineCut, Suffix
  <2> QED
    BY <2>3 DEF Home, Tables
<1> QED
  BY <1>2 DEF Home

\* Who waits at home is called from home: no promotion takes a guest away from an
\* invite to their own zone.
LEMMA NobodyCalledAway ==
  ASSUME Tables \in SoundTables, Home(Tables), NEW STATE s, s \in Promoted,
         NEW g \in CallGuests, ~InCall(Tables, g), ~Waiting(Tables, g, ZoneOf[g])
  PROVE  ~InCall(s, g)
<1> SUFFICES ASSUME InCall(s, g) PROVE FALSE
  OBVIOUS
<1> DEFINE c == s.activeOf[g]
           z == s.call[c].zone
<1>1. s \in TablesOK /\ OneCall(s) /\ Tables \in TablesOK /\ OneCall(Tables)
  BY DEF Promoted, SoundTables
<1>2. c \in Live(s) /\ s.call[c].guest = g /\ z \in Zones
  BY <1>1, LiveIsCall DEF OneCall, InCall
<1>3. c \notin Live(Tables)
  <2>1. ASSUME c \in Live(Tables) PROVE Tables.activeOf[g] = c /\ c # 0
    <3>1. Tables.call[c] = s.call[c]
      BY <2>1 DEF Promoted, CallsStand, Tables
    <3> QED
      BY <1>1, <1>2, <2>1, <3>1, LiveIsCall DEF OneCall, Live
  <2> QED
    BY <2>1 DEF InCall
<1>4. LineServed(s, z) /\ c \in NewCalls(s)
  BY <1>2, <1>3 DEF Promoted, NewCalls
<1>5. PICK j \in 1..Gone(s, z) : queue[z][j].guest = g
  <2>1. s.call[c].zone = z
    OBVIOUS
  <2> HIDE DEF z, c
  <2>2. Gone(s, z) > 0 /\ queue[z][Gone(s, z)].guest = g /\ Gone(s, z) \in Int
    BY <1>2, <1>4, <2>1 DEF LineServed, LineCut
  <2> QED
    BY <2>2
<1>6. j \in DOMAIN Tables.queue[z] /\ Tables.queue[z] = queue[z]
  <2> HIDE DEF z
  <2>1. Tables.queue[z] = queue[z] /\ Len(queue[z]) \in Nat /\ DOMAIN queue[z] = 1..Len(queue[z])
    BY <1>1, <1>2, QueueFacts DEF Tables
  <2>2. Gone(s, z) \in 0..Len(queue[z])
    BY <1>4 DEF LineServed, LineCut
  <2> QED
    BY <1>5, <2>1, <2>2
<1>7. ZoneOf[g] = z
  BY <1>2, <1>5, <1>6 DEF Home
<1> QED
  BY <1>5, <1>6, <1>7 DEF Waiting

\* A delivery that leaves somebody called, or nobody waiting.
LEMMA DeliveryServes ==
  ASSUME CallInv, StrandInv, NEW STATE s, s \in SoundTables, Home(s), Attended(s),
         NEW STATE todo, todo \in Seq(CallIds), NEW STATE strict, strict \in BOOLEAN, NEW STATE g,
         NEW k \in Tasks, Deliver(k, s, todo, strict, "idle", g), online' = online
  PROVE  StrandInv'
<1>1. CallTypeOK /\ online = Users
  BY DEF CallInv, StrandInv
<1>2. /\ Live(Tables') = Live(s) /\ queue' = s.queue
      /\ \/ task'[k].pc = "deliver" /\ task'[k].then = "idle" /\ task'[k].to # {}
         \/ task'[k].pc = "idle" /\ task'[k].then = "idle"
  BY <1>1, DeliverReaches
<1>3. \A j \in Tasks \ {k} : task'[j] = task[j]
  BY <1>1, DeliverTouches DEF CallTypeOK
<1>4. Calm(task'[k])
  BY <1>2 DEF Calm
<1>5. Attended(Tables') /\ Home(Tables')
  BY <1>2 DEF Attended, Home, Tables
<1> QED
  BY <1>3, <1>4, <1>5, AttendedServes, StrandKept

\* CALL_INVITE to a guest in their own zone.
LEMMA InviteServes ==
  ASSUME CallInv, StrandInv, IdsLeft, NEW u \in Users, task[u].pc = "idle",
         NEW item \in Item, Invite(u, ZoneOf[item.guest], item)
  PROVE  StrandInv'
<1> DEFINE g == item.guest
           z == ZoneOf[item.guest]
<1>1. /\ Tables \in SoundTables /\ Tables \in TablesOK /\ CallTypeOK /\ u \in Tasks
      /\ g \in CallGuests /\ z \in Zones /\ online' = online /\ Home(Tables)
      /\ item.guest = g /\ task \in [Tasks -> Task]
  BY CallConstantsOK DEF CallInv, CallTypeOK, Invite, Tasks, Item, SoundTables, StrandInv
<1>2. ~Promotes(task[u])
  BY <1>1 DEF StrandInv, Calm, Promotes
<1>3. CASE Suspend(u, Tables, Idle)
  <2>1. UNCHANGED <<call, activeOf, queue>> /\ task' = [task EXCEPT ![u] = Idle]
    BY <1>3 DEF Suspend, Tables
  <2>2. Calm(task'[u]) /\ \A j \in Tasks \ {u} : task'[j] = task[j]
    BY <1>1, <2>1 DEF Calm, Idle
  <2>3. Home(Tables') /\ Live(Tables') = Live(Tables)
    BY <1>1, <2>1 DEF Home, Tables, Live
  <2>4. \A k \in Tasks : Promotes(task[k]) => Promotes(task'[k])
    BY <1>2, <2>2
  <2>5. NoStrandedQueue'
    BY <2>1, <2>3, <2>4, StillServed DEF StrandInv
  <2> QED
    BY <1>1, <2>2, <2>3, <2>5, StrandKept
<1>4. CASE InCall(Tables, g) /\ Deliver(u, Tables, <<activeOf[g]>>, TRUE, "idle", NoCaller)
  <2>1. activeOf[g] \in Live(Tables) /\ activeOf[g] \in CallIds
    BY <1>4 DEF InCall, Live, Tables
  <2>2. Attended(Tables) /\ <<activeOf[g]>> \in Seq(CallIds)
    BY <2>1 DEF Attended
  <2> QED
    BY <1>1, <1>4, <2>2, DeliveryServes
<1>5. CASE ~InCall(Tables, g) /\ ~Waiting(Tables, g, z)
  <2>1. PICK s \in IF LineBusy(Tables, z, item.admin) THEN {Tables} ELSE Promotions :
            EnqueueOrStart(u, z, item, s)
    BY <1>5 DEF Invite
  <2>2. s \in Promoted
    BY <1>1, <2>1, NothingPromoted, PromotionsPromoted
  <2>3. /\ s \in SoundTables /\ s \in TablesOK /\ s.started \in Seq(CallIds) /\ Home(s)
        /\ ~InCall(s, g)
    BY <1>1, <1>5, <2>2, PromotedStaysHome, NobodyCalledAway DEF Promoted, SoundTables, TablesOK
  <2>4. Attended(s)
    <3>1. CASE LineBusy(Tables, z, item.admin)
      BY <2>1, <3>1 DEF LineBusy, ZoneBusy, AdminBusy, Attended
    <3>2. CASE ~LineBusy(Tables, z, item.admin)
      BY <1>1, <2>1, <3>2, PromotionsServe
    <3> QED
      BY <3>1, <3>2
  <2> DEFINE parked == [s EXCEPT !.queue[z] = Append(@, item)]
             new == StartCall(s, z, item)
  <2>5. CASE Deliver(u, s, s.started, TRUE, "idle", NoCaller)
    BY <1>1, <2>3, <2>4, <2>5, DeliveryServes
  <2>6. CASE /\ ~Waiting(s, g, z)
             /\ LineBusy(s, z, item.admin) \/ s.queue[z] # <<>>
             /\ Deliver(u, parked, s.started, TRUE, "idle", NoCaller)
    <3>1. parked \in SoundTables /\ parked.call = s.call
      <4>1. ~Waiting(s, item.guest, z)
        BY <2>6
      <4>2. ~InCall(s, item.guest)
        BY <2>3
      <4> HIDE DEF z
      <4>3. InCall(s, item.guest) => s.call[s.activeOf[item.guest]].zone # z
        BY <4>2
      <4> QED
        BY <1>1, <2>3, <4>1, <4>3, ParkSound
    <3>2. Live(parked) = Live(s) /\ Live(s) # {}
      BY <1>1, <2>4, <2>6, <3>1 DEF Live, LineBusy, ZoneBusy, AdminBusy, Attended
    <3>3. Home(parked)
      <4>1. ASSUME NEW y \in Zones, NEW i \in DOMAIN parked.queue[y]
            PROVE  ZoneOf[parked.queue[y][i].guest] = y
        <5>1. CASE y # z
          BY <2>3, <4>1, <5>1 DEF Home, TablesOK
        <5>2. CASE y = z
          <6>1. parked.queue[z] = Append(s.queue[z], item) /\ s.queue[z] \in Seq(Item)
            BY <1>1, <2>3 DEF TablesOK
          <6>2. /\ DOMAIN parked.queue[z] = 1..(Len(s.queue[z]) + 1) /\ Len(s.queue[z]) \in Nat
                /\ \A l \in 1..Len(s.queue[z]) : parked.queue[z][l] = s.queue[z][l]
                /\ parked.queue[z][Len(s.queue[z]) + 1] = item
                /\ DOMAIN s.queue[z] = 1..Len(s.queue[z])
            BY <6>1, AppendProperties, LenProperties
          <6> HIDE DEF parked
          <6>3. CASE i = Len(s.queue[z]) + 1
            BY <5>2, <6>2, <6>3
          <6>4. CASE i # Len(s.queue[z]) + 1
            <7>1. i \in 1..Len(s.queue[z])
              BY <4>1, <5>2, <6>2, <6>4
            <7>2. parked.queue[y][i] = s.queue[z][i] /\ i \in DOMAIN s.queue[z]
              BY <5>2, <6>2, <7>1
            <7> HIDE DEF z
            <7>3. ZoneOf[s.queue[z][i].guest] = z
              BY <1>1, <2>3, <7>2 DEF Home
            <7> QED
              BY <5>2, <7>2, <7>3
          <6> QED
            BY <6>3, <6>4
        <5> QED
          BY <5>1, <5>2
      <4> QED
        BY <4>1 DEF Home
    <3>4. Attended(parked)
      BY <3>2 DEF Attended
    <3> HIDE DEF parked
    <3> QED
      BY <1>1, <2>3, <2>6, <3>1, <3>3, <3>4, DeliveryServes
  <2>7. CASE /\ ~Waiting(s, g, z) /\ ~LineBusy(s, z, item.admin) /\ FreeIds(s) # {}
             /\ Deliver(u, new, new.started, TRUE, "idle", NoCaller)
    <3>1. ~ZoneBusy(s, z)
      BY <2>7 DEF LineBusy
    <3>2. /\ new \in SoundTables /\ new.queue = s.queue
          /\ \E c \in FreeIds(s) : c \in CallIds /\ new.call[c].state = "ringing"
      <4>1. /\ new \in SoundTables /\ new.queue = s.queue
            /\ \E c \in FreeIds(s) :
                  /\ c \in CallIds /\ s.call[c].state = "none" /\ task[c].pc = "idle"
                  /\ new.call[c].state = "ringing" /\ new.call[c].zone = z /\ new.call[c].guest = item.guest
                  /\ new.started = Append(s.started, c)
                  /\ \A d \in CallIds \ {c} : new.call[d] = s.call[d]
        BY <1>1, <2>3, <2>7, <3>1, StartSound
      <4> HIDE DEF new
      <4> QED
        BY <4>1
    <3> HIDE DEF new
    <3>3. Home(new) /\ Attended(new) /\ new.started \in Seq(CallIds)
      BY <2>3, <3>2 DEF Home, Attended, Live, SoundTables, TablesOK
    <3> QED
      BY <1>1, <2>7, <3>2, <3>3, DeliveryServes
  <2> QED
    BY <2>1, <2>3, <2>5, <2>6, <2>7 DEF EnqueueOrStart
<1> QED
  BY <1>3, <1>4, <1>5 DEF Invite, InviteAgain

\* Steps that leave the tables and the handlers alone.
LEMMA QuietServes ==
  ASSUME StrandInv, UNCHANGED <<call, activeOf, queue, task, online>>
  PROVE  StrandInv'
<1>1. Home(Tables') /\ Live(Tables') = Live(Tables)
  BY DEF StrandInv, Home, Tables, Live
<1>2. NoStrandedQueue'
  BY <1>1, StillServed DEF StrandInv
<1> QED
  BY <1>1, <1>2 DEF StrandInv, Home, Tables, Tasks, Users

\* CALL_ACCEPT and the frames of an administrator who takes a call over.
LEMMA OwnServes ==
  ASSUME CallInv, StrandInv, NEW c \in CallIds, NEW STATE row, row.state # "none",
         call' = [call EXCEPT ![c] = row], UNCHANGED <<activeOf, queue, task, online>>
  PROVE  StrandInv'
<1>1. call \in [CallIds -> Call \cup {NoCall}] /\ call'[c].state # "none"
  BY DEF CallInv, CallTypeOK
<1>2. Attended(Tables') /\ Home(Tables')
  BY <1>1 DEF Attended, Live, StrandInv, Home, Tables
<1>3. NoStrandedQueue'
  BY <1>2, AttendedServes
<1> QED
  BY <1>2, <1>3 DEF StrandInv, Home, Tables, Tasks, Users

\* A call ended: its handler promotes, at once or after the auto-close.
LEMMA EndServes ==
  ASSUME CallInv, StrandInv, NEW k \in Tasks, NEW c \in CallIds,
         NEW STATE auto, NEW STATE strict,
         Suspend(k, DropCall(Tables, c), Ending(c, auto, strict)), online' = online
  PROVE  StrandInv'
<1>1. /\ task' = [task EXCEPT ![k] = Ending(c, auto, strict)] /\ task \in [Tasks -> Task]
      /\ queue' = queue
  BY DEF CallInv, CallTypeOK, Suspend, DropCall, DropCalls, Tables
<1>2. task'[k] = Ending(c, auto, strict) /\ \A j \in Tasks \ {k} : task'[j] = task[j]
  BY <1>1
<1>3. Calm(task'[k]) /\ Promotes(task'[k])
  BY <1>2 DEF Ending, Idle, Calm, Promotes
<1>4. Home(Tables')
  BY <1>1 DEF StrandInv, Home, Tables
<1> QED
  BY <1>2, <1>3, <1>4, PromoterServes, StrandKept

\* A handler that promised no promotion changes nothing but itself.
LEMMA LeaveServes ==
  ASSUME CallInv, StrandInv, NEW k \in Tasks, NEW STATE next,
         task' = [task EXCEPT ![k] = next], Calm(next), Promotes(task[k]) => Promotes(next),
         call' = call, online' = online,
         \A z \in Zones : /\ queue'[z] # <<>> => queue[z] # <<>>
                          /\ \A i \in DOMAIN queue'[z] : \E j \in DOMAIN queue[z] :
                                 queue'[z][i] = queue[z][j]
  PROVE  StrandInv'
<1>1. task'[k] = next /\ \A j \in Tasks \ {k} : task'[j] = task[j]
  BY DEF CallInv, CallTypeOK
<1>2. Live(Tables') = Live(Tables) /\ Home(Tables')
  BY DEF StrandInv, Home, Tables, Live
<1>3. NoStrandedQueue'
  BY <1>1, <1>2, StillServed DEF StrandInv
<1> QED
  BY <1>1, <1>2, <1>3, StrandKept

LEMMA ThinnerIsEmptier ==
  ASSUME NEW r, NEW q \in Seq(Item), Thinner(r, q)
  PROVE  r # <<>> => q # <<>>
<1> SUFFICES ASSUME q = <<>>, r # <<>> PROVE FALSE
  OBVIOUS
<1>1. r \in Seq(Item) /\ Len(r) \in Nat /\ DOMAIN r = 1..Len(r)
  BY LenProperties DEF Thinner
<1>2. 1 \in DOMAIN r
  BY <1>1, EmptySeq
<1>3. PICK j \in DOMAIN q : r[1] = q[j]
  BY <1>2, ThinnedHolds DEF Thinner
<1> QED
  BY <1>3

LEMMA CancelQueuedServes ==
  ASSUME CallInv, StrandInv, NEW u \in Users, NEW z \in Zones, NEW id \in Ids, NEW esc \in BOOLEAN,
         CancelQueued(u, z, id, esc)
  PROVE  StrandInv'
<1>1. PICK i \in DOMAIN queue[z] :
        /\ queue' = [queue EXCEPT ![z] = RemoveAt(@, i)]
        /\ task' = [task EXCEPT ![u] =
               IF queue[z][i].esc \/ esc
               THEN [Idle EXCEPT !.pc = "closing", !.guest = queue[z][i].guest, !.zone = z]
               ELSE Idle]
  BY DEF CancelQueued
<1> DEFINE next == IF queue[z][i].esc \/ esc
                   THEN [Idle EXCEPT !.pc = "closing", !.guest = queue[z][i].guest, !.zone = z]
                   ELSE Idle
<1>2. u \in Tasks /\ task[u].pc = "idle" /\ call' = call /\ online' = online
  BY DEF CancelQueued, Free, Tasks
<1>3. Calm(next) /\ ~Promotes(task[u])
  BY <1>2 DEF Idle, Calm, Promotes, StrandInv
<1>4. queue \in [Zones -> Seq(Item)] /\ \A y \in Zones : Thinner(queue'[y], queue[y])
  BY <1>1, LinesAreThin, RemoveAtThins
<1>5. \A y \in Zones : queue'[y] # <<>> => queue[y] # <<>>
  BY <1>4, ThinnerIsEmptier
<1>6. task' = [task EXCEPT ![u] = next]
  BY <1>1
<1>7. \A y \in Zones : \A j \in DOMAIN queue'[y] : \E k \in DOMAIN queue[y] : queue'[y][j] = queue[y][k]
  BY <1>4, ThinnedHolds DEF Thinner
<1>8. Promotes(task[u]) => Promotes(next)
  BY <1>3
<1> HIDE DEF next
<1> QED
  BY <1>2, <1>3, <1>5, <1>6, <1>7, <1>8, LeaveServes

LEMMA RejectGuestServes ==
  ASSUME CallInv, StrandInv, NEW g \in CallGuests, RejectGuest(g)
  PROVE  StrandInv'
<1>1. UNCHANGED <<call, task, online>> /\ queue' = [z \in Zones |-> Without(queue[z], g)]
  BY DEF RejectGuest
<1>2. queue \in [Zones -> Seq(Item)] /\ \A z \in Zones : Thinner(queue'[z], queue[z])
  BY <1>1, LinesAreThin, WithoutThins
<1>3. \A z \in Zones : queue'[z] # <<>> => queue[z] # <<>>
  BY <1>2, ThinnerIsEmptier
<1>4. Live(Tables') = Live(Tables) /\ Home(Tables')
  BY <1>1, <1>2, ThinnedHolds DEF StrandInv, Home, Tables, Live, Thinner
<1>5. NoStrandedQueue'
  BY <1>1, <1>3, <1>4, StillServed DEF StrandInv
<1> QED
  BY <1>1, <1>4, <1>5 DEF StrandInv, Home, Tables, Tasks, Users

LEMMA AutoCloseServes ==
  ASSUME CallInv, StrandInv, NEW k \in Tasks, AutoClose(k)
  PROVE  StrandInv'
<1> DEFINE next == [Idle EXCEPT !.pc = task[k].then, !.strict = task[k].strict]
<1>1. /\ task' = [task EXCEPT ![k] = next] /\ UNCHANGED <<call, queue, online>>
      /\ task[k].pc = "closing" /\ task[k] \in Task
  BY DEF AutoClose, CallInv, CallTypeOK
<1>2. Calm(next) /\ (Promotes(task[k]) => Promotes(next))
  BY <1>1 DEF Idle, Calm, Promotes, StrandInv, Task
<1> HIDE DEF next
<1> QED
  BY <1>1, <1>2, LeaveServes

LEMMA PromoteReadyServes ==
  ASSUME CallInv, StrandInv, IdsLeft, NEW k \in Tasks, PromoteReady(k)
  PROVE  StrandInv'
<1>1. PICK s \in Promotions : Deliver(k, s, s.started, task[k].strict, "idle", NoCaller)
  BY DEF PromoteReady
<1>2. Tables \in SoundTables /\ task[k].strict \in BOOLEAN /\ online' = online /\ Home(Tables)
  BY DEF CallInv, CallTypeOK, PromoteReady, Task, StrandInv
<1>3. s \in Promoted
  BY <1>1, <1>2, PromotionsPromoted
<1>4. s \in SoundTables /\ s.started \in Seq(CallIds) /\ Home(s) /\ Attended(s)
  BY <1>1, <1>2, <1>3, PromotedStaysHome, PromotionsServe DEF Promoted, SoundTables, TablesOK
<1> QED
  BY <1>1, <1>2, <1>4, DeliveryServes

\* A broadcast that returned had a receiver: no call ends.
LEMMA DeliveredServes ==
  ASSUME CallInv, StrandInv, NEW k \in Tasks, Delivered(k)
  PROVE  StrandInv'
<1> DEFINE t == task[k]
           rest == Tail(t.todo)
<1>1. /\ CallTypeOK /\ online = Users /\ Tables \in SoundTables /\ t \in Task /\ task \in [Tasks -> Task]
      /\ t.pc = "deliver" /\ online' = online /\ t.to # {} /\ ~Promotes(t) /\ t.then = "idle"
      /\ t.todo # <<>>
  BY DEF CallInv, CallTypeOK, Delivered, StrandInv, Calm, Promotes, HandlersFit, Fits, Task
<1>2. Deliver(k, Tables, rest, t.strict, t.then, t.guest)
  BY <1>1 DEF Delivered
<1>3. rest \in Seq(CallIds) /\ t.strict \in BOOLEAN /\ t.guest \in CallGuests \cup {NoCaller}
  BY <1>1, HeadTailProperties DEF Task
<1>4. PICK more \in Seq(CallIds), strict \in BOOLEAN, g \in CallGuests \cup {NoCaller} :
        Deliver(k, Tables, more, strict, "idle", g)
  BY <1>1, <1>2, <1>3
<1>5. /\ Live(Tables') = Live(Tables) /\ queue' = Tables.queue
      /\ \/ task'[k].pc = "deliver" /\ task'[k].then = "idle" /\ task'[k].to # {}
         \/ task'[k].pc = "idle" /\ task'[k].then = "idle"
  BY <1>1, <1>4, DeliverReaches
<1>6. \A j \in Tasks \ {k} : task'[j] = task[j]
  BY <1>1, <1>4, DeliverTouches
<1>7. Calm(task'[k]) /\ Home(Tables')
  BY <1>5 DEF Calm, Home, Tables, StrandInv
<1>8. NoStrandedQueue'
  <2>1. \A j \in Tasks : Promotes(task[j]) => Promotes(task'[j])
    BY <1>1, <1>6
  <2> QED
    BY <1>5, <2>1, StillServed DEF StrandInv, Tables
<1> QED
  BY <1>1, <1>6, <1>7, <1>8, StrandKept

LEMMA ServingStep ==
  ASSUME CallInv, StrandInv, IdsLeft, StableCalls, [CallNext]_callVars
  PROVE  StrandInv'
<1>1. CASE UNCHANGED callVars
  BY <1>1, QuietServes DEF callVars
<1>2. CASE InviteStep
  <2>1. /\ Escalations \subseteq BOOLEAN /\ ZoneOf \in [CallGuests -> Zones]
        /\ AdminOf \in [CallGuests -> Admins] /\ CallGuests \subseteq Users /\ Admins \subseteq Users
    BY CallConstantsOK DEF Users
  <2>2. ASSUME NEW g \in CallGuests, NEW esc \in Escalations, GuestInvite(g, esc) PROVE StrandInv'
    <3> DEFINE item == [guest |-> g, admin |-> AdminOf[g], role |-> "guest", esc |-> esc]
    <3>1. item \in Item /\ item.guest = g /\ g \in Users /\ task[g].pc = "idle"
      BY <2>1, <2>2 DEF Item, GuestInvite, Free
    <3>2. Invite(g, ZoneOf[item.guest], item)
      BY <2>2 DEF GuestInvite
    <3> HIDE DEF item
    <3> QED
      BY <3>1, <3>2, InviteServes
  <2>3. ASSUME NEW a \in Admins, NEW g \in CallGuests, NEW z \in Zones, NEW esc \in Escalations,
               AdminInvite(a, g, z, esc)
        PROVE  StrandInv'
    <3> DEFINE item == [guest |-> g, admin |-> a, role |-> "admin", esc |-> esc]
    <3>1. item \in Item /\ item.guest = g /\ a \in Users /\ task[a].pc = "idle"
      BY <2>1, <2>3 DEF Item, AdminInvite, Free
    <3>2. z = ZoneOf[g]
      BY <2>3 DEF AdminInvite, StableCalls
    <3>3. Invite(a, ZoneOf[item.guest], item)
      BY <2>3, <3>2 DEF AdminInvite
    <3> HIDE DEF item
    <3> QED
      BY <3>1, <3>3, InviteServes
  <2>4. ASSUME NEW u, NEW id, LateInvite(u, id) PROVE StrandInv'
    BY <2>4, QuietServes DEF LateInvite
  <2> QED
    BY <1>2, <2>2, <2>3, <2>4 DEF InviteStep, LateGuestInvite, LateAdminInvite
<1>3. ASSUME NEW c \in CallIds, CallStep(c) PROVE StrandInv'
  <2>1. ASSUME NEW u \in Users, Accept(u, c) PROVE StrandInv'
    <3>1. [OwnedBy(u, c) EXCEPT !.state = "connected"].state # "none"
      <4>1. call[c] \in Call
        BY <2>1 DEF CallInv, CallTypeOK, Accept, Party, NoCall
      <4> QED
        BY <4>1 DEF OwnedBy, Call
    <3>2. PICK row : row.state # "none" /\ call' = [call EXCEPT ![c] = row]
      BY <2>1, <3>1 DEF Accept
    <3> QED
      BY <2>1, <3>2, OwnServes DEF Accept
  <2>2. ASSUME NEW u \in Users, NEW hangup \in BOOLEAN, Close(u, c, hangup) PROVE StrandInv'
    BY <2>2, EndServes DEF Close, Tasks
  <2>3. ASSUME NEW a \in Admins, TakeOver(a, c) PROVE StrandInv'
    <3>1. OwnedBy(a, c).state # "none"
      <4>1. call[c] \in Call
        BY <2>3 DEF CallInv, CallTypeOK, TakeOver, Party, NoCall
      <4> QED
        BY <4>1 DEF OwnedBy, Call
    <3>2. PICK row : row.state # "none" /\ call' = [call EXCEPT ![c] = row]
      BY <2>3, <3>1 DEF TakeOver
    <3> QED
      BY <2>3, <3>2, OwnServes DEF TakeOver
  <2>4. ASSUME TimerFires(c) PROVE StrandInv'
    <3>1. /\ c \in Tasks /\ task[c].pc = "idle" /\ task[c] \in Task /\ UNCHANGED <<call, queue, online>>
          /\ task' = [task EXCEPT ![c] = [task[c] EXCEPT !.pc = "timeout"]]
      BY <2>4 DEF TimerFires, Tasks, CallInv, CallTypeOK
    <3>2. /\ Calm([task[c] EXCEPT !.pc = "timeout"])
          /\ Promotes(task[c]) => Promotes([task[c] EXCEPT !.pc = "timeout"])
      BY <3>1 DEF StrandInv, Calm, Promotes, Task
    <3> QED
      BY <3>1, <3>2, LeaveServes
  <2> QED
    BY <1>3, <2>1, <2>2, <2>3, <2>4 DEF CallStep
<1>4. CASE CancelStep
  <2>1. Escalations \subseteq BOOLEAN
    BY CallConstantsOK
  <2>2. ASSUME NEW u \in Users, NEW g \in CallGuests, NEW id \in PendingIds, NEW esc \in Escalations,
               CancelUnknown(u, g, id, esc)
        PROVE  StrandInv'
    BY <2>2, QuietServes DEF CancelUnknown
  <2> QED
    BY <1>4, <2>1, <2>2, CancelQueuedServes DEF CancelStep
<1>5. ASSUME NEW k \in Tasks, Resume(k) PROVE StrandInv'
  <2>1. ASSUME k \in CallIds, RunTimeout(k) PROVE StrandInv'
    <3>1. CASE call[k].state = "ringing"
      BY <2>1, <3>1, EndServes DEF RunTimeout
    <3>2. CASE call[k].state # "ringing"
      <4>1. UNCHANGED <<call, queue, online>> /\ task' = [task EXCEPT ![k] = Idle] /\ task[k].pc = "timeout"
        BY <2>1, <3>2 DEF RunTimeout, Suspend, Tables
      <4>2. Calm(Idle) /\ ~Promotes(task[k])
        BY <4>1 DEF StrandInv, Calm, Promotes, Idle
      <4> QED
        BY <4>1, <4>2, LeaveServes
    <3> QED
      BY <3>1, <3>2
  <2>2. ~Retry(k)
    BY DEF StrandInv, Calm, Retry
  <2> QED
    BY <1>5, <2>1, <2>2, AutoCloseServes, PromoteReadyServes, DeliveredServes DEF Resume
<1>6. ~SocketStep
  BY DEF SocketStep, Connect, Disconnect, StrandInv, StableCalls
<1>7. CASE DecisionStep
  <2>1. ASSUME NEW g \in CallGuests, ApproveGuest(g) PROVE StrandInv'
    BY <2>1, QuietServes DEF ApproveGuest
  <2> QED
    BY <1>7, <2>1, RejectGuestServes DEF DecisionStep
<1> QED
  BY <1>1, <1>2, <1>3, <1>4, <1>5, <1>6, <1>7 DEF CallNext

LEMMA InitServes ==
  ASSUME CallInit, StableCalls
  PROVE  StrandInv
<1>1. online = Users
  BY DEF CallInit, StableCalls
<1>2. Home(Tables) /\ NoStrandedQueue
  BY DEF CallInit, Home, Tables, NoStrandedQueue
<1>3. \A k \in Tasks : Calm(task[k])
  BY DEF CallInit, Calm, Idle
<1> QED
  BY <1>1, <1>2, <1>3 DEF StrandInv

------------------------------------------------------------------------------
(* With infinitely many ids, as uuid4 gives them for all purposes, one is always  *)
(* left: there are finitely many calls, and finitely many suspended handlers.     *)

Busy == {k \in Tasks : task[k].pc # "idle"}

BusyInv == IsFiniteSet(Busy) /\ \A k \in Tasks : task[k].pc = "idle" => task[k].todo = <<>>

\* What a step of one handler has to show.
LEMMA BusyKept ==
  ASSUME BusyInv, NEW k \in Tasks, \A j \in Tasks \ {k} : task'[j] = task[j],
         task'[k].pc = "idle" => task'[k].todo = <<>>
  PROVE  BusyInv'
<1>1. IsFiniteSet(Busy \cup {k})
  BY FS_AddElement DEF BusyInv
<1>2. Busy' \subseteq Busy \cup {k}
  BY DEF Busy, Tasks, Users
<1>3. IsFiniteSet(Busy')
  BY <1>1, <1>2, FS_Subset
<1> QED
  BY <1>3 DEF BusyInv, Tasks, Users

LEMMA ResetBusy ==
  ASSUME CallInv, BusyInv, NEW k \in Tasks, NEW STATE t, t.pc = "idle" => t.todo = <<>>,
         task' = [task EXCEPT ![k] = t]
  PROVE  BusyInv'
BY BusyKept DEF CallInv, CallTypeOK

LEMMA DeliverBusy ==
  ASSUME CallInv, BusyInv, NEW k \in Tasks, NEW STATE s, NEW STATE todo, NEW STATE strict,
         NEW STATE then, NEW STATE g, Deliver(k, s, todo, strict, then, g)
  PROVE  BusyInv'
<1> DEFINE reached(c) == c \in Live(s) /\ Receivers(s, c) \cap online # {}
           missed == {i \in DOMAIN todo : \A j \in 1..i : ~reached(todo[j])}
           m == Cardinality(missed)
           moving == [Idle EXCEPT !.pc = "deliver", !.then = then, !.strict = strict, !.guest = g,
                                  !.todo = SubSeq(todo, m + 1, Len(todo)),
                                  !.to = Receivers(s, todo[m + 1]) \cap online]
           done == [Idle EXCEPT !.pc = then, !.guest = g]
           next == IF m < Len(todo) THEN moving ELSE done
<1>1. task' = [task EXCEPT ![k] = next]
  BY DEF Deliver, Suspend
<1>2. moving.pc = "deliver" /\ done.todo = <<>>
  BY DEF Idle
<1> HIDE DEF m, moving, done
<1>3. next.pc = "idle" => next.todo = <<>>
  BY <1>2
<1> HIDE DEF next
<1> QED
  BY <1>1, <1>3, ResetBusy

LEMMA InviteBusy ==
  ASSUME CallInv, BusyInv, NEW u \in Users, NEW z, NEW item, Invite(u, z, item)
  PROVE  BusyInv'
<1>1. u \in Tasks /\ Idle.todo = <<>>
  BY DEF Tasks, Idle
<1>2. CASE InviteAgain(u, Tables, item.guest)
  BY <1>1, <1>2, DeliverBusy, ResetBusy DEF InviteAgain, Suspend
<1>3. CASE Suspend(u, Tables, Idle)
  BY <1>1, <1>3, ResetBusy DEF Suspend
<1>4. ASSUME NEW s, EnqueueOrStart(u, z, item, s) PROVE BusyInv'
  BY <1>1, <1>4, DeliverBusy DEF EnqueueOrStart
<1> QED
  BY <1>2, <1>3, <1>4 DEF Invite

LEMMA BusyStep ==
  ASSUME CallInv, BusyInv, [CallNext]_callVars
  PROVE  BusyInv'
<1>1. ASSUME task' = task PROVE BusyInv'
  BY <1>1 DEF BusyInv, Busy, Tasks, Users
<1>2. Idle.todo = <<>> /\ Users \subseteq Tasks /\ CallIds \subseteq Tasks /\ ZoneOf \in [CallGuests -> Zones]
  BY CallConstantsOK DEF Idle, Tasks
<1>3. CASE InviteStep
  BY <1>1, <1>2, <1>3, InviteBusy
     DEF InviteStep, GuestInvite, AdminInvite, LateGuestInvite, LateAdminInvite, LateInvite, Users
<1>4. ASSUME NEW k \in Tasks, NEW s, NEW c, NEW auto, NEW strict, Suspend(k, s, Ending(c, auto, strict))
      PROVE  BusyInv'
  <2>1. Ending(c, auto, strict).todo = <<>>
    BY DEF Ending, Idle
  <2> QED
    BY <1>4, <2>1, ResetBusy DEF Suspend
<1>5. ASSUME NEW c \in CallIds, CallStep(c) PROVE BusyInv'
  <2>1. ASSUME NEW u \in Users, NEW hangup \in BOOLEAN, Close(u, c, hangup) PROVE BusyInv'
    BY <1>2, <1>4, <2>1 DEF Close
  <2>2. ASSUME TimerFires(c) PROVE BusyInv'
    <3>1. task' = [task EXCEPT ![c] = [task[c] EXCEPT !.pc = "timeout"]] /\ task[c] \in Task
      BY <1>2, <2>2 DEF TimerFires, CallInv, CallTypeOK
    <3>2. [task[c] EXCEPT !.pc = "timeout"].pc # "idle"
      BY <3>1 DEF Task
    <3> QED
      BY <1>2, <3>1, <3>2, ResetBusy
  <2> QED
    BY <1>1, <1>5, <2>1, <2>2 DEF CallStep, Accept, TakeOver
<1>6. CASE CancelStep
  <2>1. ASSUME NEW u \in Users, NEW z, NEW id, NEW esc, CancelQueued(u, z, id, esc) PROVE BusyInv'
    <3>1. PICK t : task' = [task EXCEPT ![u] = t] /\ t.todo = <<>>
      <4>1. PICK i \in DOMAIN queue[z] :
              task' = [task EXCEPT ![u] =
                  IF queue[z][i].esc \/ esc
                  THEN [Idle EXCEPT !.pc = "closing", !.guest = queue[z][i].guest, !.zone = z]
                  ELSE Idle]
        BY <2>1 DEF CancelQueued
      <4>2. [Idle EXCEPT !.pc = "closing", !.guest = queue[z][i].guest, !.zone = z].todo = <<>>
        BY DEF Idle
      <4> QED
        BY <1>2, <4>1, <4>2
    <3> QED
      BY <1>2, <3>1, ResetBusy
  <2> QED
    BY <1>1, <1>6, <2>1 DEF CancelStep, CancelUnknown
<1>7. ASSUME NEW k \in Tasks, Resume(k) PROVE BusyInv'
  <2>1. ASSUME RunTimeout(k) PROVE BusyInv'
    <3>1. CASE call[k].state = "ringing"
      <4>1. Suspend(k, DropCall(Tables, k), Ending(k, call[k].esc, FALSE))
        BY <2>1, <3>1 DEF RunTimeout
      <4> QED
        BY <1>4, <4>1
    <3>2. CASE call[k].state # "ringing"
      <4>1. task' = [task EXCEPT ![k] = Idle]
        BY <2>1, <3>2 DEF RunTimeout, Suspend
      <4> QED
        BY <1>2, <4>1, ResetBusy
    <3> QED
      BY <3>1, <3>2
  <2>2. ASSUME AutoClose(k) PROVE BusyInv'
    <3>1. [Idle EXCEPT !.pc = task[k].then, !.strict = task[k].strict].todo = <<>>
      BY DEF Idle
    <3> QED
      BY <2>2, <3>1, ResetBusy DEF AutoClose
  <2>3. ASSUME Retry(k) PROVE BusyInv'
    BY <1>2, <2>3, DeliverBusy, ResetBusy DEF Retry, InviteAgain, Suspend
  <2> QED
    BY <1>7, <2>1, <2>2, <2>3, DeliverBusy DEF Resume, PromoteReady, Delivered
<1>8. CASE SocketStep
  <2>1. ASSUME NEW u \in Users, Disconnect(u) PROVE BusyInv'
    <3>1. \A k \in Tasks : task'[k].pc = task[k].pc /\ task'[k].todo = task[k].todo
      BY <2>1 DEF Disconnect, CallInv, CallTypeOK, Task
    <3> QED
      BY <3>1 DEF BusyInv, Busy, Tasks, Users
  <2> QED
    BY <1>1, <1>8, <2>1 DEF SocketStep, Connect
<1>9. CASE DecisionStep
  BY <1>1, <1>9 DEF DecisionStep, ApproveGuest, RejectGuest
<1>10. CASE UNCHANGED callVars
  BY <1>1, <1>10 DEF callVars
<1> QED
  BY <1>3, <1>5, <1>6, <1>7, <1>8, <1>9, <1>10 DEF CallNext

LEMMA BusyInit ==
  ASSUME CallInit
  PROVE  BusyInv
<1>1. \A k \in Tasks : task[k].pc = "idle" /\ task[k].todo = <<>>
  BY DEF CallInit, Idle
<1>2. Busy = {}
  BY <1>1 DEF Busy
<1> QED
  BY <1>1, <1>2, FS_EmptySet DEF BusyInv

\* Zones have one live call each, so there are finitely many.
LEMMA LiveIsFinite ==
  ASSUME CallInv
  PROVE  IsFiniteSet(Live(Tables))
<1> DEFINE zoneOfCall == [c \in Live(Tables) |-> call[c].zone]
<1>1. Tables \in TablesOK /\ OneLine(Tables) /\ Tables.call = call
  BY DEF CallInv, SoundTables, Tables
<1>2. zoneOfCall \in Injection(Live(Tables), Zones)
  BY <1>1, LiveIsCall DEF OneLine, Injection, IsInjective
<1> HIDE DEF zoneOfCall
<1> QED
  BY <1>2, CallConstantsOK, FS_Injection

LEMMA HeldIsFinite ==
  ASSUME CallInv, BusyInv
  PROVE  IsFiniteSet(UNION {ToSet(task[k].todo) : k \in Tasks})
<1> DEFINE heldBy == [k \in Busy |-> ToSet(task[k].todo)]
           sets == {heldBy[k] : k \in Busy}
<1>1. IsFiniteSet(Busy) /\ \A k \in Tasks : task[k].todo \in Seq(CallIds)
  BY DEF BusyInv, CallInv, CallTypeOK, Task
<1>2. IsFiniteSet(sets)
  <2>1. heldBy \in Surjection(Busy, sets)
    BY DEF Surjection
  <2> HIDE DEF heldBy, sets
  <2> QED
    BY <1>1, <2>1, FS_Surjection
<1>3. ASSUME NEW k \in Busy PROVE IsFiniteSet(ToSet(task[k].todo))
  <2> DEFINE q == task[k].todo
  <2>1. q \in Seq(CallIds) /\ Len(q) \in Nat /\ DOMAIN q = 1..Len(q)
    BY <1>1, LenProperties DEF Busy
  <2>2. q \in Surjection(DOMAIN q, ToSet(q))
    BY <2>1 DEF Surjection, ToSet
  <2>3. IsFiniteSet(DOMAIN q)
    BY <2>1, FS_Interval
  <2> HIDE DEF q
  <2>4. IsFiniteSet(ToSet(q))
    BY <2>2, <2>3, FS_Surjection
  <2> QED
    BY <2>4 DEF q
<1>4. IsFiniteSet(UNION sets)
  BY <1>2, <1>3, FS_UNION
<1>5. \A k \in Tasks \ Busy : ToSet(task[k].todo) = {}
  BY DEF BusyInv, Busy, ToSet
<1>6. UNION {ToSet(task[k].todo) : k \in Tasks} \subseteq UNION sets
  BY <1>5
<1> HIDE DEF sets
<1> QED
  BY <1>4, <1>6, FS_Subset

LEMMA IdIsLeft ==
  ASSUME CallInv, BusyInv, ~IsFiniteSet(CallIds)
  PROVE  IdsLeft
<1> DEFINE held == UNION {ToSet(task[k].todo) : k \in Tasks}
           used == (Live(Tables) \cup Busy) \cup held
<1>1. IsFiniteSet(used)
  <2> HIDE DEF held
  <2>1. IsFiniteSet(Live(Tables)) /\ IsFiniteSet(Busy)
    BY LiveIsFinite DEF BusyInv
  <2>2. IsFiniteSet(held)
    BY HeldIsFinite DEF held
  <2>3. IsFiniteSet(Live(Tables) \cup Busy)
    BY <2>1, FS_Union
  <2> QED
    BY <2>2, <2>3, FS_Union
<1>2. PICK c \in CallIds : c \notin used
  <2> HIDE DEF used
  <2>1. SUFFICES ASSUME \A c \in CallIds : c \in used PROVE FALSE
    OBVIOUS
  <2>2. CallIds \subseteq used
    BY <2>1
  <2> QED
    BY <1>1, <2>2, FS_Subset
<1>3. c \in FreeIds(Tables)
  <2> HIDE DEF held
  <2>1. Tables.call[c].state = "none" /\ task[c].pc = "idle" /\ c \notin held
    BY <1>2 DEF Live, Busy, Tasks
  <2> QED
    BY <2>1 DEF FreeIds, held
<1> QED
  BY <1>3 DEF IdsLeft

------------------------------------------------------------------------------
(* The handlers implement WaitingLines: what the lines hold, in names *)

Names(q) == [i \in DOMAIN q |-> q[i].guest]

TalkersOf(s, z) == {s.call[c].guest : c \in {c \in Live(s) : s.call[c].zone = z}}

LEMMA LinesAre ==
  ASSUME NEW z \in Zones
  PROVE  /\ Talking[z] = TalkersOf(Tables, z) /\ Talking'[z] = TalkersOf(Tables', z)
         /\ WaitingLine[z] = Names(queue[z]) /\ WaitingLine'[z] = Names(queue'[z])
BY DEF Talking, WaitingLine, TalkersOf, Names, Live, Tables

LEMMA NamesAre ==
  ASSUME NEW q \in Seq(Item)
  PROVE  /\ Names(q) \in Seq(CallGuests) /\ Len(Names(q)) = Len(q) /\ Len(q) \in Nat
         /\ DOMAIN Names(q) = 1..Len(q) /\ DOMAIN q = 1..Len(q)
         /\ \A i \in 1..Len(q) : Names(q)[i] = q[i].guest
<1>1. Len(q) \in Nat /\ DOMAIN q = 1..Len(q) /\ \A i \in 1..Len(q) : q[i] \in Item
  BY LenProperties, ElementOfSeq
<1>2. Names(q) \in [1..Len(q) -> CallGuests]
  BY <1>1 DEF Names, Item
<1>3. Names(q) \in Seq(CallGuests) /\ Len(Names(q)) = Len(q)
  <2> HIDE DEF Names
  <2> QED
    BY <1>1, <1>2
<1> QED
  BY <1>1, <1>2, <1>3 DEF Names

\* Two calls of a zone are one, so its talkers are one guest at most.
LEMMA OneTalker ==
  ASSUME NEW s \in SoundTables, NEW z \in Zones
  PROVE  /\ \A c \in Live(s) : s.call[c].zone = z => TalkersOf(s, z) = {s.call[c].guest}
         /\ ~ZoneBusy(s, z) => TalkersOf(s, z) = {}
<1>1. OneLine(s)
  BY DEF SoundTables
<1> QED
  BY <1>1 DEF OneLine, TalkersOf, ZoneBusy

\* A guest talks on one line, and does not wait for it meanwhile.
LEMMA TalksOnce ==
  ASSUME NEW s \in SoundTables, NEW y \in Zones, NEW z \in Zones, NEW g \in TalkersOf(s, z)
  PROVE  /\ g \in TalkersOf(s, y) => y = z
         /\ ~Waiting(s, g, z)
<1>1. s \in TablesOK /\ OneCall(s) /\ NotCalledHere(s)
  BY DEF SoundTables
<1>2. PICK c \in Live(s) : s.call[c].zone = z /\ s.call[c].guest = g
  BY DEF TalkersOf
<1>3. g \in CallGuests /\ s.activeOf[g] = c /\ InCall(s, g)
  BY <1>1, <1>2, LiveIsCall, CalledGuest DEF OneCall
<1>4. ~Waiting(s, g, z)
  BY <1>1, <1>2, <1>3 DEF NotCalledHere, Waiting
<1>5. ASSUME g \in TalkersOf(s, y) PROVE y = z
  <2>1. PICK d \in Live(s) : s.call[d].zone = y /\ s.call[d].guest = g
    BY <1>5 DEF TalkersOf
  <2> QED
    BY <1>1, <1>2, <1>3, <2>1 DEF OneCall
<1> QED
  BY <1>4, <1>5

------------------------------------------------------------------------------
(* Lines whose members keep their order *)

LEMMA ThinnedNames ==
  ASSUME NEW r \in Seq(Item), NEW q \in Seq(Item), Lines!Thinned(r, q)
  PROVE  Lines!Thinned(Names(r), Names(q))
<1>1. PICK place \in [DOMAIN r -> DOMAIN q] :
        /\ \A i, j \in DOMAIN r : i < j => place[i] < place[j]
        /\ \A i \in DOMAIN r : r[i] = q[place[i]]
  BY DEF Lines!Thinned
<1>2. DOMAIN Names(r) = DOMAIN r /\ DOMAIN Names(q) = DOMAIN q
  BY DEF Names
<1>3. \A i \in DOMAIN r : Names(r)[i] = Names(q)[place[i]]
  BY <1>1 DEF Names
<1> HIDE DEF Names
<1> QED
  BY <1>1, <1>2, <1>3 DEF Lines!Thinned

------------------------------------------------------------------------------
(* The line after a step, with or without a newcomer *)

LineBecomes(z, r) ==
    \/ queue'[z] = r
    \/ \E item \in Item : queue'[z] = Append(r, item) /\ ~Waiting(Tables, item.guest, z)

LEMMA StayedIs ==
  ASSUME Tables \in SoundTables, Tables' \in SoundTables, NEW z \in Zones, NEW r \in Seq(Item),
         \A i \in DOMAIN r : \E j \in DOMAIN queue[z] : r[i] = queue[z][j],
         LineBecomes(z, r)
  PROVE  Lines!Stayed(z) = Names(r)
<1>1. /\ queue[z] \in Seq(Item)
      /\ WaitingLine[z] = Names(queue[z]) /\ WaitingLine'[z] = Names(queue'[z])
      /\ Talking'[z] = TalkersOf(Tables', z)
  BY LinesAre DEF SoundTables, TablesOK, Tables
<1>2. /\ DOMAIN Names(queue[z]) = DOMAIN queue[z]
      /\ \A i \in DOMAIN queue[z] : Names(queue[z])[i] = queue[z][i].guest
  BY DEF Names
<1>3. /\ Len(r) \in Nat /\ DOMAIN r = 1..Len(r) /\ Len(Names(r)) = Len(r)
      /\ Names(r) \in Seq(CallGuests) /\ DOMAIN Names(r) = 1..Len(r)
      /\ \A i \in 1..Len(r) : Names(r)[i] = r[i].guest
  BY NamesAre
<1>4. CASE queue'[z] = r
  <2>1. Names(r) # <<>> => Names(r)[Len(Names(r))] \in Lines!ToSet(Names(queue[z]))
    <3>1. SUFFICES ASSUME Names(r) # <<>> PROVE Names(r)[Len(Names(r))] \in Lines!ToSet(Names(queue[z]))
      OBVIOUS
    <3>2. Len(Names(r)) # 0
      BY <1>3, <3>1, EmptySeq
    <3>3. Len(r) \in DOMAIN r
      BY <1>3, <3>2
    <3>4. PICK j \in DOMAIN queue[z] : r[Len(r)] = queue[z][j]
      BY <3>3
    <3>5. Names(r)[Len(Names(r))] = Names(queue[z])[j]
      BY <1>2, <1>3, <3>3, <3>4
    <3> QED
      BY <1>2, <3>5 DEF Lines!ToSet
  <2>2. ~Lines!Came(z)
    BY <1>1, <1>4, <2>1 DEF Lines!Came, Lines!Last
  <2> QED
    BY <1>1, <1>4, <2>2 DEF Lines!Stayed
<1>5. ASSUME NEW item \in Item, queue'[z] = Append(r, item), ~Waiting(Tables, item.guest, z)
      PROVE  Lines!Stayed(z) = Names(r)
  <2> DEFINE p == Append(r, item)
  <2>1. /\ p \in Seq(Item) /\ Len(p) = Len(r) + 1 /\ p[Len(r) + 1] = item
        /\ \A i \in 1..Len(r) : p[i] = r[i]
    BY <1>3, AppendProperties
  <2> HIDE DEF p
  <2>2. /\ Len(Names(p)) = Len(r) + 1 /\ Names(p)[Len(r) + 1] = item.guest
        /\ \A i \in 1..Len(r) : Names(p)[i] = Names(r)[i]
        /\ Names(p) \in Seq(CallGuests)
    <3>1. /\ Names(p) \in Seq(CallGuests) /\ Len(Names(p)) = Len(p)
          /\ \A i \in 1..Len(p) : Names(p)[i] = p[i].guest
      BY <2>1, NamesAre
    <3>2. Len(r) + 1 \in 1..Len(p) /\ \A i \in 1..Len(r) : i \in 1..Len(p)
      BY <1>3, <2>1
    <3> QED
      BY <1>3, <2>1, <3>1, <3>2
  <2>3. Names(p) # <<>>
    BY <1>3, <2>2
  <2>4. item.guest \notin Lines!ToSet(Names(queue[z]))
    BY <1>2, <1>5 DEF Lines!ToSet, Waiting, Tables
  <2>5. item.guest \notin TalkersOf(Tables', z)
    <3>1. Tables'.queue = queue'
      BY DEF Tables
    <3>2. Len(p) \in DOMAIN queue'[z] /\ queue'[z][Len(p)].guest = item.guest
      BY <1>3, <1>5, <2>1, LenProperties DEF p
    <3>3. Waiting(Tables', item.guest, z)
      BY <3>1, <3>2 DEF Waiting
    <3> QED
      BY <3>3, TalksOnce
  <2>6. Lines!Came(z)
    BY <1>1, <1>5, <2>2, <2>3, <2>4, <2>5 DEF Lines!Came, Lines!Last, p
  <2>7. SubSeq(Names(p), 1, Len(Names(p)) - 1) = Names(r)
    <3>1. Len(Names(p)) - 1 = Len(r)
      BY <1>3, <2>2
    <3>2. /\ SubSeq(Names(p), 1, Len(r)) \in Seq(CallGuests)
          /\ Len(SubSeq(Names(p), 1, Len(r))) = Len(r)
          /\ \A i \in 1..Len(r) : SubSeq(Names(p), 1, Len(r))[i] = Names(p)[i]
      <4>1. 1 \in Int /\ Len(r) \in Int /\ \A i \in 1..Len(r) : Names(p)[i] \in CallGuests
        BY <1>3, <2>2, ElementOfSeq
      <4>2. /\ SubSeq(Names(p), 1, Len(r)) \in Seq(CallGuests)
            /\ Len(SubSeq(Names(p), 1, Len(r))) = IF 1 <= Len(r) THEN Len(r) - 1 + 1 ELSE 0
            /\ \A i \in 1..(Len(r) - 1 + 1) : SubSeq(Names(p), 1, Len(r))[i] = Names(p)[1 + i - 1]
        BY <4>1, SubSeqProperties
      <4> QED
        BY <1>3, <4>2
    <3>3. SubSeq(Names(p), 1, Len(r)) = Names(r)
      BY <1>3, <2>2, <3>2, SeqEqual
    <3> QED
      BY <3>1, <3>3
  <2> QED
    BY <1>1, <1>5, <2>6, <2>7 DEF Lines!Stayed, Lines!Front, p
<1> QED
  BY <1>4, <1>5 DEF LineBecomes

\* A line that lost its first items, and may have got a newcomer.
LEMMA FirstsLeave ==
  ASSUME Tables \in SoundTables, Tables' \in SoundTables, NEW z \in Zones, NEW r \in Seq(Item),
         NEW n \in 0..Len(queue[z]), Suffix(r, queue[z], n), LineBecomes(z, r)
  PROVE  Lines!Leave(z, n)
<1> DEFINE q == queue[z]
           p == SubSeq(Names(q), n + 1, Len(q))
<1>1. q \in Seq(Item) /\ WaitingLine[z] = Names(q)
  BY LinesAre DEF SoundTables, TablesOK, Tables
<1>2. Suffix(r, q, n) /\ n \in 0..Len(q)
  OBVIOUS
<1>3. Lines!Stayed(z) = Names(r)
  <2>1. n \in Nat
    BY <1>1, <1>2, LenProperties
  <2>2. Lines!Thinned(r, q)
    BY <1>1, <1>2, <2>1, SuffixThinned
  <2>3. \A i \in DOMAIN r : \E j \in DOMAIN q : r[i] = q[j]
    BY <2>2, ThinnedHolds
  <2> QED
    BY <2>3, StayedIs
<1> HIDE DEF q
<1>4. /\ Len(q) \in Nat /\ Len(Names(q)) = Len(q) /\ Names(q) \in Seq(CallGuests)
      /\ \A i \in 1..Len(q) : Names(q)[i] = q[i].guest
  BY <1>1, NamesAre
<1>5. /\ Names(r) \in Seq(CallGuests) /\ Len(Names(r)) = Len(r) /\ Len(r) \in Nat
      /\ \A i \in 1..Len(r) : Names(r)[i] = r[i].guest
  BY NamesAre
<1>6. Len(r) = Len(q) - n /\ \A i \in 1..Len(r) : r[i] = q[i + n]
  BY <1>2 DEF Suffix
<1>7. /\ p \in Seq(CallGuests) /\ Len(p) = Len(q) - n
      /\ \A i \in 1..Len(q) - n : p[i] = Names(q)[i + n]
  <2>1. n + 1 \in Int /\ Len(q) \in Int /\ \A i \in (n + 1)..Len(q) : Names(q)[i] \in CallGuests
    BY <1>2, <1>4, ElementOfSeq
  <2>2. /\ p \in Seq(CallGuests) /\ Len(p) = IF n + 1 <= Len(q) THEN Len(q) - (n + 1) + 1 ELSE 0
        /\ \A i \in 1..(Len(q) - (n + 1) + 1) : p[i] = Names(q)[n + 1 + i - 1]
    BY <2>1, SubSeqProperties
  <2> HIDE DEF p
  <2>3. Len(p) = Len(q) - n
    BY <1>2, <1>4, <2>2
  <2>4. ASSUME NEW i \in 1..Len(q) - n PROVE p[i] = Names(q)[i + n]
    <3>1. i \in 1..(Len(q) - (n + 1) + 1) /\ n + 1 + i - 1 = i + n
      BY <1>2, <1>4
    <3>2. p[i] = Names(q)[n + 1 + i - 1]
      BY <2>2, <3>1
    <3> QED
      BY <3>1, <3>2
  <2> QED
    BY <2>2, <2>3, <2>4
<1> HIDE DEF p
<1>8. ASSUME NEW i \in 1..Len(r) PROVE p[i] = Names(r)[i]
  <2>1. n \in 0..Len(q) /\ Len(q) \in Nat /\ Len(r) \in Nat /\ Len(r) = Len(q) - n
    BY <1>2, <1>4, <1>5, <1>6
  <2>2. i + n \in 1..Len(q) /\ i \in 1..Len(q) - n
    BY <2>1
  <2> QED
    BY <1>4, <1>5, <1>6, <1>7, <2>2
<1>9. p = Names(r)
  BY <1>5, <1>6, <1>7, <1>8, SeqEqual
<1> QED
  BY <1>1, <1>3, <1>4, <1>9 DEF Lines!Leave, p

------------------------------------------------------------------------------
(* Calls that end, are taken over, and guests who leave a line *)

LinesMove == Lines!HangUp \/ Lines!Serve \/ \E g \in CallGuests : Lines!GiveUp(g)

LEMMA SameTalkers ==
  ASSUME \A z \in Zones : TalkersOf(Tables', z) = TalkersOf(Tables, z)
  PROVE  Talking' = Talking
<1>1. Talking = [z \in Zones |-> TalkersOf(Tables, z)]
  BY DEF Talking, TalkersOf, Tables, Live
<1>2. Talking' = [z \in Zones |-> TalkersOf(Tables', z)]
  BY DEF Talking, TalkersOf, Tables, Live
<1> HIDE DEF TalkersOf
<1> QED
  BY <1>1, <1>2

\* Calls end and nothing else happens.
LEMMA DropsMove ==
  ASSUME Tables \in SoundTables, queue' = queue, \A c \in CallIds : call'[c] \in {call[c], NoCall}
  PROVE  LinesMove
<1>1. \A c \in Live(Tables') : c \in Live(Tables) /\ Tables'.call[c] = Tables.call[c]
  BY DEF Live, Tables, NoCall
<1>2. ASSUME NEW z \in Zones PROVE Talking'[z] \in {{}, Talking[z]}
  <2>1. TalkersOf(Tables', z) \subseteq TalkersOf(Tables, z)
    BY <1>1 DEF TalkersOf
  <2>2. TalkersOf(Tables, z) = {} \/ \E g : TalkersOf(Tables, z) = {g}
    BY OneTalker DEF ZoneBusy
  <2>3. TalkersOf(Tables', z) \in {{}, TalkersOf(Tables, z)}
    BY <2>1, <2>2
  <2> QED
    BY <2>3, LinesAre
<1>3. WaitingLine' = WaitingLine
  BY DEF WaitingLine
<1> QED
  BY <1>2, <1>3 DEF Lines!HangUp, LinesMove

\* The calls keep their zones and guests.
LEMMA CallsKeep ==
  ASSUME \A c \in CallIds : /\ call'[c].state = "none" <=> call[c].state = "none"
                            /\ call[c].state # "none" => /\ call'[c].zone = call[c].zone
                                                         /\ call'[c].guest = call[c].guest
  PROVE  Talking' = Talking
<1>1. Live(Tables') = Live(Tables) /\ \A c \in Live(Tables) : /\ Tables'.call[c].zone = Tables.call[c].zone
                                                              /\ Tables'.call[c].guest = Tables.call[c].guest
  BY DEF Live, Tables
<1>2. \A z \in Zones : TalkersOf(Tables', z) = TalkersOf(Tables, z)
  BY <1>1 DEF TalkersOf
<1> QED
  BY <1>2, SameTalkers

------------------------------------------------------------------------------
(* The walk over the lines, step by step what WaitingLines allows *)

\* What the deliveries after a walk leave of its tables: old calls stand, and the
\* calls that started ring or are over.
CallsLeft(s) ==
    /\ \A c \in Live(s) : \/ call'[c] = s.call[c]
                          \/ c \in NewCalls(s) /\ call'[c].state = "none"
    /\ \A y \in Zones : LineBecomes(y, s.queue[y])

\* The lines whose turn it was.
Turns(s) == {y \in Zones : \E c \in NewCalls(s) : s.call[c].zone = y}

LEMMA WalkedLeave ==
  ASSUME Tables \in SoundTables, Tables' \in SoundTables, NEW STATE s, s \in Promoted, CallsLeft(s),
         NEW y \in Zones
  PROVE  Gone(s, y) \in 0..Len(queue[y]) /\ Lines!Leave(y, Gone(s, y))
<1>1. /\ s.queue[y] \in Seq(Item) /\ LineBecomes(y, s.queue[y])
      /\ Gone(s, y) \in 0..Len(queue[y]) /\ Suffix(s.queue[y], queue[y], Gone(s, y))
  BY DEF Promoted, SoundTables, TablesOK, LineServed, LineCut, CallsLeft
<1> QED
  BY <1>1, FirstsLeave

\* Whoever the walk passed over is served by another zone.
LEMMA PassedIsServed ==
  ASSUME Tables \in SoundTables, Tables' \in SoundTables, NEW STATE s, s \in Promoted, CallsLeft(s),
         NEW z \in Zones, NEW j \in 1..Gone(s, z),
         \A c \in NewCalls(s) : s.call[c].zone = z => s.call[c].guest # queue[z][j].guest
  PROVE  Lines!ServedBeside(z, WaitingLine[z][j], Turns(s))
<1> DEFINE g == queue[z][j].guest
           c == s.activeOf[g]
           y == s.call[c].zone
<1>1. /\ s \in SoundTables /\ s \in TablesOK /\ Tables \in TablesOK
      /\ OneCall(Tables) /\ NotCalledHere(Tables) /\ OnceInLine(Tables)
      /\ CallsStand(s) /\ \A x \in Zones : LineServed(s, x)
      /\ \A x \in Zones : queue[x] \in Seq(Item) /\ s.queue[x] \in Seq(Item)
  BY DEF Promoted, SoundTables, TablesOK, Tables
<1>2. ASSUME NEW x \in Zones
      PROVE  /\ Len(queue[x]) \in Nat /\ DOMAIN queue[x] = 1..Len(queue[x])
             /\ Len(s.queue[x]) \in Nat /\ DOMAIN s.queue[x] = 1..Len(s.queue[x])
             /\ Gone(s, x) \in 0..Len(queue[x]) /\ Suffix(s.queue[x], queue[x], Gone(s, x))
             /\ DOMAIN Names(queue[x]) = 1..Len(queue[x])
             /\ \A i \in 1..Len(queue[x]) : Names(queue[x])[i] = queue[x][i].guest
             /\ WaitingLine[x] = Names(queue[x]) /\ WaitingLine'[x] = Names(queue'[x])
             /\ Talking[x] = TalkersOf(Tables, x)
  BY <1>1, LenProperties, NamesAre, LinesAre DEF LineServed, LineCut
<1>3. j \in DOMAIN queue[z] /\ j \in 1..Len(queue[z]) /\ WaitingLine[z][j] = g
  BY <1>2
<1>4. g \in CallGuests /\ InCall(s, g)
  BY <1>1, <1>3, QueueFacts DEF LineServed, Tables
<1>5. c \in Live(s) /\ s.call[c].guest = g /\ y \in Zones
  BY <1>1, <1>4, CalledGuest, LiveIsCall
<1>6. CASE c \in Live(Tables)
  <2>1. Tables.call[c] = s.call[c] /\ Tables.queue = queue
    BY <1>1, <1>6 DEF CallsStand, Tables
  <2>2. Tables.activeOf[g] = c /\ InCall(Tables, g)
    <3> HIDE DEF g, c
    <3>1. Tables.call[c].guest = g
      BY <1>5, <2>1
    <3> QED
      BY <1>1, <1>4, <1>6, <3>1, CalledGuest DEF OneCall
  <2>3. y # z
    BY <1>1, <1>3, <2>1, <2>2 DEF NotCalledHere
  <2>4. g \in TalkersOf(Tables, y)
    BY <1>5, <1>6, <2>1 DEF TalkersOf
  <2> HIDE DEF g, y
  <2> QED
    BY <1>2, <1>3, <1>5, <2>3, <2>4 DEF Lines!ServedBeside
<1>7. CASE c \notin Live(Tables)
  <2>1. c \in NewCalls(s) /\ y # z
    BY <1>5, <1>7 DEF NewCalls
  <2> HIDE DEF g, c
  <2>2. Gone(s, y) > 0 /\ queue[y][Gone(s, y)].guest = g
    BY <1>1, <1>5, <2>1 DEF LineServed
  <2> HIDE DEF y
  <2>3. Gone(s, y) \in 1..Len(queue[y]) /\ Gone(s, y) \in DOMAIN WaitingLine[y]
    BY <1>2, <1>5, <2>2
  <2>4. WaitingLine[y][Gone(s, y)] = g
    BY <1>2, <1>5, <2>2, <2>3
  <2>5. y \in Turns(s) /\ y # z
    BY <1>5, <2>1 DEF Turns, y
  <2>6. Lines!Leave(y, Gone(s, y))
    BY <1>5, WalkedLeave
  <2> QED
    BY <1>3, <1>5, <2>3, <2>4, <2>5, <2>6 DEF Lines!ServedBeside
<1> QED
  BY <1>6, <1>7

\* What a broadcast ends is among the calls it was to deliver.
LEMMA DeliverDrops ==
  ASSUME NEW STATE s, s \in SoundTables, NEW STATE todo, NEW STATE strict, NEW STATE then,
         NEW STATE g, NEW k, Deliver(k, s, todo, strict, then, g)
  PROVE  /\ queue' = s.queue
         /\ \A c \in CallIds : /\ call'[c] \in {s.call[c], NoCall}
                               /\ call'[c] = s.call[c] \/ \E i \in DOMAIN todo : todo[i] = c
<1> DEFINE reached(c) == c \in Live(s) /\ Receivers(s, c) \cap online # {}
           missed == {i \in DOMAIN todo : \A j \in 1..i : ~reached(todo[j])}
           over == {todo[i] : i \in missed}
           t == IF strict THEN DropCalls(s, over) ELSE s
<1>1. call' = t.call /\ queue' = t.queue
  BY DEF Deliver, Suspend
<1>2. \A c \in over : \E i \in DOMAIN todo : todo[i] = c
  OBVIOUS
<1> HIDE DEF over
<1>3. /\ t.queue = s.queue
      /\ \A c \in CallIds : t.call[c] = s.call[c] \/ (c \in over /\ t.call[c] = NoCall)
  BY DropSound
<1> QED
  BY <1>1, <1>2, <1>3

\* A handler that delivers the tables of a walk, with or without another call.
LEMMA WalkLeaves ==
  ASSUME NEW STATE s, s \in Promoted, NEW STATE t, t \in SoundTables, NEW STATE todo, NEW STATE strict,
         NEW STATE then, NEW STATE g, NEW k, Deliver(k, t, todo, strict, then, g),
         \A c \in Live(s) : t.call[c] = s.call[c],
         \A i \in DOMAIN todo : todo[i] \notin Live(s) \ NewCalls(s),
         \A y \in Zones : \/ t.queue[y] = s.queue[y]
                          \/ \E item \in Item : /\ t.queue[y] = Append(s.queue[y], item)
                                                /\ ~Waiting(Tables, item.guest, y)
  PROVE  CallsLeft(s)
<1>1. /\ queue' = t.queue
      /\ \A c \in CallIds : /\ call'[c] \in {t.call[c], NoCall}
                            /\ call'[c] = t.call[c] \/ \E i \in DOMAIN todo : todo[i] = c
  BY DeliverDrops
<1>2. ASSUME NEW c \in Live(s)
      PROVE  call'[c] = s.call[c] \/ (c \in NewCalls(s) /\ call'[c].state = "none")
  <2>1. c \in CallIds
    BY DEF Live
  <2> QED
    BY <1>1, <1>2, <2>1 DEF NoCall
<1> QED
  BY <1>1, <1>2 DEF CallsLeft, LineBecomes

ZoneServed(z, turns) ==
    IF z \in turns THEN Lines!TakeTurn(z, turns) ELSE Lines!Wait(z, turns) \/ Lines!WalkIn(z, turns)

\* After a walk, a line waits or the last one to leave it got the call.
LEMMA WalkServes ==
  ASSUME Tables \in SoundTables, Tables' \in SoundTables, NEW STATE s, s \in Promoted, CallsLeft(s),
         NEW z \in Zones, \A c \in CallIds \ Live(s) : call'[c].state # "none" => call'[c].zone # z
  PROVE  ZoneServed(z, Turns(s))
<1> DEFINE q == queue[z]
           r == s.queue[z]
           n == Gone(s, z)
<1>1. /\ s \in SoundTables /\ s \in TablesOK /\ OneLine(s) /\ OnceInLine(Tables)
      /\ CallsStand(s) /\ LineServed(s, z) /\ LineBecomes(z, r)
      /\ r \in Seq(Item) /\ q \in Seq(Item)
  BY DEF Promoted, SoundTables, TablesOK, Tables, CallsLeft
<1>2. /\ Len(q) \in Nat /\ DOMAIN q = 1..Len(q) /\ n \in 0..Len(q) /\ n \in Nat /\ Suffix(r, q, n)
      /\ Talking[z] = TalkersOf(Tables, z) /\ Talking'[z] = TalkersOf(Tables', z)
      /\ WaitingLine[z] = Names(q) /\ Len(Names(q)) = Len(q) /\ DOMAIN Names(q) = 1..Len(q)
      /\ Names(q) \in Seq(CallGuests)
      /\ \A i \in 1..Len(q) : Names(q)[i] = q[i].guest
  <2>1. Len(q) \in Nat /\ n \in 0..Len(q) /\ Suffix(r, q, n)
    BY <1>1, LenProperties DEF LineServed, LineCut
  <2> HIDE DEF n, r
  <2>2. n \in Nat
    BY <2>1
  <2> HIDE DEF q
  <2>3. /\ DOMAIN q = 1..Len(q) /\ Len(Names(q)) = Len(q) /\ DOMAIN Names(q) = 1..Len(q)
        /\ Names(q) \in Seq(CallGuests)
        /\ \A i \in 1..Len(q) : Names(q)[i] = q[i].guest
    BY <1>1, NamesAre
  <2> QED
    BY <2>1, <2>2, <2>3, LinesAre DEF q
<1>3. \A c \in CallIds : /\ c \in Live(Tables') <=> call'[c].state # "none"
                         /\ c \in Live(Tables) <=> call[c].state # "none"
                         /\ c \in Live(s) <=> s.call[c].state # "none"
  BY DEF Live, Tables
<1>4. \A c \in Live(Tables) : /\ c \in CallIds /\ c \in Live(s) /\ s.call[c] = call[c]
                              /\ c \notin NewCalls(s) /\ call'[c] = s.call[c] /\ c \in Live(Tables')
  BY <1>1, <1>3 DEF CallsStand, CallsLeft, NewCalls, Live
<1>5. \A c \in Live(Tables') : call'[c].zone = z => c \in Live(s) /\ call'[c] = s.call[c] /\ c \in CallIds
  BY <1>3 DEF CallsLeft, Live
<1> HIDE DEF q, r, n
<1>6. Lines!Leave(z, n)
  BY WalkedLeave DEF n
<1>7. CASE z \in Turns(s)
  <2>1. PICK c \in NewCalls(s) : s.call[c].zone = z
    BY <1>7 DEF Turns
  <2>2. c \in Live(s) /\ c \notin Live(Tables)
    BY <2>1 DEF NewCalls
  <2>3. Talking'[z] \subseteq {s.call[c].guest}
    <3>1. ASSUME NEW d \in Live(Tables'), call'[d].zone = z PROVE call'[d].guest = s.call[c].guest
      BY <1>1, <1>5, <2>1, <2>2, <3>1 DEF OneLine
    <3>2. Tables'.call = call'
      BY DEF Tables
    <3> QED
      BY <1>2, <3>1, <3>2 DEF TalkersOf
  <2>4. Talking[z] = {}
    <3>1. \A d \in Live(Tables) : Tables.call[d].zone # z
      BY <1>1, <1>4, <2>1, <2>2 DEF OneLine, Tables
    <3> QED
      BY <1>2, <3>1 DEF TalkersOf
  <2>5. n > 0 /\ q[n].guest = s.call[c].guest /\ n \in 1..Len(q)
    BY <1>1, <1>2, <2>1 DEF LineServed, n, q
  <2>6. ASSUME NEW j \in 1..n - 1 PROVE Lines!ServedBeside(z, WaitingLine[z][j], Turns(s))
    <3>1. j \in 1..Len(q) /\ j # n /\ j \in 1..n
      BY <1>2, <2>5
    <3>2. q[j].guest # q[n].guest
      BY <1>1, <1>2, <2>5, <3>1 DEF OnceInLine, Tables, q
    <3>3. \A d \in NewCalls(s) : s.call[d].zone = z => s.call[d].guest # q[j].guest
      BY <1>1, <2>1, <2>2, <2>5, <3>2 DEF OneLine, NewCalls
    <3> QED
      BY <3>1, <3>3, PassedIsServed DEF n, q
  <2>7. n \in DOMAIN WaitingLine[z] /\ Talking'[z] \subseteq {WaitingLine[z][n]}
    BY <1>2, <2>3, <2>5
  <2>8. Lines!TakeTurn(z, Turns(s))
    BY <1>6, <2>4, <2>6, <2>7 DEF Lines!TakeTurn, Lines!PassedOver
  <2> QED
    BY <1>7, <2>8 DEF ZoneServed
<1>8. CASE z \notin Turns(s)
  <2>1. ASSUME NEW c \in Live(Tables'), call'[c].zone = z
        PROVE  c \in Live(Tables) /\ call'[c] = call[c]
    BY <1>4, <1>5, <1>8, <2>1 DEF NewCalls, Turns
  <2>2. Talking'[z] = Talking[z]
    <3>1. Tables'.call = call' /\ Tables.call = call
      BY DEF Tables
    <3> QED
      BY <1>2, <1>4, <2>1, <3>1 DEF TalkersOf
  <2>3. n > 0 => Talking[z] = {}
    <3>1. n > 0 => ~ZoneBusy(Tables, z)
      BY <1>1 DEF LineServed, n
    <3> QED
      BY <1>2, <3>1 DEF TalkersOf, ZoneBusy
  <2>4. ASSUME NEW j \in 1..n PROVE Lines!ServedBeside(z, WaitingLine[z][j], Turns(s))
    <3>1. \A d \in NewCalls(s) : s.call[d].zone # z
      BY <1>8 DEF Turns
    <3> QED
      BY <3>1, PassedIsServed DEF n
  <2>5. n \in 0..Len(WaitingLine[z])
    BY <1>2
  <2>6. Lines!Wait(z, Turns(s))
    BY <1>6, <2>2, <2>3, <2>4, <2>5 DEF Lines!Wait, Lines!PassedOver
  <2> QED
    BY <1>8, <2>6 DEF ZoneServed
<1> QED
  BY <1>7, <1>8

LEMMA WalkMoves ==
  ASSUME Tables' \in SoundTables, NEW s, \A z \in Zones : ZoneServed(z, Turns(s))
  PROVE  LinesMove
<1>1. ASSUME NEW y \in Zones, NEW z \in Zones, y # z PROVE Talking'[y] \cap Talking'[z] = {}
  <2>1. Talking'[y] = TalkersOf(Tables', y) /\ Talking'[z] = TalkersOf(Tables', z)
    BY LinesAre
  <2>2. \A g \in TalkersOf(Tables', z) : g \notin TalkersOf(Tables', y)
    BY <1>1, <2>1, TalksOnce
  <2> QED
    BY <2>1, <2>2
<1>2. Turns(s) \in SUBSET Zones
  BY DEF Turns
<1> QED
  BY <1>1, <1>2 DEF Lines!Serve, LinesMove, ZoneServed

\* An invite to a guest who is in no call and does not wait in this line.
LEMMA EnqueueMoves ==
  ASSUME CallInv, NEW u \in Users, NEW z \in Zones, NEW item \in Item, NEW STATE s, s \in Promoted,
         ~InCall(Tables, item.guest), ~Waiting(Tables, item.guest, z), EnqueueOrStart(u, z, item, s)
  PROVE  LinesMove
<1> DEFINE g == item.guest
           parked == [s EXCEPT !.queue[z] = Append(@, item)]
           new == StartCall(s, z, item)
<1>1. /\ Tables \in SoundTables /\ Tables' \in SoundTables /\ g \in CallGuests
      /\ s \in SoundTables /\ s \in TablesOK /\ CallsStand(s)
      /\ \A y \in Zones : LineServed(s, y)
  BY EnqueueOrStartSound DEF CallInv, Item, Promoted, SoundTables
<1>2. \A i \in DOMAIN s.started : s.started[i] \notin Live(s) \ NewCalls(s)
  BY <1>1 DEF CallsStand
<1>3. ASSUME CallsLeft(s), \A c \in CallIds : call'[c] \in {s.call[c], NoCall}
      PROVE  LinesMove
  <2>1. \A c \in CallIds \ Live(s) : call'[c].state = "none"
    BY <1>3 DEF Live, NoCall
  <2>2. \A y \in Zones : ZoneServed(y, Turns(s))
    BY <1>1, <1>3, <2>1, WalkServes
  <2> QED
    BY <1>1, <2>2, WalkMoves
<1>4. ASSUME NEW then, NEW h, Deliver(u, s, s.started, TRUE, then, h)
      PROVE  LinesMove
  <2>1. CallsLeft(s)
    BY <1>1, <1>2, <1>4, WalkLeaves
  <2>2. \A c \in CallIds : call'[c] \in {s.call[c], NoCall}
    BY <1>1, <1>4, DeliverDrops
  <2> QED
    BY <1>3, <2>1, <2>2
<1>5. CASE ~Waiting(s, g, z) /\ Deliver(u, parked, s.started, TRUE, "idle", NoCaller)
  <2>1. InCall(s, g) => s.call[s.activeOf[g]].zone # z
    BY <1>1, CalledElsewhere
  <2>2. parked \in SoundTables /\ parked.call = s.call
    BY <1>1, <1>5, <2>1, ParkSound
  <2>3. parked.queue[z] = Append(s.queue[z], item) /\ \A y \in Zones \ {z} : parked.queue[y] = s.queue[y]
    BY <1>1 DEF TablesOK
  <2> HIDE DEF parked
  <2>4. CallsLeft(s)
    <3>1. \A y \in Zones : \/ parked.queue[y] = s.queue[y]
                           \/ \E x \in Item : /\ parked.queue[y] = Append(s.queue[y], x)
                                              /\ ~Waiting(Tables, x.guest, y)
      BY <2>3
    <3> QED
      BY <1>1, <1>2, <1>5, <2>2, <3>1, WalkLeaves
  <2>5. \A c \in CallIds : call'[c] \in {s.call[c], NoCall}
    BY <1>5, <2>2, DeliverDrops
  <2> QED
    BY <1>3, <2>4, <2>5
<1>6. CASE /\ ~Waiting(s, g, z) /\ ~LineBusy(s, z, item.admin) /\ s.queue[z] = <<>>
           /\ ~InCall(s, g) /\ FreeIds(s) # {} /\ Deliver(u, new, new.started, TRUE, "idle", NoCaller)
  <2>1. ~ZoneBusy(s, z)
    BY <1>6 DEF LineBusy
  <2>2. /\ new \in SoundTables /\ new.queue = s.queue
        /\ \E c \in FreeIds(s) :
               /\ c \in CallIds /\ s.call[c].state = "none" /\ task[c].pc = "idle"
               /\ new.call[c].state = "ringing" /\ new.call[c].zone = z /\ new.call[c].guest = g
               /\ new.started = Append(s.started, c)
               /\ \A d \in CallIds \ {c} : new.call[d] = s.call[d]
    BY <1>1, <1>6, <2>1, StartSound
  <2>3. PICK c \in CallIds : /\ s.call[c].state = "none" /\ new.started = Append(s.started, c)
                             /\ new.call[c].state = "ringing" /\ new.call[c].zone = z
                             /\ new.call[c].guest = g
                             /\ \A d \in CallIds \ {c} : new.call[d] = s.call[d]
    BY <2>2
  <2> HIDE DEF new, g
  <2>4. c \notin Live(s) /\ \A d \in Live(s) : d \in CallIds /\ new.call[d] = s.call[d]
    BY <2>3 DEF Live
  <2>5. \A i \in DOMAIN new.started : new.started[i] \notin Live(s) \ NewCalls(s)
    <3>1. s.started \in Seq(CallIds)
      BY <1>1 DEF TablesOK
    <3>2. \A i \in DOMAIN new.started : new.started[i] = c \/ (i \in DOMAIN s.started /\ new.started[i] = s.started[i])
      BY <2>3, <3>1
    <3> QED
      BY <1>2, <2>4, <3>2
  <2>6. CallsLeft(s)
    BY <1>1, <1>6, <2>2, <2>4, <2>5, WalkLeaves
  <2>7. queue' = s.queue /\ \A d \in CallIds : call'[d] \in {new.call[d], NoCall}
    BY <1>6, <2>2, DeliverDrops
  <2>8. \A d \in CallIds \ Live(s) : call'[d].state # "none" => d = c /\ call'[d] = new.call[c]
    BY <2>3, <2>7 DEF Live, NoCall
  <2>9. ASSUME NEW y \in Zones \ {z} PROVE ZoneServed(y, Turns(s))
    BY <1>1, <2>3, <2>6, <2>8, <2>9, WalkServes
  <2>10. CASE call'[c].state = "none"
    <3>1. \A d \in CallIds \ Live(s) : call'[d].state = "none"
      BY <2>8, <2>10
    <3>2. \A y \in Zones : ZoneServed(y, Turns(s))
      BY <1>1, <2>6, <3>1, WalkServes
    <3> QED
      BY <1>1, <3>2, WalkMoves
  <2>11. CASE call'[c].state # "none"
    <3>1. call'[c] = new.call[c] /\ c \in Live(Tables') /\ Tables'.call[c] = new.call[c]
      BY <2>4, <2>8, <2>11 DEF Live, Tables
    <3>2. Talking[z] = {} /\ Talking'[z] = {g}
      <4>1. ~ZoneBusy(Tables, z)
        BY <1>1, <2>1 DEF CallsStand, ZoneBusy, Live, Tables
      <4>2. TalkersOf(Tables, z) = {} /\ TalkersOf(Tables', z) = {g}
        BY <1>1, <2>3, <3>1, <4>1, OneTalker
      <4> QED
        BY <4>2, LinesAre
    <3>3. /\ queue[z] \in Seq(Item) /\ Len(queue[z]) \in Nat /\ Gone(s, z) = Len(queue[z])
          /\ DOMAIN WaitingLine[z] = 1..Len(queue[z]) /\ WaitingLine[z] = Names(queue[z])
          /\ DOMAIN queue[z] = 1..Len(queue[z])
          /\ \A i \in 1..Len(queue[z]) : WaitingLine[z][i] = queue[z][i].guest
      <4>1. queue[z] \in Seq(Item) /\ Len(s.queue[z]) = 0
        BY <1>1, <1>6 DEF SoundTables, TablesOK, Tables
      <4>2. Gone(s, z) = Len(queue[z])
        BY <4>1, LenProperties DEF Gone
      <4> QED
        BY <4>1, <4>2, NamesAre, LinesAre
    <3>4. z \notin Turns(s) /\ Lines!PassedOver(z, Len(WaitingLine[z]), Turns(s))
      <4>1. \A d \in NewCalls(s) : s.call[d].zone # z
        BY <2>1 DEF ZoneBusy, NewCalls
      <4>2. \A j \in 1..Gone(s, z) : Lines!ServedBeside(z, WaitingLine[z][j], Turns(s))
        BY <1>1, <2>6, <4>1, PassedIsServed
      <4>3. Len(WaitingLine[z]) = Gone(s, z)
        BY <3>3, NamesAre
      <4> QED
        BY <4>1, <4>2, <4>3 DEF Turns, Lines!PassedOver
    <3>5. WaitingLine'[z] = <<>>
      <4>1. queue'[z] = <<>> /\ WaitingLine'[z] = Names(queue'[z])
        BY <1>6, <2>7, LinesAre
      <4>2. Names(<<>>) = <<>>
        BY DEF Names
      <4> QED
        BY <4>1, <4>2
    <3>6. g \in CallGuests \ Lines!ToSet(WaitingLine[z])
      BY <1>1, <3>3 DEF Waiting, Tables, Lines!ToSet, g
    <3>7. Lines!WalkIn(z, Turns(s))
      BY <3>2, <3>4, <3>5, <3>6 DEF Lines!WalkIn
    <3>8. \A y \in Zones : ZoneServed(y, Turns(s))
      BY <2>9, <3>4, <3>7 DEF ZoneServed
    <3> QED
      BY <1>1, <3>8, WalkMoves
  <2> QED
    BY <2>9, <2>10, <2>11
<1> QED
  BY <1>4, <1>5, <1>6 DEF EnqueueOrStart

\* The invite of a guest who has a call repeats it, or ends it if nobody hears it.
LEMMA InviteAgainMoves ==
  ASSUME CallInv, NEW u \in Tasks, NEW g \in CallGuests, InCall(Tables, g), InviteAgain(u, Tables, g)
  PROVE  LinesMove
BY InviteAgainSound, DropsMove DEF CallInv

LEMMA InviteMoves ==
  ASSUME CallInv, NEW u \in Users, NEW z \in Zones, NEW item \in Item, Invite(u, z, item)
  PROVE  LinesMove
<1> DEFINE g == item.guest
<1>1. Tables \in SoundTables /\ u \in Tasks /\ g \in CallGuests
  BY DEF CallInv, Tasks, Item
<1>2. CASE InCall(Tables, g)
  BY <1>1, <1>2, InviteAgainMoves DEF Invite
<1>3. CASE ~InCall(Tables, g) /\ Waiting(Tables, g, z)
  <2>1. Suspend(u, Tables, Idle)
    BY <1>3 DEF Invite
  <2>2. UNCHANGED <<call, activeOf, queue>>
    BY <2>1 DEF Suspend, Tables
  <2> QED
    BY <1>1, <2>2, TablesStand, DropsMove
<1>4. CASE ~InCall(Tables, g) /\ ~Waiting(Tables, g, z)
  <2>1. PICK s \in IF LineBusy(Tables, z, item.admin) THEN {Tables} ELSE Promotions :
            EnqueueOrStart(u, z, item, s)
    BY <1>4 DEF Invite
  <2>2. s \in Promoted
    BY <1>1, <2>1, NothingPromoted, PromotionsPromoted
  <2> QED
    BY <1>4, <2>1, <2>2, EnqueueMoves
<1> QED
  BY <1>2, <1>3, <1>4

LEMMA PromoteReadyMoves ==
  ASSUME CallInv, NEW k \in Tasks, PromoteReady(k)
  PROVE  LinesMove
<1>1. PICK s \in Promotions : Deliver(k, s, s.started, task[k].strict, "idle", NoCaller)
  BY DEF PromoteReady
<1>2. Tables \in SoundTables /\ Tables' \in SoundTables
  BY PromoteReadyKeeps DEF CallInv
<1>3. s \in Promoted /\ s \in SoundTables
  BY <1>1, <1>2, PromotionsPromoted DEF Promoted
<1>4. \A i \in DOMAIN s.started : s.started[i] \notin Live(s) \ NewCalls(s)
  BY <1>3 DEF Promoted, CallsStand
<1>5. CallsLeft(s)
  BY <1>1, <1>3, <1>4, WalkLeaves
<1>6. \A c \in CallIds : call'[c] \in {s.call[c], NoCall}
  BY <1>1, <1>3, DeliverDrops
<1>7. \A c \in CallIds \ Live(s) : call'[c].state = "none"
  BY <1>6 DEF Live, NoCall
<1>8. \A y \in Zones : ZoneServed(y, Turns(s))
  BY <1>2, <1>3, <1>5, <1>7, WalkServes
<1> QED
  BY <1>2, <1>8, WalkMoves

------------------------------------------------------------------------------
(* Every step is a step of WaitingLines *)

LEMMA NothingMoves ==
  ASSUME CallInv, UNCHANGED <<call, activeOf, queue>>
  PROVE  LinesMove
BY TablesStand, DropsMove DEF CallInv

\* A call gets another owner or is answered.
LEMMA OwnMoves ==
  ASSUME CallInv, CallInv', NEW c \in CallIds, NEW STATE row, row \in Call, call[c].state # "none",
         row.zone = call[c].zone, row.guest = call[c].guest, call' = [call EXCEPT ![c] = row],
         queue' = queue
  PROVE  LinesMove
<1>1. /\ Tables \in SoundTables /\ Tables' \in SoundTables /\ call \in [CallIds -> Call \cup {NoCall}]
      /\ queue \in [Zones -> Seq(Item)] /\ row.state # "none"
  BY DEF CallInv, CallTypeOK, Call
<1>2. \A d \in CallIds : /\ call'[d].state = "none" <=> call[d].state = "none"
                         /\ call[d].state # "none" => /\ call'[d].zone = call[d].zone
                                                      /\ call'[d].guest = call[d].guest
  BY <1>1
<1>3. Talking' = Talking
  BY <1>2, CallsKeep
<1> QED
  BY <1>3 DEF Lines!HangUp, LinesMove, WaitingLine, Talking

\* A guest leaves the lines.
LEMMA LeaveMoves ==
  ASSUME CallInv, CallInv', call' = call, NEW g \in CallGuests,
         \A y \in Zones : Thinner(queue'[y], queue[y]) /\ Spares(queue'[y], queue[y], g)
  PROVE  LinesMove
<1>1. Talking' = Talking
  BY CallsKeep
<1>2. ASSUME NEW y \in Zones
      PROVE  /\ Lines!Thinned(WaitingLine'[y], WaitingLine[y])
             /\ Lines!ToSet(WaitingLine[y]) \ Lines!ToSet(WaitingLine'[y]) \subseteq {g}
  <2> DEFINE q == queue[y]
             r == queue'[y]
  <2>1. /\ q \in Seq(Item) /\ r \in Seq(Item) /\ Lines!Thinned(r, q) /\ Spares(r, q, g)
        /\ WaitingLine[y] = Names(q) /\ WaitingLine'[y] = Names(r)
    BY LinesAre DEF CallInv, CallTypeOK, Thinner
  <2> HIDE DEF q, r
  <2>2. Lines!Thinned(Names(r), Names(q))
    BY <2>1, ThinnedNames
  <2>3. Lines!ToSet(Names(q)) \ Lines!ToSet(Names(r)) \subseteq {g}
    BY <2>1 DEF Spares, Names, Lines!ToSet
  <2> QED
    BY <2>1, <2>2, <2>3
<1>3. Lines!GiveUp(g)
  BY <1>1, <1>2 DEF Lines!GiveUp
<1> QED
  BY <1>3 DEF LinesMove

LEMMA EndMoves ==
  ASSUME CallInv, CallInv', NEW k, NEW c, NEW STATE next, Suspend(k, DropCall(Tables, c), next)
  PROVE  LinesMove
<1> DEFINE t == DropCalls(Tables, {c})
<1>1. call' = t.call /\ queue' = t.queue /\ Tables \in SoundTables /\ Tables' \in SoundTables
  BY DEF CallInv, Suspend, DropCall
<1>2. t.queue = queue /\ \A d \in CallIds : t.call[d] = IF d \in {c} THEN NoCall ELSE call[d]
  BY <1>1, DropSound DEF Tables
<1> HIDE DEF t
<1>3. queue' = queue /\ \A d \in CallIds : call'[d] \in {call[d], NoCall}
  BY <1>1, <1>2
<1> QED
  BY <1>1, <1>3, DropsMove

LEMMA DeliveredMoves ==
  ASSUME CallInv, CallInv', NEW k \in Tasks, Delivered(k)
  PROVE  LinesMove
<1> DEFINE t == task[k]
           over == IF t.strict /\ t.to = {} THEN DropCall(Tables, Head(t.todo)) ELSE Tables
<1>1. /\ Tables \in SoundTables /\ Tables' \in SoundTables
      /\ Deliver(k, over, Tail(t.todo), t.strict, t.then, t.guest)
  BY DEF CallInv, Delivered
<1>2. /\ over \in SoundTables /\ over.queue = queue
      /\ \A c \in CallIds : over.call[c] \in {call[c], NoCall}
  BY <1>1, DropSound DEF DropCall, Tables
<1> HIDE DEF over
<1>3. queue' = over.queue /\ \A c \in CallIds : call'[c] \in {over.call[c], NoCall}
  BY <1>1, <1>2, DeliverDrops
<1>4. queue' = queue /\ \A c \in CallIds : call'[c] \in {call[c], NoCall}
  BY <1>2, <1>3
<1> QED
  BY <1>1, <1>4, DropsMove

LEMMA RetryMoves ==
  ASSUME CallInv, NEW k \in Tasks, Retry(k)
  PROVE  LinesMove
<1> DEFINE g == task[k].guest
<1>1. CASE InCall(Tables, g)
  <2>1. g \in CallGuests /\ InviteAgain(k, Tables, g)
    BY <1>1 DEF Retry, CallInv, HandlersFit, Fits
  <2> QED
    BY <1>1, <2>1, InviteAgainMoves
<1>2. CASE ~InCall(Tables, g)
  <2>1. Suspend(k, Tables, Idle)
    BY <1>2 DEF Retry
  <2>2. UNCHANGED <<call, activeOf, queue>>
    BY <2>1 DEF Suspend, Tables
  <2> QED
    BY <2>2, NothingMoves
<1> QED
  BY <1>1, <1>2

LEMMA InviteStepMoves ==
  ASSUME CallInv, InviteStep
  PROVE  LinesMove
<1>1. /\ Escalations \subseteq BOOLEAN /\ ZoneOf \in [CallGuests -> Zones] /\ AdminOf \in [CallGuests -> Admins]
      /\ CallGuests \subseteq Users /\ Admins \subseteq Users
  BY CallConstantsOK DEF Users
<1>2. ASSUME NEW g \in CallGuests, NEW esc \in Escalations, GuestInvite(g, esc)
      PROVE  LinesMove
  <2> DEFINE item == [guest |-> g, admin |-> AdminOf[g], role |-> "guest", esc |-> esc]
  <2>1. item \in Item /\ ZoneOf[g] \in Zones /\ g \in Users
    BY <1>1 DEF Item
  <2>2. Invite(g, ZoneOf[g], item)
    BY <1>2 DEF GuestInvite
  <2> HIDE DEF item
  <2> QED
    BY <2>1, <2>2, InviteMoves
<1>3. ASSUME NEW a \in Admins, NEW g \in CallGuests, NEW z \in Zones, NEW esc \in Escalations,
             AdminInvite(a, g, z, esc)
      PROVE  LinesMove
  <2> DEFINE item == [guest |-> g, admin |-> a, role |-> "admin", esc |-> esc]
  <2>1. item \in Item /\ a \in Users
    BY <1>1 DEF Item
  <2>2. Invite(a, z, item)
    BY <1>3 DEF AdminInvite
  <2> HIDE DEF item
  <2> QED
    BY <2>1, <2>2, InviteMoves
<1>4. ASSUME NEW u, NEW id, LateInvite(u, id) PROVE LinesMove
  BY <1>4, NothingMoves DEF LateInvite
<1> QED
  BY <1>2, <1>3, <1>4 DEF InviteStep, LateGuestInvite, LateAdminInvite

LEMMA CallStepMoves ==
  ASSUME CallInv, CallInv', NEW c \in CallIds, CallStep(c)
  PROVE  LinesMove
<1>1. call[c].state # "none" => call[c] \in Call
  BY DEF CallInv, CallTypeOK, NoCall
<1>2. ASSUME NEW u \in Users, Accept(u, c) PROVE LinesMove
  <2> DEFINE row == [OwnedBy(u, c) EXCEPT !.state = "connected"]
  <2>1. row \in Call /\ row.zone = call[c].zone /\ row.guest = call[c].guest
    <3>1. call[c] \in Call
      BY <1>1, <1>2 DEF Accept, Party
    <3> QED
      BY <3>1 DEF OwnedBy, Call
  <2>2. call[c].state # "none" /\ call' = [call EXCEPT ![c] = row] /\ queue' = queue
    BY <1>2 DEF Accept, Party
  <2> HIDE DEF row
  <2> QED
    BY <2>1, <2>2, OwnMoves
<1>3. ASSUME NEW a \in Admins, TakeOver(a, c) PROVE LinesMove
  <2> DEFINE row == OwnedBy(a, c)
  <2>1. row \in Call /\ row.zone = call[c].zone /\ row.guest = call[c].guest
    <3>1. call[c] \in Call
      BY <1>1, <1>3 DEF TakeOver, Party
    <3> QED
      BY <3>1 DEF OwnedBy, Call
  <2>2. call[c].state # "none" /\ call' = [call EXCEPT ![c] = row] /\ queue' = queue
    BY <1>3 DEF TakeOver, Party
  <2> HIDE DEF row
  <2> QED
    BY <2>1, <2>2, OwnMoves
<1>4. ASSUME NEW u \in Users, NEW hangup \in BOOLEAN, Close(u, c, hangup)
      PROVE  LinesMove
  BY <1>4, EndMoves DEF Close
<1>5. ASSUME TimerFires(c) PROVE LinesMove
  BY <1>5, NothingMoves DEF TimerFires
<1> QED
  BY <1>2, <1>3, <1>4, <1>5 DEF CallStep

LEMMA ResumeMoves ==
  ASSUME CallInv, CallInv', NEW k \in Tasks, Resume(k)
  PROVE  LinesMove
<1>1. ASSUME k \in CallIds, RunTimeout(k) PROVE LinesMove
  <2>1. CASE call[k].state = "ringing"
    BY <1>1, <2>1, EndMoves DEF RunTimeout
  <2>2. CASE call[k].state # "ringing"
    BY <1>1, <2>2, NothingMoves DEF RunTimeout, Suspend, Tables
  <2> QED
    BY <2>1, <2>2
<1>2. ASSUME AutoClose(k) PROVE LinesMove
  BY <1>2, NothingMoves DEF AutoClose
<1> QED
  BY <1>1, <1>2, PromoteReadyMoves, DeliveredMoves, RetryMoves DEF Resume

LEMMA LeaveStepMoves ==
  ASSUME CallInv, CallInv', CancelStep \/ DecisionStep
  PROVE  LinesMove
<1>1. ASSUME NEW u, NEW z \in Zones, NEW id, NEW esc, CancelQueued(u, z, id, esc)
      PROVE  LinesMove
  <2>1. PICK i \in DOMAIN queue[z] : queue' = [queue EXCEPT ![z] = RemoveAt(@, i)]
    BY <1>1 DEF CancelQueued
  <2>2. queue[z][i].guest \in CallGuests
    <3>1. queue[z] \in Seq(Item) /\ i \in 1..Len(queue[z])
      BY LinesAreThin, LenProperties
    <3>2. queue[z][i] \in Item
      BY <3>1, ElementOfSeq
    <3> QED
      BY <3>2 DEF Item
  <2>3. ASSUME NEW y \in Zones
        PROVE  Thinner(queue'[y], queue[y]) /\ Spares(queue'[y], queue[y], queue[z][i].guest)
    BY <2>1, LinesAreThin, RemoveAtThins DEF Spares
  <2> QED
    BY <1>1, <2>2, <2>3, LeaveMoves DEF CancelQueued
<1>2. ASSUME NEW u, NEW g, NEW id, NEW esc, CancelUnknown(u, g, id, esc)
      PROVE  LinesMove
  BY <1>2, NothingMoves DEF CancelUnknown
<1>3. ASSUME NEW g \in CallGuests, RejectGuest(g) PROVE LinesMove
  <2>1. \A y \in Zones : Thinner(queue'[y], queue[y]) /\ Spares(queue'[y], queue[y], g)
    BY <1>3, LinesAreThin, WithoutThins DEF RejectGuest
  <2> QED
    BY <1>3, <2>1, LeaveMoves DEF RejectGuest
<1>4. ASSUME NEW g, ApproveGuest(g) PROVE LinesMove
  BY <1>4, NothingMoves DEF ApproveGuest
<1> QED
  BY <1>1, <1>2, <1>3, <1>4 DEF CancelStep, DecisionStep

LEMMA StepMoves ==
  ASSUME CallInv, CallInv', [CallNext]_callVars
  PROVE  LinesMove
<1>1. CASE UNCHANGED callVars
  BY <1>1, NothingMoves DEF callVars
<1>2. CASE SocketStep
  BY <1>2, NothingMoves DEF SocketStep, Connect, Disconnect
<1> QED
  BY <1>1, <1>2, InviteStepMoves, CallStepMoves, ResumeMoves, LeaveStepMoves DEF CallNext

LEMMA LinesStep ==
  ASSUME CallInv, CallInv', [CallNext]_callVars
  PROVE  [Lines!Next]_(Lines!linesVars)
BY StepMoves DEF LinesMove, Lines!Next

LEMMA LinesInit ==
  ASSUME CallInit
  PROVE  Lines!Init
<1>1. Talking = [z \in Zones |-> {}]
  BY DEF CallInit, Talking, NoCall
<1>2. WaitingLine = [z \in Zones |-> <<>>]
  BY DEF CallInit, WaitingLine
<1> QED
  BY <1>1, <1>2 DEF Lines!Init

------------------------------------------------------------------------------
(* The theorems *)

\* Every state the signalling handlers reach is sound: typed tables, one line per
\* zone, one call per guest, sound queues, and no id whose ring timer is still
\* being handled names another call.
THEOREM CallsAreSound == CallSpec => []CallInv
<1>1. CallInit => CallInv
  BY InitSound
<1>2. CallInv /\ [CallNext]_callVars => CallInv'
  BY StepKeeps
<1> QED
  BY <1>1, <1>2, PTL DEF CallSpec

\* The tables of guest_call_service.py keep their types.
THEOREM CallTypesHold == CallSpec => []CallTypeOK
<1>1. CallInv => CallTypeOK
  BY DEF CallInv
<1> QED
  BY <1>1, CallsAreSound, PTL

\* A zone never has two live calls, with any number of zones, administrators,
\* guests and suspended handlers (_line_busy, _promote_holding_lock).
THEOREM LinesAreExclusive == CallSpec => []LineExclusive
<1>1. CallInv => LineExclusive
  BY DEF CallInv, SoundTables, OneLine, LineExclusive, Tables
<1> QED
  BY <1>1, CallsAreSound, PTL

\* A guest never has two live calls, and _active_by_guest names the one there is.
THEOREM GuestsHaveOneCall == CallSpec => []OneCallPerGuest
<1>1. CallInv => OneCallPerGuest
  BY DEF CallInv, SoundTables, OneCall, OneCallPerGuest, Tables
<1> QED
  BY <1>1, CallsAreSound, PTL

\* Nobody waits twice in a line, or in the line of the zone that already calls
\* them (_find_queued).
THEOREM QueuesAreSound == CallSpec => []QueueSound
<1>1. CallInv => QueueSound
  <2> SUFFICES ASSUME CallInv, NEW z \in Zones, NEW i \in DOMAIN queue[z]
               PROVE  /\ \A j \in DOMAIN queue[z] : queue[z][j].guest = queue[z][i].guest => i = j
                      /\ InCall(Tables, queue[z][i].guest) =>
                             call[activeOf[queue[z][i].guest]].zone # z
    BY DEF QueueSound
  <2>1. OnceInLine(Tables) /\ NotCalledHere(Tables)
    BY DEF CallInv, SoundTables
  <2> QED
    BY <2>1 DEF OnceInLine, NotCalledHere, Tables
<1> QED
  BY <1>1, CallsAreSound, PTL

\* Whoever waited longer in a zone's line is not left behind when a call of that
\* zone starts, whichever handler starts it.
THEOREM FirstComeFirstServed == CallSpec => NoOvertaking
<1>1. CallInv /\ [CallNext]_callVars => ServedInOrder
  BY StepKeeps
<1>2. NoOvertaking <=> [][ServedInOrder]_callVars
  BY PTL DEF NoOvertaking, ServedInOrder, OrderKept
<1> QED
  BY <1>1, <1>2, CallsAreSound, PTL DEF CallSpec

\* No ring timer ends a call that was answered before its handler ran.
THEOREM AnsweredCallsSpared == CallSpec => TimeoutSparesAnswered
<1> DEFINE Spared == \A c \in CallIds : call[c].state = "connected" /\ call'[c].state = "none"
                                            => task'[c] = task[c]
<1>1. CallInv /\ [CallNext]_callVars => [Spared]_callVars
  BY AnsweredStep
<1> QED
  BY <1>1, CallsAreSound, PTL DEF CallSpec, TimeoutSparesAnswered

\* No escalated call that fails closes a request an administrator had approved.
THEOREM ApprovalsSpared == CallSpec => AutoCloseSparesApproved
<1> DEFINE Spared == \A g \in CallGuests : access[g] = "approved" /\ access'[g] = "rejected"
                                               => RejectGuest(g)
<1>1. CallInv /\ [CallNext]_callVars => [Spared]_callVars
  BY ApprovedStep
<1> QED
  BY <1>1, CallsAreSound, PTL DEF CallSpec, AutoCloseSparesApproved

\* An id is always left for a call, whatever many handlers hold theirs (create_call
\* draws a uuid4 each time).
THEOREM IdsNeverRunOut == ~IsFiniteSet(CallIds) => (CallSpec => []IdsLeft)
<1> SUFFICES ASSUME ~IsFiniteSet(CallIds) PROVE CallSpec => []IdsLeft
  OBVIOUS
<1>1. CallInit => BusyInv
  BY BusyInit
<1>2. CallInv /\ BusyInv /\ [CallNext]_callVars => BusyInv'
  BY BusyStep
<1>3. CallInv /\ BusyInv => IdsLeft
  BY IdIsLeft
<1> QED
  BY <1>1, <1>2, <1>3, CallsAreSound, PTL DEF CallSpec

\* While sockets stay, administrators call guests from the guests' own zone and an
\* id is left for a call: a waiting guest always has a live call, or a handler
\* about to promote, to wait for. This holds on instances with finitely many ids too.
THEOREM ServedWhileIdsLast == StableCalls => (CallSpec /\ []IdsLeft => []NoStrandedQueue)
<1> SUFFICES ASSUME StableCalls PROVE CallSpec /\ []IdsLeft => []NoStrandedQueue
  OBVIOUS
<1>1. CallInit => StrandInv
  BY InitServes
<1>2. CallInv /\ StrandInv /\ IdsLeft /\ [CallNext]_callVars => StrandInv'
  BY ServingStep
<1>3. StrandInv => NoStrandedQueue
  BY DEF StrandInv
<1> QED
  BY <1>1, <1>2, <1>3, CallsAreSound, PTL DEF CallSpec

\* No interleaving of invites, answers, cancels, timeouts and decisions leaves a
\* line that nothing will ever walk over, with any number of guests, administrators
\* and zones, while sockets stay and guests are called from their own zone.
THEOREM NobodyIsStranded ==
  StableCalls /\ ~IsFiniteSet(CallIds) => (CallSpec => []NoStrandedQueue)
<1> SUFFICES ASSUME StableCalls, ~IsFiniteSet(CallIds) PROVE CallSpec => []NoStrandedQueue
  OBVIOUS
<1>1. CallSpec => []IdsLeft
  BY IdsNeverRunOut
<1>2. CallSpec /\ []IdsLeft => []NoStrandedQueue
  BY ServedWhileIdsLast
<1> QED
  BY <1>1, <1>2

\* The phone lines, with their calls, ids, timers, handlers and sockets, implement
\* WaitingLines: on every line one guest talks at a time, nobody changes places in
\* it, and who gets it is the first of those no other line serves.
THEOREM LinesAreServed == CallSpec => ServesLines
<1>1. CallInit => Lines!Init
  BY LinesInit
<1>2. CallInv /\ CallInv' /\ [CallNext]_callVars => [Lines!Next]_(Lines!linesVars)
  BY LinesStep
<1> QED
  BY <1>1, <1>2, CallsAreSound, PTL DEF CallSpec, ServesLines, Lines!Spec
==============================================================================
