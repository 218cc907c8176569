--------------------------- MODULE WebListsProofs ---------------------------
(***************************************************************************)
(* Theorems about WebLists, for every set of strategies, alerts, files,    *)
(* levels and modules and for any bounds: the lemmas of each page come     *)
(* first, the theorems that take them together last.                       *)
(***************************************************************************)
EXTENDS WebLists, FiniteSetTheorems, WellFoundedInduction, TLAPS

(* Where the element at j was before the one at i was taken out.           *)
Before(j, i) == IF j < i THEN j ELSE j + 1

LEMMA Removed ==
    ASSUME NEW S, NEW s \in Seq(S), NEW i \in DOMAIN s
    PROVE  /\ RemoveAt(s, i) \in Seq(S)
           /\ Len(RemoveAt(s, i)) = Len(s) - 1
           /\ \A j \in DOMAIN RemoveAt(s, i) :
                 /\ Before(j, i) \in DOMAIN s /\ Before(j, i) # i
                 /\ RemoveAt(s, i)[j] = s[Before(j, i)]
<1> DEFINE head == SubSeq(s, 1, i - 1)
           tail == SubSeq(s, i + 1, Len(s))
<1>1. i \in 1 .. Len(s) /\ Len(s) \in Nat
  OBVIOUS
<1>2. head \in Seq(S) /\ Len(head) = i - 1 /\ \A j \in 1 .. i - 1 : head[j] = s[j]
  BY <1>1
<1>3. /\ tail \in Seq(S) /\ Len(tail) = Len(s) - i
      /\ \A j \in 1 .. Len(s) - i : tail[j] = s[i + j]
  BY <1>1
<1> HIDE DEF head, tail
<1>4. RemoveAt(s, i) = head \o tail
  BY DEF RemoveAt, head, tail
<1>5. head \o tail \in Seq(S) /\ Len(head \o tail) = Len(s) - 1
  BY <1>1, <1>2, <1>3
<1>6. ASSUME NEW j \in 1 .. Len(s) - 1
      PROVE  /\ Before(j, i) \in DOMAIN s /\ Before(j, i) # i
             /\ (head \o tail)[j] = s[Before(j, i)]
  <2>1. CASE j < i
    BY <1>1, <1>2, <1>3, <2>1 DEF Before
  <2>2. CASE ~(j < i)
    <3>1. (head \o tail)[j] = tail[j - (i - 1)]
      BY <1>1, <1>2, <1>3, <2>2
    <3>2. j - (i - 1) \in 1 .. Len(s) - i /\ i + (j - (i - 1)) = j + 1
      BY <1>1, <2>2
    <3> QED
      BY <1>1, <1>3, <3>1, <3>2, <2>2 DEF Before
  <2> QED
    BY <2>1, <2>2
<1> QED
  BY <1>4, <1>5, <1>6

LEMMA Stays ==
    ASSUME NEW S, NEW s \in Seq(S), NEW i \in DOMAIN s, NEW j \in DOMAIN s, j # i
    PROVE  \E k \in DOMAIN RemoveAt(s, i) : RemoveAt(s, i)[k] = s[j]
<1> DEFINE k == IF j < i THEN j ELSE j - 1
<1>1. Len(s) \in Nat /\ i \in 1 .. Len(s) /\ j \in 1 .. Len(s)
  OBVIOUS
<1>2. DOMAIN RemoveAt(s, i) = 1 .. Len(s) - 1
  BY Removed
<1>3. k \in DOMAIN RemoveAt(s, i) /\ Before(k, i) = j
  BY <1>1, <1>2 DEF Before
<1> QED
  BY <1>3, Removed

LEMMA BeforeIsInjective ==
    ASSUME NEW i \in Nat, NEW j \in Nat, NEW k \in Nat
    PROVE  /\ Before(j, i) = Before(k, i) => j = k
           /\ j <= k <=> Before(j, i) <= Before(k, i)
BY DEF Before

LEMMA Added ==
    ASSUME NEW S, NEW s \in Seq(S), NEW e \in S
    PROVE  /\ Append(s, e) \in Seq(S)
           /\ DOMAIN Append(s, e) = DOMAIN s \cup {Len(s) + 1} /\ Len(s) + 1 \notin DOMAIN s
           /\ Append(s, e)[Len(s) + 1] = e
           /\ \A j \in DOMAIN s : Append(s, e)[j] = s[j]
OBVIOUS

LEMMA LeastNatural ==
    ASSUME NEW S \in SUBSET Nat, S # {}
    PROVE  \E x \in S : \A y \in S : x <= y
<1> DEFINE less == {ss \in Nat \X Nat : ss[1] < ss[2]}
<1>1. IsWellFoundedOn(less, Nat)
  BY NatLessThanWellFounded, Zenon DEF OpToRel
<1> HIDE DEF less
<1>2. PICK x \in S : \A y \in S : <<y, x>> \notin less
  BY <1>1, WFMin
<1>3. \A y \in S : ~(y < x)
  <2> TAKE y \in S
  <2>1. x \in Nat /\ y \in Nat
    OBVIOUS
  <2>2. y < x => <<y, x>> \in less
    BY <2>1 DEF less
  <2> QED
    BY <1>2, <2>2
<1> QED
  BY <1>3

(* What prev.filter has kept of the first n, for every n up to m.          *)
KeptOf(kept, list, wanted, m) ==
    kept = [n \in 0 .. m |->
              IF n = 0 THEN <<>>
              ELSE IF list[n] \in wanted THEN Append(kept[n - 1], list[n]) ELSE kept[n - 1]]

LEMMA KeptExists == \A list, wanted : \A m \in Nat : \E kept : KeptOf(kept, list, wanted, m)
<1> SUFFICES ASSUME NEW list, NEW wanted
             PROVE  \A m \in Nat : \E kept : KeptOf(kept, list, wanted, m)
  OBVIOUS
<1> DEFINE Without == {m \in Nat : ~\E kept : KeptOf(kept, list, wanted, m)}
<1>1. SUFFICES ASSUME Without # {} PROVE FALSE
  OBVIOUS
<1>2. PICK m \in Without : \A n \in Without : m <= n
  BY <1>1, LeastNatural
<1>3. m # 0
  <2>1. KeptOf([n \in 0 .. 0 |-> <<>>], list, wanted, 0)
    BY DEF KeptOf
  <2> QED
    BY <2>1
<1>4. m - 1 \in Nat /\ m - 1 \notin Without
  BY <1>2, <1>3
<1>5. PICK kept : KeptOf(kept, list, wanted, m - 1)
  BY <1>4
<1> DEFINE more == [n \in 0 .. m |->
                      IF n < m THEN kept[n]
                      ELSE IF list[m] \in wanted THEN Append(kept[m - 1], list[m]) ELSE kept[m - 1]]
<1>6. \A n \in 0 .. m : more[n] =
        IF n = 0 THEN <<>>
        ELSE IF list[n] \in wanted THEN Append(more[n - 1], list[n]) ELSE more[n - 1]
  <2> TAKE n \in 0 .. m
  <2>1. CASE n < m
    <3>1. n \in 0 .. m - 1
      BY <1>4, <2>1
    <3>2. kept[n] = IF n = 0 THEN <<>>
                    ELSE IF list[n] \in wanted THEN Append(kept[n - 1], list[n]) ELSE kept[n - 1]
      BY <1>5, <3>1 DEF KeptOf
    <3>3. n # 0 => more[n - 1] = kept[n - 1]
      BY <1>4, <2>1
    <3> QED
      BY <2>1, <3>2, <3>3
  <2>2. CASE n = m
    BY <1>3, <1>4, <2>2
  <2> QED
    BY <1>4, <2>1, <2>2
<1> HIDE DEF more
<1>7. more = [n \in 0 .. m |-> more[n]]
  BY DEF more
<1>8. KeptOf(more, list, wanted, m)
  BY <1>6, <1>7 DEF KeptOf
<1> QED
  BY <1>8

(* What Only keeps: of the list, what is wanted of it, all of it, each     *)
(* from a place of its own.                                                *)
LEMMA OnlyTheWanted ==
    ASSUME NEW S, NEW list \in Seq(S), NEW wanted
    PROVE  /\ Only(list, wanted) \in Seq(S)
           /\ \A i \in DOMAIN Only(list, wanted) : \E k \in DOMAIN list :
                 list[k] \in wanted /\ list[k] = Only(list, wanted)[i]
           /\ \A k \in DOMAIN list : list[k] \in wanted =>
                 \E i \in DOMAIN Only(list, wanted) : Only(list, wanted)[i] = list[k]
           /\ \A i, j \in DOMAIN Only(list, wanted) : i # j =>
                 \E k, l \in DOMAIN list : /\ k # l /\ list[k] = Only(list, wanted)[i]
                                           /\ list[l] = Only(list, wanted)[j]
<1> DEFINE m == Len(list)
           kept == CHOOSE f : KeptOf(f, list, wanted, m)
           Good(n) == /\ kept[n] \in Seq(S)
                      /\ \A i \in DOMAIN kept[n] : \E k \in 1 .. n :
                            list[k] \in wanted /\ list[k] = kept[n][i]
                      /\ \A k \in 1 .. n : list[k] \in wanted =>
                            \E i \in DOMAIN kept[n] : kept[n][i] = list[k]
                      /\ \A i, j \in DOMAIN kept[n] : i # j =>
                            \E k, l \in 1 .. n :
                               k # l /\ list[k] = kept[n][i] /\ list[l] = kept[n][j]
<1>1. m \in Nat /\ \A k \in 1 .. m : list[k] \in S
  OBVIOUS
<1>2. KeptOf(kept, list, wanted, m)
  BY <1>1, KeptExists
<1>3. Only(list, wanted) = kept[m]
  BY DEF Only, KeptOf
<1> HIDE DEF m, kept
<1>4. \A n \in 0 .. m : kept[n] =
        IF n = 0 THEN <<>>
        ELSE IF list[n] \in wanted THEN Append(kept[n - 1], list[n]) ELSE kept[n - 1]
  BY <1>2 DEF KeptOf
<1>5. Good(0)
  <2>1. kept[0] = <<>> /\ DOMAIN <<>> = {} /\ 1 .. 0 = {}
    BY <1>1, <1>4
  <2>2. kept[0] \in Seq(S)
    BY <2>1
  <2>3. DOMAIN kept[0] = {}
    BY <2>1
  <2> QED
    BY <2>1, <2>2, <2>3
<1>6. ASSUME NEW n \in 1 .. m, Good(n - 1) PROVE Good(n)
  <2>1. n \in 0 .. m /\ n - 1 \in 0 .. m /\ n # 0 /\ list[n] \in S
    BY <1>1
  <2>2. CASE list[n] \notin wanted
    <3> DEFINE old == kept[n - 1]
    <3>1. kept[n] = old /\ old \in Seq(S)
      BY <1>4, <1>6, <2>1, <2>2
    <3>2. \A k \in 1 .. n : k \in 1 .. n - 1 \/ k = n
      BY <2>1, <1>1
    <3>3. \A k \in 1 .. n - 1 : k \in 1 .. n
      BY <2>1, <1>1
    <3> HIDE DEF old
    <3>4. /\ \A i \in DOMAIN old : \E k \in 1 .. n - 1 : list[k] \in wanted /\ list[k] = old[i]
          /\ \A k \in 1 .. n - 1 : list[k] \in wanted => \E i \in DOMAIN old : old[i] = list[k]
          /\ \A i, j \in DOMAIN old : i # j =>
                \E k, l \in 1 .. n - 1 : k # l /\ list[k] = old[i] /\ list[l] = old[j]
      BY <1>6 DEF old
    <3>5. \A i \in DOMAIN old : \E k \in 1 .. n : list[k] \in wanted /\ list[k] = old[i]
      BY <3>3, <3>4
    <3>6. \A k \in 1 .. n : list[k] \in wanted => \E i \in DOMAIN old : old[i] = list[k]
      BY <2>2, <3>2, <3>4
    <3>7. \A i, j \in DOMAIN old : i # j =>
             \E k, l \in 1 .. n : k # l /\ list[k] = old[i] /\ list[l] = old[j]
      BY <3>3, <3>4
    <3> QED
      BY <3>1, <3>5, <3>6, <3>7
  <2>3. CASE list[n] \in wanted
    <3> DEFINE old == kept[n - 1]
    <3>1. kept[n] = Append(old, list[n])
      BY <1>4, <2>1, <2>3
    <3>2. old \in Seq(S)
      BY <1>6
    <3>3. /\ kept[n] \in Seq(S)
          /\ DOMAIN kept[n] = DOMAIN old \cup {Len(old) + 1} /\ Len(old) + 1 \notin DOMAIN old
          /\ kept[n][Len(old) + 1] = list[n]
          /\ \A j \in DOMAIN old : kept[n][j] = old[j]
      BY <2>1, <3>1, <3>2, Added
    <3>4. \A k \in 1 .. n : k \in 1 .. n - 1 \/ k = n
      BY <2>1, <1>1
    <3>5. (\A k \in 1 .. n - 1 : k \in 1 .. n /\ k # n) /\ n \in 1 .. n
      BY <2>1, <1>1
    <3> HIDE DEF old
    <3>6. /\ \A i \in DOMAIN old : \E k \in 1 .. n - 1 : list[k] \in wanted /\ list[k] = old[i]
          /\ \A k \in 1 .. n - 1 : list[k] \in wanted => \E i \in DOMAIN old : old[i] = list[k]
          /\ \A i, j \in DOMAIN old : i # j =>
                \E k, l \in 1 .. n - 1 : k # l /\ list[k] = old[i] /\ list[l] = old[j]
      BY <1>6 DEF old
    <3>7. ASSUME NEW i \in DOMAIN kept[n]
          PROVE  \E k \in 1 .. n : list[k] \in wanted /\ list[k] = kept[n][i]
      <4>1. CASE i = Len(old) + 1
        BY <2>3, <3>3, <3>5, <4>1
      <4>2. CASE i \in DOMAIN old
        <5>1. PICK k \in 1 .. n - 1 : list[k] \in wanted /\ list[k] = old[i]
          BY <3>6, <4>2
        <5> QED
          BY <3>3, <3>5, <4>2, <5>1
      <4> QED
        BY <3>3, <4>1, <4>2
    <3>8. \A k \in 1 .. n : list[k] \in wanted => \E i \in DOMAIN kept[n] : kept[n][i] = list[k]
      BY <3>3, <3>4, <3>6
    <3>9. \A i, j \in DOMAIN kept[n] : i # j =>
             \E k, l \in 1 .. n : k # l /\ list[k] = kept[n][i] /\ list[l] = kept[n][j]
      <4> TAKE i, j \in DOMAIN kept[n]
      <4>1. CASE i \in DOMAIN old /\ j \in DOMAIN old
        BY <4>1, <3>3, <3>5, <3>6
      <4>2. CASE i \in DOMAIN old /\ j = Len(old) + 1
        BY <4>2, <3>3, <3>5, <3>6
      <4>3. CASE i = Len(old) + 1 /\ j \in DOMAIN old
        BY <4>3, <3>3, <3>5, <3>6
      <4> QED
        BY <4>1, <4>2, <4>3, <3>3
    <3> QED
      BY <3>3, <3>7, <3>8, <3>9
  <2> QED
    BY <2>2, <2>3
<1> HIDE DEF Good
<1>7. Good(m)
  <2> DEFINE Bad == {n \in 0 .. m : ~Good(n)}
  <2>1. SUFFICES ASSUME Bad # {} PROVE FALSE
    BY <1>1
  <2>2. Bad \in SUBSET Nat
    BY <1>1
  <2>3. PICK n \in Bad : \A k \in Bad : n <= k
    BY <2>1, <2>2, LeastNatural
  <2>4. n # 0
    BY <1>5, <2>3
  <2>5. n \in 1 .. m /\ n - 1 \in 0 .. m /\ ~(n <= n - 1)
    BY <1>1, <2>3, <2>4
  <2>6. Good(n - 1)
    BY <2>3, <2>5
  <2> QED
    BY <1>6, <2>3, <2>5, <2>6
<1>8. Good(Len(list)) /\ DOMAIN list = 1 .. Len(list)
  BY <1>7 DEF m
<1> DEFINE r == kept[Len(list)]
<1>9. r = Only(list, wanted)
  BY <1>3 DEF m
<1>10. r \in Seq(S)
  BY <1>8 DEF Good
<1>11. ASSUME NEW i \in DOMAIN r
       PROVE  \E k \in DOMAIN list : list[k] \in wanted /\ list[k] = r[i]
  BY <1>8 DEF Good
<1>12. ASSUME NEW k \in DOMAIN list, list[k] \in wanted
       PROVE  \E i \in DOMAIN r : r[i] = list[k]
  BY <1>8, <1>12 DEF Good
<1>13. ASSUME NEW i \in DOMAIN r, NEW j \in DOMAIN r, i # j
       PROVE  \E k, l \in DOMAIN list : k # l /\ list[k] = r[i] /\ list[l] = r[j]
  <2>1. PICK k, l \in 1 .. Len(list) : k # l /\ list[k] = r[i] /\ list[l] = r[j]
    BY <1>8, <1>13 DEF Good
  <2> QED
    BY <1>8, <2>1
<1> HIDE DEF r
<1> QED
  BY <1>9, <1>10, <1>11, <1>12, <1>13

-----------------------------------------------------------------------------
LEMMA Starts ==
    Init => \/ route = "monitor" /\ Monitor!Init
            \/ route = "portfolio" /\ Portfolio!Init
            \/ route = "data" /\ Data!Init
            \/ route = "system" /\ System!Init
BY DEF Init

LEMMA Steps ==
    [Next]_vars => /\ route' = route
                   /\ route = "monitor" => Monitor!Next \/ UNCHANGED Monitor!vars
                   /\ route = "portfolio" => Portfolio!Next \/ UNCHANGED Portfolio!vars
                   /\ route = "data" => Data!Next \/ UNCHANGED Data!vars
                   /\ route = "system" => System!Next \/ UNCHANGED System!vars
BY DEF Next, vars, system, bounds, System!vars, System!observed, System!bounds, Monitor!vars,
   Monitor!bounds, Portfolio!vars, Portfolio!bounds, Data!vars, Data!bounds

LEMMA FewBounds == {FewClicks, MaxFailures} \subseteq Nat
BY BoundsAssumption, ListsAssumption

(* The pages take an element out of a list alike, and filter alike.        *)
LEMMA MonitorRemoval == \A s, i : Monitor!RemoveAt(s, i) = RemoveAt(s, i)
BY DEF Monitor!RemoveAt, RemoveAt

LEMMA MonitorFilter == \A list, wanted : Monitor!Only(list, wanted) = Only(list, wanted)
BY DEF Monitor!Only, Only

LEMMA PortfolioRemoval == \A s, i : Portfolio!RemoveAt(s, i) = RemoveAt(s, i)
BY DEF Portfolio!RemoveAt, RemoveAt

LEMMA PortfolioFilter == \A list, wanted : Portfolio!Only(list, wanted) = Only(list, wanted)
BY DEF Portfolio!Only, Only

LEMMA Counted == \A S : Portfolio!Cardinality(S) = Cardinality(S)
BY DEF Portfolio!Cardinality, Cardinality

LEMMA DataRemoval == \A s, i : Data!RemoveAt(s, i) = RemoveAt(s, i)
BY DEF Data!RemoveAt, RemoveAt

LEMMA SystemRemoval == \A s, i : System!RemoveAt(s, i) = RemoveAt(s, i)
BY DEF System!RemoveAt, RemoveAt

-----------------------------------------------------------------------------
(***************************************************************************)
(* Types.                                                                  *)
(***************************************************************************)
LEMMA MaskTypes == \A config \in System!Form : System!GetAllConfig(config) \in System!Form
BY DEF System!Form, System!GetAllConfig, System!Mask, System!Texts

LEMMA LogTypes ==
    ASSUME System!TypeOK, NEW filter
    PROVE  System!ListLogs(filter) \in SUBSET System!Log
BY DEF System!TypeOK, System!ListLogs

LEMMA NumberedTypes ==
    ASSUME NEW texts \in System!Form
    PROVE  /\ System!Numbered(texts) \in System!Form
           /\ System!Numbered(texts)["capital"] # ""
           /\ \A f \in {"chat", "token"} : System!Numbered(texts)[f] = texts[f]
           /\ texts["capital"] # "" => System!Numbered(texts)["capital"] = texts["capital"]
BY DEF System!Form, System!Numbered, System!Texts, System!Fields

LEMMA SetConfigsValues ==
    ASSUME server.config \in System!Form, NEW call, NEW n \in Nat
    PROVE  System!SetConfigs(call, n) = [f \in System!Fields |->
               IF f = "capital" THEN IF n >= 1 THEN call.form["capital"] ELSE server.config[f]
               ELSE IF f = "chat" THEN IF n >= 2 THEN call.form["chat"] ELSE server.config[f]
               ELSE IF n >= 3 /\ "token" \in call.keys THEN call.form["token"]
                    ELSE server.config[f]]
BY DEF System!SetConfigs, System!Form, System!Fields

LEMMA SetConfigsTypes ==
    ASSUME System!TypeOK, NEW i \in DOMAIN calls, NEW n \in Nat
    PROVE  System!SetConfigs(calls[i], n) \in System!Form
<1>1. calls[i] \in System!Call /\ server.config \in System!Form
  BY DEF System!TypeOK
<1>2. \A f \in System!Fields : server.config[f] \in System!Texts /\
        calls[i].form[f] \in System!Texts
  BY <1>1 DEF System!Call, System!Form
<1> QED
  BY <1>1, <1>2, SetConfigsValues DEF System!Form, System!Fields

LEMMA BoundTypes ==
    ASSUME System!TypeOK, System!Clicks \/ System!Fails \/ System!Succeeds
    PROVE  clicks' \in 0 .. MaxClicks /\ failures' \in 0 .. MaxFailures
BY BoundsAssumption DEF System!TypeOK, System!Clicks, System!Fails, System!Succeeds, System!bounds

LEMMA InitTypes == System!Init => System!TypeOK
<1> SUFFICES ASSUME System!Init PROVE System!TypeOK
  OBVIOUS
<1>1. System!Blank \in System!Form /\ [f \in System!Fields |-> "stored"] \in System!Form
  BY DEF System!Blank, System!Form, System!Texts
<1>2. System!NoFilter \in System!Filter
  BY DEF System!NoFilter, System!Filter
<1>3. System!NewLoad("config", System!NoFilter) \in System!Load
  BY <1>1, <1>2 DEF System!NewLoad, System!Load
<1>4. page \in System!Page
  BY <1>1, <1>2 DEF System!Init, System!Page, System!Form, System!Blank, System!Texts
<1>5. <<System!NewLoad("config", System!NoFilter)>> \in Seq(System!Load) /\
        <<>> \in Seq(System!Call)
  BY <1>3
<1>6. loads \in Seq(System!Load) /\ calls \in Seq(System!Call)
  BY <1>5 DEF System!Init
<1>7. \A logs \in SUBSET System!Log : [config |-> [f \in System!Fields |-> "stored"], logs |-> logs]
                                  \in [config: System!Form, logs: SUBSET System!Log]
  BY <1>1
<1>8. server \in [config: System!Form, logs: SUBSET System!Log]
  BY <1>7 DEF System!Init
<1>9. {behind, blind} \subseteq BOOLEAN
  BY DEF System!Init
<1>11. typed \subseteq System!Fields
  BY DEF System!Init
<1>10. clicks \in 0 .. MaxClicks /\ failures \in 0 .. MaxFailures
  <2>1. clicks = 0 /\ failures = 0
    BY DEF System!Init
  <2>2. MaxClicks \in Nat /\ MaxFailures \in Nat
    BY BoundsAssumption
  <2> QED
    BY <2>1, <2>2
<1> QED
  BY <1>4, <1>6, <1>8, <1>9, <1>10, <1>11 DEF System!TypeOK

(* What an answer leaves of the calls.                                     *)
LEMMA RemovedTypes ==
    ASSUME System!TypeOK
    PROVE  /\ \A i \in DOMAIN loads : System!RemoveAt(loads, i) \in Seq(System!Load)
           /\ \A i \in DOMAIN calls : System!RemoveAt(calls, i) \in Seq(System!Call)
BY Removed, SystemRemoval DEF System!TypeOK

LEMMA LoadTypes ==
    ASSUME System!TypeOK, NEW i \in DOMAIN loads,
           System!Serve(i) \/ System!LoadConfigArrives(i) \/ System!LoadConfigFails(i) \/
             System!LogsArrive(i) \/ System!LogsFail(i)
    PROVE  System!TypeOK'
<1>1. loads[i] \in System!Load /\ page \in System!Page
  BY DEF System!TypeOK
<1>2. CASE System!Serve(i)
  <2>1. server.config \in System!Form
    BY DEF System!TypeOK
  <2>2. /\ System!GetAllConfig(server.config) \in System!Form
        /\ System!ListLogs(loads[i].filter) \in SUBSET System!Log
    BY <2>1, MaskTypes, LogTypes
  <2>3. loads'[i] \in System!Load /\ loads' = [loads EXCEPT ![i] = loads'[i]]
    BY <1>1, <1>2, <2>2 DEF System!Serve, System!Load, System!TypeOK
  <2>4. loads' \in Seq(System!Load)
    BY <2>3 DEF System!TypeOK
  <2> QED
    BY <1>2, <2>4 DEF System!Serve, System!TypeOK, System!observed, System!bounds
<1>3. CASE System!LoadConfigArrives(i)
  <2>1. page' \in System!Page
    BY <1>1, <1>3 DEF System!LoadConfigArrives, System!Page, System!Load, System!Form, System!Fields
  <2> QED
    BY <1>3, <2>1, RemovedTypes
    DEF System!LoadConfigArrives, System!TypeOK, System!observed, System!bounds
<1>4. CASE System!LoadConfigFails(i)
  <2>1. page' \in System!Page
    BY <1>1, <1>4 DEF System!LoadConfigFails, System!Page
  <2> QED
    BY <1>4, <2>1, RemovedTypes, BoundTypes DEF System!LoadConfigFails, System!TypeOK
<1>5. CASE System!LogsArrive(i)
  <2>1. page' \in System!Page
    BY <1>1, <1>5 DEF System!LogsArrive, System!Page, System!Load
  <2> QED
    BY <1>5, <2>1, RemovedTypes
    DEF System!LogsArrive, System!Overtakes, System!TypeOK, System!bounds
<1>6. CASE System!LogsFail(i)
  <2>1. page' \in System!Page
    BY <1>1, <1>6 DEF System!LogsFail, System!Page
  <2> QED
    BY <1>6, <2>1, RemovedTypes, BoundTypes DEF System!LogsFail, System!Overtakes, System!TypeOK
<1> QED
  BY <1>2, <1>3, <1>4, <1>5, <1>6

LEMMA CallTypes ==
    ASSUME System!TypeOK, NEW i \in DOMAIN calls,
           System!UpdateConfig(i) \/ System!Saved(i) \/ System!TestTelegram(i) \/
             System!TelegramTested(i)
    PROVE  System!TypeOK'
<1>1. calls[i] \in System!Call /\ page \in System!Page /\
        server \in [config: System!Form, logs: SUBSET System!Log]
  BY DEF System!TypeOK
<1>2. CASE System!UpdateConfig(i)
  <2>1. PICK n \in 0 .. Len(System!ConfigKeys) :
            server' = [server EXCEPT !.config = System!SetConfigs(calls[i], n)]
    BY <1>2 DEF System!UpdateConfig, System!ConfigKeys
  <2>2. server' \in [config: System!Form, logs: SUBSET System!Log]
    BY <1>1, <2>1, SetConfigsTypes
  <2>3. System!GetAllConfig(server'.config) \in System!Form
    BY <2>2, MaskTypes
  <2>4. calls'[i] \in System!Call /\ calls' = [calls EXCEPT ![i] = calls'[i]]
    BY <1>1, <1>2, <2>3 DEF System!UpdateConfig, System!Call, System!TypeOK
  <2>5. calls' \in Seq(System!Call)
    BY <2>4 DEF System!TypeOK
  <2>6. System!Succeeds \/ System!Fails
    BY <1>2 DEF System!UpdateConfig
  <2> QED
    BY <1>2, <2>2, <2>5, <2>6, BoundTypes DEF System!UpdateConfig, System!TypeOK, System!observed
<1>3. CASE System!Saved(i)
  <2>1. calls[i].form["token"] \in System!Texts /\ calls[i].form["chat"] \in System!Texts
    BY <1>1 DEF System!Call, System!Form, System!Fields
  <2> DEFINE shown == [page EXCEPT !.form["token"] = calls[i].form["token"],
                                   !.form["chat"] = calls[i].form["chat"],
                                   !.maskedToken = calls[i].form["token"],
                                   !.saving = FALSE]
  <2>4. shown \in System!Page
    BY <1>1, <2>1 DEF System!Page, System!Form
  <2>5. [page EXCEPT !.saving = FALSE] \in System!Page
    BY <1>1 DEF System!Page
  <2>6. page' = shown \/ page' = [page EXCEPT !.saving = FALSE]
    BY <1>3 DEF System!Saved
  <2>2. page' \in System!Page
    BY <2>4, <2>5, <2>6
  <2>3. typed' \subseteq System!Fields
    BY <1>3 DEF System!Saved, System!TypeOK
  <2> QED
    BY <1>3, <2>2, <2>3, RemovedTypes DEF System!Saved, System!TypeOK, System!bounds
<1>4. CASE System!TestTelegram(i)
  <2>1. \A l \in System!Log :
          [server EXCEPT !.logs = @ \cup {l}] \in [config: System!Form, logs: SUBSET System!Log]
    BY <1>1
  <2>6. PICK answer \in {"done", "failed"} : calls' = [calls EXCEPT ![i].answer = answer]
    BY <1>4 DEF System!TestTelegram
  <2>2. calls'[i] \in System!Call /\ calls' = [calls EXCEPT ![i] = calls'[i]]
    BY <1>1, <2>6 DEF System!Call, System!TypeOK
  <2>3. calls' \in Seq(System!Call)
    BY <2>2 DEF System!TypeOK
  <2>4. System!Succeeds \/ System!Fails
    BY <1>4 DEF System!TestTelegram
  <2>5. server' \in [config: System!Form, logs: SUBSET System!Log]
    BY <1>1, <1>4, <2>1 DEF System!TestTelegram
  <2> QED
    BY <1>4, <2>3, <2>4, <2>5, BoundTypes DEF System!TestTelegram, System!TypeOK, System!observed
<1>5. CASE System!TelegramTested(i)
  <2>1. page' \in System!Page
    BY <1>1, <1>5 DEF System!TelegramTested, System!Page
  <2> QED
    BY <1>5, <2>1, RemovedTypes
    DEF System!TelegramTested, System!TypeOK, System!observed, System!bounds
<1> QED
  BY <1>2, <1>3, <1>4, <1>5

LEMMA UserTypes ==
    ASSUME System!TypeOK,
           \/ \E f \in System!Fields, text \in {"", "edited"} : System!Edit(f, text)
           \/ System!HandleSave \/ System!HandleTestTelegram \/ System!LoadLogs
           \/ \E tab \in {"config", "logs"} : System!SetActiveTab(tab)
           \/ \E filter \in System!Filter : System!ChangeFilter(filter)
    PROVE  System!TypeOK'
<1>1. page \in System!Page /\ page.form \in System!Form /\ System!Blank \in System!Form
  BY DEF System!TypeOK, System!Page, System!Blank, System!Form, System!Texts
<1>2. ASSUME NEW what \in {"save", "test"}, NEW keys \in SUBSET System!Fields,
             NEW texts \in System!Form,
             System!Send(what, keys, texts)
      PROVE  calls' \in Seq(System!Call)
  <2>1. [kind |-> what, keys |-> keys, form |-> texts, answer |-> "pending"] \in System!Call
    BY DEF System!Call
  <2> QED
    BY <1>2, <2>1, Added DEF System!Send, System!TypeOK
<1>3. ASSUME NEW f \in System!Fields, NEW text \in {"", "edited"}, System!Edit(f, text)
      PROVE System!TypeOK'
  <2>1. page' \in System!Page
    BY <1>1, <1>3 DEF System!Edit, System!Page, System!Form, System!Texts
  <2> QED
    BY <1>3, <2>1, BoundTypes DEF System!Edit, System!TypeOK
<1>4. CASE System!HandleSave
  <2>1. page' \in System!Page
    BY <1>1, <1>4 DEF System!HandleSave, System!Page
  <2>2. calls' \in Seq(System!Call)
    BY <1>1, <1>2, <1>4, NumberedTypes DEF System!HandleSave
  <2> QED
    BY <1>4, <2>1, <2>2, BoundTypes DEF System!HandleSave, System!TypeOK, System!observed
<1>5. CASE System!HandleTestTelegram
  <2>1. page' \in System!Page
    BY <1>1, <1>5 DEF System!HandleTestTelegram, System!Page
  <2>2. calls' \in Seq(System!Call)
    BY <1>1, <1>2, <1>5 DEF System!HandleTestTelegram
  <2> QED
    BY <1>5, <2>1, <2>2, BoundTypes DEF System!HandleTestTelegram, System!TypeOK, System!observed
<1>6. CASE System!LoadLogs
  <2>1. page' \in System!Page
    BY <1>1, <1>6 DEF System!LoadLogs, System!Page
  <2>2. System!NewLoad("logs", page.filter) \in System!Load
    BY <1>1 DEF System!NewLoad, System!Load, System!Page
  <2>3. loads' \in Seq(System!Load)
    BY <1>6, <2>2, Added DEF System!LoadLogs, System!TypeOK
  <2> QED
    BY <1>6, <2>1, <2>3 DEF System!LoadLogs, System!TypeOK, System!observed, System!bounds
<1>7. ASSUME NEW tab \in {"config", "logs"}, System!SetActiveTab(tab) PROVE System!TypeOK'
  <2>1. page' \in System!Page
    BY <1>1, <1>7 DEF System!SetActiveTab, System!Page
  <2> QED
    BY <1>7, <2>1 DEF System!SetActiveTab, System!TypeOK, System!observed, System!bounds
<1>8. ASSUME NEW filter \in System!Filter, System!ChangeFilter(filter) PROVE System!TypeOK'
  <2>1. page' \in System!Page
    BY <1>1, <1>8 DEF System!ChangeFilter, System!Page
  <2> QED
    BY <1>8, <2>1, BoundTypes DEF System!ChangeFilter, System!TypeOK, System!observed
<1> QED
  BY <1>3, <1>4, <1>5, <1>6, <1>7, <1>8

LEMMA NextTypes == System!TypeOK /\ (System!Next \/ UNCHANGED System!vars) => System!TypeOK'
<1> SUFFICES ASSUME System!TypeOK, (System!Next \/ UNCHANGED System!vars) PROVE System!TypeOK'
  OBVIOUS
<1>1. CASE System!Next
  BY <1>1, LoadTypes, CallTypes, UserTypes DEF System!Next
<1>2. CASE UNCHANGED System!vars
  BY <1>2 DEF System!vars, System!observed, System!bounds, System!TypeOK
<1> QED
  BY <1>1, <1>2

(* The page of the configuration, its calls and the server keep their types*)
(* (app/system/page.tsx).                                                  *)
THEOREM SystemTypeCorrect == Spec => [](route = "system" => System!TypeOK)
<1>1. Init => (route = "system" => System!TypeOK)
  BY Starts, InitTypes
<1>2. (route = "system" => System!TypeOK) /\ [Next]_vars => (route = "system" => System!TypeOK)'
  BY Steps, NextTypes
<1> QED
  BY <1>1, <1>2, PTL DEF Spec

-----------------------------------------------------------------------------
(***************************************************************************)
(* The save.                                                               *)
(***************************************************************************)

LEMMA CallSent ==
    ASSUME System!TypeOK, NEW call \in System!Call, calls' = Append(calls, call)
    PROVE  /\ DOMAIN calls' = DOMAIN calls \cup {Len(calls) + 1}
           /\ calls'[Len(calls) + 1] = call
           /\ \A j \in DOMAIN calls : calls'[j] = calls[j]
BY Added DEF System!TypeOK

LEMMA LoadSent ==
    ASSUME System!TypeOK, NEW load \in System!Load, loads' = Append(loads, load)
    PROVE  /\ DOMAIN loads' = DOMAIN loads \cup {Len(loads) + 1}
           /\ loads'[Len(loads) + 1] = load
           /\ \A j \in DOMAIN loads : loads'[j] = loads[j]
BY Added DEF System!TypeOK

(* An answer leaves one load of the configuration at most, and one save:   *)
(* none, if it is the load or the save that was answered.                  *)
LEMMA LoadAnswered ==
    ASSUME System!SaveInv, NEW i \in DOMAIN loads, loads' = System!RemoveAt(loads, i)
    PROVE  /\ \A j, k \in System!Configs(loads') : j = k
           /\ \A j \in System!Configs(loads') : \E k \in System!Configs(loads) :
                loads'[j] = loads[k]
           /\ loads[i].kind = "config" => System!Configs(loads') = {}
<1>1. loads \in Seq(System!Load) /\ loads' \in Seq(System!Load)
  BY Removed, SystemRemoval DEF System!SaveInv, System!TypeOK
<1>2. \A j \in DOMAIN loads' : /\ Before(j, i) \in DOMAIN loads /\ Before(j, i) # i
                               /\ loads'[j] = loads[Before(j, i)]
  BY <1>1, Removed, SystemRemoval
<1>3. \A j \in System!Configs(loads') : /\ Before(j, i) \in System!Configs(loads) /\
                                             Before(j, i) # i
                                        /\ loads'[j] = loads[Before(j, i)]
  BY <1>2 DEF System!Configs
<1>4. \A j, k \in System!Configs(loads) : j = k
  BY DEF System!SaveInv, System!OneLoadThenOneSave
<1>5. \A j, k \in DOMAIN loads' : Before(j, i) = Before(k, i) => j = k
  BY <1>1, BeforeIsInjective
<1> QED
  BY <1>3, <1>4, <1>5 DEF System!Configs

LEMMA CallAnswered ==
    ASSUME System!SaveInv, NEW i \in DOMAIN calls, calls' = System!RemoveAt(calls, i)
    PROVE  /\ \A j, k \in System!Saves(calls') : j = k
           /\ \A j \in System!Saves(calls') : \E k \in System!Saves(calls) : calls'[j] = calls[k]
           /\ calls[i].kind = "save" => System!Saves(calls') = {}
<1>1. calls \in Seq(System!Call) /\ calls' \in Seq(System!Call)
  BY Removed, SystemRemoval DEF System!SaveInv, System!TypeOK
<1>2. \A j \in DOMAIN calls' : /\ Before(j, i) \in DOMAIN calls /\ Before(j, i) # i
                               /\ calls'[j] = calls[Before(j, i)]
  BY <1>1, Removed, SystemRemoval
<1>3. \A j \in System!Saves(calls') : /\ Before(j, i) \in System!Saves(calls) /\ Before(j, i) # i
                                      /\ calls'[j] = calls[Before(j, i)]
  BY <1>2 DEF System!Saves
<1>4. \A j, k \in System!Saves(calls) : j = k
  BY DEF System!SaveInv, System!OneLoadThenOneSave
<1>5. \A j, k \in DOMAIN calls' : Before(j, i) = Before(k, i) => j = k
  BY <1>1, BeforeIsInjective
<1> QED
  BY <1>3, <1>4, <1>5 DEF System!Saves

(* A step that touches neither the form nor the configuration, and whose   *)
(* loads and saves are some of those there were, keeps the invariant.      *)
SameForm ==
    /\ page'.form = page.form /\ page'.maskedToken = page.maskedToken
    /\ page'.configLoading = page.configLoading /\ page'.saving = page.saving
    /\ server'.config = server.config
    /\ typed' = typed /\ blind' = blind

SameLoads ==
    /\ \A j, k \in System!Configs(loads') : j = k
    /\ \A j \in System!Configs(loads') : \E k \in System!Configs(loads) : loads'[j] = loads[k]

SameSaves ==
    /\ \A j, k \in System!Saves(calls') : j = k
    /\ \A j \in System!Saves(calls') : \E k \in System!Saves(calls) : calls'[j] = calls[k]

LEMMA UnchangedSame ==
    ASSUME System!SaveInv
    PROVE  /\ loads' = loads => SameLoads
           /\ calls' = calls => SameSaves
BY DEF System!SaveInv, System!OneLoadThenOneSave, SameLoads, SameSaves

LEMMA QuietSave ==
    ASSUME System!SaveInv, System!TypeOK', SameForm, SameLoads, SameSaves
    PROVE  System!SaveInv'
<1>1. System!OneLoadThenOneSave'
  <2>1. System!Configs(loads') # {} => System!Configs(loads) # {}
    BY DEF SameLoads
  <2>2. System!Saves(calls') # {} => System!Saves(calls) # {}
    BY DEF SameSaves
  <2> QED
    BY <2>1, <2>2 DEF System!SaveInv, System!OneLoadThenOneSave, SameForm, SameLoads, SameSaves
<1>2. System!AnswersAreFresh'
  BY DEF System!SaveInv, System!AnswersAreFresh, SameForm, SameLoads, SameSaves
<1>3. System!FormIsHonest'
  BY DEF System!SaveInv, System!FormIsHonest, System!SameOrTyped, SameForm
<1>4. System!SaveIsHonest'
  BY DEF System!SaveInv, System!SaveIsHonest, System!SameOrTyped, SameForm, SameSaves
<1>5. System!CapitalIsANumber'
  BY DEF System!SaveInv, System!CapitalIsANumber, SameForm, SameSaves
<1> QED
  BY <1>1, <1>2, <1>3, <1>4, <1>5 DEF System!SaveInv

LEMMA SaveInit == System!Init => System!SaveInv
<1> SUFFICES ASSUME System!Init PROVE System!SaveInv
  OBVIOUS
<1>1. System!Saves(calls) = {}
  <2>1. calls = <<>>
    BY DEF System!Init
  <2> QED
    BY <2>1 DEF System!Saves
<1>2. loads = <<System!NewLoad("config", System!NoFilter)>>
  BY DEF System!Init
<1>3. DOMAIN loads = {1} /\ loads[1] = System!NewLoad("config", System!NoFilter)
  BY <1>2
<1>4. System!Configs(loads) \subseteq {1} /\ ~loads[1].served
  BY <1>3 DEF System!Configs, System!NewLoad
<1>5. page.configLoading
  BY DEF System!Init
<1>6. server.config["capital"] = "stored"
  <2>1. PICK logs \in SUBSET System!Log :
            server = [config |-> [f \in System!Fields |-> "stored"], logs |-> logs]
    BY DEF System!Init
  <2> QED
    BY <2>1 DEF System!Fields
<1> QED
  BY <1>1, <1>4, <1>5, <1>6, InitTypes
  DEF System!SaveInv, System!OneLoadThenOneSave, System!AnswersAreFresh, System!FormIsHonest,
                              System!SaveIsHonest, System!CapitalIsANumber

LEMMA SaveLoads ==
    ASSUME System!SaveInv, System!TypeOK', NEW i \in DOMAIN loads,
           System!Serve(i) \/ System!LoadConfigArrives(i) \/ System!LoadConfigFails(i) \/
             System!LogsArrive(i) \/ System!LogsFail(i)
    PROVE  System!SaveInv'
<1>0. page \in System!Page /\ loads \in Seq(System!Load)
  BY DEF System!SaveInv, System!TypeOK
<1>1. CASE System!Serve(i)
  <2>1. /\ DOMAIN loads' = DOMAIN loads
        /\ \A j \in DOMAIN loads : loads'[j].kind = loads[j].kind
        /\ \A j \in DOMAIN loads : j # i => loads'[j] = loads[j]
        /\ loads[i].kind = "config" => loads'[i].form = System!GetAllConfig(server.config)
    <3> DEFINE load == [loads[i] EXCEPT !.served = TRUE,
                   !.form = IF loads[i].kind = "config" THEN System!GetAllConfig(server.config)
                     ELSE @,
                   !.logs = IF loads[i].kind = "logs" THEN System!ListLogs(loads[i].filter) ELSE @]
    <3>1. /\ load.kind = loads[i].kind
          /\ loads[i].kind = "config" => load.form = System!GetAllConfig(server.config)
      BY <1>0 DEF System!Load
    <3>2. loads' = [loads EXCEPT ![i] = load]
      <4>1. loads[i] \in System!Load
        BY <1>0
      <4>2. /\ DOMAIN loads' = DOMAIN loads /\ \A j \in DOMAIN loads : j # i => loads'[j] = loads[j]
            /\ loads' = [loads EXCEPT ![i] = loads'[i]]
        BY <1>0, <1>1 DEF System!Serve
      <4>3. loads'[i] = load
        BY <1>0, <1>1, <4>1 DEF System!Serve
      <4> QED
        BY <4>2, <4>3
    <3> HIDE DEF load
    <3> QED
      BY <1>0, <3>1, <3>2
  <2>2. System!Configs(loads') = System!Configs(loads)
    BY <2>1 DEF System!Configs
  <2>3. page' = page /\ calls' = calls /\ server' = server /\ typed' = typed /\ blind' = blind
    BY <1>1 DEF System!Serve, System!observed
  <2>4. \A j \in System!Configs(loads) : loads'[j].served =>
          loads'[j].form = System!GetAllConfig(server.config)
    BY <2>1 DEF System!SaveInv, System!AnswersAreFresh, System!Configs
  <2>5. System!OneLoadThenOneSave' /\ System!AnswersAreFresh'
    BY <2>2, <2>3, <2>4 DEF System!SaveInv, System!OneLoadThenOneSave, System!AnswersAreFresh
  <2>6. System!FormIsHonest' /\ System!SaveIsHonest' /\ System!CapitalIsANumber'
    BY <2>3
    DEF System!SaveInv, System!FormIsHonest, System!SaveIsHonest, System!CapitalIsANumber,
        System!SameOrTyped
  <2> QED
    BY <2>5, <2>6 DEF System!SaveInv
<1>2. ASSUME loads[i].kind = "config", loads' = System!RemoveAt(loads, i), UNCHANGED <<calls,
             server>>,
             page'.saving = page.saving, System!FormIsHonest'
      PROVE  System!SaveInv'
  <2>1. System!Configs(loads') = {} /\ System!Configs(loads) # {}
    BY <1>2, LoadAnswered DEF System!Configs
  <2>2. System!Saves(calls) = {}
    BY <2>1 DEF System!SaveInv, System!OneLoadThenOneSave
  <2>3. System!OneLoadThenOneSave' /\ System!AnswersAreFresh' /\ System!SaveIsHonest' /\
          System!CapitalIsANumber'
    BY <1>2, <2>1, <2>2
    DEF System!SaveInv, System!OneLoadThenOneSave, System!AnswersAreFresh, System!SaveIsHonest,
                            System!CapitalIsANumber
  <2> QED
    BY <1>2, <2>3 DEF System!SaveInv
<1>3. CASE System!LoadConfigArrives(i)
  <2>1. loads[i].form = System!GetAllConfig(server.config) /\ server.config \in System!Form
    BY <1>3
    DEF System!LoadConfigArrives, System!SaveInv, System!AnswersAreFresh, System!Configs,
        System!TypeOK
  <2>2. \A f \in {"capital", "chat"} : loads[i].form[f] = server.config[f]
    BY <2>1 DEF System!GetAllConfig, System!Form, System!Fields
  <2>3. page'.form = loads[i].form /\ page'.maskedToken = loads[i].form["token"]
        /\ page'.saving = page.saving
    BY <1>0, <1>3 DEF System!LoadConfigArrives, System!Page
  <2>4. server' = server
    BY <1>3 DEF System!LoadConfigArrives
  <2>5. System!FormIsHonest'
    BY <2>2, <2>3, <2>4 DEF System!FormIsHonest, System!SameOrTyped
  <2> QED
    BY <1>2, <1>3, <2>3, <2>5 DEF System!LoadConfigArrives
<1>4. CASE System!LoadConfigFails(i)
  <2>1. System!FormIsHonest' /\ page'.saving = page.saving
    BY <1>0, <1>4 DEF System!LoadConfigFails, System!FormIsHonest, System!Page
  <2> QED
    BY <1>2, <1>4, <2>1 DEF System!LoadConfigFails
<1>5. CASE System!LogsArrive(i) \/ System!LogsFail(i)
  <2>1. SameForm
    BY <1>0, <1>5 DEF System!LogsArrive, System!LogsFail, SameForm, System!Page
  <2>2. loads' = System!RemoveAt(loads, i) /\ calls' = calls
    BY <1>5 DEF System!LogsArrive, System!LogsFail
  <2> QED
    BY <2>1, <2>2, LoadAnswered, UnchangedSame, QuietSave DEF SameLoads
<1> QED
  BY <1>1, <1>3, <1>4, <1>5

LEMMA SaveUser ==
    ASSUME System!SaveInv, System!TypeOK',
           \/ \E f \in System!Fields, text \in {"", "edited"} : System!Edit(f, text)
           \/ System!HandleSave \/ System!HandleTestTelegram \/ System!LoadLogs
           \/ \E tab \in {"config", "logs"} : System!SetActiveTab(tab)
           \/ \E filter \in System!Filter : System!ChangeFilter(filter)
    PROVE  System!SaveInv'
<1>0. page \in System!Page /\ page.form \in System!Form /\ loads \in Seq(System!Load) /\
        calls \in Seq(System!Call)
  BY DEF System!SaveInv, System!TypeOK, System!Page
<1>1. ASSUME NEW f \in System!Fields, NEW text, System!Edit(f, text) PROVE System!SaveInv'
  <2>1. /\ loads' = loads /\ calls' = calls /\ server' = server /\ blind' = blind
        /\ typed' = typed \cup {f}
    BY <1>1 DEF System!Edit
  <2>2. /\ page'.maskedToken = page.maskedToken /\ page'.saving = page.saving
        /\ page'.configLoading = page.configLoading
        /\ \A g \in System!Fields : g # f => page'.form[g] = page.form[g]
    BY <1>0, <1>1 DEF System!Edit, System!Page, System!Form
  <2>3. ~page.configLoading
    BY <1>1 DEF System!Edit, System!FormShown
  <2>4. System!FormIsHonest'
    BY <2>1, <2>2, <2>3 DEF System!SaveInv, System!FormIsHonest, System!SameOrTyped, System!Fields
  <2>5. System!OneLoadThenOneSave' /\ System!AnswersAreFresh' /\ System!SaveIsHonest' /\
          System!CapitalIsANumber'
    BY <2>1, <2>2
    DEF System!SaveInv, System!OneLoadThenOneSave, System!AnswersAreFresh, System!SaveIsHonest,
        System!SameOrTyped,
                      System!CapitalIsANumber
  <2> QED
    BY <2>4, <2>5 DEF System!SaveInv
<1>2. CASE System!HandleSave
  <2> DEFINE keys == IF page.form["token"] = page.maskedToken THEN System!Fields \ {"token"}
               ELSE System!Fields
             save == [kind |-> "save", keys |-> keys, form |-> System!Numbered(page.form),
                      answer |-> "pending"]
  <2>1. calls' = Append(calls, save)
    BY <1>2 DEF System!HandleSave, System!Send
  <2>2. /\ loads' = loads /\ server' = server /\ blind' = blind /\ typed' = typed
        /\ page'.form = page.form /\ page'.maskedToken = page.maskedToken /\ page'.saving
        /\ page'.configLoading = page.configLoading /\ ~page.configLoading /\ ~page.saving
    BY <1>0, <1>2 DEF System!HandleSave, System!FormShown, System!observed, System!Page
  <2>3. System!Configs(loads) = {} /\ System!Saves(calls) = {}
    BY <2>2 DEF System!SaveInv, System!OneLoadThenOneSave
  <2>4. /\ DOMAIN calls' = DOMAIN calls \cup {Len(calls) + 1}
        /\ calls'[Len(calls) + 1] = save
        /\ \A j \in DOMAIN calls : calls'[j] = calls[j]
    <3>1. save \in System!Call
      <4>1. System!Numbered(page.form) \in System!Form /\ keys \in SUBSET System!Fields
        BY <1>0, NumberedTypes
      <4> HIDE DEF keys
      <4> QED
        BY <4>1 DEF System!Call
    <3> HIDE DEF save
    <3> QED
      BY <2>1, <3>1, CallSent DEF System!SaveInv
  <2>5. System!Saves(calls') = {Len(calls) + 1}
    <3>1. \A j \in DOMAIN calls : calls[j].kind # "save"
      BY <2>3 DEF System!Saves
    <3>2. save.kind = "save"
      OBVIOUS
    <3> HIDE DEF save
    <3> QED
      BY <2>4, <3>1, <3>2 DEF System!Saves
  <2>6. blind \/ /\ System!SameOrTyped(page.form)
                 /\ page.form["token"] = page.maskedToken \/ "token" \in typed
    BY <2>2 DEF System!SaveInv, System!FormIsHonest
  <2>7. /\ System!Numbered(page.form)["capital"] # ""
        /\ System!Numbered(page.form)["chat"] = page.form["chat"]
        /\ page.form["capital"] # "" => System!Numbered(page.form)["capital"] = page.form["capital"]
        /\ server.config["capital"] # ""
    BY <1>0, NumberedTypes DEF System!SaveInv, System!CapitalIsANumber
  <2>8. System!SameOrTyped(page.form) => System!SameOrTyped(save.form)
    BY <2>7 DEF System!SameOrTyped
  <2>9. "token" \in save.keys => page.form["token"] # page.maskedToken
    OBVIOUS
  <2>14. save.form = System!Numbered(page.form) /\ save.answer = "pending"
    OBVIOUS
  <2> HIDE DEF save
  <2>10. System!SaveIsHonest'
    BY <2>2, <2>4, <2>5, <2>6, <2>8, <2>9 DEF System!SaveIsHonest, System!SameOrTyped
  <2>11. System!CapitalIsANumber'
    BY <2>2, <2>4, <2>5, <2>7, <2>14 DEF System!CapitalIsANumber
  <2>12. System!AnswersAreFresh'
    BY <2>2, <2>3, <2>4, <2>5, <2>14 DEF System!AnswersAreFresh
  <2>13. System!OneLoadThenOneSave' /\ System!FormIsHonest'
    BY <2>2, <2>3, <2>5
    DEF System!SaveInv, System!OneLoadThenOneSave, System!FormIsHonest, System!SameOrTyped
  <2> QED
    BY <2>10, <2>11, <2>12, <2>13 DEF System!SaveInv
<1>3. CASE System!HandleTestTelegram
  <2> DEFINE test == [kind |-> "test", keys |-> {}, form |-> System!Blank, answer |-> "pending"]
  <2>1. SameForm /\ loads' = loads /\ calls' = Append(calls, test)
    BY <1>0, <1>3 DEF System!HandleTestTelegram, SameForm, System!Page, System!observed, System!Send
  <2>2. test \in System!Call /\ test.kind # "save"
    BY DEF System!Call, System!Form, System!Blank, System!Texts
  <2>3. \A j \in System!Saves(calls') : j \in System!Saves(calls) /\ calls'[j] = calls[j]
    <3> HIDE DEF test
    <3> QED
      BY <2>1, <2>2, CallSent DEF System!Saves, System!SaveInv
  <2>4. SameSaves
    BY <2>3 DEF SameSaves, System!SaveInv, System!OneLoadThenOneSave
  <2> QED
    BY <2>1, <2>4, UnchangedSame, QuietSave
<1>4. CASE System!LoadLogs
  <2> DEFINE load == System!NewLoad("logs", page.filter)
  <2>1. SameForm /\ calls' = calls /\ loads' = Append(loads, load)
    BY <1>0, <1>4 DEF System!LoadLogs, SameForm, System!Page, System!observed
  <2>2. load \in System!Load /\ load.kind # "config"
    BY <1>0 DEF System!NewLoad, System!Load, System!Page, System!Form, System!Blank, System!Texts
  <2>3. \A j \in System!Configs(loads') : j \in System!Configs(loads) /\ loads'[j] = loads[j]
    <3> HIDE DEF load
    <3> QED
      BY <2>1, <2>2, LoadSent DEF System!Configs, System!SaveInv
  <2>4. SameLoads
    BY <2>3 DEF SameLoads, System!SaveInv, System!OneLoadThenOneSave
  <2> QED
    BY <2>1, <2>4, UnchangedSame, QuietSave
<1>5. ASSUME NEW tab, System!SetActiveTab(tab) PROVE System!SaveInv'
  <2>1. SameForm /\ calls' = calls /\ loads' = loads
    BY <1>0, <1>5 DEF System!SetActiveTab, SameForm, System!Page, System!observed
  <2> QED
    BY <2>1, UnchangedSame, QuietSave
<1>6. ASSUME NEW filter, System!ChangeFilter(filter) PROVE System!SaveInv'
  <2>1. SameForm /\ calls' = calls /\ loads' = loads
    BY <1>0, <1>6 DEF System!ChangeFilter, SameForm, System!Page, System!observed
  <2> QED
    BY <2>1, UnchangedSame, QuietSave
<1> QED
  BY <1>1, <1>2, <1>3, <1>4, <1>5, <1>6

(* What a save writes, whole or in part, the user has typed.               *)
LEMMA SaveWrites ==
    ASSUME System!SaveInv, NEW i \in DOMAIN calls, NEW n \in Nat,
           calls[i].kind = "save", calls[i].answer = "pending"
    PROVE  LET config == System!SetConfigs(calls[i], n)
           IN  /\ \A f \in System!Fields : config[f] # server.config[f] => f \in typed \/ blind
               /\ config["capital"] # ""
<1>1. i \in System!Saves(calls) /\ server.config \in System!Form
  BY DEF System!Saves, System!SaveInv, System!TypeOK
<1>2. blind \/ /\ System!SameOrTyped(calls[i].form)
               /\ "token" \in calls[i].keys => "token" \in typed
  BY <1>1 DEF System!SaveInv, System!SaveIsHonest
<1>6. calls[i].form["capital"] # "" /\ server.config["capital"] # ""
  BY <1>1 DEF System!SaveInv, System!CapitalIsANumber
<1> DEFINE config == System!SetConfigs(calls[i], n)
<1>3. /\ config["capital"] \in {server.config["capital"], calls[i].form["capital"]}
      /\ config["chat"] \in {server.config["chat"], calls[i].form["chat"]}
      /\ config["token"] = server.config["token"] \/ "token" \in calls[i].keys
  BY <1>1, SetConfigsValues DEF System!Fields
<1> HIDE DEF config
<1>4. \A f \in System!Fields : config[f] # server.config[f] => f \in typed \/ blind
  BY <1>2, <1>3 DEF System!SameOrTyped, System!Fields
<1>5. config["capital"] # ""
  BY <1>3, <1>6
<1> QED
  BY <1>4, <1>5 DEF config

LEMMA SaveCalls ==
    ASSUME System!SaveInv, System!TypeOK', NEW i \in DOMAIN calls,
           System!UpdateConfig(i) \/ System!Saved(i) \/ System!TestTelegram(i) \/
             System!TelegramTested(i)
    PROVE  System!SaveInv'
<1>0. page \in System!Page /\ page.form \in System!Form /\ calls \in Seq(System!Call) /\
        calls[i] \in System!Call
      /\ server \in [config: System!Form, logs: SUBSET System!Log]
  BY DEF System!SaveInv, System!TypeOK, System!Page
<1>1. CASE System!UpdateConfig(i)
  <2>1. /\ calls[i].kind = "save" /\ calls[i].answer = "pending"
        /\ page' = page /\ loads' = loads /\ typed' = typed /\ blind' = blind
    BY <1>1 DEF System!UpdateConfig, System!observed
  <2>2. PICK n \in Nat : server'.config = System!SetConfigs(calls[i], n)
    BY <1>0, <1>1 DEF System!UpdateConfig, System!ConfigKeys
  <2>3. /\ \A f \in System!Fields : server'.config[f] # server.config[f] => f \in typed \/ blind
        /\ server'.config["capital"] # ""
    BY <2>1, <2>2, SaveWrites
  <2>4. System!Saves(calls) = {i}
    BY <2>1 DEF System!Saves, System!SaveInv, System!OneLoadThenOneSave
  <2>5. System!Configs(loads) = {}
    BY <2>4 DEF System!SaveInv, System!OneLoadThenOneSave
  <2>6. /\ DOMAIN calls' = DOMAIN calls
        /\ \A j \in DOMAIN calls : j # i => calls'[j] = calls[j]
        /\ calls'[i].kind = "save"
        /\ \/ calls'[i].answer = "done" /\ calls'[i].form = System!GetAllConfig(server'.config)
           \/ calls'[i].answer = "failed"
    <3>1. \/ calls' = [calls EXCEPT ![i].answer = "done",
               ![i].form = System!GetAllConfig(server'.config)]
          \/ calls' = [calls EXCEPT ![i].answer = "failed"]
      BY <1>1 DEF System!UpdateConfig
    <3>2. CASE calls' = [calls EXCEPT ![i].answer = "done",
                 ![i].form = System!GetAllConfig(server'.config)]
      BY <1>0, <2>1, <3>2 DEF System!Call
    <3>3. CASE calls' = [calls EXCEPT ![i].answer = "failed"]
      BY <1>0, <2>1, <3>3 DEF System!Call
    <3> QED
      BY <3>1, <3>2, <3>3
  <2>7. System!Saves(calls') = {i}
    BY <2>4, <2>6 DEF System!Saves
  <2>8. System!OneLoadThenOneSave' /\ System!AnswersAreFresh'
    BY <2>1, <2>4, <2>5, <2>6, <2>7
    DEF System!SaveInv, System!OneLoadThenOneSave, System!AnswersAreFresh
  <2>9. System!SaveIsHonest' /\ System!CapitalIsANumber'
    BY <2>3, <2>6, <2>7 DEF System!SaveIsHonest, System!CapitalIsANumber
  <2>10. System!FormIsHonest'
    BY <2>1, <2>3 DEF System!SaveInv, System!FormIsHonest, System!SameOrTyped, System!Fields
  <2> QED
    BY <2>8, <2>9, <2>10 DEF System!SaveInv
<1>2. CASE System!Saved(i)
  <2>1. /\ calls[i].kind = "save" /\ calls' = System!RemoveAt(calls, i)
        /\ loads' = loads /\ server' = server /\ blind' = blind
    BY <1>2 DEF System!Saved
  <2>2. i \in System!Saves(calls) /\ System!Saves(calls') = {}
    BY <2>1, CallAnswered DEF System!Saves
  <2>3. ~page.configLoading /\ page'.configLoading = page.configLoading /\
          System!Configs(loads) = {}
    BY <1>0, <1>2, <2>2 DEF System!SaveInv, System!OneLoadThenOneSave, System!Saved, System!Page
  <2>4. System!OneLoadThenOneSave' /\ System!AnswersAreFresh' /\ System!SaveIsHonest' /\
          System!CapitalIsANumber'
    BY <2>1, <2>2, <2>3
    DEF System!SaveInv, System!OneLoadThenOneSave, System!AnswersAreFresh, System!SaveIsHonest,
                            System!CapitalIsANumber
  <2>5. System!FormIsHonest'
    <3>1. CASE calls[i].answer = "done"
      <4>1. calls[i].form = System!GetAllConfig(server.config)
        BY <2>2, <3>1 DEF System!SaveInv, System!AnswersAreFresh
      <4>2. calls[i].form["chat"] = server.config["chat"]
        BY <1>0, <4>1 DEF System!GetAllConfig, System!Form, System!Fields
      <4>3. /\ page'.form["chat"] = calls[i].form["chat"]
            /\ page'.form["capital"] = page.form["capital"]
            /\ page'.form["token"] = page'.maskedToken
            /\ typed' = typed \cap {"capital"}
        <5>1. page' = [page EXCEPT !.form["token"] = calls[i].form["token"],
                                   !.form["chat"] = calls[i].form["chat"],
                                   !.maskedToken = calls[i].form["token"],
                                   !.saving = FALSE]
              /\ typed' = typed \cap {"capital"}
          BY <1>2, <3>1 DEF System!Saved
        <5> QED
          BY <1>0, <5>1 DEF System!Page, System!Form, System!Fields
      <4> QED
        BY <2>1, <2>3, <4>2, <4>3 DEF System!SaveInv, System!FormIsHonest, System!SameOrTyped
    <3>2. CASE calls[i].answer # "done"
      <4>1. /\ page'.form = page.form /\ page'.maskedToken = page.maskedToken
            /\ typed' = typed
        BY <1>0, <1>2, <3>2 DEF System!Saved, System!Page
      <4> QED
        BY <2>1, <2>3, <4>1 DEF System!SaveInv, System!FormIsHonest, System!SameOrTyped
    <3> QED
      BY <3>1, <3>2
  <2> QED
    BY <2>4, <2>5 DEF System!SaveInv
<1>3. CASE System!TestTelegram(i)
  <2>1. SameForm /\ loads' = loads
    BY <1>0, <1>3 DEF System!TestTelegram, SameForm, System!observed
  <2>2. calls[i].kind = "test"
    BY <1>3 DEF System!TestTelegram
  <2>3. PICK answer \in {"done", "failed"} : calls' = [calls EXCEPT ![i].answer = answer]
    BY <1>3 DEF System!TestTelegram
  <2>4. /\ DOMAIN calls' = DOMAIN calls /\ calls'[i].kind = "test"
        /\ \A j \in DOMAIN calls : j # i => calls'[j] = calls[j]
    BY <1>0, <2>2, <2>3 DEF System!Call
  <2>5. \A j \in System!Saves(calls') : j \in System!Saves(calls) /\ calls'[j] = calls[j]
    BY <2>4 DEF System!Saves
  <2>6. SameSaves
    BY <2>5 DEF SameSaves, System!SaveInv, System!OneLoadThenOneSave
  <2> QED
    BY <2>1, <2>6, UnchangedSame, QuietSave
<1>4. CASE System!TelegramTested(i)
  <2>1. SameForm /\ loads' = loads /\ calls' = System!RemoveAt(calls, i)
    BY <1>0, <1>4 DEF System!TelegramTested, SameForm, System!Page, System!observed
  <2> QED
    BY <2>1, CallAnswered, UnchangedSame, QuietSave DEF SameSaves
<1> QED
  BY <1>1, <1>2, <1>3, <1>4

LEMMA SaveNext == System!SaveInv /\ (System!Next \/ UNCHANGED System!vars) => System!SaveInv'
<1> SUFFICES ASSUME System!SaveInv, (System!Next \/ UNCHANGED System!vars) PROVE System!SaveInv'
  OBVIOUS
<1>0. System!TypeOK'
  BY NextTypes DEF System!SaveInv
<1>1. CASE System!Next
  BY <1>0, <1>1, SaveLoads, SaveCalls, SaveUser DEF System!Next
<1>2. CASE UNCHANGED System!vars
  BY <1>0, <1>2, UnchangedSame, QuietSave DEF System!vars, System!observed, SameForm
<1> QED
  BY <1>1, <1>2

LEMMA OnlyTheTypedChanges ==
    System!SaveInv /\ (System!Next \/ UNCHANGED System!vars) => [System!OnlyTheTyped]_server
<1> SUFFICES ASSUME System!SaveInv, (System!Next \/ UNCHANGED System!vars), server' # server
             PROVE System!OnlyTheTyped
  OBVIOUS
<1>1. PICK i \in DOMAIN calls : System!UpdateConfig(i) \/ System!TestTelegram(i)
  BY
  DEF System!Next, System!vars, System!Serve, System!LoadConfigArrives, System!LoadConfigFails,
      System!LogsArrive, System!LogsFail, System!Edit,
         System!HandleSave, System!HandleTestTelegram, System!Saved, System!TelegramTested,
         System!SetActiveTab, System!ChangeFilter, System!LoadLogs
<1>2. server \in [config: System!Form, logs: SUBSET System!Log]
  BY DEF System!SaveInv, System!TypeOK
<1>3. CASE System!UpdateConfig(i)
  <2>1. PICK n \in Nat : server'.config = System!SetConfigs(calls[i], n)
    BY <1>2, <1>3 DEF System!UpdateConfig, System!ConfigKeys
  <2> QED
    BY <1>3, <2>1, SaveWrites DEF System!UpdateConfig, System!OnlyTheTyped
<1>4. CASE System!TestTelegram(i)
  BY <1>2, <1>4 DEF System!TestTelegram, System!OnlyTheTyped
<1> QED
  BY <1>1, <1>3, <1>4

(* A save, whole or broken off, changes no field of the configuration that *)
(* the user did not type, but from a form whose load failed                *)
(* (page.tsx:218, config_service.py:68).                                   *)
THEOREM SavesOnlyTheTyped == Spec => SaveChangesTheTyped
<1> DEFINE Inv == route = "system" => System!SaveInv
<1>1. Init => Inv
  BY Starts, SaveInit
<1>2. Inv /\ [Next]_vars => Inv'
  BY Steps, SaveNext
<1>3. Inv /\ [Next]_vars => [route = "system" => System!OnlyTheTyped]_server
  BY Steps, OnlyTheTypedChanges
<1> QED
  BY <1>1, <1>2, <1>3, PTL DEF Spec, SaveChangesTheTyped

-----------------------------------------------------------------------------
(***************************************************************************)
(* The logs.                                                               *)
(***************************************************************************)

(* The loads that are left are those there were, in their order.           *)
LEMMA LogsAnswered ==
    ASSUME System!TypeOK, NEW i \in DOMAIN loads, loads' = System!RemoveAt(loads, i)
    PROVE  /\ System!LogLoads' \subseteq Nat
           /\ \A j \in System!LogLoads' : /\ Before(j, i) \in System!LogLoads /\ Before(j, i) # i
                                  /\ loads'[j] = loads[Before(j, i)]
           /\ \A k \in System!LogLoads : k # i => \E j \in System!LogLoads' : Before(j, i) = k
<1>0. loads \in Seq(System!Load)
  BY DEF System!TypeOK
<1>4. loads' \in Seq(System!Load) /\ Len(loads') = Len(loads) - 1
  BY <1>0, Removed, SystemRemoval
<1>1. /\ loads \in Seq(System!Load) /\ loads' \in Seq(System!Load)
      /\ DOMAIN loads = 1 .. Len(loads) /\ DOMAIN loads' = 1 .. Len(loads) - 1
      /\ Len(loads) \in Nat
  <2>1. DOMAIN loads = 1 .. Len(loads) /\ Len(loads) \in Nat
    BY <1>0
  <2>2. DOMAIN loads' = 1 .. Len(loads')
    BY <1>4
  <2> QED
    BY <1>0, <1>4, <2>1, <2>2
<1>2. \A j \in DOMAIN loads' : /\ Before(j, i) \in DOMAIN loads /\ Before(j, i) # i
                               /\ loads'[j] = loads[Before(j, i)]
  BY <1>0, Removed, SystemRemoval
<1>3. ASSUME NEW k \in System!LogLoads, k # i PROVE \E j \in System!LogLoads' : Before(j, i) = k
  <2> DEFINE j == IF k < i THEN k ELSE k - 1
  <2>1. j \in DOMAIN loads' /\ Before(j, i) = k
    BY <1>1, <1>3 DEF Before, System!LogLoads
  <2> QED
    BY <1>2, <1>3, <2>1 DEF System!LogLoads
<1> QED
  BY <1>1, <1>2, <1>3 DEF System!LogLoads

LEMMA AnswerKeepsMatch ==
    ASSUME System!LogsInv, NEW i \in DOMAIN loads, loads' = System!RemoveAt(loads, i)
    PROVE  System!ServedLogsMatch'
BY LogsAnswered DEF System!LogsInv, System!ServedLogsMatch, System!Match

(* What an answer leaves of the last load, if it was not the last itself.  *)
LEMMA LastStays ==
    ASSUME System!TypeOK, NEW i \in DOMAIN loads, loads' = System!RemoveAt(loads, i),
           NEW m \in System!LogLoads, m # i, \A j \in System!LogLoads : j <= m
    PROVE  \E n \in System!LogLoads' : loads'[n].filter = loads[m].filter /\
             \A j \in System!LogLoads' : j <= n
<1>1. PICK n \in System!LogLoads' : Before(n, i) = m
  BY LogsAnswered
<1>2. \A j \in System!LogLoads' : Before(j, i) <= Before(n, i)
  BY <1>1, LogsAnswered
<1>3. i \in Nat
  BY DEF System!TypeOK
<1>4. \A j \in System!LogLoads' : j <= n
  BY <1>2, <1>3, LogsAnswered, BeforeIsInjective
<1>5. loads'[n].filter = loads[m].filter
  BY <1>1, LogsAnswered
<1> QED
  BY <1>4, <1>5

SameLines ==
    /\ page'.filter = page.filter /\ page'.logs = page.logs
    /\ page'.logsError = page.logsError /\ page'.reload = page.reload
    /\ behind' = behind

LEMMA QuietLogs ==
    ASSUME System!LogsInv, System!TypeOK', SameLines, loads' = loads
    PROVE  System!LogsInv'
BY
DEF System!LogsInv, System!ServedLogsMatch, System!LastLoadIsOfFilter, System!LogLoads,
    System!Match, SameLines

LEMMA LogsInit == System!Init => System!LogsInv
<1> SUFFICES ASSUME System!Init PROVE System!LogsInv
  OBVIOUS
<1>1. loads = <<System!NewLoad("config", System!NoFilter)>>
  BY DEF System!Init
<1>2. System!LogLoads = {}
  BY <1>1 DEF System!LogLoads, System!NewLoad
<1>3. page.reload
  BY DEF System!Init
<1> QED
  BY <1>2, <1>3, InitTypes DEF System!LogsInv, System!ServedLogsMatch, System!LastLoadIsOfFilter

LEMMA LogsServed ==
    ASSUME System!LogsInv, System!TypeOK', NEW i \in DOMAIN loads, System!Serve(i)
    PROVE  System!LogsInv'
<1>0. loads \in Seq(System!Load) /\ loads[i] \in System!Load
  BY DEF System!LogsInv, System!TypeOK
<1>1. /\ DOMAIN loads' = DOMAIN loads
      /\ \A j \in DOMAIN loads : /\ loads'[j].kind = loads[j].kind
                                /\ loads'[j].filter = loads[j].filter
      /\ \A j \in DOMAIN loads : j # i => loads'[j] = loads[j]
  BY <1>0 DEF System!Serve, System!Load
<1>2. loads[i].kind = "logs" => loads'[i].logs = System!ListLogs(loads[i].filter)
  BY <1>0 DEF System!Serve, System!Load
<1>3. System!LogLoads' = System!LogLoads
  BY <1>1 DEF System!LogLoads
<1>4. page' = page /\ behind' = behind
  BY DEF System!Serve, System!observed
<1>5. System!Match(System!ListLogs(loads[i].filter), loads[i].filter)
  BY DEF System!Match, System!ListLogs
<1>6. System!ServedLogsMatch'
  BY <1>1, <1>2, <1>3, <1>5
  DEF System!LogsInv, System!ServedLogsMatch, System!LogLoads, System!Match
<1>7. System!LastLoadIsOfFilter'
  BY <1>1, <1>3, <1>4 DEF System!LogsInv, System!LastLoadIsOfFilter, System!Match, System!LogLoads
<1> QED
  BY <1>6, <1>7 DEF System!LogsInv

LEMMA LogsAfterConfig ==
    ASSUME System!LogsInv, System!TypeOK', NEW i \in DOMAIN loads, System!LoadConfigArrives(i) \/
             System!LoadConfigFails(i)
    PROVE  System!LogsInv'
<1>1. page \in System!Page
  BY DEF System!LogsInv, System!TypeOK
<1>2. loads[i].kind = "config" /\ loads' = System!RemoveAt(loads, i) /\ SameLines
  BY <1>1
  DEF System!LoadConfigArrives, System!LoadConfigFails, SameLines, System!Page, System!observed
<1>3. i \notin System!LogLoads
  BY <1>2 DEF System!LogLoads
<1>4. System!LogLoads = {} => System!LogLoads' = {}
  BY <1>2, LogsAnswered DEF System!LogsInv
<1>5. (\E m \in System!LogLoads : loads[m].filter = page.filter /\
        \A j \in System!LogLoads : j <= m) =>
          \E n \in System!LogLoads' : loads'[n].filter = page.filter /\
            \A j \in System!LogLoads' : j <= n
  BY <1>2, <1>3, LastStays DEF System!LogsInv
<1>6. System!LastLoadIsOfFilter'
  BY <1>2, <1>4, <1>5 DEF System!LogsInv, System!LastLoadIsOfFilter, SameLines, System!Match
<1> QED
  BY <1>2, <1>6, AnswerKeepsMatch DEF System!LogsInv

LEMMA LogsAfterLogs ==
    ASSUME System!LogsInv, System!TypeOK', NEW i \in DOMAIN loads, System!LogsArrive(i) \/
             System!LogsFail(i)
    PROVE  System!LogsInv'
<1>1. page \in System!Page /\ loads \in Seq(System!Load) /\ i \in System!LogLoads
  BY DEF System!LogsInv, System!TypeOK, System!LogsArrive, System!LogsFail, System!LogLoads
<1>2. /\ loads' = System!RemoveAt(loads, i)
      /\ page'.filter = page.filter /\ page'.reload = page.reload
  BY <1>1 DEF System!LogsArrive, System!LogsFail, System!Page
<1>6. behind' = (behind \/ System!Overtakes(i))
  BY DEF System!LogsArrive, System!LogsFail
<1>3. page'.logsError \/ (loads[i].served /\ page'.logs = loads[i].logs)
  BY <1>1 DEF System!LogsArrive, System!LogsFail, System!Page
<1>4. page'.logsError \/ System!Match(page'.logs, loads[i].filter)
  BY <1>1, <1>3 DEF System!LogsInv, System!ServedLogsMatch
<1>5. System!LastLoadIsOfFilter'
  <2>1. CASE behind' \/ page.reload
    BY <1>2, <2>1 DEF System!LastLoadIsOfFilter
  <2>2. CASE ~behind' /\ ~page.reload
    <3>1. ~behind /\ ~System!Overtakes(i)
      BY <1>6, <2>2
    <3>2. PICK m \in System!LogLoads : loads[m].filter = page.filter /\
                 \A j \in System!LogLoads : j <= m
      BY <1>1, <2>2, <3>1 DEF System!LogsInv, System!LastLoadIsOfFilter
    <3>3. CASE m = i
      <4>1. \A j \in System!LogLoads : j = i
        BY <1>1, <3>1, <3>2, <3>3 DEF System!Overtakes, System!LogLoads
      <4>2. System!LogLoads' = {}
        BY <1>2, <4>1, LogsAnswered DEF System!LogsInv
      <4> QED
        BY <1>2, <1>4, <3>2, <3>3, <4>2 DEF System!LastLoadIsOfFilter, System!Match
    <3>4. CASE m # i
      <4>1. \E n \in System!LogLoads' : loads'[n].filter = page.filter /\
              \A j \in System!LogLoads' : j <= n
        BY <1>2, <3>2, <3>4, LastStays DEF System!LogsInv
      <4> QED
        BY <1>2, <4>1 DEF System!LastLoadIsOfFilter
    <3> QED
      BY <3>3, <3>4
  <2> QED
    BY <1>1, <2>1, <2>2
<1> QED
  BY <1>2, <1>5, AnswerKeepsMatch DEF System!LogsInv

LEMMA LogsLoad ==
    ASSUME System!LogsInv, System!TypeOK', System!LoadLogs
    PROVE  System!LogsInv'
<1> DEFINE load == System!NewLoad("logs", page.filter)
           last == Len(loads) + 1
<1>1. page \in System!Page /\ loads \in Seq(System!Load) /\ loads' = Append(loads, load)
  BY DEF System!LogsInv, System!TypeOK, System!LoadLogs
<1>2. load \in System!Load /\ load.kind = "logs" /\ ~load.served /\ load.filter = page.filter
  BY <1>1 DEF System!NewLoad, System!Load, System!Page, System!Form, System!Blank, System!Texts
<1> HIDE DEF load
<1>3. /\ DOMAIN loads' = DOMAIN loads \cup {last} /\ loads'[last] = load
      /\ \A j \in DOMAIN loads : loads'[j] = loads[j]
  BY <1>1, <1>2, LoadSent DEF System!LogsInv
<1>4. System!LogLoads' = System!LogLoads \cup {last} /\ \A j \in System!LogLoads' : j <= last
  <2>1. \A j \in DOMAIN loads : j <= last
    BY <1>1
  <2> QED
    BY <1>1, <1>2, <1>3, <2>1 DEF System!LogLoads
<1>5. page'.filter = page.filter
  BY <1>1 DEF System!LoadLogs, System!Page
<1>6. System!ServedLogsMatch'
  BY <1>2, <1>3, <1>4 DEF System!LogsInv, System!ServedLogsMatch, System!LogLoads, System!Match
<1>7. System!LastLoadIsOfFilter'
  BY <1>2, <1>3, <1>4, <1>5 DEF System!LastLoadIsOfFilter
<1> QED
  BY <1>6, <1>7 DEF System!LogsInv

LEMMA LogsFilter ==
    ASSUME System!LogsInv, System!TypeOK', NEW filter, System!ChangeFilter(filter)
    PROVE  System!LogsInv'
<1>1. page \in System!Page
  BY DEF System!LogsInv, System!TypeOK
<1>2. loads' = loads /\ page'.reload
  BY <1>1 DEF System!ChangeFilter, System!Page
<1> QED
  BY <1>2
  DEF System!LogsInv, System!ServedLogsMatch, System!LastLoadIsOfFilter, System!LogLoads,
      System!Match

LEMMA LogsNext == System!LogsInv /\ (System!Next \/ UNCHANGED System!vars) => System!LogsInv'
<1> SUFFICES ASSUME System!LogsInv, (System!Next \/ UNCHANGED System!vars) PROVE System!LogsInv'
  OBVIOUS
<1>0. System!TypeOK' /\ page \in System!Page /\ page.form \in System!Form
  BY NextTypes DEF System!LogsInv, System!TypeOK, System!Page
<1>1. ASSUME NEW i \in DOMAIN loads,
             System!Serve(i) \/ System!LoadConfigArrives(i) \/ System!LoadConfigFails(i) \/
               System!LogsArrive(i) \/ System!LogsFail(i)
      PROVE  System!LogsInv'
  BY <1>0, <1>1, LogsServed, LogsAfterConfig, LogsAfterLogs
<1>2. CASE System!LoadLogs
  BY <1>0, <1>2, LogsLoad
<1>3. ASSUME NEW filter, System!ChangeFilter(filter) PROVE System!LogsInv'
  BY <1>0, <1>3, LogsFilter
<1>4. CASE \/ \E f \in System!Fields, text \in {"", "edited"} : System!Edit(f, text)
           \/ System!HandleSave \/ System!HandleTestTelegram
           \/ \E tab \in {"config", "logs"} : System!SetActiveTab(tab)
  <2>1. loads' = loads /\ SameLines
    BY <1>0, <1>4
    DEF System!Edit, System!HandleSave, System!HandleTestTelegram, System!SetActiveTab, SameLines,
        System!observed, System!Page
  <2> QED
    BY <1>0, <2>1, QuietLogs
<1>5. ASSUME NEW i \in DOMAIN calls,
             System!UpdateConfig(i) \/ System!Saved(i) \/ System!TestTelegram(i) \/
               System!TelegramTested(i)
      PROVE  System!LogsInv'
  <2>1. loads' = loads
    BY <1>5 DEF System!UpdateConfig, System!Saved, System!TestTelegram, System!TelegramTested
  <2>2. SameLines
    BY <1>0, <1>5
    DEF System!UpdateConfig, System!Saved, System!TestTelegram, System!TelegramTested, SameLines,
        System!observed, System!Page
  <2> QED
    BY <1>0, <2>1, <2>2, QuietLogs
<1>6. CASE UNCHANGED System!vars
  BY <1>0, <1>6, QuietLogs DEF System!vars, System!observed, SameLines
<1> QED
  BY <1>1, <1>2, <1>3, <1>4, <1>5, <1>6 DEF System!Next

(* Once no load of the logs is under way and none was overtaken, every     *)
(* line on screen is one the filters ask for (page.tsx:181).               *)
THEOREM LinesMatchFilter == Spec => []LogsMatchFilter
<1> DEFINE Inv == route = "system" => System!LogsInv
<1>1. Init => Inv
  BY Starts, LogsInit
<1>2. Inv /\ [Next]_vars => Inv'
  BY Steps, LogsNext
<1>3. Inv => LogsMatchFilter
  BY DEF System!LogsInv, System!LastLoadIsOfFilter, System!LogLoads, System!Match,
     System!LogsMatchFilter, LogsMatchFilter
<1> QED
  BY <1>1, <1>2, <1>3, PTL DEF Spec

-----------------------------------------------------------------------------
(***************************************************************************)
(* The page of the monitor.                                                *)
(***************************************************************************)
LEMMA MonitorBoundTypes ==
    ASSUME Monitor!TypeOK, Monitor!Clicks \/ Monitor!Fails \/ Monitor!Succeeds
    PROVE  clicks' \in 0 .. FewClicks /\ failures' \in 0 .. MaxFailures
BY FewBounds DEF Monitor!TypeOK, Monitor!Clicks, Monitor!Fails, Monitor!Succeeds, Monitor!bounds

LEMMA EmptyTypes ==
    /\ Monitor!Empty \in Monitor!Data
    /\ \A kind \in {"toggle", "jobs", "create", "delete", "telegram"} :
         \A about \in Monitor!OrNone(Strategies \cup Alerts) :
           Monitor!NewCall(kind, about) \in Monitor!Call
<1>1. Monitor!Empty \in Monitor!Data
  BY ListsAssumption DEF Monitor!Empty, Monitor!Data, Monitor!Listed, Monitor!JobStates
<1> QED
  BY <1>1 DEF Monitor!NewCall, Monitor!Call

LEMMA ServedTypes ==
    ASSUME server \in Monitor!Data, NEW part \in Monitor!Parts, NEW data \in Monitor!Data
    PROVE  [data EXCEPT ![part] = Monitor!Served(part)] \in Monitor!Data
<1>1. CASE part = "strategies"
  <2>1. Monitor!Served(part) \in [Strategies -> Monitor!Listed]
    BY <1>1 DEF Monitor!Served, Monitor!Listed
  <2> QED
    BY <1>1, <2>1 DEF Monitor!Data
<1>2. CASE part = "jobs"
  BY <1>2 DEF Monitor!Served, Monitor!Data
<1>3. CASE part = "signals"
  BY <1>3 DEF Monitor!Served, Monitor!Data
<1>4. CASE part = "alerts"
  BY <1>4 DEF Monitor!Served, Monitor!Data
<1> QED
  BY <1>1, <1>2, <1>3, <1>4 DEF Monitor!Parts

LEMMA MonitorInitTypes == Monitor!Init => Monitor!TypeOK
<1> SUFFICES ASSUME Monitor!Init PROVE Monitor!TypeOK
  OBVIOUS
<1>1. Monitor!Empty \in Monitor!Data
  BY EmptyTypes
<1>2. page \in Monitor!Page
  BY <1>1 DEF Monitor!Init, Monitor!Page, Monitor!OrNone
<1>3. server \in Monitor!Data
  BY <1>1 DEF Monitor!Init, Monitor!Data, Monitor!Listed, Monitor!JobStates
<1>4. loads \in Seq(Monitor!Load) /\ calls \in Seq(Monitor!Call) /\ behind \in BOOLEAN
  BY DEF Monitor!Init
<1>5. clicks \in 0 .. FewClicks /\ failures \in 0 .. MaxFailures
  <2>1. clicks = 0 /\ failures = 0
    BY DEF Monitor!Init
  <2>2. FewClicks \in Nat /\ MaxFailures \in Nat
    BY FewBounds
  <2> QED
    BY <2>1, <2>2
<1> QED
  BY <1>2, <1>3, <1>4, <1>5 DEF Monitor!TypeOK

(* What happens meanwhile leaves every load, but none alone.               *)
LEMMA AccompaniedTypes ==
    ASSUME loads \in Seq(Monitor!Load),
           loads' = [i \in DOMAIN loads |-> [loads[i] EXCEPT !.alone = FALSE]]
    PROVE  /\ loads' \in Seq(Monitor!Load) /\ DOMAIN loads' = DOMAIN loads
           /\ \A i \in DOMAIN loads' : ~loads'[i].alone
<1>1. DOMAIN loads = 1 .. Len(loads) /\ Len(loads) \in Nat
  OBVIOUS
<1>2. \A i \in DOMAIN loads :
        loads'[i] = [loads[i] EXCEPT !.alone = FALSE] /\ loads[i] \in Monitor!Load
  BY <1>1
<1>3. \A i \in DOMAIN loads : loads'[i] \in Monitor!Load /\ ~loads'[i].alone
  BY <1>2 DEF Monitor!Load
<1>4. loads' \in Seq(Monitor!Load) /\ DOMAIN loads' = DOMAIN loads
  BY <1>1, <1>3
<1> QED
  BY <1>3, <1>4

LEMMA MonitorSendTypes ==
    ASSUME Monitor!TypeOK, NEW kind \in {"toggle", "jobs", "create", "delete", "telegram"},
           NEW about \in Monitor!OrNone(Strategies \cup Alerts), Monitor!Send(kind, about)
    PROVE  /\ calls' \in Seq(Monitor!Call) /\ loads' \in Seq(Monitor!Load) /\ behind' \in BOOLEAN
           /\ \A i \in DOMAIN loads' : ~loads'[i].alone
           /\ DOMAIN calls' = DOMAIN calls \cup {Len(calls) + 1}
           /\ calls'[Len(calls) + 1] = Monitor!NewCall(kind, about)
           /\ \A i \in DOMAIN calls : calls'[i] = calls[i]
<1>1. Monitor!NewCall(kind, about) \in Monitor!Call
  BY EmptyTypes
<1> QED
  BY <1>1, Added, AccompaniedTypes DEF Monitor!Send, Monitor!TypeOK

LEMMA MonitorLoadTypes ==
    ASSUME Monitor!TypeOK,
           \/ Monitor!LoadData \/ Monitor!EmitSignal
           \/ \E i \in DOMAIN loads :
                Monitor!LoadArrives(i) \/ Monitor!LoadFails(i) \/
                  \E part \in Monitor!Parts : Monitor!Serve(i, part)
    PROVE  Monitor!TypeOK'
<1>1. CASE Monitor!LoadData
  <2>1. \A alone \in BOOLEAN :
          [got |-> {}, data |-> Monitor!Empty, alone |-> alone] \in Monitor!Load
    BY EmptyTypes DEF Monitor!Load
  <2>2. loads' \in Seq(Monitor!Load) /\ behind' \in BOOLEAN
    BY <1>1, <2>1, Added DEF Monitor!LoadData, Monitor!TypeOK
  <2> QED
    BY <1>1, <2>2 DEF Monitor!LoadData, Monitor!TypeOK, Monitor!bounds
<1>2. ASSUME NEW i \in DOMAIN loads, NEW part \in Monitor!Parts, Monitor!Serve(i, part)
      PROVE Monitor!TypeOK'
  <2>0. loads[i] \in Monitor!Load
    BY DEF Monitor!TypeOK
  <2>1. loads[i] \in Monitor!Load /\ loads[i].data \in Monitor!Data
    BY <2>0 DEF Monitor!Load
  <2>2. [loads[i].data EXCEPT ![part] = Monitor!Served(part)] \in Monitor!Data
    BY <2>1, ServedTypes DEF Monitor!TypeOK
  <2>3. loads' = [loads EXCEPT ![i] = [loads[i] EXCEPT !.got = @ \cup {part},
                        !.data = [loads[i].data EXCEPT ![part] = Monitor!Served(part)]]]
    BY <1>2, <2>1 DEF Monitor!Serve, Monitor!Load
  <2>4. [loads[i] EXCEPT !.got = @ \cup {part},
            !.data = [loads[i].data EXCEPT ![part] = Monitor!Served(part)]] \in Monitor!Load
    BY <2>1, <2>2 DEF Monitor!Load
  <2>5. loads' \in Seq(Monitor!Load)
    BY <2>3, <2>4 DEF Monitor!TypeOK
  <2> QED
    BY <1>2, <2>5 DEF Monitor!Serve, Monitor!TypeOK, Monitor!bounds
<1>3. ASSUME NEW i \in DOMAIN loads, Monitor!LoadArrives(i) PROVE Monitor!TypeOK'
  <2>1. loads[i] \in Monitor!Load /\ page \in Monitor!Page
    BY DEF Monitor!TypeOK
  <2>2. page' \in Monitor!Page /\ behind' \in BOOLEAN
    BY <1>3, <2>1 DEF Monitor!LoadArrives, Monitor!Page, Monitor!Load
  <2> QED
    BY <1>3, <2>2, Removed, MonitorRemoval DEF Monitor!LoadArrives, Monitor!TypeOK, Monitor!bounds
<1>4. ASSUME NEW i \in DOMAIN loads, Monitor!LoadFails(i) PROVE Monitor!TypeOK'
  <2>1. page' \in Monitor!Page
    BY <1>4 DEF Monitor!LoadFails, Monitor!TypeOK, Monitor!Page
  <2> QED
    BY <1>4, <2>1, Removed, MonitorRemoval, MonitorBoundTypes DEF Monitor!LoadFails, Monitor!TypeOK
<1>5. CASE Monitor!EmitSignal
  <2>1. server' \in Monitor!Data
    <3>1. server \in Monitor!Data /\ server.signals \in 0 .. MaxSignals /\
            server.signals < MaxSignals
      BY <1>5 DEF Monitor!EmitSignal, Monitor!TypeOK, Monitor!Data
    <3>2. server.signals + 1 \in 0 .. MaxSignals
      BY <3>1, ListsAssumption
    <3> QED
      BY <1>5, <3>1, <3>2 DEF Monitor!EmitSignal, Monitor!Data
  <2> QED
    BY <1>5, <2>1, AccompaniedTypes DEF Monitor!EmitSignal, Monitor!TypeOK, Monitor!bounds
<1> QED
  BY <1>1, <1>2, <1>3, <1>4, <1>5

(* What the user does: it changes nothing the server has, nor what the     *)
(* page has of it, and a call that is sent waits for its answer.           *)
UserOfMonitor ==
    \/ \E s \in Strategies : Monitor!HandleToggle(s)
    \/ Monitor!FillAlert
    \/ \E a \in Alerts : Monitor!HandleCreateAlert(a) \/ Monitor!AskDelete(a)
    \/ Monitor!CancelDelete
    \/ Monitor!HandleDeleteAlert
    \/ Monitor!HandleTestTelegram

(* A call that is right when the page shows what the server has.           *)
Meant(kind, about) ==
    /\ kind = "toggle" => about \in Monitor!ActiveJobs
    /\ kind = "create" => about \in Alerts
    /\ kind # "jobs"

LEMMA MonitorUserTypes ==
    ASSUME Monitor!TypeOK, UserOfMonitor
    PROVE  /\ Monitor!TypeOK'
           /\ page'.data = page.data /\ server' = server
           /\ \/ UNCHANGED <<loads, calls, behind>>
              \/ \E kind \in {"toggle", "create", "delete", "telegram"} :
                   \E about \in Monitor!OrNone(Strategies \cup Alerts) :
                     Meant(kind, about) /\ Monitor!Send(kind, about)
<1>0. page \in Monitor!Page
  BY DEF Monitor!TypeOK
<1>1. ASSUME NEW s \in Strategies, Monitor!HandleToggle(s)
      PROVE  page' = page /\ server' = server /\ Monitor!Clicks /\ Meant("toggle", s) /\
               Monitor!Send("toggle", s)
  BY <1>1 DEF Monitor!HandleToggle, Monitor!JobShown, Meant
<1>2. CASE Monitor!FillAlert
  <2>1. page' \in Monitor!Page /\ page'.data = page.data
    BY <1>0, <1>2 DEF Monitor!FillAlert, Monitor!Page
  <2> QED
    BY <1>2, <2>1 DEF Monitor!FillAlert, Monitor!TypeOK, Monitor!bounds
<1>3. ASSUME NEW a \in Alerts, Monitor!HandleCreateAlert(a)
      PROVE  /\ page' \in Monitor!Page /\ page'.data = page.data /\ server' = server
             /\ \/ UNCHANGED <<loads, calls, behind, Monitor!bounds>>
                \/ Monitor!Clicks /\ Meant("create", a) /\ Monitor!Send("create", a)
  BY <1>0, <1>3 DEF Monitor!HandleCreateAlert, Monitor!Page, Meant
<1>4. ASSUME NEW a \in Alerts, Monitor!AskDelete(a)
      PROVE  /\ page' \in Monitor!Page /\ page'.data = page.data
             /\ UNCHANGED <<loads, calls, server, behind, Monitor!bounds>>
  BY <1>0, <1>4 DEF Monitor!AskDelete, Monitor!Page, Monitor!OrNone
<1>5. CASE Monitor!CancelDelete
  <2>1. page' \in Monitor!Page /\ page'.data = page.data
    BY <1>0, <1>5 DEF Monitor!CancelDelete, Monitor!Page, Monitor!OrNone
  <2> QED
    BY <1>5, <2>1 DEF Monitor!CancelDelete, Monitor!TypeOK, Monitor!bounds
<1>6. CASE Monitor!HandleDeleteAlert
  <2>1. page' \in Monitor!Page /\ page'.data = page.data /\
          page.deleteTarget \in Monitor!OrNone(Strategies \cup Alerts)
    BY <1>0, <1>6 DEF Monitor!HandleDeleteAlert, Monitor!Page, Monitor!OrNone
  <2>2. Monitor!Clicks /\ server' = server /\ Meant("delete", page.deleteTarget) /\
          Monitor!Send("delete", page.deleteTarget)
    BY <1>6 DEF Monitor!HandleDeleteAlert, Meant
  <2> QED
    BY <2>1, <2>2, MonitorSendTypes, MonitorBoundTypes DEF Monitor!TypeOK
<1>7. CASE Monitor!HandleTestTelegram
  <2>1. page' \in Monitor!Page /\ page'.data = page.data /\
          None \in Monitor!OrNone(Strategies \cup Alerts)
    BY <1>0, <1>7 DEF Monitor!HandleTestTelegram, Monitor!Page, Monitor!OrNone
  <2>2. Monitor!Clicks /\ server' = server /\ Meant("telegram", None) /\
          Monitor!Send("telegram", None)
    BY <1>7 DEF Monitor!HandleTestTelegram, Meant
  <2> QED
    BY <2>1, <2>2, MonitorSendTypes, MonitorBoundTypes DEF Monitor!TypeOK
<1>8. Strategies \subseteq Monitor!OrNone(Strategies \cup Alerts) /\
        Alerts \subseteq Monitor!OrNone(Strategies \cup Alerts)
  BY DEF Monitor!OrNone
<1>9. CASE \E s \in Strategies : Monitor!HandleToggle(s)
  BY <1>1, <1>8, <1>9, MonitorSendTypes, MonitorBoundTypes DEF Monitor!TypeOK
<1>10. CASE \E a \in Alerts : Monitor!HandleCreateAlert(a)
  <2>1. PICK a \in Alerts : Monitor!HandleCreateAlert(a)
    BY <1>10
  <2>2. CASE UNCHANGED <<loads, calls, behind, Monitor!bounds>>
    BY <1>3, <2>1, <2>2 DEF Monitor!TypeOK, Monitor!bounds
  <2>3. CASE Monitor!Clicks /\ Meant("create", a) /\ Monitor!Send("create", a)
    BY <1>3, <1>8, <2>1, <2>3, MonitorSendTypes, MonitorBoundTypes DEF Monitor!TypeOK
  <2> QED
    BY <1>3, <2>1, <2>2, <2>3
<1>11. CASE \E a \in Alerts : Monitor!AskDelete(a)
  BY <1>4, <1>11 DEF Monitor!TypeOK, Monitor!bounds
<1> QED
  BY <1>2, <1>5, <1>6, <1>7, <1>9, <1>10, <1>11 DEF UserOfMonitor

LEMMA MonitorAfterTypes ==
    ASSUME Monitor!TypeOK, NEW call \in Monitor!Call, call.kind = "create" => call.about \in Alerts
    PROVE  Monitor!After(call) \in Monitor!Data
<1>1. server \in Monitor!Data
  BY DEF Monitor!TypeOK
<1>2. CASE call.kind = "toggle"
  BY <1>1, <1>2
  DEF Monitor!After, Monitor!ToggleStrategy, Monitor!Data, Monitor!Listed, Monitor!JobStates
<1>3. CASE call.kind = "create"
  <2>1. <<call.about>> \o server.alerts \in Seq(Alerts)
    BY <1>1, <1>3 DEF Monitor!Data
  <2> QED
    BY <1>1, <1>3, <2>1 DEF Monitor!After, Monitor!CreatePriceAlert, Monitor!Data
<1>4. CASE call.kind = "delete"
  <2>1. Monitor!Only(server.alerts, Alerts \ {call.about}) \in Seq(Alerts)
    BY <1>1, OnlyTheWanted, MonitorFilter DEF Monitor!Data
  <2> QED
    BY <1>1, <1>4, <2>1 DEF Monitor!After, Monitor!DeletePriceAlert, Monitor!Data
<1>5. CASE call.kind \notin {"toggle", "create", "delete"}
  BY <1>1, <1>5 DEF Monitor!After
<1> QED
  BY <1>2, <1>3, <1>4, <1>5

LEMMA AnswerTypes ==
    ASSUME NEW call \in Monitor!Call, NEW data \in Monitor!Data
    PROVE  Monitor!Answer(call, data) \in Monitor!Data
<1>1. Monitor!Empty \in Monitor!Data
  BY EmptyTypes
<1>2. [Monitor!Empty EXCEPT !.strategies[call.about] = data.strategies[call.about]] \in Monitor!Data
  <2>1. call.about \in Strategies => data.strategies[call.about] \in Monitor!Listed
    BY DEF Monitor!Data
  <2>2. [Monitor!Empty.strategies EXCEPT ![call.about] = data.strategies[call.about]] \in
          [Strategies -> Monitor!Listed]
    BY <1>1, <2>1 DEF Monitor!Data
  <2>3. [Monitor!Empty EXCEPT !.strategies[call.about] = data.strategies[call.about]] =
          [Monitor!Empty EXCEPT !.strategies =
            [Monitor!Empty.strategies EXCEPT ![call.about] = data.strategies[call.about]]]
    BY <1>1 DEF Monitor!Data
  <2> QED
    BY <1>1, <2>2, <2>3 DEF Monitor!Data
<1>3. [Monitor!Empty EXCEPT !.jobs = data.jobs] \in Monitor!Data
  BY <1>1 DEF Monitor!Data
<1> QED
  BY <1>1, <1>2, <1>3 DEF Monitor!Answer

LEMMA MonitorCallTypes ==
    ASSUME Monitor!TypeOK, Monitor!AlertsAreMeant, NEW i \in DOMAIN calls, Monitor!ServeCall(i) \/
             Monitor!Arrives(i)
    PROVE  Monitor!TypeOK'
<1>a. calls[i] \in Monitor!Call /\ page \in Monitor!Page
  BY DEF Monitor!TypeOK
<1>0. calls[i] \in Monitor!Call /\ page \in Monitor!Page /\ page.data \in Monitor!Data /\
        calls[i].data \in Monitor!Data
  BY <1>a DEF Monitor!Page, Monitor!Call
<1>1. CASE Monitor!ServeCall(i)
  <2>1. Monitor!After(calls[i]) \in Monitor!Data
    BY <1>0, MonitorAfterTypes DEF Monitor!AlertsAreMeant
  <2>2. server' \in Monitor!Data
    BY <1>1, <2>1 DEF Monitor!ServeCall, Monitor!TypeOK
  <2>3. Monitor!Answer(calls[i], server') \in Monitor!Data
    BY <1>0, <2>2, AnswerTypes
  <2>4. calls' \in Seq(Monitor!Call)
    <3>1. /\ [calls[i] EXCEPT !.answer = "done", !.data = Monitor!Answer(calls[i], server')] \in
               Monitor!Call
          /\ [calls[i] EXCEPT !.answer = "failed"] \in Monitor!Call
      BY <1>0, <2>3 DEF Monitor!Call
    <3>2. \E call \in Monitor!Call : calls' = [calls EXCEPT ![i] = call]
      BY <1>0, <1>1, <3>1 DEF Monitor!ServeCall
    <3> QED
      BY <3>2 DEF Monitor!TypeOK
  <2>5. Monitor!Succeeds \/ Monitor!Fails
    BY <1>1 DEF Monitor!ServeCall
  <2>6. behind' \in BOOLEAN
    BY <1>1 DEF Monitor!ServeCall, Monitor!TypeOK
  <2> QED
    BY <1>1, <2>2, <2>4, <2>5, <2>6, MonitorBoundTypes DEF Monitor!ServeCall, Monitor!TypeOK
<1>2. CASE Monitor!Toggled(i)
  <2>1. Monitor!ThenJobs(i) => calls' \in Seq(Monitor!Call)
    <3>1. Monitor!NewCall("jobs", None) \in Monitor!Call
      BY EmptyTypes DEF Monitor!OrNone
    <3> QED
      BY <3>1, Removed, MonitorRemoval, Added DEF Monitor!ThenJobs, Monitor!TypeOK
  <2>2. page' \in Monitor!Page
    <3> DEFINE s == calls[i].about
               told == [page.data.strategies EXCEPT ![s] =
                          IF @ = "none" THEN @ ELSE calls[i].data.strategies[s]]
    <3>1. page' = [page EXCEPT !.data = [page.data EXCEPT !.strategies = told]]
      BY <1>0, <1>2 DEF Monitor!Toggled, Monitor!Page, Monitor!Data
    <3>2. s \in Strategies => calls[i].data.strategies[s] \in Monitor!Listed
      BY <1>0 DEF Monitor!Data
    <3>3. told \in [Strategies -> Monitor!Listed]
      BY <1>0, <3>2 DEF Monitor!Data
    <3> HIDE DEF told
    <3>4. [page.data EXCEPT !.strategies = told] \in Monitor!Data
      BY <1>0, <3>3 DEF Monitor!Data
    <3> QED
      BY <1>0, <3>1, <3>4 DEF Monitor!Page
  <2> QED
    BY <1>2, <2>1, <2>2 DEF Monitor!Toggled, Monitor!TypeOK, Monitor!bounds
<1>3. CASE Monitor!JobsArrive(i)
  <2>1. page' \in Monitor!Page
    BY <1>0, <1>3 DEF Monitor!JobsArrive, Monitor!Page, Monitor!Data
  <2> QED
    BY <1>3, <2>1, Removed, MonitorRemoval DEF Monitor!JobsArrive, Monitor!TypeOK, Monitor!bounds
<1>4. CASE Monitor!ToggleFails(i)
  <2>1. page' \in Monitor!Page
    BY <1>0, <1>4 DEF Monitor!ToggleFails, Monitor!Page
  <2> QED
    BY <1>4, <2>1, Removed, MonitorRemoval DEF Monitor!ToggleFails, Monitor!TypeOK, Monitor!bounds
<1>5. CASE Monitor!AlertCreated(i)
  <2>1. page' \in Monitor!Page
    <3>1. CASE calls[i].answer = "done"
      <4>1. <<calls[i].about>> \o page.data.alerts \in Seq(Alerts)
        BY <1>0, <1>5 DEF Monitor!AlertCreated, Monitor!AlertsAreMeant, Monitor!Data
      <4>2. page' = [page EXCEPT !.data =
              [page.data EXCEPT !.alerts = <<calls[i].about>> \o page.data.alerts],
                                 !.alertForm = "empty", !.creatingAlert = FALSE]
        BY <1>0, <1>5, <3>1 DEF Monitor!AlertCreated, Monitor!Page, Monitor!Data
      <4>3. [page.data EXCEPT !.alerts = <<calls[i].about>> \o page.data.alerts] \in Monitor!Data
        BY <1>0, <4>1 DEF Monitor!Data
      <4> QED
        BY <1>0, <4>2, <4>3 DEF Monitor!Page
    <3>2. CASE calls[i].answer # "done"
      BY <1>0, <1>5, <3>2 DEF Monitor!AlertCreated, Monitor!Page
    <3> QED
      BY <3>1, <3>2
  <2> QED
    BY <1>5, <2>1, Removed, MonitorRemoval DEF Monitor!AlertCreated, Monitor!TypeOK, Monitor!bounds
<1>6. CASE Monitor!AlertDeleted(i)
  <2>1. page' \in Monitor!Page
    <3>1. CASE calls[i].answer = "done"
      <4> DEFINE left == Monitor!Only(page.data.alerts, Alerts \ {calls[i].about})
      <4>1. left \in Seq(Alerts)
        BY <1>0, OnlyTheWanted, MonitorFilter DEF Monitor!Data
      <4>2. page' = [page EXCEPT !.data = [page.data EXCEPT !.alerts = left],
                                 !.deleteTarget = None, !.deleting = FALSE]
        BY <1>0, <1>6, <3>1 DEF Monitor!AlertDeleted, Monitor!Page, Monitor!Data
      <4> HIDE DEF left
      <4>3. [page.data EXCEPT !.alerts = left] \in Monitor!Data
        BY <1>0, <4>1 DEF Monitor!Data
      <4> QED
        BY <1>0, <4>2, <4>3 DEF Monitor!Page, Monitor!OrNone
    <3>2. CASE calls[i].answer # "done"
      BY <1>0, <1>6, <3>2 DEF Monitor!AlertDeleted, Monitor!Page
    <3> QED
      BY <3>1, <3>2
  <2> QED
    BY <1>6, <2>1, Removed, MonitorRemoval DEF Monitor!AlertDeleted, Monitor!TypeOK, Monitor!bounds
<1>7. CASE Monitor!TelegramTested(i)
  <2>1. page' \in Monitor!Page
    BY <1>0, <1>7 DEF Monitor!TelegramTested, Monitor!Page
  <2> QED
    BY <1>7, <2>1, Removed, MonitorRemoval
    DEF Monitor!TelegramTested, Monitor!TypeOK, Monitor!bounds
<1> QED
  BY <1>1, <1>2, <1>3, <1>4, <1>5, <1>6, <1>7 DEF Monitor!Arrives

LEMMA MonitorTypes ==
    Monitor!TypeOK /\ Monitor!AlertsAreMeant /\ (Monitor!Next \/ UNCHANGED Monitor!vars) =>
      Monitor!TypeOK'
<1> SUFFICES ASSUME Monitor!TypeOK, Monitor!AlertsAreMeant,
                    (Monitor!Next \/ UNCHANGED Monitor!vars) PROVE Monitor!TypeOK'
  OBVIOUS
<1>1. CASE Monitor!Next
  BY <1>1, MonitorLoadTypes, MonitorUserTypes, MonitorCallTypes DEF Monitor!Next, UserOfMonitor
<1>2. CASE UNCHANGED Monitor!vars
  BY <1>2 DEF Monitor!vars, Monitor!bounds, Monitor!TypeOK
<1> QED
  BY <1>1, <1>2

-----------------------------------------------------------------------------
Active == {s \in Strategies : server.strategies[s] = "active"}

LEMMA LoadMirrors ==
    ASSUME Monitor!TypeOK, Monitor!JobsFollow, Monitor!LoadsAreFresh, NEW i \in DOMAIN loads,
           loads[i].got = Monitor!Parts
    PROVE  /\ {s \in Strategies : loads[i].data.strategies[s] # "none" /\
                                  loads[i].data.jobs[s] # "paused"} = Active
           /\ loads[i].data.signals = server.signals
           /\ loads[i].data.alerts = server.alerts
<1>1. /\ loads[i].data.strategies = Monitor!Served("strategies") /\ loads[i].data.jobs = server.jobs
      /\ loads[i].data.signals = server.signals /\ loads[i].data.alerts = server.alerts
  BY DEF Monitor!LoadsAreFresh, Monitor!Parts, Monitor!Served
<1>2. \A s \in Strategies : loads[i].data.strategies[s] =
                             IF server.strategies[s] = "active" THEN "active" ELSE "none"
  BY <1>1 DEF Monitor!Served
<1>3. \A s \in Strategies :
        \/ server.strategies[s] = "active" /\ server.jobs[s] = "running"
        \/ server.strategies[s] = "paused" /\ server.jobs[s] = "paused"
  BY DEF Monitor!JobsFollow
<1> QED
  BY <1>1, <1>2, <1>3 DEF Active

LEMMA LoadRemoved ==
    ASSUME Monitor!TypeOK, NEW i \in DOMAIN loads, loads' = Monitor!RemoveAt(loads, i),
           server' = server
    PROVE  /\ \A j \in DOMAIN loads' : \E k \in DOMAIN loads : loads'[j] = loads[k]
           /\ Monitor!LoadsAreFresh => Monitor!LoadsAreFresh'
<1>1. \A j \in DOMAIN loads' : \E k \in DOMAIN loads : loads'[j] = loads[k]
  BY Removed, MonitorRemoval DEF Monitor!TypeOK
<1> QED
  BY <1>1 DEF Monitor!LoadsAreFresh, Monitor!Served

LEMMA LoadDataKeeps ==
    ASSUME Monitor!MonitorInv, Monitor!LoadData
    PROVE  Monitor!AlertsAreMeant' /\ Monitor!JobsFollow' /\ Monitor!AloneIsFresh' /\
             (~behind' => Monitor!Told')
<1>1. /\ page' = page /\ calls' = calls /\ server' = server
      /\ behind' = (behind \/ loads # <<>> \/ calls # <<>>)
  BY DEF Monitor!LoadData
<1> DEFINE new == [got |-> {}, data |-> Monitor!Empty, alone |-> loads = <<>> /\ calls = <<>>]
<1>2. new \in Monitor!Load /\ loads \in Seq(Monitor!Load)
  BY EmptyTypes DEF Monitor!Load, Monitor!MonitorInv, Monitor!TypeOK
<1>3. /\ DOMAIN loads' = DOMAIN loads \cup {Len(loads) + 1}
      /\ loads'[Len(loads) + 1] = new
      /\ \A j \in DOMAIN loads : loads'[j] = loads[j]
  BY <1>2, Added DEF Monitor!LoadData
<1>4. loads'[Len(loads) + 1].got = {} /\
        loads'[Len(loads) + 1].alone = (loads = <<>> /\ calls = <<>>)
  BY <1>3
<1> HIDE DEF new
<1>5. Monitor!LoadsAreFresh => Monitor!LoadsAreFresh'
  BY <1>1, <1>3, <1>4 DEF Monitor!LoadsAreFresh, Monitor!Served
<1>6. loads = <<>> => Monitor!LoadsAreFresh'
  <2>1. loads = <<>> => Monitor!LoadsAreFresh
    BY DEF Monitor!LoadsAreFresh
  <2> QED
    BY <1>5, <2>1
<1>7. Monitor!AloneIsFresh'
  <2>1. SUFFICES ASSUME NEW j \in DOMAIN loads', loads'[j].alone
                 PROVE calls' = <<>> /\ Monitor!LoadsAreFresh'
    BY DEF Monitor!AloneIsFresh
  <2>2. CASE j \in DOMAIN loads
    BY <1>1, <1>3, <1>5, <2>1, <2>2 DEF Monitor!MonitorInv, Monitor!AloneIsFresh
  <2>3. CASE j = Len(loads) + 1
    BY <1>1, <1>4, <1>6, <2>1, <2>3
  <2> QED
    BY <1>3, <2>2, <2>3
<1>8. ~behind' => Monitor!Told'
  <2>1. SUFFICES ASSUME ~behind' PROVE Monitor!Told'
    OBVIOUS
  <2>4. ~behind /\ loads = <<>> /\ calls = <<>> /\ Len(<<>>) = 0
    BY <1>1, <2>1
  <2>2. Monitor!Mirrors
    BY <2>4 DEF Monitor!MonitorInv, Monitor!Told
  <2>3. Monitor!Mirrors'
    BY <1>1, <2>2 DEF Monitor!Mirrors, Monitor!ActiveJobs
  <2> QED
    BY <1>1, <1>6, <2>1, <2>3 DEF Monitor!Told
<1> QED
  BY <1>1, <1>7, <1>8 DEF Monitor!MonitorInv, Monitor!AlertsAreMeant, Monitor!JobsFollow

LEMMA ServeKeeps ==
    ASSUME Monitor!MonitorInv, NEW i \in DOMAIN loads, NEW part \in Monitor!Parts,
           Monitor!Serve(i, part)
    PROVE  Monitor!AlertsAreMeant' /\ Monitor!JobsFollow' /\ Monitor!AloneIsFresh' /\
             (~behind' => Monitor!Told')
<1>1. page' = page /\ calls' = calls /\ server' = server /\ behind' = behind
  BY DEF Monitor!Serve
<1>2. loads \in Seq(Monitor!Load) /\ loads[i] \in Monitor!Load /\ loads[i].data \in Monitor!Data
  <2>1. loads \in Seq(Monitor!Load) /\ loads[i] \in Monitor!Load
    BY DEF Monitor!MonitorInv, Monitor!TypeOK
  <2> QED
    BY <2>1 DEF Monitor!Load
<1>3. /\ DOMAIN loads' = DOMAIN loads
      /\ \A j \in DOMAIN loads : loads'[j].alone = loads[j].alone
      /\ \A j \in DOMAIN loads : j # i => loads'[j] = loads[j]
      /\ loads'[i].got = loads[i].got \cup {part}
      /\ loads'[i].data = [loads[i].data EXCEPT ![part] = Monitor!Served(part)]
  BY <1>2 DEF Monitor!Serve, Monitor!Load
<1>4. \A other \in loads[i].got \cup {part} : other \in Monitor!Parts
  BY <1>2 DEF Monitor!Load
<1>5. \A other \in Monitor!Parts : loads'[i].data[other] = IF other = part
        THEN Monitor!Served(part) ELSE loads[i].data[other]
  BY <1>2, <1>3 DEF Monitor!Data, Monitor!Parts
<1>6. Monitor!LoadsAreFresh => Monitor!LoadsAreFresh'
  <2> SUFFICES ASSUME Monitor!LoadsAreFresh, NEW j \in DOMAIN loads', NEW other \in loads'[j].got
               PROVE  loads'[j].data[other] = Monitor!Served(other)'
    BY DEF Monitor!LoadsAreFresh
  <2>1. Monitor!Served(other)' = Monitor!Served(other) /\ j \in DOMAIN loads
    BY <1>1, <1>3 DEF Monitor!Served
  <2>2. CASE j # i
    BY <1>3, <2>1, <2>2 DEF Monitor!LoadsAreFresh
  <2>3. CASE j = i
    BY <1>3, <1>4, <1>5, <2>1, <2>3 DEF Monitor!LoadsAreFresh
  <2> QED
    BY <2>2, <2>3
<1>7. Monitor!AloneIsFresh'
  BY <1>1, <1>3, <1>6 DEF Monitor!MonitorInv, Monitor!AloneIsFresh
<1>8. ~behind' => Monitor!Told'
  <2>1. loads # <<>>
    BY <1>2
  <2> QED
    BY <1>1, <1>6, <2>1 DEF Monitor!MonitorInv, Monitor!Told, Monitor!Mirrors, Monitor!ActiveJobs
<1> QED
  BY <1>1, <1>7, <1>8 DEF Monitor!MonitorInv, Monitor!AlertsAreMeant, Monitor!JobsFollow

LEMMA LoadAnswerKeeps ==
    ASSUME Monitor!MonitorInv, NEW i \in DOMAIN loads, Monitor!LoadArrives(i) \/
             Monitor!LoadFails(i)
    PROVE  Monitor!AlertsAreMeant' /\ Monitor!JobsFollow' /\ Monitor!AloneIsFresh' /\
             (~behind' => Monitor!Told')
<1>1. calls' = calls /\ server' = server /\ loads' = Monitor!RemoveAt(loads, i)
  BY DEF Monitor!LoadArrives, Monitor!LoadFails
<1>2. /\ \A j \in DOMAIN loads' : \E k \in DOMAIN loads : loads'[j] = loads[k]
      /\ Monitor!LoadsAreFresh => Monitor!LoadsAreFresh'
  BY <1>1, LoadRemoved DEF Monitor!MonitorInv
<1>3. Monitor!AloneIsFresh'
  BY <1>1, <1>2 DEF Monitor!MonitorInv, Monitor!AloneIsFresh
<1>4. loads # <<>> /\ page \in Monitor!Page
  BY DEF Monitor!MonitorInv, Monitor!TypeOK
<1>5. CASE Monitor!LoadArrives(i)
  <2>1. loads[i].got = Monitor!Parts /\ page'.data = loads[i].data /\
          behind' = (behind /\ ~loads[i].alone)
    BY <1>4, <1>5 DEF Monitor!LoadArrives, Monitor!Page
  <2>2. SUFFICES ASSUME ~behind' PROVE Monitor!Told'
    BY <1>1, <1>3 DEF Monitor!MonitorInv, Monitor!AlertsAreMeant, Monitor!JobsFollow
  <2>3. calls = <<>> /\ Monitor!LoadsAreFresh
    BY <1>4, <2>1, <2>2 DEF Monitor!MonitorInv, Monitor!AloneIsFresh, Monitor!Told
  <2>4. Monitor!Mirrors'
    BY <1>1, <2>1, <2>3, LoadMirrors
    DEF Monitor!MonitorInv, Monitor!Mirrors, Monitor!ActiveJobs, Active
  <2> QED
    BY <1>1, <1>2, <2>3, <2>4 DEF Monitor!Told
<1>6. CASE Monitor!LoadFails(i)
  <2>1. page'.data = page.data /\ behind' = behind
    BY <1>4, <1>6 DEF Monitor!LoadFails, Monitor!Page
  <2>2. Monitor!Mirrors => Monitor!Mirrors'
    BY <1>1, <2>1 DEF Monitor!Mirrors, Monitor!ActiveJobs
  <2>3. ~behind' => Monitor!Told'
    BY <1>1, <1>2, <1>4, <2>1, <2>2 DEF Monitor!MonitorInv, Monitor!Told
  <2> QED
    BY <1>1, <1>3, <2>3 DEF Monitor!MonitorInv, Monitor!AlertsAreMeant, Monitor!JobsFollow
<1> QED
  BY <1>5, <1>6

LEMMA MonitorUserKeeps ==
    ASSUME Monitor!MonitorInv, UserOfMonitor
    PROVE  Monitor!AlertsAreMeant' /\ Monitor!JobsFollow' /\ Monitor!AloneIsFresh' /\
             (~behind' => Monitor!Told')
<1>1. /\ page'.data = page.data /\ server' = server
      /\ \/ UNCHANGED <<loads, calls, behind>>
         \/ \E kind \in {"toggle", "create", "delete", "telegram"} :
              \E about \in Monitor!OrNone(Strategies \cup Alerts) :
                Meant(kind, about) /\ Monitor!Send(kind, about)
  BY MonitorUserTypes DEF Monitor!MonitorInv
<1>2. Monitor!ActiveJobs' = Monitor!ActiveJobs /\ Monitor!Mirrors' = Monitor!Mirrors /\
        Monitor!JobsFollow' = Monitor!JobsFollow /\ Monitor!StillListed' = Monitor!StillListed
  BY <1>1 DEF Monitor!ActiveJobs, Monitor!Mirrors, Monitor!JobsFollow, Monitor!StillListed
<1>3. CASE UNCHANGED <<loads, calls, behind>>
  <2>1. Monitor!AlertsAreMeant' /\ (Monitor!LoadsAreFresh => Monitor!LoadsAreFresh')
    BY <1>1, <1>3
    DEF Monitor!MonitorInv, Monitor!AlertsAreMeant, Monitor!LoadsAreFresh, Monitor!Served
  <2>2. Monitor!AloneIsFresh'
    BY <1>3, <2>1 DEF Monitor!MonitorInv, Monitor!AloneIsFresh
  <2>3. Monitor!Expected(calls[1]) => Monitor!Expected(calls[1])'
    BY <1>1, <1>2, <1>3
    DEF Monitor!Expected, Monitor!StrategiesExpect, Monitor!AlertsExpect, Monitor!Halfway
  <2>4. ~behind' => Monitor!Told'
    BY <1>2, <1>3, <2>1, <2>3 DEF Monitor!MonitorInv, Monitor!Told
  <2> QED
    BY <1>2, <2>1, <2>2, <2>4 DEF Monitor!MonitorInv
<1>4. ASSUME NEW kind \in {"toggle", "create", "delete", "telegram"},
             NEW about \in Monitor!OrNone(Strategies \cup Alerts),
             Meant(kind, about) /\ Monitor!Send(kind, about)
      PROVE  Monitor!AlertsAreMeant' /\ Monitor!AloneIsFresh' /\ (~behind' => Monitor!Told')
  <2>1. /\ \A i \in DOMAIN loads' : ~loads'[i].alone
        /\ DOMAIN calls' = DOMAIN calls \cup {Len(calls) + 1}
        /\ calls'[Len(calls) + 1] = Monitor!NewCall(kind, about)
        /\ \A i \in DOMAIN calls : calls'[i] = calls[i]
    BY <1>4, MonitorSendTypes DEF Monitor!MonitorInv
  <2>2. Monitor!NewCall(kind, about).kind = kind /\ Monitor!NewCall(kind, about).about = about /\
          Monitor!NewCall(kind, about).answer = "pending"
    BY DEF Monitor!NewCall
  <2>3. Monitor!AlertsAreMeant'
    BY <1>4, <2>1, <2>2 DEF Monitor!MonitorInv, Monitor!AlertsAreMeant, Meant
  <2>4. Monitor!AloneIsFresh'
    BY <2>1 DEF Monitor!AloneIsFresh
  <2>5. ASSUME ~behind' PROVE Monitor!Told'
    <3>1. ~behind /\ loads = <<>> /\ calls = <<>>
      BY <1>4, <2>5 DEF Monitor!Send
    <3>2. Monitor!Mirrors
      BY <3>1 DEF Monitor!MonitorInv, Monitor!Told
    <3>3. calls' = <<Monitor!NewCall(kind, about)>>
      BY <1>4, <3>1 DEF Monitor!Send
    <3>4. loads' = <<>>
      BY <1>4, <3>1 DEF Monitor!Send
    <3>5. Len(calls') = 1 /\ calls'[1] = Monitor!NewCall(kind, about)
      BY <3>3
    <3>6. Monitor!Expected(calls[1])'
      BY <1>1, <1>2, <1>4, <2>2, <3>2, <3>5
      DEF Monitor!Expected, Monitor!StrategiesExpect, Monitor!AlertsExpect, Monitor!Halfway,
          Monitor!Mirrors, Meant
    <3> QED
      BY <3>4, <3>5, <3>6 DEF Monitor!Told
  <2> QED
    BY <2>3, <2>4, <2>5
<1> QED
  BY <1>1, <1>2, <1>3, <1>4 DEF Monitor!MonitorInv

LEMMA Toggles ==
    ASSUME server \in Monitor!Data, NEW call, call.kind = "toggle"
    PROVE  /\ Monitor!After(call).signals = server.signals
           /\ Monitor!After(call).alerts = server.alerts
           /\ \A s \in Strategies :
                /\ Monitor!After(call).strategies[s] =
                     IF s # call.about THEN server.strategies[s]
                     ELSE IF server.strategies[s] = "active" THEN "paused" ELSE "active"
                /\ Monitor!After(call).jobs[s] =
                     IF s # call.about THEN server.jobs[s]
                     ELSE IF server.strategies[s] # "active" THEN "running"
                     ELSE IF server.jobs[s] = "none" THEN "none" ELSE "paused"
BY DEF Monitor!After, Monitor!ToggleStrategy, Monitor!Data

LEMMA Leaves ==
    ASSUME server \in Monitor!Data, NEW call \in Monitor!Call, call.kind # "toggle"
    PROVE  /\ Monitor!After(call).signals = server.signals
           /\ Monitor!After(call).strategies = server.strategies
           /\ Monitor!After(call).jobs = server.jobs
           /\ Monitor!After(call).alerts = IF call.kind = "create"
                THEN <<call.about>> \o server.alerts
                                  ELSE IF call.kind = "delete"
                                  THEN Monitor!Only(server.alerts, Alerts \ {call.about})
                                  ELSE server.alerts
BY DEF Monitor!After, Monitor!CreatePriceAlert, Monitor!DeletePriceAlert, Monitor!Data, Monitor!Call

LEMMA MonitorServeKeeps ==
    ASSUME Monitor!MonitorInv, Monitor!TypeOK', NEW i \in DOMAIN calls, Monitor!ServeCall(i)
    PROVE  Monitor!AlertsAreMeant' /\ Monitor!JobsFollow' /\ Monitor!AloneIsFresh' /\
             (~behind' => Monitor!Told')
<1>1. /\ page' = page /\ loads' = loads /\ calls[i].answer = "pending"
      /\ server' \in {server, Monitor!After(calls[i])}
  BY DEF Monitor!ServeCall
<1>2. server \in Monitor!Data /\ server' \in Monitor!Data /\ calls \in Seq(Monitor!Call) /\
        calls[i] \in Monitor!Call /\ calls # <<>>
  BY DEF Monitor!MonitorInv, Monitor!TypeOK
<1>3. /\ DOMAIN calls' = DOMAIN calls
      /\ \A j \in DOMAIN calls : calls'[j].kind = calls[j].kind /\ calls'[j].about = calls[j].about
  BY <1>2 DEF Monitor!ServeCall, Monitor!Call
<1>4. Monitor!AlertsAreMeant'
  BY <1>3 DEF Monitor!MonitorInv, Monitor!AlertsAreMeant
<1>5. Monitor!JobsFollow'
  <2>1. CASE server' = server
    BY <2>1 DEF Monitor!MonitorInv, Monitor!JobsFollow
  <2>2. CASE server' = Monitor!After(calls[i]) /\ calls[i].kind = "toggle"
    BY <1>2, <2>2, Toggles DEF Monitor!MonitorInv, Monitor!JobsFollow
  <2>3. CASE server' = Monitor!After(calls[i]) /\ calls[i].kind # "toggle"
    BY <1>2, <2>3, Leaves DEF Monitor!MonitorInv, Monitor!JobsFollow
  <2> QED
    BY <1>1, <2>1, <2>2, <2>3
<1>6. Monitor!AloneIsFresh'
  BY <1>1, <1>2 DEF Monitor!MonitorInv, Monitor!AloneIsFresh
<1>7. ASSUME ~behind' PROVE Monitor!Told'
  <2>1. /\ ~behind
        /\ server' = Monitor!After(calls[i])
        /\ calls' = [calls EXCEPT ![i].answer = "done",
             ![i].data = Monitor!Answer(calls[i], server')]
    BY <1>7 DEF Monitor!ServeCall
  <2>2. loads = <<>> /\ Len(calls) = 1 /\ Monitor!Expected(calls[1])
    BY <1>2, <2>1 DEF Monitor!MonitorInv, Monitor!Told
  <2>3. i = 1
    BY <1>2, <2>2
  <2> DEFINE call == calls[1]
  <2>4. /\ Len(calls') = 1
        /\ calls'[1].kind = call.kind /\ calls'[1].about = call.about
        /\ calls'[1].answer = "done" /\ calls'[1].data = Monitor!Answer(call, server')
    <3> DEFINE answered == [call EXCEPT !.answer = "done", !.data = Monitor!Answer(call, server')]
    <3>1. calls' = [calls EXCEPT ![1] = answered]
      BY <2>1, <2>3
    <3>2. /\ answered.kind = call.kind /\ answered.about = call.about
          /\ answered.answer = "done" /\ answered.data = Monitor!Answer(call, server')
      BY <1>2, <2>3 DEF Monitor!Call
    <3> HIDE DEF answered
    <3>3. Len(calls') = Len(calls) /\ calls'[1] = answered
      BY <1>2, <2>3, <3>1
    <3> QED
      BY <2>2, <3>2, <3>3
  <2>5. call \in Monitor!Call /\ call.answer = "pending" /\ server' = Monitor!After(call)
    BY <1>1, <1>2, <2>1, <2>3
  <2>6. page'.data.signals = server'.signals
    BY <1>1, <1>2, <2>2, <2>5, Toggles, Leaves DEF Monitor!Expected
  <2>7. Monitor!AlertsExpect(calls[1])'
    BY <1>1, <1>2, <2>2, <2>4, <2>5, Toggles, Leaves DEF Monitor!Expected, Monitor!AlertsExpect
  <2>8. Monitor!StrategiesExpect(calls[1])'
    <3>1. CASE call.kind = "toggle"
      <4>1. Monitor!ActiveJobs = Active /\ call.about \in Monitor!ActiveJobs
        BY <2>2, <2>5, <3>1 DEF Monitor!Expected, Monitor!StrategiesExpect, Monitor!Halfway, Active
      <4>2. \A s \in Strategies : server'.strategies[s] =
               IF s # call.about THEN server.strategies[s] ELSE "paused"
        BY <1>2, <2>5, <3>1, <4>1, Toggles DEF Active
      <4>3. Monitor!StillListed'
        BY <1>1, <4>1, <4>2 DEF Monitor!StillListed, Active, Monitor!ActiveJobs
      <4>4. Monitor!Answer(call, server').strategies[call.about] = server'.strategies[call.about]
        <5>1. Monitor!Empty.strategies = [s \in Strategies |-> "none"] /\ call.about \in Strategies
          BY <4>1 DEF Monitor!Empty, Active
        <5> QED
          BY <3>1, <5>1, EmptyTypes DEF Monitor!Answer, Monitor!Data
      <4> QED
        BY <2>4, <3>1, <4>3, <4>4 DEF Monitor!StrategiesExpect, Monitor!Halfway
    <3>2. CASE call.kind = "jobs"
      <4>1. Monitor!StillListed
        BY <2>2, <3>2 DEF Monitor!Expected, Monitor!StrategiesExpect, Monitor!Halfway
      <4>2. Monitor!StillListed'
        BY <1>1, <1>2, <2>5, <3>2, <4>1, Leaves DEF Monitor!StillListed
      <4>3. Monitor!Answer(call, server').jobs = server'.jobs
        BY <3>2, EmptyTypes DEF Monitor!Answer, Monitor!Data
      <4> QED
        BY <2>4, <3>2, <4>2, <4>3 DEF Monitor!StrategiesExpect, Monitor!Halfway
    <3>3. CASE call.kind \notin {"toggle", "jobs"}
      <4>1. Monitor!ActiveJobs = Active
        BY <2>2, <3>3 DEF Monitor!Expected, Monitor!StrategiesExpect, Monitor!Halfway, Active
      <4>2. Monitor!ActiveJobs' = {s \in Strategies : server'.strategies[s] = "active"}
        BY <1>1, <1>2, <2>5, <3>3, <4>1, Leaves DEF Monitor!ActiveJobs, Active
      <4> QED
        BY <2>4, <3>3, <4>2 DEF Monitor!StrategiesExpect, Monitor!Halfway
    <3> QED
      BY <3>1, <3>2, <3>3
  <2> QED
    BY <1>1, <2>2, <2>4, <2>6, <2>7, <2>8 DEF Monitor!Told, Monitor!Expected
<1> QED
  BY <1>4, <1>5, <1>6, <1>7

LEMMA MonitorAnswerKeeps ==
    ASSUME Monitor!MonitorInv, NEW i \in DOMAIN calls, Monitor!Arrives(i)
    PROVE  Monitor!AlertsAreMeant' /\ Monitor!JobsFollow' /\ Monitor!AloneIsFresh' /\
             (~behind' => Monitor!Told')
<1>1. /\ loads' = loads /\ server' = server /\ behind' = behind
      /\ calls' = Monitor!RemoveAt(calls, i) \/
           calls' = Append(Monitor!RemoveAt(calls, i), Monitor!NewCall("jobs", None))
  BY
  DEF Monitor!Arrives, Monitor!Toggled, Monitor!ThenJobs, Monitor!JobsArrive, Monitor!ToggleFails,
      Monitor!AlertCreated, Monitor!AlertDeleted,
     Monitor!TelegramTested
<1>2. /\ page \in Monitor!Page /\ page.data \in Monitor!Data /\ server \in Monitor!Data
      /\ calls \in Seq(Monitor!Call) /\ calls[i] \in Monitor!Call /\ calls # <<>>
  <2>1. page \in Monitor!Page /\ server \in Monitor!Data /\ calls \in Seq(Monitor!Call) /\
          calls[i] \in Monitor!Call
    BY DEF Monitor!MonitorInv, Monitor!TypeOK
  <2> QED
    BY <2>1 DEF Monitor!Page
<1>3. Monitor!NewCall("jobs", None) \in Monitor!Call /\
        Monitor!NewCall("jobs", None).kind = "jobs" /\
        Monitor!NewCall("jobs", None).answer = "pending"
  BY EmptyTypes DEF Monitor!NewCall, Monitor!OrNone
<1>4. Monitor!RemoveAt(calls, i) \in Seq(Monitor!Call) /\
        \A j \in DOMAIN Monitor!RemoveAt(calls, i) : \E k \in DOMAIN calls :
          Monitor!RemoveAt(calls, i)[j] = calls[k]
  BY <1>2, Removed, MonitorRemoval
<1>5. \A j \in DOMAIN calls' : \/ calls'[j].kind = "jobs"
                              \/ \E k \in DOMAIN calls : calls'[j] = calls[k]
  BY <1>1, <1>3, <1>4, Added
<1>6. Monitor!AlertsAreMeant'
  BY <1>5 DEF Monitor!MonitorInv, Monitor!AlertsAreMeant
<1>7. Monitor!JobsFollow' /\ Monitor!AloneIsFresh'
  BY <1>1, <1>2 DEF Monitor!MonitorInv, Monitor!JobsFollow, Monitor!AloneIsFresh
<1>8. ASSUME ~behind' PROVE Monitor!Told'
  <2>1. loads = <<>> /\ Len(calls) = 1 /\ Monitor!Expected(calls[1])
    BY <1>1, <1>2, <1>8 DEF Monitor!MonitorInv, Monitor!Told
  <2>2. i = 1
    BY <1>2, <2>1
  <2>3. Monitor!RemoveAt(calls, i) = <<>>
    <3>1. Len(Monitor!RemoveAt(calls, i)) = 0
      BY <1>2, <2>1, Removed, MonitorRemoval
    <3> QED
      BY <1>4, <3>1
  <2>4. Monitor!LoadsAreFresh'
    BY <1>1, <2>1 DEF Monitor!LoadsAreFresh
  <2> DEFINE call == calls[1]
  <2>5. call.answer = "done"
    <3>1. call.answer # "pending"
      BY <2>2
      DEF Monitor!Arrives, Monitor!Toggled, Monitor!JobsArrive, Monitor!ToggleFails,
          Monitor!AlertCreated, Monitor!AlertDeleted,
         Monitor!TelegramTested
    <3>2. call.answer # "failed"
      BY <2>1 DEF Monitor!Expected
    <3>3. call.answer \in {"pending", "done", "failed"}
      BY <1>2, <2>2 DEF Monitor!Call
    <3> QED
      BY <3>1, <3>2, <3>3
  <2>6. CASE Monitor!Toggled(i)
    <3>1. call.kind = "toggle" /\ Monitor!Halfway(call)
      BY <2>2, <2>5, <2>6 DEF Monitor!Toggled, Monitor!Halfway
    <3>2. calls' = <<Monitor!NewCall("jobs", None)>>
      BY <2>3, <2>6 DEF Monitor!Toggled, Monitor!ThenJobs
    <3>3. Len(calls') = 1 /\ calls'[1] = Monitor!NewCall("jobs", None)
      BY <3>2
    <3>4. \A s \in Strategies : page'.data.strategies[s] =
             IF s # call.about \/ page.data.strategies[s] = "none" THEN page.data.strategies[s]
             ELSE call.data.strategies[s]
      BY <1>2, <2>2, <2>6 DEF Monitor!Toggled, Monitor!Page, Monitor!Data
    <3>5. page'.data.signals = page.data.signals /\ page'.data.alerts = page.data.alerts
      BY <1>2, <2>6 DEF Monitor!Toggled, Monitor!Page, Monitor!Data
    <3>6. Monitor!StillListed /\ (call.about \in Strategies =>
                                    call.data.strategies[call.about] =
                                      server.strategies[call.about])
      BY <2>1, <2>5, <3>1 DEF Monitor!Expected, Monitor!StrategiesExpect
    <3>7. Monitor!StillListed'
      BY <1>1, <3>4, <3>6 DEF Monitor!StillListed
    <3>8. Monitor!Expected(calls[1])'
      BY <1>1, <1>3, <2>1, <3>1, <3>3, <3>5, <3>7
      DEF Monitor!Expected, Monitor!StrategiesExpect, Monitor!AlertsExpect, Monitor!Halfway
    <3> QED
      BY <1>1, <2>1, <3>3, <3>8 DEF Monitor!Told
  <2>7. CASE Monitor!JobsArrive(i)
    <3>1. calls' = <<>> /\ call.kind = "jobs" /\
            page'.data = [page.data EXCEPT !.jobs = call.data.jobs]
      BY <1>2, <2>2, <2>3, <2>7 DEF Monitor!JobsArrive, Monitor!Page
    <3>2. Monitor!StillListed /\ call.data.jobs = server.jobs
      BY <2>1, <2>5, <3>1 DEF Monitor!Expected, Monitor!StrategiesExpect, Monitor!Halfway
    <3>3. /\ page'.data.strategies = page.data.strategies /\ page'.data.jobs = server.jobs
          /\ page'.data.signals = page.data.signals /\ page'.data.alerts = page.data.alerts
      BY <1>2, <3>1, <3>2 DEF Monitor!Data
    <3>4. \A s \in Strategies :
            \/ server.strategies[s] = "active" /\ server.jobs[s] = "running"
            \/ server.strategies[s] = "paused" /\ server.jobs[s] = "paused"
      BY DEF Monitor!MonitorInv, Monitor!JobsFollow
    <3>5. Monitor!ActiveJobs' = Active
      BY <3>2, <3>3, <3>4 DEF Monitor!ActiveJobs, Active, Monitor!StillListed
    <3>6. Monitor!Mirrors'
      BY <1>1, <2>1, <3>1, <3>3, <3>5
      DEF Monitor!Mirrors, Active, Monitor!Expected, Monitor!AlertsExpect
    <3> QED
      BY <2>4, <3>1, <3>6 DEF Monitor!Told
  <2>8. CASE Monitor!AlertCreated(i) \/ Monitor!AlertDeleted(i) \/ Monitor!TelegramTested(i)
    <3>1. calls' = <<>> /\ call.kind \notin {"toggle", "jobs"}
      BY <2>2, <2>3, <2>8 DEF Monitor!AlertCreated, Monitor!AlertDeleted, Monitor!TelegramTested
    <3>2. /\ page'.data.strategies = page.data.strategies /\ page'.data.jobs = page.data.jobs
          /\ page'.data.signals = page.data.signals
          /\ page'.data.alerts = IF call.kind = "create" THEN <<call.about>> \o page.data.alerts
                                 ELSE IF call.kind = "delete"
                                 THEN Monitor!Only(page.data.alerts, Alerts \ {call.about})
                                 ELSE page.data.alerts
      <4>1. CASE Monitor!AlertCreated(i)
        <5>1. call.kind = "create" /\
              page' = [page EXCEPT !.data.alerts = <<call.about>> \o @, !.alertForm = "empty",
                                   !.creatingAlert = FALSE]
          BY <2>2, <2>5, <4>1 DEF Monitor!AlertCreated
        <5>2. page'.data = [page.data EXCEPT !.alerts = <<call.about>> \o @]
          BY <1>2, <5>1 DEF Monitor!Page
        <5> QED
          BY <1>2, <5>1, <5>2 DEF Monitor!Data
      <4>2. CASE Monitor!AlertDeleted(i)
        <5>1. call.kind = "delete" /\
              page' = [page EXCEPT !.data.alerts = Monitor!Only(@, Alerts \ {call.about}),
                                   !.deleteTarget = None, !.deleting = FALSE]
          BY <2>2, <2>5, <4>2 DEF Monitor!AlertDeleted
        <5>2. page'.data = [page.data EXCEPT !.alerts = Monitor!Only(@, Alerts \ {call.about})]
          BY <1>2, <5>1 DEF Monitor!Page
        <5> QED
          BY <1>2, <5>1, <5>2 DEF Monitor!Data
      <4>3. CASE Monitor!TelegramTested(i)
        BY <1>2, <2>2, <4>3 DEF Monitor!TelegramTested, Monitor!Page
      <4> QED
        BY <2>8, <4>1, <4>2, <4>3
    <3>3. Monitor!ActiveJobs = Active
      BY <2>1, <3>1 DEF Monitor!Expected, Monitor!StrategiesExpect, Monitor!Halfway, Active
    <3>4. Monitor!ActiveJobs' = Active
      BY <3>2, <3>3 DEF Monitor!ActiveJobs
    <3>5. Monitor!Mirrors'
      BY <1>1, <2>1, <2>5, <3>2, <3>4
      DEF Monitor!Mirrors, Active, Monitor!Expected, Monitor!AlertsExpect
    <3> QED
      BY <2>4, <3>1, <3>5 DEF Monitor!Told
  <2> QED
    BY <2>2, <2>5, <2>6, <2>7, <2>8 DEF Monitor!Arrives, Monitor!ToggleFails
<1> QED
  BY <1>6, <1>7, <1>8

LEMMA MonitorNext ==
    Monitor!MonitorInv /\ (Monitor!Next \/ UNCHANGED Monitor!vars) => Monitor!MonitorInv'
<1> SUFFICES ASSUME Monitor!MonitorInv, (Monitor!Next \/ UNCHANGED Monitor!vars)
             PROVE Monitor!MonitorInv'
  OBVIOUS
<1>0. Monitor!TypeOK'
  BY MonitorTypes DEF Monitor!MonitorInv
<1>1. CASE Monitor!LoadData
  BY <1>0, <1>1, LoadDataKeeps DEF Monitor!MonitorInv
<1>2. CASE \E i \in DOMAIN loads :
             Monitor!LoadArrives(i) \/ Monitor!LoadFails(i) \/
               \E part \in Monitor!Parts : Monitor!Serve(i, part)
  BY <1>0, <1>2, LoadAnswerKeeps, ServeKeeps DEF Monitor!MonitorInv
<1>3. CASE UserOfMonitor
  BY <1>0, <1>3, MonitorUserKeeps DEF Monitor!MonitorInv
<1>4. CASE \E i \in DOMAIN calls : Monitor!ServeCall(i) \/ Monitor!Arrives(i)
  BY <1>0, <1>4, MonitorServeKeeps, MonitorAnswerKeeps DEF Monitor!MonitorInv
<1>5. CASE Monitor!EmitSignal
  <2>1. /\ calls' = calls /\ behind' = TRUE
        /\ server'.strategies = server.strategies /\ server'.jobs = server.jobs
    BY <1>5 DEF Monitor!EmitSignal, Monitor!MonitorInv, Monitor!TypeOK, Monitor!Data
  <2>2. \A i \in DOMAIN loads' : ~loads'[i].alone
    BY <1>5, AccompaniedTypes DEF Monitor!EmitSignal, Monitor!MonitorInv, Monitor!TypeOK
  <2> QED
    BY <1>0, <2>1, <2>2
    DEF Monitor!MonitorInv, Monitor!AlertsAreMeant, Monitor!JobsFollow, Monitor!AloneIsFresh
<1>6. CASE UNCHANGED Monitor!vars
  <2>1. UNCHANGED <<page, loads, calls, server, behind>>
    BY <1>6 DEF Monitor!vars
  <2>2. Monitor!Expected(calls[1]) => Monitor!Expected(calls[1])'
    BY <2>1
    DEF Monitor!Expected, Monitor!StrategiesExpect, Monitor!AlertsExpect, Monitor!Halfway,
        Monitor!StillListed, Monitor!ActiveJobs
  <2>3. Monitor!LoadsAreFresh => Monitor!LoadsAreFresh'
    BY <2>1 DEF Monitor!LoadsAreFresh, Monitor!Served
  <2>4. Monitor!Told => Monitor!Told'
    BY <2>1, <2>2, <2>3 DEF Monitor!Told, Monitor!Mirrors, Monitor!ActiveJobs
  <2> QED
    BY <1>0, <2>1, <2>3, <2>4
    DEF Monitor!MonitorInv, Monitor!AlertsAreMeant, Monitor!JobsFollow, Monitor!AloneIsFresh
<1> QED
  BY <1>1, <1>2, <1>3, <1>4, <1>5, <1>6 DEF Monitor!Next, UserOfMonitor

LEMMA MonitorStarts == Monitor!Init => Monitor!MonitorInv
<1> SUFFICES ASSUME Monitor!Init PROVE Monitor!MonitorInv
  OBVIOUS
<1>1. loads = <<>> /\ calls = <<>> /\ behind
  BY DEF Monitor!Init
<1>2. server.strategies = [s \in Strategies |-> "active"] /\
        server.jobs = [s \in Strategies |-> "running"]
  BY EmptyTypes DEF Monitor!Init, Monitor!Data
<1> QED
  BY <1>1, <1>2, MonitorInitTypes
  DEF Monitor!MonitorInv, Monitor!AlertsAreMeant, Monitor!JobsFollow, Monitor!AloneIsFresh

LEMMA MonitorShows == Monitor!MonitorInv => Monitor!MonitorShowsServer
<1> SUFFICES ASSUME Monitor!MonitorInv, loads = <<>>, calls = <<>>, ~behind PROVE Monitor!Mirrors
  BY DEF Monitor!MonitorShowsServer
<1>1. Len(<<>>) = 0
  OBVIOUS
<1> QED
  BY <1>1 DEF Monitor!MonitorInv, Monitor!Told

-----------------------------------------------------------------------------
(***************************************************************************)
(* The page of the market data.                                            *)
(***************************************************************************)
LEMMA DataBoundTypes ==
    ASSUME Data!TypeOK, Data!Clicks \/ Data!Fails \/ Data!Succeeds
    PROVE  clicks' \in 0 .. FewClicks /\ failures' \in 0 .. MaxFailures
BY FewBounds DEF Data!TypeOK, Data!Clicks, Data!Fails, Data!Succeeds, Data!bounds

LEMMA DataInitTypes == Data!Init => Data!TypeOK
<1> SUFFICES ASSUME Data!Init PROVE Data!TypeOK
  OBVIOUS
<1>1. 0 \in 0 .. MaxVersions /\ 1 \in 0 .. MaxVersions
  BY ListsAssumption
<1>2. Data!NoFiles \in Data!Tables /\ [Files -> {0, 1}] \subseteq Data!Tables
  BY <1>1 DEF Data!NoFiles, Data!Tables
<1>3. page \in Data!Page
  BY <1>2 DEF Data!Init, Data!Page, Data!Modal, Data!OrNone
<1>4. server \in [files: Data!Tables, imports: SUBSET Files]
  BY <1>2 DEF Data!Init
<1>5. loads \in Seq(Data!Load) /\ calls \in Seq(Data!Call)
  BY DEF Data!Init
<1>6. clicks \in 0 .. FewClicks /\ failures \in 0 .. MaxFailures
  <2>1. clicks = 0 /\ failures = 0
    BY DEF Data!Init
  <2>2. FewClicks \in Nat /\ MaxFailures \in Nat
    BY FewBounds
  <2> QED
    BY <2>1, <2>2
<1>7. behind \in BOOLEAN
  BY DEF Data!Init
<1> QED
  BY <1>3, <1>4, <1>5, <1>6, <1>7 DEF Data!TypeOK

LEMMA GoesOnTypes ==
    ASSUME NEW p \in Data!Page, NEW awaits \in {"nothing", "delete", "refresh"}
    PROVE  Data!GoesOn(p, awaits) \in Data!Page /\ Data!GoesOn(p, awaits).files = p.files
BY DEF Data!GoesOn, Data!Page, Data!OrNone

LEMMA NewLoadTypes ==
    ASSUME NEW awaits \in {"nothing", "delete", "refresh"}
    PROVE  /\ Data!NewLoad(awaits) \in Data!Load
           /\ ~Data!NewLoad(awaits).served /\ Data!NewLoad(awaits).alone = (loads = <<>>)
<1>1. Data!NoFiles \in Data!Tables
  BY ListsAssumption DEF Data!NoFiles, Data!Tables
<1> QED
  BY <1>1 DEF Data!NewLoad, Data!Load

LEMMA BumpedTypes ==
    ASSUME NEW files \in Data!Tables, NEW f
    PROVE  Data!Bumped(files, f) \in Data!Tables
<1>1. CASE files[f] < MaxVersions /\ f \in Files
  <2>1. files[f] \in 0 .. MaxVersions /\ files[f] + 1 \in 0 .. MaxVersions
    BY <1>1, ListsAssumption DEF Data!Tables
  <2> QED
    BY <1>1, <2>1 DEF Data!Bumped, Data!Tables
<1>2. CASE ~(files[f] < MaxVersions)
  BY <1>2 DEF Data!Bumped
<1>3. CASE f \notin Files
  BY <1>3 DEF Data!Bumped, Data!Tables
<1> QED
  BY <1>1, <1>2, <1>3

LEMMA DataAfterTypes ==
    ASSUME Data!TypeOK, NEW call \in Data!Call
    PROVE  Data!After(call) \in [files: Data!Tables, imports: SUBSET Files]
<1>1. server \in [files: Data!Tables, imports: SUBSET Files]
  BY DEF Data!TypeOK
<1>2. call.kind \in {"delete", "refresh", "import"} /\ call.about \in SUBSET Files
  BY DEF Data!Call, Data!Kinds
<1>3. CASE call.kind = "delete"
  <2>1. [f \in Files |-> IF f \in call.about THEN 0 ELSE server.files[f]] \in Data!Tables
    BY <1>1, ListsAssumption DEF Data!Tables
  <2> QED
    BY <1>1, <1>3, <2>1 DEF Data!After
<1>4. CASE call.kind = "refresh"
  BY <1>1, <1>4, BumpedTypes DEF Data!After
<1>5. CASE call.kind = "import"
  BY <1>1, <1>2, <1>5 DEF Data!After
<1> QED
  BY <1>2, <1>3, <1>4, <1>5

(* What is unforeseen leaves every load, but none alone.                   *)
LEMMA UnforeseenTypes ==
    ASSUME NEW inFlight \in Seq(Data!Load), Data!Unforeseen(inFlight)
    PROVE  /\ loads' \in Seq(Data!Load) /\ behind' = TRUE
           /\ \A i \in DOMAIN loads' : ~loads'[i].alone
<1>1. /\ DOMAIN loads' = 1 .. Len(inFlight) /\ Len(inFlight) \in Nat
      /\ loads' = [i \in 1 .. Len(inFlight) |-> [inFlight[i] EXCEPT !.alone = FALSE]]
  BY DEF Data!Unforeseen
<1>2. \A i \in 1 .. Len(inFlight) :
        loads'[i] = [inFlight[i] EXCEPT !.alone = FALSE] /\ inFlight[i] \in Data!Load
  BY <1>1
<1>3. \A i \in 1 .. Len(inFlight) : loads'[i] \in Data!Load /\ ~loads'[i].alone
  BY <1>2 DEF Data!Load
<1>4. loads' \in Seq(Data!Load)
  BY <1>1, <1>3
<1> QED
  BY <1>1, <1>3, <1>4 DEF Data!Unforeseen

LEMMA DataLoadTypes ==
    ASSUME Data!TypeOK,
           \/ Data!LoadData
           \/ \E i \in DOMAIN loads : Data!DataStatus(i) \/ Data!LoadArrives(i) \/ Data!LoadFails(i)
    PROVE  Data!TypeOK'
<1>1. CASE Data!LoadData
  <2>1. loads' \in Seq(Data!Load)
    BY <1>1, NewLoadTypes, Added DEF Data!LoadData, Data!TypeOK
  <2> QED
    BY <1>1, <2>1 DEF Data!LoadData, Data!TypeOK, Data!bounds
<1>2. ASSUME NEW i \in DOMAIN loads, Data!DataStatus(i) PROVE Data!TypeOK'
  <2>1. loads[i] \in Data!Load /\ server.files \in Data!Tables
    BY DEF Data!TypeOK
  <2>2. loads'[i] \in Data!Load /\ loads' = [loads EXCEPT ![i] = loads'[i]]
    BY <1>2, <2>1 DEF Data!DataStatus, Data!TypeOK, Data!Load
  <2>3. loads' \in Seq(Data!Load)
    BY <2>2 DEF Data!TypeOK
  <2> QED
    BY <1>2, <2>3 DEF Data!DataStatus, Data!TypeOK, Data!bounds
<1>3. ASSUME NEW i \in DOMAIN loads, Data!LoadArrives(i) PROVE Data!TypeOK'
  <2>1. loads[i] \in Data!Load /\ page \in Data!Page
    BY DEF Data!TypeOK
  <2>2. [page EXCEPT !.files = loads[i].files, !.error = FALSE, !.loading = FALSE] \in Data!Page
    BY <2>1 DEF Data!Page, Data!Load
  <2>3. page' \in Data!Page
    BY <1>3, <2>1, <2>2, GoesOnTypes DEF Data!LoadArrives, Data!Load
  <2>4. Data!RemoveAt(loads, i) \in Seq(Data!Load) /\ Tail(loads) \in Seq(Data!Load)
    BY Removed, DataRemoval DEF Data!TypeOK
  <2>5. loads' \in Seq(Data!Load) /\ behind' \in BOOLEAN
    BY <1>3, <2>1, <2>4, UnforeseenTypes DEF Data!LoadArrives, Data!TypeOK, Data!Load
  <2> QED
    BY <1>3, <2>3, <2>5 DEF Data!LoadArrives, Data!TypeOK, Data!bounds
<1>4. ASSUME NEW i \in DOMAIN loads, Data!LoadFails(i) PROVE Data!TypeOK'
  <2>1. loads[i] \in Data!Load /\ page \in Data!Page
    BY DEF Data!TypeOK
  <2>2. [page EXCEPT !.error = TRUE, !.loading = FALSE] \in Data!Page
    BY <2>1 DEF Data!Page
  <2>3. page' \in Data!Page
    BY <1>4, <2>1, <2>2, GoesOnTypes DEF Data!LoadFails, Data!Load
  <2>4. Data!RemoveAt(loads, i) \in Seq(Data!Load)
    BY Removed, DataRemoval DEF Data!TypeOK
  <2>5. loads' \in Seq(Data!Load) /\ behind' \in BOOLEAN
    BY <1>4, <2>4, UnforeseenTypes DEF Data!LoadFails
  <2> QED
    BY <1>4, <2>3, <2>5, DataBoundTypes DEF Data!LoadFails, Data!TypeOK
<1> QED
  BY <1>1, <1>2, <1>3, <1>4

(* What the user does: the loads and the server stay as they are, and a    *)
(* call that is sent waits for its answer.                                 *)
UserOfData ==
    \/ Data!HandleCancelDelete \/ Data!ExecuteDelete
    \/ Data!OpenModal \/ Data!HandleClose \/ Data!ToggleTimeframe \/ Data!HandleSubmit
    \/ \E f \in Files : Data!HandleDelete(f) \/ Data!HandleRefresh(f)
    \/ \E f \in Files : Data!HandleAddSymbol(f) \/ Data!HandleRemoveSymbol(f)

LEMMA DataUserTypes ==
    ASSUME Data!TypeOK, UserOfData
    PROVE  /\ Data!TypeOK'
           /\ page'.files = page.files /\ UNCHANGED <<loads, server, behind>>
           /\ DOMAIN calls \subseteq DOMAIN calls' /\ \A i \in DOMAIN calls : calls'[i] = calls[i]
<1>0. page \in Data!Page /\ page.modal \in Data!Modal /\ calls \in Seq(Data!Call)
  BY DEF Data!TypeOK, Data!Page
<1>1. ASSUME NEW kind \in Data!Kinds, NEW about \in SUBSET Files, Data!Send(kind, about)
      PROVE  /\ calls' \in Seq(Data!Call)
             /\ DOMAIN calls \subseteq DOMAIN calls' /\ \A i \in DOMAIN calls : calls'[i] = calls[i]
  <2>1. [kind |-> kind, about |-> about, answer |-> "pending"] \in Data!Call
    BY DEF Data!Call
  <2> QED
    BY <1>0, <1>1, <2>1, Added DEF Data!Send
<1>2. CASE Data!HandleCancelDelete
  <2>1. page' \in Data!Page /\ page'.files = page.files
    BY <1>0, <1>2 DEF Data!HandleCancelDelete, Data!Page, Data!OrNone
  <2> QED
    BY <1>2, <2>1 DEF Data!HandleCancelDelete, Data!TypeOK, Data!bounds
<1>3. CASE Data!ExecuteDelete
  <2>1. page' \in Data!Page /\ page'.files = page.files
    BY <1>0, <1>3 DEF Data!ExecuteDelete, Data!Page
  <2>2. {page.itemToDelete} \in SUBSET Files /\ "delete" \in Data!Kinds
    BY <1>0, <1>3 DEF Data!ExecuteDelete, Data!Page, Data!OrNone, Data!Kinds
  <2> QED
    BY <1>1, <1>3, <2>1, <2>2, DataBoundTypes DEF Data!ExecuteDelete, Data!TypeOK
<1>4. CASE Data!OpenModal
  <2>1. page' \in Data!Page /\ page'.files = page.files
    BY <1>0, <1>4 DEF Data!OpenModal, Data!Page, Data!Modal
  <2> QED
    BY <1>4, <2>1, DataBoundTypes DEF Data!OpenModal, Data!TypeOK
<1>5. CASE Data!HandleClose
  <2> DEFINE closed == [page.modal EXCEPT !.open = FALSE, !.step = 1, !.error = FALSE,
               !.symbols = {}]
  <2>1. closed \in Data!Modal
    BY <1>0 DEF Data!Modal
  <2>2. page' = [page EXCEPT !.modal = closed]
    BY <1>0, <1>5 DEF Data!HandleClose, Data!Page, Data!Modal
  <2>3. page' \in Data!Page /\ page'.files = page.files
    BY <1>0, <2>1, <2>2 DEF Data!Page
  <2> QED
    BY <1>5, <2>3 DEF Data!HandleClose, Data!TypeOK, Data!bounds
<1>6. CASE Data!ToggleTimeframe
  <2>1. page' \in Data!Page /\ page'.files = page.files
    BY <1>0, <1>6 DEF Data!ToggleTimeframe, Data!Page, Data!Modal
  <2> QED
    BY <1>6, <2>1 DEF Data!ToggleTimeframe, Data!TypeOK, Data!bounds
<1>7. CASE Data!HandleSubmit
  <2>1. page' \in Data!Page /\ page'.files = page.files
    <3>1. /\ [page.modal EXCEPT !.error = TRUE] \in Data!Modal
          /\ [page.modal EXCEPT !.loading = TRUE, !.error = FALSE] \in Data!Modal
      BY <1>0 DEF Data!Modal
    <3>2. \/ page' = [page EXCEPT !.modal = [page.modal EXCEPT !.error = TRUE]]
          \/ page' = [page EXCEPT !.modal = [page.modal EXCEPT !.loading = TRUE, !.error = FALSE]]
      BY <1>0, <1>7 DEF Data!HandleSubmit, Data!Page
    <3> QED
      BY <1>0, <3>1, <3>2 DEF Data!Page
  <2>2. "import" \in Data!Kinds /\ page.modal.symbols \in SUBSET Files
    BY <1>0 DEF Data!Kinds, Data!Modal
  <2>3. CASE UNCHANGED <<calls, Data!bounds>>
    BY <1>7, <2>1, <2>3 DEF Data!HandleSubmit, Data!TypeOK, Data!bounds
  <2>4. CASE Data!Clicks /\ Data!Send("import", page.modal.symbols)
    BY <1>1, <1>7, <2>1, <2>2, <2>4, DataBoundTypes DEF Data!HandleSubmit, Data!TypeOK
  <2> QED
    BY <1>7, <2>3, <2>4 DEF Data!HandleSubmit
<1>8. ASSUME NEW f \in Files, Data!HandleDelete(f)
      PROVE  /\ page' \in Data!Page /\ page'.files = page.files
             /\ UNCHANGED <<loads, calls, server, behind, Data!bounds>>
  BY <1>0, <1>8 DEF Data!HandleDelete, Data!Page, Data!OrNone
<1>9. ASSUME NEW f \in Files, Data!HandleRefresh(f)
      PROVE  /\ page' \in Data!Page /\ page'.files = page.files /\ Data!Send("refresh", {f})
             /\ Data!Clicks
             /\ UNCHANGED <<loads, server, behind>>
  BY <1>0, <1>9 DEF Data!HandleRefresh, Data!Page, Data!OrNone
<1>10. ASSUME NEW f \in Files, Data!HandleAddSymbol(f) \/ Data!HandleRemoveSymbol(f)
       PROVE  /\ page' \in Data!Page /\ page'.files = page.files
              /\ UNCHANGED <<loads, calls, server, behind, Data!bounds>>
  BY <1>0, <1>10 DEF Data!HandleAddSymbol, Data!HandleRemoveSymbol, Data!Page, Data!Modal
<1>11. "refresh" \in Data!Kinds
  BY DEF Data!Kinds
<1>12. CASE \E f \in Files : Data!HandleDelete(f) \/ Data!HandleAddSymbol(f) \/
              Data!HandleRemoveSymbol(f)
  BY <1>8, <1>10, <1>12 DEF Data!TypeOK, Data!bounds
<1>13. CASE \E f \in Files : Data!HandleRefresh(f)
  BY <1>1, <1>9, <1>11, <1>13, DataBoundTypes DEF Data!TypeOK
<1> QED
  BY <1>2, <1>3, <1>4, <1>5, <1>6, <1>7, <1>12, <1>13 DEF UserOfData

LEMMA DataCallTypes ==
    ASSUME Data!TypeOK,
           \/ \E i \in DOMAIN calls : Data!ServeCall(i) \/ Data!Arrives(i)
           \/ \E f \in Files : Data!RunHistoricalImport(f)
    PROVE  Data!TypeOK'
<1>1. ASSUME NEW i \in DOMAIN calls, Data!ServeCall(i) PROVE Data!TypeOK'
  <2>1. calls[i] \in Data!Call
    BY DEF Data!TypeOK
  <2>2. Data!After(calls[i]) \in [files: Data!Tables, imports: SUBSET Files]
    BY <2>1, DataAfterTypes
  <2>3. server' \in [files: Data!Tables, imports: SUBSET Files]
    BY <1>1, <2>2 DEF Data!ServeCall, Data!TypeOK
  <2>4. calls' \in Seq(Data!Call)
    <3>1. PICK answer \in {"done", "failed"} : calls' = [calls EXCEPT ![i].answer = answer]
      BY <1>1 DEF Data!ServeCall
    <3>2. [calls[i] EXCEPT !.answer = answer] \in Data!Call
      BY <2>1 DEF Data!Call
    <3> QED
      BY <3>1, <3>2 DEF Data!TypeOK
  <2>5. loads' \in Seq(Data!Load) /\ behind' \in BOOLEAN
    BY <1>1, UnforeseenTypes DEF Data!ServeCall, Data!TypeOK
  <2>6. Data!Succeeds \/ Data!Fails
    BY <1>1 DEF Data!ServeCall
  <2> QED
    BY <1>1, <2>3, <2>4, <2>5, <2>6, DataBoundTypes DEF Data!ServeCall, Data!TypeOK
<1>2. ASSUME NEW i \in DOMAIN calls, Data!Answered(i) PROVE Data!TypeOK'
  <2>1. loads' \in Seq(Data!Load)
    BY <1>2, NewLoadTypes, Added DEF Data!Answered, Data!TypeOK
  <2> QED
    BY <1>2, <2>1, Removed, DataRemoval DEF Data!Answered, Data!TypeOK, Data!bounds
<1>3. ASSUME NEW i \in DOMAIN calls, Data!CallFails(i) PROVE Data!TypeOK'
  <2>1. page' \in Data!Page
    BY <1>3, GoesOnTypes DEF Data!CallFails, Data!TypeOK
  <2> QED
    BY <1>3, <2>1, Removed, DataRemoval DEF Data!CallFails, Data!TypeOK, Data!bounds
<1>4. ASSUME NEW i \in DOMAIN calls, Data!Imported(i) PROVE Data!TypeOK'
  <2>1. page' \in Data!Page
    <3>1. page \in Data!Page /\ page.modal \in Data!Modal
      BY DEF Data!TypeOK, Data!Page
    <3>2. /\ [page.modal EXCEPT !.step = 2, !.loading = FALSE] \in Data!Modal
          /\ [page.modal EXCEPT !.error = TRUE, !.loading = FALSE] \in Data!Modal
      BY <3>1 DEF Data!Modal
    <3>3. \/ page' = [page EXCEPT !.modal = [page.modal EXCEPT !.step = 2, !.loading = FALSE]]
          \/ page' = [page EXCEPT !.modal = [page.modal EXCEPT !.error = TRUE, !.loading = FALSE]]
      BY <1>4, <3>1 DEF Data!Imported, Data!Page
    <3> QED
      BY <3>1, <3>2, <3>3 DEF Data!Page
  <2>2. loads' \in Seq(Data!Load)
    <3>1. loads' = loads \/ loads' = Append(loads, Data!NewLoad("nothing"))
      BY <1>4 DEF Data!Imported
    <3> QED
      BY <3>1, NewLoadTypes, Added DEF Data!TypeOK
  <2>3. calls' \in Seq(Data!Call)
    BY <1>4, Removed, DataRemoval DEF Data!Imported, Data!TypeOK
  <2> QED
    BY <1>4, <2>1, <2>2, <2>3 DEF Data!Imported, Data!TypeOK, Data!bounds
<1>5. ASSUME NEW f \in Files, Data!RunHistoricalImport(f) PROVE Data!TypeOK'
  <2>1. server \in [files: Data!Tables, imports: SUBSET Files]
    BY DEF Data!TypeOK
  <2>2. Data!Bumped(server.files, f) \in Data!Tables
    BY <2>1, BumpedTypes
  <2>3. server' \in [files: Data!Tables, imports: SUBSET Files]
    BY <1>5, <2>1, <2>2 DEF Data!RunHistoricalImport
  <2>4. loads' \in Seq(Data!Load) /\ behind' \in BOOLEAN
    BY <1>5, UnforeseenTypes DEF Data!RunHistoricalImport, Data!TypeOK
  <2>5. Data!Succeeds \/ Data!Fails
    BY <1>5 DEF Data!RunHistoricalImport
  <2> QED
    BY <1>5, <2>3, <2>4, <2>5, DataBoundTypes DEF Data!RunHistoricalImport, Data!TypeOK
<1> QED
  BY <1>1, <1>2, <1>3, <1>4, <1>5 DEF Data!Arrives

LEMMA DataTypes == Data!TypeOK /\ (Data!Next \/ UNCHANGED Data!vars) => Data!TypeOK'
<1> SUFFICES ASSUME Data!TypeOK, (Data!Next \/ UNCHANGED Data!vars) PROVE Data!TypeOK'
  OBVIOUS
<1>1. CASE Data!Next
  BY <1>1, DataLoadTypes, DataUserTypes, DataCallTypes DEF Data!Next, UserOfData
<1>2. CASE UNCHANGED Data!vars
  BY <1>2 DEF Data!vars, Data!bounds, Data!TypeOK
<1> QED
  BY <1>1, <1>2

-----------------------------------------------------------------------------
LEMMA DataLoadSent ==
    ASSUME Data!DataInv, Data!TypeOK', NEW awaits \in {"nothing", "delete", "refresh"},
           loads' = Append(loads, Data!NewLoad(awaits))
    PROVE  Data!AloneIsFirst' /\ Data!TableComes'
<1>1. loads \in Seq(Data!Load) /\ Data!NewLoad(awaits) \in Data!Load
  BY NewLoadTypes DEF Data!DataInv, Data!TypeOK
<1>2. /\ DOMAIN loads' = DOMAIN loads \cup {Len(loads) + 1}
      /\ loads'[Len(loads) + 1] = Data!NewLoad(awaits)
      /\ \A j \in DOMAIN loads : loads'[j] = loads[j]
      /\ Len(loads') = Len(loads) + 1 /\ loads' # <<>>
  BY <1>1, Added
<1>3. ~loads'[Len(loads')].served /\ (loads'[Len(loads')].alone => Len(loads') = 1)
  <2>1. loads'[Len(loads')] = Data!NewLoad(awaits)
    BY <1>1, <1>2
  <2>2. loads = <<>> => Len(loads') = 1
    BY <1>2
  <2> QED
    BY <2>1, <2>2, NewLoadTypes
<1>4. Data!AloneIsFirst'
  BY <1>2, <1>3 DEF Data!DataInv, Data!AloneIsFirst
<1>5. Data!TableComes'
  BY <1>2, <1>3 DEF Data!TableComes, Data!Fresh
<1> QED
  BY <1>4, <1>5

LEMMA DataLoadAnswered ==
    ASSUME Data!DataInv, NEW i \in DOMAIN loads, Data!LoadArrives(i) \/ Data!LoadFails(i)
    PROVE  Data!AloneIsFirst' /\ Data!TableComes'
<1>0. loads \in Seq(Data!Load) /\ Data!RemoveAt(loads, i) \in Seq(Data!Load)
  BY Removed, DataRemoval DEF Data!DataInv, Data!TypeOK
<1>1. CASE Data!Unforeseen(Data!RemoveAt(loads, i))
  <2>1. behind' = TRUE /\ \A j \in DOMAIN loads' : ~loads'[j].alone
    BY <1>0, <1>1, UnforeseenTypes
  <2>2. loads' \in Seq(Data!Load)
    BY <1>0, <1>1, UnforeseenTypes
  <2>3. loads' # <<>> => 1 \in DOMAIN loads'
    BY <2>2
  <2> QED
    BY <2>1, <2>3 DEF Data!AloneIsFirst, Data!TableComes, Data!Foreseen
<1>2. CASE Data!LoadArrives(i) /\ i = 1
  <2>1. /\ loads' = Tail(loads) /\ behind' = (behind /\ ~loads[1].alone) /\ loads[1].served
        /\ calls' = calls /\ server' = server
    BY <1>2 DEF Data!LoadArrives
  <2>2. page'.files = loads[1].files
    <3>1. loads[1] \in Data!Load /\ page \in Data!Page
      BY <1>2 DEF Data!DataInv, Data!TypeOK
    <3>2. [page EXCEPT !.files = loads[1].files, !.error = FALSE, !.loading = FALSE] \in Data!Page
      BY <3>1 DEF Data!Page, Data!Load
    <3> QED
      BY <1>2, <3>1, <3>2, GoesOnTypes DEF Data!LoadArrives, Data!Load, Data!Page
  <2>3. /\ Len(loads') = Len(loads) - 1 /\ Len(loads) \in Nat \ {0}
        /\ DOMAIN loads' = 1 .. Len(loads')
        /\ \A j \in DOMAIN loads' : j + 1 \in DOMAIN loads /\ loads'[j] = loads[j + 1]
    BY <1>0, <1>2, <2>1
  <2>4. \A j \in DOMAIN loads' : ~loads'[j].alone
    BY <2>3 DEF Data!DataInv, Data!AloneIsFirst
  <2>5. loads # <<>> /\ (loads' = <<>> <=> Len(loads) = 1) /\ (loads' # <<>> => 1 \in DOMAIN loads')
    <3>1. loads # <<>> /\ Tail(loads) \in Seq(Data!Load)
      BY <1>0, <1>2
    <3>2. (loads' = <<>> <=> Len(loads') = 0) /\ Len(loads') \in Nat
      <4>1. \A s \in Seq(Data!Load) : Len(s) \in Nat /\ (s = <<>> <=> Len(s) = 0)
        OBVIOUS
      <4> QED
        BY <3>1, <2>1, <4>1
    <3>3. loads' = <<>> <=> Len(loads) = 1
      BY <3>2, <2>3
    <3>4. loads' # <<>> => 1 \in 1 .. Len(loads')
      BY <3>2
    <3> QED
      BY <3>1, <3>3, <3>4, <2>3
  <2>6. ASSUME Data!Foreseen' PROVE Data!Foreseen
    BY <2>1, <2>4, <2>5, <2>6 DEF Data!Foreseen
  <2>7. ASSUME Data!Fresh(loads[Len(loads)])
        PROVE  \/ loads' # <<>> /\ Data!Fresh(loads[Len(loads)])'
               \/ loads' = <<>> /\ Data!Mirrors'
    BY <2>1, <2>2, <2>5, <2>7 DEF Data!Fresh, Data!Mirrors
  <2>8. loads' # <<>> => loads'[Len(loads')] = loads[Len(loads)]
    BY <2>3, <2>5
  <2>9. Data!TableComes'
    BY <2>1, <2>5, <2>6, <2>7, <2>8 DEF Data!DataInv, Data!TableComes, Data!Fresh, Data!Mirrors
  <2> QED
    BY <2>4, <2>9 DEF Data!AloneIsFirst
<1> QED
  BY <1>1, <1>2 DEF Data!LoadArrives, Data!LoadFails

LEMMA DataLoadServed ==
    ASSUME Data!DataInv, NEW i \in DOMAIN loads, Data!DataStatus(i)
    PROVE  Data!AloneIsFirst' /\ Data!TableComes'
<1>0. loads \in Seq(Data!Load) /\ loads[i] \in Data!Load
  BY DEF Data!DataInv, Data!TypeOK
<1>1. /\ DOMAIN loads' = DOMAIN loads /\ Len(loads') = Len(loads)
      /\ loads' = <<>> <=> loads = <<>>
      /\ \A j \in DOMAIN loads : loads'[j].alone = loads[j].alone
      /\ \A j \in DOMAIN loads :
            \/ loads'[j].served /\ loads'[j].files = server.files
            \/ loads'[j] = loads[j]
  BY <1>0 DEF Data!DataStatus, Data!Load
<1>2. loads # <<>> => 1 \in DOMAIN loads /\ Len(loads) \in DOMAIN loads
  BY <1>0
<1>3. page' = page /\ calls' = calls /\ server' = server /\ behind' = behind
  BY DEF Data!DataStatus
<1>4. Data!Foreseen' <=> Data!Foreseen
  BY <1>1, <1>2, <1>3 DEF Data!Foreseen
<1>5. \A j \in DOMAIN loads : Data!Fresh(loads[j]) => Data!Fresh(loads[j])'
  BY <1>1, <1>3 DEF Data!Fresh
<1>6. Data!AloneIsFirst'
  BY <1>1 DEF Data!DataInv, Data!AloneIsFirst
<1>7. Data!TableComes'
  BY <1>1, <1>2, <1>3, <1>4, <1>5 DEF Data!DataInv, Data!TableComes, Data!Mirrors
<1> QED
  BY <1>6, <1>7

LEMMA DataCallStep ==
    ASSUME Data!DataInv, Data!TypeOK', NEW i \in DOMAIN calls, Data!ServeCall(i) \/
             Data!CallFails(i)
    PROVE  Data!AloneIsFirst' /\ Data!TableComes'
<1>0. loads \in Seq(Data!Load) /\ calls \in Seq(Data!Call) /\ calls[i] \in Data!Call
  BY DEF Data!DataInv, Data!TypeOK
<1>1. CASE Data!ServeCall(i) /\ Data!Unforeseen(loads)
  <2>1. behind' = TRUE /\ \A j \in DOMAIN loads' : ~loads'[j].alone
    BY <1>0, <1>1, UnforeseenTypes
  <2>2. loads' # <<>> => 1 \in DOMAIN loads'
    BY DEF Data!TypeOK
  <2> QED
    BY <2>1, <2>2 DEF Data!AloneIsFirst, Data!TableComes, Data!Foreseen
<1>2. CASE Data!ServeCall(i) /\ UNCHANGED <<loads, behind>>
  <2>1. page' = page /\ calls[i].answer = "pending"
    BY <1>2 DEF Data!ServeCall
  <2>2. \/ calls' = [calls EXCEPT ![i].answer = "done"] /\ server' = Data!After(calls[i])
        \/ calls' = [calls EXCEPT ![i].answer = "failed"] /\ server' = server
        \/ Data!Unforeseen(loads)
    BY <1>2 DEF Data!ServeCall
  <2>3. \A j \in DOMAIN calls : Data!WillLoad(calls[j]) => j \in DOMAIN calls' /\
          Data!WillLoad(calls'[j])
    BY <1>0, <2>1, <2>2, <1>1, <1>2 DEF Data!WillLoad, Data!ServeCall
  <2>4. \/ server'.files = server.files
        \/ i \in DOMAIN calls' /\ Data!WillLoad(calls'[i])
        \/ Data!Unforeseen(loads)
    <3>1. CASE calls' = [calls EXCEPT ![i].answer = "done"] /\ server' = Data!After(calls[i])
      <4>1. server \in [files: Data!Tables, imports: SUBSET Files]
        BY DEF Data!DataInv, Data!TypeOK
      <4>2. CASE calls[i].kind = "import"
        BY <3>1, <4>1, <4>2 DEF Data!After
      <4>3. CASE calls[i].kind # "import"
        BY <1>0, <3>1, <4>3 DEF Data!WillLoad, Data!Call, Data!Kinds
      <4> QED
        BY <4>2, <4>3
    <3> QED
      BY <2>2, <3>1
  <2>5. CASE ~Data!Unforeseen(loads)
    BY <1>2, <2>1, <2>3, <2>4, <2>5
    DEF Data!DataInv, Data!AloneIsFirst, Data!TableComes, Data!Foreseen, Data!Fresh, Data!Mirrors
  <2> QED
    BY <1>1, <1>2, <2>5
<1>3. CASE Data!CallFails(i)
  <2>1. /\ calls' = Data!RemoveAt(calls, i) /\ calls[i].answer = "failed"
        /\ UNCHANGED <<loads, server, behind>> /\ page' = Data!GoesOn(page, calls[i].kind)
        /\ calls[i].kind \in {"delete", "refresh"}
    BY <1>3 DEF Data!CallFails
  <2>2. page'.files = page.files
    BY <2>1, GoesOnTypes DEF Data!DataInv, Data!TypeOK
  <2>3. (\E j \in DOMAIN calls : Data!WillLoad(calls[j])) =>
          \E j \in DOMAIN calls' : Data!WillLoad(calls'[j])
    <3>1. \A j \in DOMAIN calls : j # i => \E k \in DOMAIN calls' : calls'[k] = calls[j]
      BY <1>0, <2>1, Stays, DataRemoval
    <3> QED
      BY <2>1, <3>1 DEF Data!WillLoad
  <2> QED
    BY <2>1, <2>2, <2>3
    DEF Data!DataInv, Data!AloneIsFirst, Data!TableComes, Data!Foreseen, Data!Fresh, Data!Mirrors
<1> QED
  BY <1>1, <1>2, <1>3 DEF Data!ServeCall

LEMMA DataAnswerStep ==
    ASSUME Data!DataInv, Data!TypeOK', NEW i \in DOMAIN calls, Data!Answered(i) \/ Data!Imported(i)
    PROVE  Data!AloneIsFirst' /\ Data!TableComes'
<1>0. calls \in Seq(Data!Call) /\ calls[i] \in Data!Call
  BY DEF Data!DataInv, Data!TypeOK
<1>1. CASE Data!Answered(i)
  BY <1>1, DataLoadSent DEF Data!Answered
<1>2. CASE Data!Imported(i) /\ calls[i].answer = "done"
  BY <1>2, DataLoadSent DEF Data!Imported
<1>3. CASE Data!Imported(i) /\ calls[i].answer # "done"
  <2>1. /\ calls' = Data!RemoveAt(calls, i) /\ calls[i].kind = "import"
        /\ UNCHANGED <<loads, server, behind>>
    BY <1>3 DEF Data!Imported
  <2>2. page'.files = page.files
    BY <1>3 DEF Data!Imported, Data!DataInv, Data!TypeOK, Data!Page
  <2>3. (\E j \in DOMAIN calls : Data!WillLoad(calls[j])) =>
          \E j \in DOMAIN calls' : Data!WillLoad(calls'[j])
    <3>1. \A j \in DOMAIN calls : j # i => \E k \in DOMAIN calls' : calls'[k] = calls[j]
      BY <1>0, <2>1, Stays, DataRemoval
    <3> QED
      BY <2>1, <3>1 DEF Data!WillLoad
  <2> QED
    BY <2>1, <2>2, <2>3
    DEF Data!DataInv, Data!AloneIsFirst, Data!TableComes, Data!Foreseen, Data!Fresh, Data!Mirrors
<1> QED
  BY <1>1, <1>2, <1>3

LEMMA DataNext == Data!DataInv /\ (Data!Next \/ UNCHANGED Data!vars) => Data!DataInv'
<1> SUFFICES ASSUME Data!DataInv, (Data!Next \/ UNCHANGED Data!vars) PROVE Data!DataInv'
  OBVIOUS
<1>0. Data!TypeOK'
  BY DataTypes DEF Data!DataInv
<1>1. CASE Data!LoadData
  BY <1>0, <1>1, DataLoadSent DEF Data!LoadData, Data!DataInv
<1>2. CASE \E i \in DOMAIN loads : Data!DataStatus(i) \/ Data!LoadArrives(i) \/ Data!LoadFails(i)
  BY <1>0, <1>2, DataLoadServed, DataLoadAnswered DEF Data!DataInv
<1>3. CASE UserOfData
  <2>1. /\ page'.files = page.files /\ UNCHANGED <<loads, server, behind>>
        /\ DOMAIN calls \subseteq DOMAIN calls' /\ \A i \in DOMAIN calls : calls'[i] = calls[i]
    BY <1>3, DataUserTypes DEF Data!DataInv
  <2> QED
    BY <1>0, <2>1
    DEF Data!DataInv, Data!AloneIsFirst, Data!TableComes, Data!Foreseen, Data!Fresh, Data!Mirrors
<1>4. CASE \E i \in DOMAIN calls : Data!ServeCall(i) \/ Data!Arrives(i)
  BY <1>0, <1>4, DataCallStep, DataAnswerStep DEF Data!Arrives, Data!DataInv
<1>5. CASE \E f \in Files : Data!RunHistoricalImport(f)
  <2>1. Data!Unforeseen(loads)
    BY <1>5 DEF Data!RunHistoricalImport
  <2>2. behind' = TRUE /\ \A j \in DOMAIN loads' : ~loads'[j].alone
    BY <2>1, UnforeseenTypes DEF Data!DataInv, Data!TypeOK
  <2>3. loads' # <<>> => 1 \in DOMAIN loads'
    BY <1>0 DEF Data!TypeOK
  <2> QED
    BY <1>0, <2>2, <2>3 DEF Data!DataInv, Data!AloneIsFirst, Data!TableComes, Data!Foreseen
<1>6. CASE UNCHANGED Data!vars
  BY <1>0, <1>6
  DEF Data!vars, Data!DataInv, Data!AloneIsFirst, Data!TableComes, Data!Foreseen, Data!Fresh,
      Data!Mirrors
<1> QED
  BY <1>1, <1>2, <1>3, <1>4, <1>5, <1>6 DEF Data!Next, UserOfData

LEMMA DataStarts == Data!Init => Data!DataInv
<1> SUFFICES ASSUME Data!Init PROVE Data!DataInv
  OBVIOUS
<1>1. loads = <<>> /\ behind
  BY DEF Data!Init
<1> QED
  BY <1>1, DataInitTypes DEF Data!DataInv, Data!AloneIsFirst, Data!TableComes, Data!Foreseen

LEMMA DataShows == Data!DataInv => Data!DataShowsServer
BY DEF Data!DataInv, Data!TypeOK, Data!TableComes, Data!Foreseen, Data!DataShowsServer

-----------------------------------------------------------------------------
(***************************************************************************)
(* The page of the portfolio.                                              *)
(***************************************************************************)
(* What the lists of strategies are, and what prev.map and prev.filter     *)
(* leave of them.                                                          *)
LEMMA ListedItems ==
    ASSUME NEW items \in Portfolio!Lists
    PROVE  /\ Len(items) \in Nat /\ DOMAIN items = 1 .. Len(items)
           /\ \A i \in DOMAIN items : /\ items[i] \in Portfolio!Item /\
                                           items[i].id \in SomeStrategies
                                      /\ items[i].active \in BOOLEAN
                                      /\ items[i].edition \in 0 .. MaxClicks
<1>1. items \in Seq(Portfolio!Item)
  BY DEF Portfolio!Lists
<1>2. Len(items) \in Nat /\ DOMAIN items = 1 .. Len(items) /\
        \A i \in DOMAIN items : items[i] \in Portfolio!Item
  BY <1>1
<1>3. \A x \in Portfolio!Item : x.id \in SomeStrategies /\ x.active \in BOOLEAN /\
        x.edition \in 0 .. MaxClicks
  BY DEF Portfolio!Item
<1> QED
  BY <1>2, <1>3

LEMMA OfList ==
    ASSUME NEW items \in Portfolio!Lists, NEW s
    PROVE  /\ \A x : x \in Portfolio!Of(items, s) <=> \E i \in DOMAIN items : items[i] = x /\
                items[i].id = s
           /\ (Portfolio!Of(items, s) = {}) <=> (s \notin Portfolio!Ids(items))
BY DEF Portfolio!Of, Portfolio!ToSet, Portfolio!Ids

LEMMA OneOf ==
    ASSUME NEW items \in Portfolio!Lists, Portfolio!Once(items), NEW s \in Portfolio!Ids(items)
    PROVE  /\ Portfolio!ItemOf(items, s) \in Portfolio!Item /\ Portfolio!ItemOf(items, s).id = s
           /\ Portfolio!Of(items, s) = {Portfolio!ItemOf(items, s)}
<1>1. PICK i \in DOMAIN items : items[i].id = s
  BY DEF Portfolio!Ids
<1>2. items[i] \in Portfolio!ToSet(items)
  BY DEF Portfolio!ToSet
<1>3. Portfolio!ItemOf(items, s) \in Portfolio!ToSet(items) /\ Portfolio!ItemOf(items, s).id = s
  BY <1>1, <1>2 DEF Portfolio!ItemOf
<1>4. PICK j \in DOMAIN items : items[j] = Portfolio!ItemOf(items, s)
  BY <1>3 DEF Portfolio!ToSet
<1>5. \A x \in Portfolio!Of(items, s) : x = Portfolio!ItemOf(items, s)
  BY <1>3, <1>4, OfList DEF Portfolio!Once
<1>6. Portfolio!ItemOf(items, s) \in Portfolio!Of(items, s)
  BY <1>3 DEF Portfolio!Of
<1> QED
  BY <1>3, <1>4, <1>5, <1>6, ListedItems

(* What prev.map does to the strategy id, and to no other.                 *)
LEMMA MappedLists ==
    ASSUME NEW items \in Portfolio!Lists, NEW other \in Portfolio!Lists, NEW id,
           DOMAIN other = DOMAIN items,
           \A i \in DOMAIN items : /\ other[i].id = items[i].id
                                   /\ items[i].id # id => other[i] = items[i]
    PROVE  /\ Portfolio!Ids(other) = Portfolio!Ids(items)
           /\ Portfolio!Once(items) <=> Portfolio!Once(other)
           /\ \A s : s # id => Portfolio!Of(other, s) = Portfolio!Of(items, s)
<1>1. Portfolio!Ids(other) = Portfolio!Ids(items)
  BY DEF Portfolio!Ids
<1>2. Portfolio!Once(items) <=> Portfolio!Once(other)
  BY DEF Portfolio!Once
<1>3. ASSUME NEW s, s # id PROVE Portfolio!Of(other, s) = Portfolio!Of(items, s)
  <2>1. \A x : x \in Portfolio!Of(other, s) <=> x \in Portfolio!Of(items, s)
    BY <1>3, OfList
  <2> QED
    BY <2>1
<1> QED
  BY <1>1, <1>2, <1>3

Switch(item) == [item EXCEPT !.active = ~@]
Edit(item) == [item EXCEPT !.edition = @ + 1]
Edited(items, id) == [i \in DOMAIN items |-> IF items[i].id = id THEN Edit(items[i]) ELSE items[i]]

LEMMA SwitchedLists ==
    ASSUME NEW items \in Portfolio!Lists, NEW id
    PROVE  /\ Portfolio!Switched(items, id) \in Portfolio!Lists
           /\ DOMAIN Portfolio!Switched(items, id) = DOMAIN items
           /\ \A i \in DOMAIN items : Portfolio!Switched(items, id)[i].edition = items[i].edition
           /\ Portfolio!Ids(Portfolio!Switched(items, id)) = Portfolio!Ids(items)
           /\ Portfolio!Once(items) <=> Portfolio!Once(Portfolio!Switched(items, id))
           /\ \A s : s # id =>
                Portfolio!Of(Portfolio!Switched(items, id), s) = Portfolio!Of(items, s)
           /\ Portfolio!Of(Portfolio!Switched(items, id), id) =
                {Switch(item) : item \in Portfolio!Of(items, id)}
<1> DEFINE other == Portfolio!Switched(items, id)
<1>1. /\ DOMAIN other = DOMAIN items
      /\ \A i \in DOMAIN items : other[i] = IF items[i].id = id THEN Switch(items[i]) ELSE items[i]
  BY DEF Portfolio!Switched, Switch
<1>2. \A item \in Portfolio!Item : /\ Switch(item) \in Portfolio!Item /\ Switch(item).id = item.id
                                   /\ Switch(item).edition = item.edition
  BY DEF Switch, Portfolio!Item
<1>3. other \in Portfolio!Lists
  <2>1. other = [i \in 1 .. Len(items) |-> other[i]]
    BY <1>1, ListedItems DEF Portfolio!Switched
  <2>2. \A i \in 1 .. Len(items) : other[i] \in Portfolio!Item
    BY <1>1, <1>2, ListedItems
  <2> HIDE DEF other
  <2>3. Len(items) \in Nat
    BY ListedItems
  <2> QED
    BY <2>1, <2>2, <2>3 DEF Portfolio!Lists
<1> HIDE DEF other
<1>4. \A i \in DOMAIN items : other[i].id = items[i].id /\ other[i].edition = items[i].edition
  BY <1>1, <1>2, ListedItems
<1>5. Portfolio!Of(other, id) = {Switch(item) : item \in Portfolio!Of(items, id)}
  <2>1. \A x \in Portfolio!Of(other, id) : \E item \in Portfolio!Of(items, id) : x = Switch(item)
    <3> TAKE x \in Portfolio!Of(other, id)
    <3>1. PICK i \in DOMAIN other : other[i] = x /\ other[i].id = id
      BY <1>3, OfList
    <3>2. items[i] \in Portfolio!Of(items, id)
      BY <1>1, <1>4, <3>1, OfList
    <3> QED
      BY <1>1, <1>4, <3>1, <3>2
  <2>2. \A item \in Portfolio!Of(items, id) : Switch(item) \in Portfolio!Of(other, id)
    <3> TAKE item \in Portfolio!Of(items, id)
    <3>1. PICK i \in DOMAIN items : items[i] = item /\ items[i].id = id
      BY OfList
    <3>2. other[i] = Switch(item) /\ other[i].id = id /\ i \in DOMAIN other
      BY <1>1, <1>4, <3>1
    <3> QED
      BY <1>3, <3>2, OfList
  <2> QED
    BY <2>1, <2>2
<1>6. /\ Portfolio!Ids(other) = Portfolio!Ids(items) /\
           (Portfolio!Once(items) <=> Portfolio!Once(other))
      /\ \A s : s # id => Portfolio!Of(other, s) = Portfolio!Of(items, s)
  <2>1. DOMAIN other = DOMAIN items /\
          \A i \in DOMAIN items : /\ other[i].id = items[i].id
                                  /\ items[i].id # id => other[i] = items[i]
    BY <1>1, <1>4
  <2> QED
    BY <1>3, <2>1, MappedLists
<1> QED
  BY <1>1, <1>3, <1>4, <1>5, <1>6 DEF other

LEMMA EditedLists ==
    ASSUME NEW items \in Portfolio!Lists, NEW id, \A i \in DOMAIN items :
             items[i].edition < MaxClicks
    PROVE  /\ Edited(items, id) \in Portfolio!Lists /\ DOMAIN Edited(items, id) = DOMAIN items
           /\ Portfolio!Ids(Edited(items, id)) = Portfolio!Ids(items)
           /\ Portfolio!Once(items) <=> Portfolio!Once(Edited(items, id))
           /\ \A s : s # id => Portfolio!Of(Edited(items, id), s) = Portfolio!Of(items, s)
           /\ \A i \in DOMAIN items : Edited(items, id)[i].edition <= items[i].edition + 1
<1> DEFINE other == Edited(items, id)
<1>0. MaxClicks \in Nat
  BY BoundsAssumption
<1>1. /\ DOMAIN other = DOMAIN items
      /\ \A i \in DOMAIN items : other[i] = IF items[i].id = id THEN Edit(items[i]) ELSE items[i]
  BY DEF Edited
<1>2. \A item \in Portfolio!Item : item.edition < MaxClicks =>
         Edit(item) \in Portfolio!Item /\ Edit(item).id = item.id /\
           Edit(item).edition = item.edition + 1
  BY <1>0 DEF Edit, Portfolio!Item
<1>3. other \in Portfolio!Lists
  <2>1. other = [i \in 1 .. Len(items) |-> other[i]]
    BY <1>1, ListedItems DEF Edited
  <2>2. \A i \in 1 .. Len(items) : other[i] \in Portfolio!Item
    BY <1>1, <1>2, ListedItems
  <2> HIDE DEF other
  <2>3. Len(items) \in Nat
    BY ListedItems
  <2> QED
    BY <2>1, <2>2, <2>3 DEF Portfolio!Lists
<1> HIDE DEF other
<1>4. \A i \in DOMAIN items : other[i].id = items[i].id /\ other[i].edition <= items[i].edition + 1
  <2> TAKE i \in DOMAIN items
  <2>1. items[i] \in Portfolio!Item /\ items[i].edition \in Nat /\ items[i].edition < MaxClicks
    BY ListedItems
  <2> QED
    BY <1>1, <1>2, <2>1
<1>6. /\ Portfolio!Ids(other) = Portfolio!Ids(items) /\
           (Portfolio!Once(items) <=> Portfolio!Once(other))
      /\ \A s : s # id => Portfolio!Of(other, s) = Portfolio!Of(items, s)
  <2>1. DOMAIN other = DOMAIN items /\
          \A i \in DOMAIN items : /\ other[i].id = items[i].id
                                  /\ items[i].id # id => other[i] = items[i]
    BY <1>1, <1>4
  <2> QED
    BY <1>3, <2>1, MappedLists
<1> QED
  BY <1>1, <1>3, <1>4, <1>6 DEF other

LEMMA ReplacedLists ==
    ASSUME NEW items \in Portfolio!Lists, NEW new \in Portfolio!Item
    PROVE  /\ Portfolio!Replaced(items, new) \in Portfolio!Lists
           /\ Portfolio!Once(items) => Portfolio!Once(Portfolio!Replaced(items, new))
           /\ \A s : s # new.id =>
                Portfolio!Of(Portfolio!Replaced(items, new), s) = Portfolio!Of(items, s)
           /\ Portfolio!Of(items, new.id) # {} =>
                Portfolio!Of(Portfolio!Replaced(items, new), new.id) = {new}
<1> DEFINE other == Portfolio!Replaced(items, new)
<1>1. /\ DOMAIN other = DOMAIN items
      /\ \A i \in DOMAIN items : other[i] = IF items[i].id = new.id THEN new ELSE items[i]
  BY DEF Portfolio!Replaced
<1>3. other \in Portfolio!Lists
  <2>1. other = [i \in 1 .. Len(items) |-> other[i]]
    BY <1>1, ListedItems DEF Portfolio!Replaced
  <2>2. \A i \in 1 .. Len(items) : other[i] \in Portfolio!Item
    BY <1>1, ListedItems
  <2> HIDE DEF other
  <2>3. Len(items) \in Nat
    BY ListedItems
  <2> QED
    BY <2>1, <2>2, <2>3 DEF Portfolio!Lists
<1> HIDE DEF other
<1>4. \A i \in DOMAIN items : other[i].id = items[i].id
  BY <1>1
<1>5. Portfolio!Of(items, new.id) # {} => Portfolio!Of(other, new.id) = {new}
  <2>1. \A x \in Portfolio!Of(other, new.id) : x = new
    BY <1>1, <1>3, <1>4, OfList
  <2>2. Portfolio!Of(items, new.id) # {} => new \in Portfolio!Of(other, new.id)
    <3> SUFFICES ASSUME Portfolio!Of(items, new.id) # {} PROVE new \in Portfolio!Of(other, new.id)
      OBVIOUS
    <3>1. PICK i \in DOMAIN items : items[i].id = new.id
      BY OfList
    <3> QED
      BY <1>1, <1>3, <3>1, OfList
  <2> QED
    BY <2>1, <2>2
<1>6. /\ Portfolio!Once(items) <=> Portfolio!Once(other)
      /\ \A s : s # new.id => Portfolio!Of(other, s) = Portfolio!Of(items, s)
  <2>1. DOMAIN other = DOMAIN items /\
          \A i \in DOMAIN items : /\ other[i].id = items[i].id
                                  /\ items[i].id # new.id => other[i] = items[i]
    BY <1>1, <1>4
  <2> QED
    BY <1>3, <2>1, MappedLists
<1> QED
  BY <1>3, <1>5, <1>6 DEF other

LEMMA WithoutLists ==
    ASSUME NEW items \in Portfolio!Lists, NEW id
    PROVE  /\ Portfolio!Without(items, id) \in Portfolio!Lists
           /\ Portfolio!Once(items) => Portfolio!Once(Portfolio!Without(items, id))
           /\ \A s : s # id =>
                Portfolio!Of(Portfolio!Without(items, id), s) = Portfolio!Of(items, s)
           /\ Portfolio!Of(Portfolio!Without(items, id), id) = {}
           /\ \A i \in DOMAIN Portfolio!Without(items, id) : \E k \in DOMAIN items :
                Portfolio!Without(items, id)[i] = items[k]
<1> DEFINE wanted == {item \in Portfolio!ToSet(items) : item.id # id}
           rest == Portfolio!Without(items, id)
<1>1. \A i \in DOMAIN items : items[i] \in wanted <=> items[i].id # id
  BY DEF Portfolio!ToSet
<1>2. rest = Portfolio!Only(items, wanted)
  BY DEF Portfolio!Without
<1> HIDE DEF wanted, rest
<1>3. items \in Seq(Portfolio!Item)
  BY DEF Portfolio!Lists
<1>4. /\ rest \in Seq(Portfolio!Item)
      /\ \A i \in DOMAIN rest : \E k \in DOMAIN items : items[k] \in wanted /\ items[k] = rest[i]
      /\ \A k \in DOMAIN items : items[k] \in wanted => \E i \in DOMAIN rest : rest[i] = items[k]
      /\ \A i, j \in DOMAIN rest : i # j =>
            \E k, l \in DOMAIN items : k # l /\ items[k] = rest[i] /\ items[l] = rest[j]
  BY <1>2, <1>3, OnlyTheWanted, PortfolioFilter
<1>5. rest \in Portfolio!Lists
  BY <1>4 DEF Portfolio!Lists
<1>6. Portfolio!Once(items) => Portfolio!Once(rest)
  BY <1>4 DEF Portfolio!Once
<1>7. ASSUME NEW s, s # id PROVE Portfolio!Of(rest, s) = Portfolio!Of(items, s)
  <2>1. \A x : x \in Portfolio!Of(rest, s) <=> x \in Portfolio!Of(items, s)
    BY <1>1, <1>4, <1>5, <1>7, OfList
  <2> QED
    BY <2>1
<1>8. Portfolio!Of(rest, id) = {}
  BY <1>1, <1>4, <1>5, OfList
<1> QED
  BY <1>4, <1>5, <1>6, <1>7, <1>8 DEF rest

(* Where what was in a list is in the list with item at new.               *)
Longer(longer, items, item, new, At, n) ==
    /\ longer \in Seq(Portfolio!Item) /\ DOMAIN longer = 1 .. n + 1
    /\ longer[new] = item /\ \A i \in 1 .. n : longer[At[i]] = items[i]
    /\ \A i \in 1 .. n : At[i] # new
    /\ \A k \in 1 .. n + 1 : k # new => \E i \in 1 .. n : At[i] = k
    /\ \A i, j \in 1 .. n : At[i] = At[j] => i = j

LEMMA LongerLists ==
    ASSUME NEW items \in Portfolio!Lists, NEW item \in Portfolio!Item, NEW longer,
           longer = Append(items, item) \/ longer = <<item>> \o items
    PROVE  /\ longer \in Portfolio!Lists
           /\ (Portfolio!Once(items) /\ Portfolio!Of(items, item.id) = {}) => Portfolio!Once(longer)
           /\ \A s : s # item.id => Portfolio!Of(longer, s) = Portfolio!Of(items, s)
           /\ Portfolio!Of(longer, item.id) = Portfolio!Of(items, item.id) \cup {item}
           /\ \A i \in DOMAIN longer : longer[i] = item \/
                \E k \in DOMAIN items : longer[i] = items[k]
<1> DEFINE n == Len(items)
<1>1. n \in Nat /\ items \in Seq(Portfolio!Item) /\ DOMAIN items = 1 .. n
  BY DEF Portfolio!Lists
<1>2. \E new \in 1 .. n + 1 : \E At \in [1 .. n -> 1 .. n + 1] :
         Longer(longer, items, item, new, At, n)
  <2>1. CASE longer = Append(items, item)
    <3> DEFINE At == [i \in 1 .. n |-> i]
    <3>1. longer \in Seq(Portfolio!Item) /\ DOMAIN longer = 1 .. n + 1
      BY <1>1, <2>1
    <3>2. longer[n + 1] = item /\ \A i \in 1 .. n : longer[At[i]] = items[i]
      BY <1>1, <2>1
    <3>3. /\ n + 1 \in 1 .. n + 1 /\ At \in [1 .. n -> 1 .. n + 1]
          /\ \A i \in 1 .. n : At[i] # n + 1
          /\ \A k \in 1 .. n + 1 : k # n + 1 => k \in 1 .. n /\ At[k] = k
          /\ \A i, j \in 1 .. n : At[i] = At[j] => i = j
      BY <1>1
    <3> HIDE DEF At, n
    <3>4. Longer(longer, items, item, n + 1, At, n)
      BY <3>1, <3>2, <3>3 DEF Longer
    <3> QED
      BY <3>3, <3>4
  <2>2. CASE longer = <<item>> \o items
    <3> DEFINE At == [i \in 1 .. n |-> i + 1]
    <3>1. <<item>> \in Seq(Portfolio!Item) /\ Len(<<item>>) = 1 /\ <<item>>[1] = item
      OBVIOUS
    <3>2. longer \in Seq(Portfolio!Item) /\ Len(longer) = n + 1
      BY <1>1, <2>2, <3>1
    <3>3. longer[1] = item
      BY <1>1, <2>2, <3>1
    <3>4. \A i \in 1 .. n : longer[i + 1] = items[i]
      BY <1>1, <2>2, <3>1
    <3>5. /\ 1 \in 1 .. n + 1 /\ At \in [1 .. n -> 1 .. n + 1]
          /\ \A i \in 1 .. n : At[i] # 1
          /\ \A k \in 1 .. n + 1 : k # 1 => k - 1 \in 1 .. n /\ At[k - 1] = k
          /\ \A i, j \in 1 .. n : At[i] = At[j] => i = j
      BY <1>1
    <3>6. DOMAIN longer = 1 .. n + 1 /\ \A i \in 1 .. n : longer[At[i]] = items[i]
      BY <3>2, <3>4
    <3> HIDE DEF At, n
    <3>7. Longer(longer, items, item, 1, At, n)
      BY <3>2, <3>3, <3>5, <3>6 DEF Longer
    <3> QED
      BY <3>5, <3>7
  <2> QED
    BY <2>1, <2>2
<1>20. PICK new \in 1 .. n + 1, At \in [1 .. n -> 1 .. n + 1] :
          Longer(longer, items, item, new, At, n)
  BY <1>2
<1>3. /\ longer \in Seq(Portfolio!Item) /\ DOMAIN longer = 1 .. n + 1
      /\ longer[new] = item /\ \A i \in 1 .. n : longer[At[i]] = items[i]
      /\ \A i \in 1 .. n : At[i] # new /\ At[i] \in 1 .. n + 1
      /\ \A k \in 1 .. n + 1 : k # new => \E i \in 1 .. n : At[i] = k
  BY <1>20 DEF Longer
<1> HIDE DEF n
<1>4. longer \in Portfolio!Lists
  BY <1>3 DEF Portfolio!Lists
<1>5. ASSUME Portfolio!Once(items), Portfolio!Of(items, item.id) = {} PROVE Portfolio!Once(longer)
  <2>1. \A i \in 1 .. n : items[i].id # item.id
    BY <1>1, <1>5, OfList
  <2>2. SUFFICES ASSUME NEW k \in 1 .. n + 1, NEW l \in 1 .. n + 1, longer[k].id = longer[l].id
                 PROVE  k = l
    BY <1>3 DEF Portfolio!Once
  <2>3. CASE k # new /\ l # new
    <3>1. PICK i \in 1 .. n, j \in 1 .. n : At[i] = k /\ At[j] = l
      BY <1>3, <2>3
    <3>2. items[i] = longer[k] /\ items[j] = longer[l]
      BY <1>3, <3>1
    <3>3. i = j
      BY <1>1, <1>5, <2>2, <3>2 DEF Portfolio!Once
    <3> QED
      BY <3>1, <3>3
  <2> QED
    BY <1>3, <2>1, <2>2, <2>3
<1>6. ASSUME NEW s, s # item.id PROVE Portfolio!Of(longer, s) = Portfolio!Of(items, s)
  <2>1. \A x \in Portfolio!Of(longer, s) : x \in Portfolio!Of(items, s)
    <3> TAKE x \in Portfolio!Of(longer, s)
    <3>0. PICK k \in DOMAIN longer : longer[k] = x /\ longer[k].id = s
      BY <1>4, OfList
    <3>1. k \in 1 .. n + 1 /\ longer[k] = x /\ longer[k].id = s
      BY <1>3, <3>0
    <3>2. PICK i \in 1 .. n : At[i] = k
      BY <1>3, <1>6, <3>1
    <3> QED
      BY <1>1, <1>3, <3>1, <3>2, OfList
  <2>2. \A x \in Portfolio!Of(items, s) : x \in Portfolio!Of(longer, s)
    <3> TAKE x \in Portfolio!Of(items, s)
    <3>1. PICK i \in 1 .. n : items[i] = x /\ items[i].id = s
      BY <1>1, OfList
    <3>2. At[i] \in DOMAIN longer /\ longer[At[i]] = x /\ longer[At[i]].id = s
      BY <1>3, <3>1
    <3> QED
      BY <1>4, <3>2, OfList
  <2> QED
    BY <2>1, <2>2
<1>7. Portfolio!Of(longer, item.id) = Portfolio!Of(items, item.id) \cup {item}
  <2>1. \A x \in Portfolio!Of(longer, item.id) : x \in Portfolio!Of(items, item.id) \/ x = item
    <3> TAKE x \in Portfolio!Of(longer, item.id)
    <3>0. PICK k \in DOMAIN longer : longer[k] = x /\ longer[k].id = item.id
      BY <1>4, OfList
    <3>1. k \in 1 .. n + 1 /\ longer[k] = x /\ longer[k].id = item.id
      BY <1>3, <3>0
    <3>2. CASE k # new
      <4>1. PICK i \in 1 .. n : At[i] = k
        BY <1>3, <3>2
      <4> QED
        BY <1>1, <1>3, <3>1, <4>1, OfList
    <3> QED
      BY <1>3, <3>1, <3>2
  <2>2. item \in Portfolio!Of(longer, item.id)
    BY <1>3, <1>4, OfList
  <2>3. \A x \in Portfolio!Of(items, item.id) : x \in Portfolio!Of(longer, item.id)
    <3> TAKE x \in Portfolio!Of(items, item.id)
    <3>1. PICK i \in 1 .. n : items[i] = x /\ items[i].id = item.id
      BY <1>1, OfList
    <3>2. At[i] \in DOMAIN longer /\ longer[At[i]] = x /\ longer[At[i]].id = item.id
      BY <1>3, <3>1
    <3> QED
      BY <1>4, <3>2, OfList
  <2> QED
    BY <2>1, <2>2, <2>3
<1>8. \A k \in DOMAIN longer : longer[k] = item \/ \E i \in DOMAIN items : longer[k] = items[i]
  <2> TAKE k \in DOMAIN longer
  <2>1. CASE k # new
    <3>1. PICK i \in 1 .. n : At[i] = k
      BY <1>3, <2>1
    <3> QED
      BY <1>1, <1>3, <3>1
  <2> QED
    BY <1>3, <2>1
<1> QED
  BY <1>4, <1>5, <1>6, <1>7, <1>8

(* Lists of the same strategies, each once, are of the same length.        *)
LEMMA AsMany ==
    ASSUME NEW items \in Portfolio!Lists, Portfolio!Once(items)
    PROVE  IsFiniteSet(Portfolio!ToSet(items)) /\ Cardinality(Portfolio!ToSet(items)) = Len(items)
<1> DEFINE n == Len(items)
<1>1. n \in Nat /\ DOMAIN items = 1 .. n /\ items \in [1 .. n -> Portfolio!Item]
  BY DEF Portfolio!Lists
<1>2. IsFiniteSet(1 .. n) /\ Cardinality(1 .. n) = n
  BY <1>1, FS_Interval
<1>3. items \in [1 .. n -> Portfolio!ToSet(items)]
  BY <1>1 DEF Portfolio!ToSet
<1>4. \A i, j \in 1 .. n : items[i] = items[j] => i = j
  BY <1>1 DEF Portfolio!Once
<1>5. items \in Bijection(1 .. n, Portfolio!ToSet(items))
  BY <1>1, <1>3, <1>4 DEF Bijection, Injection, Surjection, IsInjective, Portfolio!ToSet
<1> QED
  BY <1>2, <1>5, FS_Bijection DEF ExistsBijection

LEMMA SameLists ==
    ASSUME NEW items \in Portfolio!Lists, NEW other \in Portfolio!Lists, Portfolio!Once(items),
           Portfolio!Once(other),
           \A s \in SomeStrategies : Portfolio!Of(items, s) = Portfolio!Of(other, s)
    PROVE  Portfolio!ToSet(items) = Portfolio!ToSet(other) /\ Len(items) = Len(other)
<1>1. \A list \in Portfolio!Lists : \A x : x \in Portfolio!ToSet(list) <=> x \in Portfolio!Item /\
        x \in Portfolio!Of(list, x.id)
  BY ListedItems DEF Portfolio!Of, Portfolio!ToSet
<1>2. \A x \in Portfolio!Item : x.id \in SomeStrategies
  BY DEF Portfolio!Item
<1>3. Portfolio!ToSet(items) = Portfolio!ToSet(other)
  BY <1>1, <1>2
<1> QED
  BY <1>3, AsMany

(* The calls that have not been served, of those in s.                     *)
PendingOf(s) == {i \in DOMAIN s : s[i].answer = "pending"}

LEMMA PendingCounts ==
    ASSUME NEW s \in Seq(Portfolio!Call)
    PROVE  /\ IsFiniteSet(PendingOf(s)) /\ Cardinality(PendingOf(s)) \in Nat
           /\ PendingOf(s) # {} => Cardinality(PendingOf(s)) >= 1
<1>1. Len(s) \in Nat /\ DOMAIN s = 1 .. Len(s)
  OBVIOUS
<1>2. IsFiniteSet(1 .. Len(s))
  BY <1>1, FS_Interval
<1>3. PendingOf(s) \in SUBSET (1 .. Len(s))
  BY <1>1 DEF PendingOf
<1>4. IsFiniteSet(PendingOf(s))
  BY <1>2, <1>3, FS_Subset
<1>5. Cardinality(PendingOf(s)) \in Nat
  BY <1>4, FS_CardinalityType
<1>6. Cardinality(PendingOf(s)) = 0 <=> PendingOf(s) = {}
  BY <1>4, FS_EmptySet
<1> QED
  BY <1>4, <1>5, <1>6

LEMMA SentCounts ==
    ASSUME NEW s \in Seq(Portfolio!Call), NEW call \in Portfolio!Call, call.answer = "pending"
    PROVE  Cardinality(PendingOf(Append(s, call))) = Cardinality(PendingOf(s)) + 1
<1>1. PendingOf(Append(s, call)) = PendingOf(s) \cup {Len(s) + 1}
  BY Added DEF PendingOf
<1>2. Len(s) + 1 \notin PendingOf(s)
  BY DEF PendingOf
<1> QED
  BY <1>1, <1>2, PendingCounts, FS_AddElement

LEMMA ServedCounts ==
    ASSUME NEW s \in Seq(Portfolio!Call), NEW t, NEW i \in PendingOf(s), DOMAIN t = DOMAIN s,
           \A j \in DOMAIN s : IF j = i THEN t[j].answer # "pending" ELSE t[j].answer = s[j].answer
    PROVE  Cardinality(PendingOf(t)) = Cardinality(PendingOf(s)) - 1
<1>1. PendingOf(t) = PendingOf(s) \ {i}
  BY DEF PendingOf
<1> QED
  BY <1>1, PendingCounts, FS_RemoveElement

LEMMA TakenCounts ==
    ASSUME NEW s \in Seq(Portfolio!Call), NEW i \in DOMAIN s
    PROVE  Cardinality(PendingOf(Portfolio!RemoveAt(s, i))) <= Cardinality(PendingOf(s))
<1> DEFINE rest == Portfolio!RemoveAt(s, i)
           was == [j \in PendingOf(rest) |-> Before(j, i)]
<1>1. /\ rest \in Seq(Portfolio!Call)
      /\ \A j \in DOMAIN rest : Before(j, i) \in DOMAIN s /\ rest[j] = s[Before(j, i)]
  BY Removed, PortfolioRemoval
<1> HIDE DEF rest
<1>2. \A j \in PendingOf(rest) : j \in Nat /\ Before(j, i) \in PendingOf(s)
  BY <1>1 DEF PendingOf
<1>3. i \in Nat
  OBVIOUS
<1>4. \A j, k \in PendingOf(rest) : Before(j, i) = Before(k, i) => j = k
  BY <1>2, <1>3, BeforeIsInjective
<1>5. was \in [PendingOf(rest) -> PendingOf(s)]
  BY <1>2
<1>6. \A j, k \in PendingOf(rest) : was[j] = was[k] => j = k
  BY <1>4
<1> HIDE DEF was
<1>7. was \in Injection(PendingOf(rest), PendingOf(s))
  BY <1>5, <1>6 DEF Injection, IsInjective
<1>8. Cardinality(PendingOf(rest)) <= Cardinality(PendingOf(s))
  BY <1>7, PendingCounts, FS_Injection
<1> QED
  BY <1>8 DEF rest

(* What tells two calls apart but for the dialog.                          *)
Alike(call, other) ==
    /\ call.kind = other.kind /\ call.id = other.id /\ call.answer = other.answer
    /\ call.item = other.item /\ call.previous = other.previous

LEMMA OrphanedCalls ==
    ASSUME NEW s \in Seq(Portfolio!Call)
    PROVE  /\ Portfolio!Orphaned(s) \in Seq(Portfolio!Call)
           /\ DOMAIN Portfolio!Orphaned(s) = DOMAIN s /\ Len(Portfolio!Orphaned(s)) = Len(s)
           /\ \A i \in DOMAIN s : Alike(Portfolio!Orphaned(s)[i], s[i])
           /\ PendingOf(Portfolio!Orphaned(s)) = PendingOf(s)
<1>1. /\ DOMAIN Portfolio!Orphaned(s) = 1 .. Len(s) /\ DOMAIN s = 1 .. Len(s) /\ Len(s) \in Nat
      /\ Portfolio!Orphaned(s) = [i \in 1 .. Len(s) |-> Portfolio!Orphaned(s)[i]]
      /\ \A i \in DOMAIN s : Portfolio!Orphaned(s)[i] = [s[i] EXCEPT !.dialog = FALSE] /\
           s[i] \in Portfolio!Call
  BY DEF Portfolio!Orphaned
<1>2. \A call \in Portfolio!Call : [call EXCEPT !.dialog = FALSE] \in Portfolio!Call /\
        Alike([call EXCEPT !.dialog = FALSE], call)
  BY DEF Portfolio!Call, Alike
<1>3. \A i \in DOMAIN s : Portfolio!Orphaned(s)[i] \in Portfolio!Call /\
        Alike(Portfolio!Orphaned(s)[i], s[i])
  BY <1>1, <1>2
<1>4. Portfolio!Orphaned(s) \in Seq(Portfolio!Call) /\ Len(Portfolio!Orphaned(s)) = Len(s)
  BY <1>1, <1>3
<1>5. PendingOf(Portfolio!Orphaned(s)) = PendingOf(s)
  BY <1>1, <1>3 DEF PendingOf, Alike
<1> QED
  BY <1>1, <1>3, <1>4, <1>5

LEMMA PortfolioBounds ==
    ASSUME Portfolio!TypeOK
    PROVE  /\ MaxClicks \in Nat /\ clicks \in Nat /\ clicks <= MaxClicks
           /\ Portfolio!Clicks => clicks' = clicks + 1 /\ clicks' \in 0 .. MaxClicks /\
                failures' = failures
           /\ Portfolio!Fails => clicks' = clicks /\ failures' \in 0 .. MaxFailures
           /\ Portfolio!Succeeds => clicks' = clicks /\ failures' = failures
BY BoundsAssumption
DEF Portfolio!TypeOK, Portfolio!Clicks, Portfolio!Fails, Portfolio!Succeeds, Portfolio!bounds

(* What does not depend on whether calls crossed.                          *)
PortfolioAlways ==
    /\ Portfolio!TypeOK /\ Portfolio!EditsAreCalls /\ Portfolio!ItemsAnswer
    /\ Portfolio!Once(server) /\ Portfolio!NewAreNew /\ Len(loads) <= 1

(* A call is sent.                                                         *)
SentCall(kind, id) ==
    [kind |-> kind, id |-> id, answer |-> "pending", item |-> None,
     previous |-> page.strategies, dialog |-> page.modalOpen]

LEMMA SentCalls ==
    ASSUME PortfolioAlways, Portfolio!Clicks, NEW kind \in {"toggle", "create", "update", "delete"},
           NEW id \in SomeStrategies, Portfolio!Send(kind, id), kind = "create" =>
             id \in Portfolio!Unused,
           server' = server, loads' = loads, page' \in Portfolio!Page
    PROVE  /\ PortfolioAlways'
           /\ DOMAIN calls' = DOMAIN calls \cup {Len(calls) + 1}
           /\ Len(calls) + 1 \notin DOMAIN calls
           /\ calls'[Len(calls) + 1] = SentCall(kind, id)
           /\ \A j \in DOMAIN calls : calls'[j] = calls[j]
<1> DEFINE n == Len(calls) + 1
<1>1. page \in Portfolio!Page /\ page.strategies \in Portfolio!Lists /\
        page.modalOpen \in BOOLEAN /\ calls \in Seq(Portfolio!Call)
  <2>1. page \in Portfolio!Page /\ calls \in Seq(Portfolio!Call)
    BY DEF PortfolioAlways, Portfolio!TypeOK
  <2> QED
    BY <2>1 DEF Portfolio!Page
<1>2. SentCall(kind, id) \in Portfolio!Call
  BY <1>1 DEF SentCall, Portfolio!Call, Portfolio!OrNone
<1>3. calls' = Append(calls, SentCall(kind, id))
  BY DEF Portfolio!Send, SentCall
<1>4. /\ calls' \in Seq(Portfolio!Call)
      /\ DOMAIN calls' = DOMAIN calls \cup {n} /\ n \notin DOMAIN calls
      /\ calls'[n] = SentCall(kind, id)
      /\ \A j \in DOMAIN calls : calls'[j] = calls[j]
  BY <1>1, <1>2, <1>3, Added
<1>5. /\ SentCall(kind, id).kind = kind /\ SentCall(kind, id).id = id
      /\ SentCall(kind, id).answer = "pending"
  BY DEF SentCall
<1>6. clicks' = clicks + 1 /\ clicks' \in 0 .. MaxClicks /\ failures' = failures
  BY PortfolioBounds DEF PortfolioAlways
<1>7. Portfolio!TypeOK'
  <2>1. behind' \in BOOLEAN
    BY DEF Portfolio!Send, Portfolio!Crosses, PortfolioAlways, Portfolio!TypeOK
  <2> QED
    BY <1>4, <1>6, <2>1 DEF PortfolioAlways, Portfolio!TypeOK
<1>8. Portfolio!EditsAreCalls'
  <2>1. Cardinality(PendingOf(calls')) = Cardinality(PendingOf(calls)) + 1
    BY <1>1, <1>2, <1>3, <1>5, SentCounts
  <2>2. Portfolio!Pending = PendingOf(calls) /\ Portfolio!Pending' = PendingOf(calls')
    BY DEF Portfolio!Pending, PendingOf
  <2>3. Cardinality(PendingOf(calls)) \in Nat /\ clicks \in Nat
    BY <1>1, PendingCounts, PortfolioBounds DEF PortfolioAlways
  <2>4. \A i \in DOMAIN server : server[i].edition \in Nat
    BY ListedItems DEF PortfolioAlways, Portfolio!TypeOK
  <2> QED
    BY Counted, <1>6, <2>1, <2>2, <2>3, <2>4 DEF PortfolioAlways, Portfolio!EditsAreCalls
<1> HIDE DEF n
<1>9. Portfolio!ItemsAnswer'
  BY <1>4, <1>5 DEF PortfolioAlways, Portfolio!ItemsAnswer
<1>10. Portfolio!NewAreNew'
  <2>1. kind = "create" => id \notin Portfolio!Ids(server) /\
          \A j \in DOMAIN calls : calls[j].id # id
    BY DEF Portfolio!Unused
  <2>2. \A i \in DOMAIN calls' : Portfolio!Creates(calls'[i]) <=>
           IF i = n THEN kind = "create" ELSE Portfolio!Creates(calls[i])
    BY <1>4, <1>5 DEF Portfolio!Creates
  <2>3. \A i \in DOMAIN calls' : calls'[i].id = IF i = n THEN id ELSE calls[i].id
    BY <1>4, <1>5
  <2>4. \A i \in DOMAIN calls' : i = n \/ i \in DOMAIN calls
    BY <1>4
  <2>5. ASSUME NEW i \in DOMAIN calls', Portfolio!Creates(calls'[i])
        PROVE  /\ calls'[i].id \notin Portfolio!Ids(server)
               /\ \A j \in DOMAIN calls' : Portfolio!Creates(calls'[j]) /\
                    calls'[j].id = calls'[i].id => j = i
    BY <2>1, <2>2, <2>3, <2>4, <2>5 DEF PortfolioAlways, Portfolio!NewAreNew
  <2> QED
    BY <2>5 DEF Portfolio!NewAreNew, Portfolio!Creates, Portfolio!Ids
<1> QED
  BY <1>4, <1>7, <1>8, <1>9, <1>10 DEF PortfolioAlways, Portfolio!Once, n

(* A call is answered.                                                     *)
LEMMA TakenCalls ==
    ASSUME PortfolioAlways, NEW i \in DOMAIN calls, server' = server, loads' = loads,
           page' \in Portfolio!Page,
           behind' = behind, UNCHANGED Portfolio!bounds,
           calls' = Portfolio!RemoveAt(calls, i) \/
             calls' = Portfolio!Orphaned(Portfolio!RemoveAt(calls, i))
    PROVE  /\ PortfolioAlways' /\ Len(calls') = Len(calls) - 1
           /\ \A j \in DOMAIN calls' : /\ Before(j, i) \in DOMAIN calls /\ Before(j, i) # i
                                       /\ Alike(calls'[j], calls[Before(j, i)])
           /\ \A k \in DOMAIN calls : k # i =>
                 \E j \in DOMAIN calls' : Alike(calls'[j], calls[k])
<1> DEFINE rest == Portfolio!RemoveAt(calls, i)
<1>1. calls \in Seq(Portfolio!Call) /\ i \in Nat
  BY DEF PortfolioAlways, Portfolio!TypeOK
<1>2. /\ rest \in Seq(Portfolio!Call) /\ Len(rest) = Len(calls) - 1
      /\ \A j \in DOMAIN rest : /\ Before(j, i) \in DOMAIN calls /\ Before(j, i) # i
                                /\ rest[j] = calls[Before(j, i)]
  BY <1>1, Removed, PortfolioRemoval
<1>3. \A k \in DOMAIN calls : k # i => \E j \in DOMAIN rest : rest[j] = calls[k]
  BY <1>1, Stays, PortfolioRemoval
<1>4. Cardinality(PendingOf(rest)) <= Cardinality(PendingOf(calls))
  BY <1>1, TakenCounts
<1>5. calls' = rest \/ calls' = Portfolio!Orphaned(rest)
  OBVIOUS
<1> HIDE DEF rest
<1>6. /\ calls' \in Seq(Portfolio!Call) /\ DOMAIN calls' = DOMAIN rest /\ Len(calls') = Len(rest)
      /\ \A j \in DOMAIN rest : Alike(calls'[j], rest[j])
      /\ PendingOf(calls') = PendingOf(rest)
  <2>1. CASE calls' = rest
    BY <1>2, <2>1 DEF Alike
  <2>2. CASE calls' = Portfolio!Orphaned(rest)
    BY <1>2, <2>2, OrphanedCalls
  <2> QED
    BY <1>5, <2>1, <2>2
<1>7. \A j \in DOMAIN calls' : /\ Before(j, i) \in DOMAIN calls /\ Before(j, i) # i
                               /\ Alike(calls'[j], calls[Before(j, i)])
  BY <1>2, <1>6
<1>8. \A k \in DOMAIN calls : k # i => \E j \in DOMAIN calls' : Alike(calls'[j], calls[k])
  BY <1>3, <1>6
<1>9. Portfolio!TypeOK'
  BY <1>6 DEF PortfolioAlways, Portfolio!TypeOK, Portfolio!bounds
<1>10. Portfolio!EditsAreCalls'
  <2>1. Portfolio!Pending = PendingOf(calls) /\ Portfolio!Pending' = PendingOf(calls')
    BY DEF Portfolio!Pending, PendingOf
  <2>2. /\ Cardinality(PendingOf(calls)) \in Nat /\ Cardinality(PendingOf(calls')) \in Nat
        /\ clicks \in Nat /\ clicks' = clicks
    BY <1>1, <1>6, PendingCounts, PortfolioBounds DEF PortfolioAlways, Portfolio!bounds
  <2>3. \A k \in DOMAIN server : server[k].edition \in Nat
    BY ListedItems DEF PortfolioAlways, Portfolio!TypeOK
  <2> QED
    BY Counted, <1>4, <1>6, <2>1, <2>2, <2>3 DEF PortfolioAlways, Portfolio!EditsAreCalls
<1>11. Portfolio!ItemsAnswer'
  BY <1>7 DEF PortfolioAlways, Portfolio!ItemsAnswer, Alike
<1>12. Portfolio!NewAreNew'
  <2>1. \A j \in DOMAIN calls' : j \in Nat
    BY <1>6
  <2>2. \A j, k \in DOMAIN calls' : Before(j, i) = Before(k, i) => j = k
    BY <1>1, <2>1, BeforeIsInjective
  <2>3. \A j \in DOMAIN calls' : /\ calls'[j].id = calls[Before(j, i)].id
                                 /\ Portfolio!Creates(calls'[j]) <=>
                                      Portfolio!Creates(calls[Before(j, i)])
    BY <1>7 DEF Alike, Portfolio!Creates
  <2>4. ASSUME NEW j \in DOMAIN calls', Portfolio!Creates(calls'[j])
        PROVE  /\ calls'[j].id \notin Portfolio!Ids(server)
               /\ \A k \in DOMAIN calls' : Portfolio!Creates(calls'[k]) /\
                    calls'[k].id = calls'[j].id => k = j
    BY <1>7, <2>2, <2>3, <2>4 DEF PortfolioAlways, Portfolio!NewAreNew
  <2> QED
    BY <2>4 DEF Portfolio!NewAreNew, Portfolio!Creates, Portfolio!Ids
<1> QED
  BY <1>2, <1>6, <1>7, <1>8, <1>9, <1>10, <1>11, <1>12 DEF PortfolioAlways, Portfolio!Once

(* What the server lists once it has served a call.                        *)
LEMMA ServedLists ==
    ASSUME PortfolioAlways, NEW i \in DOMAIN calls, calls[i].answer = "pending",
           ~Portfolio!Refused(calls[i])
    PROVE  LET call == calls[i]
               list == Portfolio!After(call)
           IN  /\ list \in Portfolio!Lists /\ Portfolio!Once(list)
               /\ \A s : s # call.id => Portfolio!Of(list, s) = Portfolio!Of(server, s)
               /\ IF call.kind = "delete" THEN Portfolio!Of(list, call.id) = {}
                  ELSE /\ call.id \in Portfolio!Ids(list)
                       /\ Portfolio!ItemOf(list, call.id) \in Portfolio!Item
                       /\ Portfolio!ItemOf(list, call.id).id = call.id
                       /\ Portfolio!Of(list, call.id) = {Portfolio!ItemOf(list, call.id)}
               /\ call.kind = "toggle" => list = Portfolio!Switched(server, call.id)
               /\ \A k \in DOMAIN list :
                    list[k].edition + Cardinality(Portfolio!Pending) - 1 <= clicks
<1> DEFINE call == calls[i]
           list == Portfolio!After(call)
           n == Cardinality(Portfolio!Pending)
<1>1. calls \in Seq(Portfolio!Call) /\ call \in Portfolio!Call /\ server \in Portfolio!Lists /\
        Portfolio!Once(server)
  BY DEF PortfolioAlways, Portfolio!TypeOK
<1>2. call.kind \in {"toggle", "create", "update", "delete"} /\ call.id \in SomeStrategies
  BY <1>1 DEF Portfolio!Call
<1>3. /\ n \in Nat /\ n >= 1 /\ n <= clicks /\ clicks \in Nat /\ MaxClicks \in Nat
      /\ clicks <= MaxClicks
      /\ \A k \in DOMAIN server : server[k].edition \in Nat /\ server[k].edition + n <= clicks
  <2>1. i \in Portfolio!Pending /\ Portfolio!Pending = PendingOf(calls)
    BY DEF Portfolio!Pending, PendingOf
  <2>2. n \in Nat /\ n >= 1
    BY <1>1, <2>1, PendingCounts
  <2>3. \A k \in DOMAIN server : server[k].edition \in Nat
    BY <1>1, ListedItems
  <2> QED
    BY Counted, <2>2, <2>3, PortfolioBounds DEF PortfolioAlways, Portfolio!EditsAreCalls
<1> HIDE DEF n
<1>4. call.kind # "create" => call.id \in Portfolio!Ids(server)
  BY DEF Portfolio!Refused
<1> DEFINE Good == /\ list \in Portfolio!Lists /\ Portfolio!Once(list)
                   /\ \A s : s # call.id => Portfolio!Of(list, s) = Portfolio!Of(server, s)
                   /\ call.kind = "delete" => Portfolio!Of(list, call.id) = {}
                   /\ call.kind # "delete" => call.id \in Portfolio!Ids(list)
                   /\ call.kind = "toggle" => list = Portfolio!Switched(server, call.id)
                   /\ \A k \in DOMAIN list : list[k].edition + n - 1 <= clicks
<1>5. ASSUME call.kind = "toggle" PROVE Good
  <2>1. list = Portfolio!Switched(server, call.id)
    BY <1>5 DEF Portfolio!After
  <2> HIDE DEF list
  <2>2. /\ list \in Portfolio!Lists /\ Portfolio!Once(list)
        /\ Portfolio!Ids(list) = Portfolio!Ids(server)
        /\ \A s : s # call.id => Portfolio!Of(list, s) = Portfolio!Of(server, s)
        /\ DOMAIN list = DOMAIN server /\
             \A k \in DOMAIN server : list[k].edition = server[k].edition
    BY <1>1, <2>1, SwitchedLists
  <2> QED
    BY <1>3, <1>4, <1>5, <2>1, <2>2
<1>6. ASSUME call.kind = "update" PROVE Good
  <2>1. list = Edited(server, call.id)
    BY <1>6 DEF Portfolio!After, Edited, Edit
  <2> HIDE DEF list
  <2>2. \A k \in DOMAIN server : server[k].edition < MaxClicks
    BY <1>3
  <2>3. /\ list \in Portfolio!Lists /\ Portfolio!Once(list)
        /\ Portfolio!Ids(list) = Portfolio!Ids(server)
        /\ \A s : s # call.id => Portfolio!Of(list, s) = Portfolio!Of(server, s)
        /\ DOMAIN list = DOMAIN server
        /\ \A k \in DOMAIN server : list[k].edition <= server[k].edition + 1
    BY <1>1, <2>1, <2>2, EditedLists
  <2>4. \A k \in DOMAIN list : list[k].edition \in Nat
    BY <2>3, ListedItems
  <2> QED
    BY <1>3, <1>4, <1>6, <2>3, <2>4
<1>7. ASSUME call.kind = "create" PROVE Good
  <2> DEFINE item == [id |-> call.id, active |-> FALSE, edition |-> 0]
  <2>1. list = Append(server, item)
    BY <1>7 DEF Portfolio!After
  <2>2. item \in Portfolio!Item /\ item.id = call.id /\ item.edition = 0
    BY <1>2, <1>3 DEF Portfolio!Item
  <2> HIDE DEF list, item
  <2>3. call.id \notin Portfolio!Ids(server)
    BY <1>7 DEF PortfolioAlways, Portfolio!NewAreNew, Portfolio!Creates
  <2>4. Portfolio!Of(server, item.id) = {}
    BY <1>1, <2>2, <2>3, OfList
  <2>5. /\ list \in Portfolio!Lists /\ Portfolio!Once(list)
        /\ \A s : s # item.id => Portfolio!Of(list, s) = Portfolio!Of(server, s)
        /\ Portfolio!Of(list, item.id) = Portfolio!Of(server, item.id) \cup {item}
        /\ \A k \in DOMAIN list : list[k] = item \/ \E l \in DOMAIN server : list[k] = server[l]
    <3> HIDE DEF call
    <3>1. list = Append(server, item) \/ list = <<item>> \o server
      BY <2>1
    <3>2. server \in Portfolio!Lists /\ item \in Portfolio!Item
      BY <1>1, <2>2
    <3>3. list \in Portfolio!Lists /\
            ((Portfolio!Once(server) /\ Portfolio!Of(server, item.id) = {}) => Portfolio!Once(list))
      BY <3>1, <3>2, LongerLists
    <3>4. \A s : s # item.id => Portfolio!Of(list, s) = Portfolio!Of(server, s)
      BY <3>1, <3>2, LongerLists
    <3>6. Portfolio!Of(list, item.id) = Portfolio!Of(server, item.id) \cup {item}
      BY <3>1, <3>2, LongerLists
    <3>5. \A k \in DOMAIN list : list[k] = item \/ \E l \in DOMAIN server : list[k] = server[l]
      BY <3>1, <3>2, LongerLists
    <3> QED
      BY <1>1, <2>4, <3>3, <3>4, <3>5, <3>6
  <2>6. call.id \in Portfolio!Ids(list)
    BY <2>2, <2>5, OfList
  <2>7. \A k \in DOMAIN list : list[k].edition + n - 1 <= clicks
    BY <1>3, <2>2, <2>5
  <2> QED
    BY <1>7, <2>2, <2>5, <2>6, <2>7
<1>8. ASSUME call.kind = "delete" PROVE Good
  <2>1. list = Portfolio!Without(server, call.id)
    BY <1>8 DEF Portfolio!After
  <2> HIDE DEF list
  <2>2. /\ list \in Portfolio!Lists /\ Portfolio!Once(list)
        /\ \A s : s # call.id => Portfolio!Of(list, s) = Portfolio!Of(server, s)
        /\ Portfolio!Of(list, call.id) = {}
        /\ \A k \in DOMAIN list : \E l \in DOMAIN server : list[k] = server[l]
    BY <1>1, <2>1, WithoutLists
  <2>3. \A k \in DOMAIN list : list[k].edition + n - 1 <= clicks
    BY <1>3, <2>2
  <2> QED
    BY <1>8, <2>2, <2>3
<1>9. Good
  BY <1>2, <1>5, <1>6, <1>7, <1>8
<1> HIDE DEF list
<1>11. /\ list \in Portfolio!Lists /\ Portfolio!Once(list)
       /\ call.kind # "delete" => call.id \in Portfolio!Ids(list)
  BY <1>9
<1>10. call.kind # "delete" =>
         /\ Portfolio!ItemOf(list, call.id) \in Portfolio!Item
         /\ Portfolio!ItemOf(list, call.id).id = call.id
         /\ Portfolio!Of(list, call.id) = {Portfolio!ItemOf(list, call.id)}
  BY <1>11, OneOf
<1> QED
  BY <1>9, <1>10 DEF list, n

LEMMA ServedCalls ==
    ASSUME PortfolioAlways, NEW i \in DOMAIN calls, Portfolio!ServeCall(i)
    PROVE  /\ PortfolioAlways' /\ DOMAIN calls' = DOMAIN calls
           /\ \A j \in DOMAIN calls : /\ j # i => calls'[j] = calls[j]
                                      /\ calls'[j].kind = calls[j].kind
                                      /\ calls'[j].id = calls[j].id
                                      /\ calls'[j].previous = calls[j].previous
           /\ \/ /\ ~Portfolio!Refused(calls[i]) /\ server' = Portfolio!After(calls[i])
                 /\ calls'[i].answer = "done"
                 /\ calls[i].kind # "delete" =>
                      calls'[i].item = Portfolio!ItemOf(server', calls[i].id)
              \/ server' = server /\ calls'[i].answer = "failed"
              \/ behind'
<1> DEFINE call == calls[i]
           list == Portfolio!After(call)
<1>1. /\ calls \in Seq(Portfolio!Call) /\ call \in Portfolio!Call /\ server \in Portfolio!Lists
      /\ call.answer = "pending"
  BY DEF PortfolioAlways, Portfolio!TypeOK, Portfolio!ServeCall
<1>2. ~Portfolio!Refused(call) =>
        /\ list \in Portfolio!Lists /\ Portfolio!Once(list)
        /\ \A s : s # call.id => Portfolio!Of(list, s) = Portfolio!Of(server, s)
        /\ call.kind # "delete" =>
             /\ Portfolio!ItemOf(list, call.id) \in Portfolio!Item
             /\ Portfolio!ItemOf(list, call.id).id = call.id
        /\ \A k \in DOMAIN list : list[k].edition + Cardinality(Portfolio!Pending) - 1 <= clicks
  BY Counted, <1>1, ServedLists
<1>3. \E answer \in {"done", "failed"} : \E item \in Portfolio!OrNone(Portfolio!Item) :
        /\ calls' = [calls EXCEPT ![i] = [call EXCEPT !.answer = answer, !.item = item]]
        /\ answer = "done" => /\ ~Portfolio!Refused(call) /\ server' = list
                              /\ call.kind # "delete" => item = Portfolio!ItemOf(list, call.id)
        /\ answer = "failed" => server' = server \/
             (server' = list /\ ~Portfolio!Refused(call) /\ behind')
  <2>1. call.item \in Portfolio!OrNone(Portfolio!Item)
    BY <1>1 DEF Portfolio!Call
  <2>2. calls' = [calls EXCEPT ![i].answer = "failed"] =>
          calls' = [calls EXCEPT ![i] = [call EXCEPT !.answer = "failed", !.item = call.item]]
    <3>1. [call EXCEPT !.answer = "failed"] = [call EXCEPT !.answer = "failed", !.item = call.item]
      BY <1>1 DEF Portfolio!Call
    <3> QED
      BY <3>1
  <2> DEFINE served == IF call.kind = "delete" THEN None ELSE Portfolio!ItemOf(list, call.id)
  <2>3. CASE /\ ~Portfolio!Refused(call) /\ server' = list
             /\ calls' = [calls EXCEPT ![i].answer = "done", ![i].item =
                            IF calls[i].kind = "delete" THEN None
                              ELSE Portfolio!ItemOf(server', calls[i].id)]
    <3>1. served \in Portfolio!OrNone(Portfolio!Item)
      BY <1>2, <2>3 DEF Portfolio!OrNone
    <3>2. calls' = [calls EXCEPT ![i] = [call EXCEPT !.answer = "done", !.item = served]]
      BY <2>3
    <3> QED
      BY <2>3, <3>1, <3>2
  <2>4. CASE calls' = [calls EXCEPT ![i].answer = "failed"] /\
             (server' = server \/ (server' = list /\ ~Portfolio!Refused(call) /\ behind'))
    BY <2>1, <2>2, <2>4
  <2> QED
    BY <2>3, <2>4 DEF Portfolio!ServeCall
<1>4. PICK answer \in {"done", "failed"}, item \in Portfolio!OrNone(Portfolio!Item) :
        /\ calls' = [calls EXCEPT ![i] = [call EXCEPT !.answer = answer, !.item = item]]
        /\ answer = "done" => /\ ~Portfolio!Refused(call) /\ server' = list
                              /\ call.kind # "delete" => item = Portfolio!ItemOf(list, call.id)
        /\ answer = "failed" => server' = server \/
             (server' = list /\ ~Portfolio!Refused(call) /\ behind')
  BY <1>3
<1> HIDE DEF list
<1> DEFINE answered == [call EXCEPT !.answer = answer, !.item = item]
<1>5. /\ answered \in Portfolio!Call /\ answered.kind = call.kind /\ answered.id = call.id
      /\ answered.previous = call.previous /\ answered.answer = answer /\ answered.item = item
  BY <1>1 DEF Portfolio!Call
<1> HIDE DEF answered
<1>6. /\ calls' \in Seq(Portfolio!Call) /\ DOMAIN calls' = DOMAIN calls /\ Len(calls') = Len(calls)
      /\ calls'[i] = answered /\ \A j \in DOMAIN calls : j # i => calls'[j] = calls[j]
  BY <1>1, <1>4, <1>5 DEF answered
<1>7. /\ server' \in Portfolio!Lists /\ Portfolio!Once(server')
      /\ \A s : s # call.id => Portfolio!Of(server', s) = Portfolio!Of(server, s)
      /\ server' = server \/ (~Portfolio!Refused(call) /\ server' = list)
  BY <1>1, <1>2, <1>4 DEF PortfolioAlways
<1>8. /\ page' = page /\ loads' = loads /\ clicks' = clicks
      /\ behind' \in BOOLEAN /\ failures' \in 0 .. MaxFailures
  <2>1. page' = page /\ loads' = loads /\ (Portfolio!Succeeds \/ Portfolio!Fails) /\
          behind' \in BOOLEAN
    BY <1>7 DEF Portfolio!ServeCall, PortfolioAlways, Portfolio!TypeOK
  <2> QED
    BY <2>1, PortfolioBounds DEF PortfolioAlways, Portfolio!TypeOK
<1>9. Portfolio!TypeOK'
  BY <1>6, <1>7, <1>8 DEF PortfolioAlways, Portfolio!TypeOK
<1>10. Portfolio!EditsAreCalls'
  <2>1. Portfolio!Pending = PendingOf(calls) /\ Portfolio!Pending' = PendingOf(calls') /\
          i \in PendingOf(calls)
    BY <1>1 DEF Portfolio!Pending, PendingOf
  <2>2. Cardinality(PendingOf(calls')) = Cardinality(PendingOf(calls)) - 1
    BY <1>1, <1>5, <1>6, <2>1, ServedCounts
  <2>3. Cardinality(PendingOf(calls)) \in Nat /\ clicks \in Nat
    BY <1>1, PendingCounts, PortfolioBounds DEF PortfolioAlways
  <2>4. (\A k \in DOMAIN server : server[k].edition \in Nat) /\
        (\A k \in DOMAIN server' : server'[k].edition \in Nat)
    BY <1>1, <1>7, ListedItems
  <2>5. \A k \in DOMAIN server' : server'[k].edition + Cardinality(Portfolio!Pending) - 1 <= clicks
    <3>1. CASE server' = server
      BY Counted, <2>1, <2>3, <2>4, <3>1 DEF PortfolioAlways, Portfolio!EditsAreCalls
    <3>2. CASE ~Portfolio!Refused(call) /\ server' = list
      BY <1>2, <3>2
    <3> QED
      BY <1>7, <3>1, <3>2
  <2> QED
    BY Counted, <1>8, <2>1, <2>2, <2>3, <2>4, <2>5 DEF PortfolioAlways, Portfolio!EditsAreCalls
<1>11. Portfolio!ItemsAnswer'
  BY <1>2, <1>4, <1>5, <1>6 DEF PortfolioAlways, Portfolio!ItemsAnswer
<1>12. Portfolio!NewAreNew'
  <2>1. \A j \in DOMAIN calls' : /\ calls'[j].id = calls[j].id
                                 /\ Portfolio!Creates(calls'[j]) => Portfolio!Creates(calls[j]) /\
                                      (j # i)
    BY <1>4, <1>5, <1>6 DEF Portfolio!Creates
  <2>2. ASSUME NEW j \in DOMAIN calls, Portfolio!Creates(calls[j]), j # i, call.id = calls[j].id
        PROVE  server' = server
    <3>1. CASE call.kind = "create"
      BY <1>1, <2>2, <3>1 DEF PortfolioAlways, Portfolio!NewAreNew, Portfolio!Creates
    <3>2. CASE call.kind # "create"
      BY <1>7, <2>2, <3>2 DEF PortfolioAlways, Portfolio!NewAreNew, Portfolio!Refused
    <3> QED
      BY <3>1, <3>2
  <2>3. ASSUME NEW j \in DOMAIN calls, Portfolio!Creates(calls[j]), j # i
        PROVE  calls[j].id \notin Portfolio!Ids(server')
    <3>1. calls[j].id \notin Portfolio!Ids(server)
      BY <2>3 DEF PortfolioAlways, Portfolio!NewAreNew
    <3>2. CASE call.id = calls[j].id
      BY <2>2, <2>3, <3>1, <3>2
    <3>3. CASE call.id # calls[j].id
      BY <1>1, <1>7, <3>1, <3>3, OfList
    <3> QED
      BY <3>2, <3>3
  <2>4. ASSUME NEW j \in DOMAIN calls', Portfolio!Creates(calls'[j])
        PROVE  /\ calls'[j].id \notin Portfolio!Ids(server')
               /\ \A k \in DOMAIN calls' : Portfolio!Creates(calls'[k]) /\
                    calls'[k].id = calls'[j].id => k = j
    BY <1>6, <2>1, <2>3, <2>4 DEF PortfolioAlways, Portfolio!NewAreNew
  <2> QED
    BY <2>4 DEF Portfolio!NewAreNew, Portfolio!Creates, Portfolio!Ids
<1>13. PortfolioAlways'
  BY <1>7, <1>8, <1>9, <1>10, <1>11, <1>12 DEF PortfolioAlways, Portfolio!Once
<1> QED
  BY <1>4, <1>5, <1>6, <1>13 DEF list

(* What the calls in flight say of the list of the page and of the server's*)
(* list.                                                                   *)
ExpectsOf(list, served, call) ==
    CASE call.kind = "toggle" /\ call.answer # "done" ->
             /\ list = Portfolio!Switched(call.previous, call.id)
             /\ \A s \in SomeStrategies : Portfolio!Of(call.previous, s) = Portfolio!Of(served, s)
      [] call.kind = "create" ->
             /\ Portfolio!Of(list, call.id) = {}
             /\ Portfolio!Of(served, call.id) = IF call.answer = "done" THEN {call.item} ELSE {}
      [] call.kind = "update" /\ call.answer = "done" ->
             Portfolio!Of(list, call.id) # {} /\ Portfolio!Of(served, call.id) = {call.item}
      [] call.kind = "delete" /\ call.answer = "done" -> Portfolio!Of(served, call.id) = {}
      [] OTHER -> Portfolio!Of(list, call.id) = Portfolio!Of(served, call.id)

Apart(sent) == \A i, j \in DOMAIN sent : i # j => sent[i].id # sent[j].id /\ sent[i].kind # "toggle"

Met(list, served, sent) ==
    /\ Portfolio!Once(list)
    /\ Apart(sent)
    /\ \A s \in SomeStrategies :
          (\A i \in DOMAIN sent : sent[i].id # s) => Portfolio!Of(list, s) = Portfolio!Of(served, s)
    /\ \A i \in DOMAIN sent : ExpectsOf(list, served, sent[i])

LEMMA ExpectedIsMet ==
    Portfolio!Expected <=> IF loads # <<>> THEN Portfolio!Once(page.strategies) /\
      Portfolio!LoadIsFresh
                           ELSE Met(page.strategies, server, calls)
<1>1. \A call : Portfolio!Expects(call) <=> ExpectsOf(page.strategies, server, call)
  BY DEF Portfolio!Expects, ExpectsOf, Portfolio!Agree
<1> QED
  BY <1>1
  DEF Portfolio!Expected, Met, Apart, Portfolio!CallsKeepApart, Portfolio!RestAgrees,
      Portfolio!Agree

LEMMA ExpectedNext ==
    ASSUME loads' = <<>>, Met(page'.strategies, server', calls')
    PROVE  Portfolio!Expected'
<1>1. \A i \in DOMAIN calls' : Portfolio!Expects(calls[i])'
  BY DEF Met, Portfolio!Expects, ExpectsOf, Portfolio!Agree, Portfolio!Of, Portfolio!Switched
<1>2. Portfolio!CallsKeepApart' /\ Portfolio!RestAgrees' /\ Portfolio!Once(page.strategies)'
  BY
  DEF Met, Apart, Portfolio!CallsKeepApart, Portfolio!RestAgrees, Portfolio!Agree, Portfolio!Of,
      Portfolio!Once
<1> QED
  BY <1>1, <1>2 DEF Portfolio!Expected

LEMMA AlikeExpects ==
    ASSUME NEW list, NEW served, NEW call, NEW other, Alike(call, other)
    PROVE  ExpectsOf(list, served, call) <=> ExpectsOf(list, served, other)
BY DEF Alike, ExpectsOf

(* It is about one strategy, unless a toggle is in flight.                 *)
LEMMA ExpectsElsewhere ==
    ASSUME NEW list, NEW served, NEW other, NEW after, NEW call,
           call.kind # "toggle",
           Portfolio!Of(other, call.id) = Portfolio!Of(list, call.id),
           Portfolio!Of(after, call.id) = Portfolio!Of(served, call.id)
    PROVE  ExpectsOf(other, after, call) <=> ExpectsOf(list, served, call)
BY DEF ExpectsOf

LEMMA MetAlike ==
    ASSUME NEW list, NEW served, NEW sent, NEW now, Met(list, served, sent),
           DOMAIN now = DOMAIN sent, \A i \in DOMAIN sent : Alike(now[i], sent[i])
    PROVE  Met(list, served, now)
<1>1. Apart(now)
  BY DEF Met, Apart, Alike
<1>2. \A i \in DOMAIN now : ExpectsOf(list, served, now[i])
  BY AlikeExpects DEF Met
<1> QED
  BY <1>1, <1>2 DEF Met, Alike

LEMMA MetWhenSent ==
    ASSUME NEW list \in Portfolio!Lists, NEW served \in Portfolio!Lists, NEW sent, NEW now,
           NEW n, NEW other,
           Met(list, served, sent), n \notin DOMAIN sent, DOMAIN now = DOMAIN sent \cup {n},
           \A i \in DOMAIN sent : now[i] = sent[i],
           now[n].kind \in {"toggle", "create", "update", "delete"}, now[n].id \in SomeStrategies,
           now[n].answer = "pending", now[n].previous = list,
           \A i \in DOMAIN sent : /\ now[n].kind # "toggle" /\ sent[i].kind # "toggle"
                                  /\ sent[i].id # now[n].id,
           now[n].kind = "create" => Portfolio!Of(served, now[n].id) = {},
           other = IF now[n].kind = "toggle" THEN Portfolio!Switched(list, now[n].id) ELSE list
    PROVE  Met(other, served, now)
<1> DEFINE call == now[n]
<1>1. Portfolio!Once(other) /\ \A s : s # call.id => Portfolio!Of(other, s) = Portfolio!Of(list, s)
  BY SwitchedLists DEF Met
<1>2. Apart(now)
  BY DEF Met, Apart
<1>3. ASSUME NEW s \in SomeStrategies, \A i \in DOMAIN now : now[i].id # s
      PROVE  Portfolio!Of(other, s) = Portfolio!Of(served, s)
  <2>1. s # call.id /\ \A i \in DOMAIN sent : sent[i].id # s
    BY <1>3
  <2> QED
    BY <1>1, <2>1 DEF Met
<1>4. ASSUME NEW i \in DOMAIN sent PROVE ExpectsOf(other, served, now[i])
  BY <1>4 DEF Met
<1>5. ExpectsOf(other, served, call)
  <2>1. Portfolio!Of(list, call.id) = Portfolio!Of(served, call.id)
    BY DEF Met
  <2>2. CASE call.kind = "toggle"
    <3>1. DOMAIN sent = {}
      BY <2>2
    <3>2. \A s \in SomeStrategies : Portfolio!Of(call.previous, s) = Portfolio!Of(served, s)
      BY <3>1 DEF Met
    <3> QED
      BY <2>2, <3>2 DEF ExpectsOf
  <2>3. CASE call.kind # "toggle"
    BY <2>1, <2>3 DEF ExpectsOf
  <2> QED
    BY <2>2, <2>3
<1> QED
  BY <1>1, <1>2, <1>3, <1>4, <1>5 DEF Met

LEMMA MetWhenRefused ==
    ASSUME NEW list, NEW served, NEW sent, NEW now, NEW n \in DOMAIN sent,
           Met(list, served, sent), DOMAIN now = DOMAIN sent,
           \A i \in DOMAIN sent : /\ i # n => now[i] = sent[i]
                                  /\ now[i].kind = sent[i].kind /\ now[i].id = sent[i].id
                                  /\ now[i].previous = sent[i].previous,
           sent[n].answer = "pending", now[n].answer = "failed"
    PROVE  Met(list, served, now)
<1>1. Apart(now)
  BY DEF Met, Apart
<1>2. ExpectsOf(list, served, sent[n]) => ExpectsOf(list, served, now[n])
  BY DEF ExpectsOf
<1>3. \A i \in DOMAIN now : ExpectsOf(list, served, now[i])
  BY <1>2 DEF Met
<1> QED
  BY <1>1, <1>3 DEF Met

LEMMA MetWhenServed ==
    ASSUME NEW list \in Portfolio!Lists, NEW served \in Portfolio!Lists, NEW after, NEW sent,
           NEW now,
           NEW n \in DOMAIN sent,
           Met(list, served, sent), DOMAIN now = DOMAIN sent,
           \A i \in DOMAIN sent : /\ i # n => now[i] = sent[i]
                                  /\ now[i].kind = sent[i].kind /\ now[i].id = sent[i].id
                                  /\ now[i].previous = sent[i].previous,
           sent[n].kind \in {"toggle", "create", "update", "delete"},
           sent[n].answer = "pending", now[n].answer = "done",
           sent[n].id \in SomeStrategies, sent[n].previous \in Portfolio!Lists,
           sent[n].kind # "create" => sent[n].id \in Portfolio!Ids(served),
           \A s : s # sent[n].id => Portfolio!Of(after, s) = Portfolio!Of(served, s),
           sent[n].kind = "toggle" => after = Portfolio!Switched(served, sent[n].id),
           sent[n].kind = "delete" => Portfolio!Of(after, sent[n].id) = {},
           sent[n].kind # "delete" => Portfolio!Of(after, sent[n].id) = {now[n].item}
    PROVE  Met(list, after, now)
<1> DEFINE call == sent[n]
<1>1. Apart(now)
  BY DEF Met, Apart
<1>2. ASSUME NEW s \in SomeStrategies, \A i \in DOMAIN now : now[i].id # s
      PROVE  Portfolio!Of(list, s) = Portfolio!Of(after, s)
  BY <1>2 DEF Met
<1>3. ASSUME NEW i \in DOMAIN sent, i # n PROVE ExpectsOf(list, after, now[i])
  <2>1. now[i] = sent[i] /\ sent[i].kind # "toggle" /\ sent[i].id # call.id
    BY <1>3 DEF Met, Apart
  <2>2. Portfolio!Of(after, sent[i].id) = Portfolio!Of(served, sent[i].id)
    BY <2>1
  <2>3. ExpectsOf(list, served, sent[i])
    BY DEF Met
  <2>4. ExpectsOf(list, after, sent[i])
    BY <2>1, <2>2, <2>3, ExpectsElsewhere
  <2> QED
    BY <2>1, <2>4
<1>4. ExpectsOf(list, after, now[n])
  <2>1. ExpectsOf(list, served, call)
    BY DEF Met
  <2>2. CASE call.kind = "toggle"
    <3>1. list = Portfolio!Switched(call.previous, call.id) /\
            Portfolio!Of(call.previous, call.id) = Portfolio!Of(served, call.id)
      BY <2>1, <2>2 DEF ExpectsOf
    <3>2. Portfolio!Of(list, call.id) = Portfolio!Of(after, call.id)
      BY <2>2, <3>1, SwitchedLists
    <3> QED
      BY <2>2, <3>2 DEF ExpectsOf
  <2>3. CASE call.kind = "create"
    BY <2>1, <2>3 DEF ExpectsOf
  <2>4. CASE call.kind = "update"
    <3>1. Portfolio!Of(list, call.id) = Portfolio!Of(served, call.id)
      BY <2>1, <2>4 DEF ExpectsOf
    <3>2. Portfolio!Of(list, call.id) # {}
      BY <2>4, <3>1, OfList
    <3> QED
      BY <2>4, <3>2 DEF ExpectsOf
  <2>5. CASE call.kind = "delete"
    BY <2>1, <2>5 DEF ExpectsOf
  <2> QED
    BY <2>2, <2>3, <2>4, <2>5
<1> QED
  BY <1>1, <1>2, <1>3, <1>4 DEF Met

LEMMA MetWhenTaken ==
    ASSUME NEW list, NEW served, NEW other, NEW sent \in Seq(Portfolio!Call),
           NEW now \in Seq(Portfolio!Call),
           NEW n \in DOMAIN sent, Met(list, served, sent),
           \A j \in DOMAIN now : /\ Before(j, n) \in DOMAIN sent /\ Before(j, n) # n
                                 /\ Alike(now[j], sent[Before(j, n)]),
           \A k \in DOMAIN sent : k # n => \E j \in DOMAIN now : Alike(now[j], sent[k]),
           Portfolio!Once(other),
           Portfolio!Of(other, sent[n].id) = Portfolio!Of(served, sent[n].id),
           \A s : s # sent[n].id => Portfolio!Of(other, s) = Portfolio!Of(list, s)
    PROVE  Met(other, served, now)
<1>1. n \in Nat /\ \A j \in DOMAIN now : j \in Nat
  OBVIOUS
<1>2. \A j, k \in DOMAIN now : Before(j, n) = Before(k, n) => j = k
  BY <1>1, BeforeIsInjective
<1>3. \A j \in DOMAIN now : now[j].id = sent[Before(j, n)].id /\
        now[j].kind = sent[Before(j, n)].kind
  BY DEF Alike
<1>4. Apart(now)
  <2> SUFFICES ASSUME NEW j \in DOMAIN now, NEW k \in DOMAIN now, j # k
               PROVE  now[j].id # now[k].id /\ now[j].kind # "toggle"
    BY DEF Apart
  <2>1. Before(j, n) # Before(k, n)
    BY <1>2
  <2>2. Before(j, n) \in DOMAIN sent /\ Before(k, n) \in DOMAIN sent
    OBVIOUS
  <2>3. Apart(sent)
    BY DEF Met
  <2>4. sent[Before(j, n)].id # sent[Before(k, n)].id /\ sent[Before(j, n)].kind # "toggle"
    BY <2>1, <2>2, <2>3 DEF Apart
  <2> QED
    BY <1>3, <2>4
<1>5. ASSUME NEW s \in SomeStrategies, \A j \in DOMAIN now : now[j].id # s
      PROVE  Portfolio!Of(other, s) = Portfolio!Of(served, s)
  <2>1. CASE s = sent[n].id
    BY <2>1
  <2>2. CASE s # sent[n].id
    <3>1. \A k \in DOMAIN sent : sent[k].id # s
      BY <1>5, <2>2 DEF Alike
    <3> QED
      BY <2>2, <3>1 DEF Met
  <2> QED
    BY <2>1, <2>2
<1>6. ASSUME NEW j \in DOMAIN now PROVE ExpectsOf(other, served, now[j])
  <2> DEFINE call == sent[Before(j, n)]
  <2>1. call.id # sent[n].id /\ call.kind # "toggle" /\ ExpectsOf(list, served, call)
    BY DEF Met, Apart
  <2>2. Portfolio!Of(other, call.id) = Portfolio!Of(list, call.id)
    BY <2>1
  <2>3. ExpectsOf(other, served, call)
    BY <2>1, <2>2, ExpectsElsewhere
  <2> QED
    BY <2>3, AlikeExpects
<1> QED
  BY <1>4, <1>5, <1>6 DEF Met

(* What the page is, once it has changed.                                  *)
LEMMA PageFields ==
    ASSUME PortfolioAlways
    PROVE  /\ page \in Portfolio!Page /\ page.strategies \in Portfolio!Lists
           /\ page.modalOpen \in BOOLEAN
           /\ page.editingStrategy \in Portfolio!OrNone(SomeStrategies)
           /\ page.deleteTarget \in Portfolio!OrNone(SomeStrategies)
           /\ page.saving \in BOOLEAN
           /\ server \in Portfolio!Lists /\ calls \in Seq(Portfolio!Call)
           /\ loads \in Seq(Portfolio!Load)
           /\ \A i \in DOMAIN calls : calls[i] \in Portfolio!Call
<1>1. page \in Portfolio!Page /\ server \in Portfolio!Lists /\ calls \in Seq(Portfolio!Call) /\
        loads \in Seq(Portfolio!Load)
  BY DEF PortfolioAlways, Portfolio!TypeOK
<1> QED
  BY <1>1 DEF Portfolio!Page

(* Nothing that the lists depend on changes.                               *)
LEMMA PortfolioWaits ==
    ASSUME Portfolio!PortfolioInv, page' \in Portfolio!Page, page'.strategies = page.strategies,
           calls' = calls \/
             calls' = Portfolio!Orphaned(calls), UNCHANGED <<loads, server, behind,
               Portfolio!bounds>>
    PROVE  Portfolio!PortfolioInv'
<1>1. PortfolioAlways
  BY DEF Portfolio!PortfolioInv, PortfolioAlways
<1>2. /\ calls' \in Seq(Portfolio!Call) /\ DOMAIN calls' = DOMAIN calls /\ Len(calls') = Len(calls)
      /\ \A i \in DOMAIN calls : Alike(calls'[i], calls[i])
      /\ PendingOf(calls') = PendingOf(calls)
  <2>1. CASE calls' = calls
    BY <1>1, <2>1, PageFields DEF Alike
  <2>2. CASE calls' = Portfolio!Orphaned(calls)
    BY <1>1, <2>2, PageFields, OrphanedCalls
  <2> QED
    BY <2>1, <2>2
<1>3. Portfolio!TypeOK'
  BY <1>1, <1>2 DEF PortfolioAlways, Portfolio!TypeOK, Portfolio!bounds
<1>4. Portfolio!EditsAreCalls'
  <2>1. Portfolio!Pending = PendingOf(calls) /\ Portfolio!Pending' = PendingOf(calls')
    BY DEF Portfolio!Pending, PendingOf
  <2> QED
    BY Counted, <1>1, <1>2, <2>1 DEF PortfolioAlways, Portfolio!EditsAreCalls, Portfolio!bounds
<1>5. Portfolio!ItemsAnswer'
  BY <1>1, <1>2 DEF PortfolioAlways, Portfolio!ItemsAnswer, Alike
<1>6. Portfolio!NewAreNew'
  BY <1>1, <1>2 DEF PortfolioAlways, Portfolio!NewAreNew, Alike, Portfolio!Creates, Portfolio!Ids
<1>7. ~behind' => Portfolio!Expected'
  <2> SUFFICES ASSUME ~behind' PROVE Portfolio!Expected'
    OBVIOUS
  <2>1. Portfolio!Expected
    BY DEF Portfolio!PortfolioInv
  <2>2. CASE loads # <<>>
    <3>1. Portfolio!Once(page.strategies) /\ Portfolio!LoadIsFresh
      BY <2>1, <2>2 DEF Portfolio!Expected
    <3>2. calls' = <<>>
      BY <1>2, <3>1 DEF Portfolio!LoadIsFresh
    <3> QED
      BY <2>2, <3>1, <3>2 DEF Portfolio!Expected, Portfolio!LoadIsFresh, Portfolio!Once
  <2>3. CASE loads = <<>>
    <3>1. Met(page.strategies, server, calls)
      BY <2>1, <2>3, ExpectedIsMet
    <3>2. Met(page.strategies, server, calls')
      BY <1>2, <3>1, MetAlike
    <3>3. loads' = <<>> /\ page'.strategies = page.strategies /\ server' = server
      BY <2>3
    <3> QED
      BY <3>2, <3>3, ExpectedNext
  <2> QED
    BY <2>2, <2>3
<1> QED
  BY <1>1, <1>3, <1>4, <1>5, <1>6, <1>7 DEF Portfolio!PortfolioInv, PortfolioAlways, Portfolio!Once

LEMMA PortfolioSent ==
    ASSUME Portfolio!PortfolioInv, Portfolio!Clicks,
           NEW kind \in {"toggle", "create", "update", "delete"},
           NEW id \in SomeStrategies, Portfolio!Send(kind, id), kind = "create" =>
             id \in Portfolio!Unused,
           server' = server, loads' = loads, page' \in Portfolio!Page,
           page'.strategies = IF kind = "toggle" THEN Portfolio!Switched(page.strategies, id)
             ELSE page.strategies
    PROVE  Portfolio!PortfolioInv'
<1> DEFINE n == Len(calls) + 1
<1>1. PortfolioAlways
  BY DEF Portfolio!PortfolioInv, PortfolioAlways
<1>2. /\ PortfolioAlways'
      /\ DOMAIN calls' = DOMAIN calls \cup {n} /\ n \notin DOMAIN calls
      /\ calls'[n] = SentCall(kind, id)
      /\ \A j \in DOMAIN calls : calls'[j] = calls[j]
  BY <1>1, SentCalls
<1> HIDE DEF n
<1>3. /\ SentCall(kind, id).kind = kind /\ SentCall(kind, id).id = id
      /\ SentCall(kind, id).answer = "pending" /\ SentCall(kind, id).previous = page.strategies
  BY DEF SentCall
<1>4. ASSUME ~behind' PROVE Portfolio!Expected'
  <2>1. /\ ~behind /\ loads = <<>>
        /\ \A i \in DOMAIN calls : kind # "toggle" /\ calls[i].kind # "toggle" /\ calls[i].id # id
    BY <1>4 DEF Portfolio!Send, Portfolio!Crosses
  <2>2. Met(page.strategies, server, calls)
    BY <2>1, ExpectedIsMet DEF Portfolio!PortfolioInv
  <2>3. kind = "create" => Portfolio!Of(server, id) = {}
    BY <1>1, PageFields, OfList DEF Portfolio!Unused
  <2>4. Met(page'.strategies, server, calls')
    BY <1>1, <1>2, <1>3, <2>1, <2>2, <2>3, PageFields, MetWhenSent
  <2> QED
    BY <2>1, <2>4, ExpectedNext
<1> QED
  BY <1>2, <1>4 DEF Portfolio!PortfolioInv, PortfolioAlways

LEMMA PortfolioLoads ==
    ASSUME Portfolio!PortfolioInv, Portfolio!GetStrategies \/ Portfolio!LoadArrives \/
             Portfolio!LoadFails
    PROVE  Portfolio!PortfolioInv'
<1>1. /\ PortfolioAlways /\ loads \in Seq(Portfolio!Load) /\ Len(loads) <= 1 /\ loads # <<>>
      /\ server' = server /\ calls' = calls
  BY
  DEF Portfolio!PortfolioInv, PortfolioAlways, Portfolio!TypeOK, Portfolio!GetStrategies,
      Portfolio!LoadArrives, Portfolio!LoadFails
<1>2. loads[1] \in Portfolio!Load /\ loads[1].strategies \in Portfolio!Lists
  <2>1. loads[1] \in Portfolio!Load
    BY <1>1
  <2> QED
    BY <2>1 DEF Portfolio!Load
<1>3. clicks' = clicks /\ failures' \in 0 .. MaxFailures
  <2>1. Portfolio!Fails \/ UNCHANGED Portfolio!bounds
    BY DEF Portfolio!GetStrategies, Portfolio!LoadArrives, Portfolio!LoadFails
  <2> QED
    BY <1>1, <2>1, PortfolioBounds DEF PortfolioAlways, Portfolio!TypeOK, Portfolio!bounds
<1>4. page' \in Portfolio!Page
  BY <1>1, <1>2, PageFields
  DEF Portfolio!GetStrategies, Portfolio!LoadArrives, Portfolio!LoadFails, Portfolio!Page
<1>5. loads' \in Seq(Portfolio!Load) /\ Len(loads') <= 1
  <2>1. CASE Portfolio!GetStrategies
    <3> DEFINE load == [served |-> TRUE, strategies |-> server]
    <3>1. load \in Portfolio!Load
      BY <1>1, PageFields DEF Portfolio!Load
    <3>2. loads' = <<load>>
      BY <2>1 DEF Portfolio!GetStrategies
    <3> HIDE DEF load
    <3> QED
      BY <3>1, <3>2
  <2>2. CASE Portfolio!LoadArrives \/ Portfolio!LoadFails
    <3>1. loads' = <<>> /\ Len(<<>>) = 0
      BY <2>2 DEF Portfolio!LoadArrives, Portfolio!LoadFails
    <3> QED
      BY <3>1
  <2> QED
    BY <2>1, <2>2
<1>6. behind' \in BOOLEAN
  BY <1>1
  DEF Portfolio!GetStrategies, Portfolio!LoadArrives, Portfolio!LoadFails, PortfolioAlways,
      Portfolio!TypeOK
<1>7. PortfolioAlways'
  BY Counted, <1>1, <1>3, <1>4, <1>5, <1>6
  DEF PortfolioAlways, Portfolio!TypeOK, Portfolio!EditsAreCalls, Portfolio!Pending,
      Portfolio!ItemsAnswer, Portfolio!Once, Portfolio!NewAreNew, Portfolio!Creates, Portfolio!Ids
<1>8. ASSUME ~behind' PROVE Portfolio!Expected'
  <2>1. ~behind /\ (Portfolio!GetStrategies \/ Portfolio!LoadArrives)
    BY <1>8 DEF Portfolio!GetStrategies, Portfolio!LoadArrives, Portfolio!LoadFails
  <2>2. Portfolio!Once(page.strategies) /\ Portfolio!LoadIsFresh
    BY <1>1, <2>1 DEF Portfolio!PortfolioInv, Portfolio!Expected
  <2>3. CASE Portfolio!GetStrategies
    <3>1. page' = page /\ loads' = <<[served |-> TRUE, strategies |-> server]>>
      BY <2>3 DEF Portfolio!GetStrategies
    <3>2. loads' # <<>> /\ loads'[1].strategies = server
      BY <3>1
    <3> QED
      BY <1>1, <2>2, <3>1, <3>2 DEF Portfolio!Expected, Portfolio!LoadIsFresh, Portfolio!Once
  <2>4. CASE Portfolio!LoadArrives
    <3>1. loads' = <<>> /\ calls = <<>> /\ page'.strategies = server
      BY <1>1, <2>2, <2>4, PageFields
      DEF Portfolio!LoadArrives, Portfolio!LoadIsFresh, Portfolio!Page
    <3>2. DOMAIN calls = {}
      BY <3>1
    <3>3. Met(server, server, calls)
      BY <1>1, <3>2 DEF Met, Apart, PortfolioAlways
    <3> QED
      BY <1>1, <3>1, <3>3, ExpectedNext
  <2> QED
    BY <2>1, <2>3, <2>4
<1> QED
  BY <1>7, <1>8 DEF Portfolio!PortfolioInv, PortfolioAlways

LEMMA PortfolioServes ==
    ASSUME Portfolio!PortfolioInv, NEW i \in DOMAIN calls, Portfolio!ServeCall(i)
    PROVE  Portfolio!PortfolioInv'
<1> DEFINE call == calls[i]
<1>1. PortfolioAlways
  BY DEF Portfolio!PortfolioInv, PortfolioAlways
<1>2. /\ PortfolioAlways' /\ DOMAIN calls' = DOMAIN calls
      /\ \A j \in DOMAIN calls : /\ j # i => calls'[j] = calls[j]
                                 /\ calls'[j].kind = calls[j].kind /\ calls'[j].id = calls[j].id
                                 /\ calls'[j].previous = calls[j].previous
      /\ \/ /\ ~Portfolio!Refused(call) /\ server' = Portfolio!After(call)
            /\ calls'[i].answer = "done"
            /\ call.kind # "delete" => calls'[i].item = Portfolio!ItemOf(server', call.id)
         \/ server' = server /\ calls'[i].answer = "failed"
         \/ behind'
  BY <1>1, ServedCalls
<1>3. /\ page' = page /\ loads' = loads /\ call.answer = "pending"
      /\ call \in Portfolio!Call /\ calls # <<>>
  <2>1. call \in Portfolio!Call /\ calls # <<>>
    BY <1>1, PageFields
  <2> QED
    BY <2>1 DEF Portfolio!ServeCall
<1>5. behind => behind'
  BY DEF Portfolio!ServeCall
<1>4. ASSUME ~behind' PROVE Portfolio!Expected'
  <2>1. ~behind /\ loads = <<>>
    BY <1>3, <1>4, <1>5 DEF Portfolio!PortfolioInv, Portfolio!Expected, Portfolio!LoadIsFresh
  <2>2. Met(page.strategies, server, calls)
    BY <2>1, ExpectedIsMet DEF Portfolio!PortfolioInv
  <2>3. CASE /\ ~Portfolio!Refused(call) /\ server' = Portfolio!After(call)
             /\ calls'[i].answer = "done"
             /\ call.kind # "delete" => calls'[i].item = Portfolio!ItemOf(server', call.id)
    <3>1. /\ \A s : s # call.id => Portfolio!Of(server', s) = Portfolio!Of(server, s)
          /\ call.kind = "delete" => Portfolio!Of(server', call.id) = {}
          /\ call.kind # "delete" => Portfolio!Of(server', call.id) = {calls'[i].item}
          /\ call.kind = "toggle" => server' = Portfolio!Switched(server, call.id)
      BY Counted, <1>1, <1>3, <2>3, ServedLists
    <3>2. /\ call.kind \in {"toggle", "create", "update", "delete"} /\ call.id \in SomeStrategies
          /\ call.previous \in Portfolio!Lists
      BY <1>3 DEF Portfolio!Call
    <3>3. call.kind # "create" => call.id \in Portfolio!Ids(server)
      BY <2>3 DEF Portfolio!Refused
    <3>4. page.strategies \in Portfolio!Lists /\ server \in Portfolio!Lists
      BY <1>1, PageFields
    <3>5. Met(page.strategies, server', calls')
      BY <1>2, <1>3, <2>2, <2>3, <3>1, <3>2, <3>3, <3>4, MetWhenServed
    <3> QED
      BY <1>3, <2>1, <3>5, ExpectedNext
  <2>4. CASE server' = server /\ calls'[i].answer = "failed"
    <3>1. Met(page.strategies, server, calls')
      BY <1>2, <1>3, <2>2, <2>4, MetWhenRefused
    <3> QED
      BY <1>3, <2>1, <2>4, <3>1, ExpectedNext
  <2> QED
    BY <1>2, <1>4, <2>3, <2>4
<1> QED
  BY <1>2, <1>4 DEF Portfolio!PortfolioInv, PortfolioAlways

(* What the page makes of an answer: what its list is then is, for the     *)
(* strategy the call was about, what the server lists.                     *)
LEMMA PortfolioTaken ==
    ASSUME Portfolio!PortfolioInv, NEW i \in DOMAIN calls, page' \in Portfolio!Page,
           calls' = Portfolio!RemoveAt(calls, i) \/
             calls' = Portfolio!Orphaned(Portfolio!RemoveAt(calls, i)),
           UNCHANGED <<loads, server, behind, Portfolio!bounds>>,
           Met(page.strategies, server, calls) =>
              /\ Portfolio!Once(page'.strategies)
              /\ Portfolio!Of(page'.strategies, calls[i].id) = Portfolio!Of(server, calls[i].id)
              /\ \A s : s # calls[i].id =>
                   Portfolio!Of(page'.strategies, s) = Portfolio!Of(page.strategies, s)
    PROVE  Portfolio!PortfolioInv'
<1>1. PortfolioAlways
  BY DEF Portfolio!PortfolioInv, PortfolioAlways
<1>2. /\ PortfolioAlways' /\ Len(calls') = Len(calls) - 1
      /\ \A j \in DOMAIN calls' : /\ Before(j, i) \in DOMAIN calls /\ Before(j, i) # i
                                  /\ Alike(calls'[j], calls[Before(j, i)])
      /\ \A k \in DOMAIN calls : k # i =>
            \E j \in DOMAIN calls' : Alike(calls'[j], calls[k])
  BY <1>1, TakenCalls
<1>3. calls \in Seq(Portfolio!Call) /\ calls' \in Seq(Portfolio!Call) /\ calls # <<>>
  BY <1>1, <1>2 DEF PortfolioAlways, Portfolio!TypeOK
<1>4. ASSUME ~behind' PROVE Portfolio!Expected'
  <2>1. loads = <<>>
    BY <1>3, <1>4 DEF Portfolio!PortfolioInv, Portfolio!Expected, Portfolio!LoadIsFresh
  <2>2. Met(page.strategies, server, calls)
    BY <1>4, <2>1, ExpectedIsMet DEF Portfolio!PortfolioInv
  <2>3. Met(page'.strategies, server, calls')
    BY <1>2, <1>3, <2>2, MetWhenTaken
  <2> QED
    BY <2>1, <2>3, ExpectedNext
<1> QED
  BY <1>2, <1>4 DEF Portfolio!PortfolioInv, PortfolioAlways

LEMMA PortfolioAnswers ==
    ASSUME Portfolio!PortfolioInv, NEW i \in DOMAIN calls, Portfolio!Arrives(i)
    PROVE  Portfolio!PortfolioInv'
<1> DEFINE call == calls[i]
           list == page.strategies
<1>1. PortfolioAlways /\ call \in Portfolio!Call /\ page \in Portfolio!Page /\
        list \in Portfolio!Lists /\ server \in Portfolio!Lists
  BY PageFields DEF Portfolio!PortfolioInv, PortfolioAlways
<1>2. /\ UNCHANGED <<loads, server, behind, Portfolio!bounds>>
      /\ calls' = Portfolio!RemoveAt(calls, i) \/
           calls' = Portfolio!Orphaned(Portfolio!RemoveAt(calls, i))
  BY
  DEF Portfolio!Arrives, Portfolio!Toggled, Portfolio!ToggleFails, Portfolio!Saved,
      Portfolio!SaveFails, Portfolio!Deleted
<1>3. call.previous \in Portfolio!Lists /\ call.dialog \in BOOLEAN
  BY <1>1 DEF Portfolio!Call
<1>4. (call.answer = "done" /\ call.kind # "delete") => call.item \in Portfolio!Item /\
        call.item.id = call.id
  BY <1>1 DEF PortfolioAlways, Portfolio!ItemsAnswer
<1>5. Met(list, server, calls) => Portfolio!Once(list) /\ ExpectsOf(list, server, call)
  BY DEF Met
<1>6. ASSUME page' \in Portfolio!Page,
             Met(list, server, calls) =>
                /\ Portfolio!Once(page'.strategies)
                /\ Portfolio!Of(page'.strategies, call.id) = Portfolio!Of(server, call.id)
                /\ \A s : s # call.id => Portfolio!Of(page'.strategies, s) = Portfolio!Of(list, s)
      PROVE  Portfolio!PortfolioInv'
  BY <1>2, <1>6, PortfolioTaken
<1>7. CASE Portfolio!Toggled(i)
  BY <1>1, <1>5, <1>6, <1>7 DEF Portfolio!Toggled, ExpectsOf
<1>8. CASE Portfolio!ToggleFails(i)
  <2>1. page'.strategies = call.previous /\ page' \in Portfolio!Page
    BY <1>1, <1>3, <1>8 DEF Portfolio!ToggleFails, Portfolio!Page
  <2>2. ASSUME Met(list, server, calls)
        PROVE  /\ Portfolio!Once(call.previous)
               /\ Portfolio!Of(call.previous, call.id) = Portfolio!Of(server, call.id)
               /\ \A s : s # call.id => Portfolio!Of(call.previous, s) = Portfolio!Of(list, s)
    <3>1. list = Portfolio!Switched(call.previous, call.id)
          /\ \A s \in SomeStrategies : Portfolio!Of(call.previous, s) = Portfolio!Of(server, s)
      BY <1>5, <1>8, <2>2 DEF Portfolio!ToggleFails, ExpectsOf
    <3>2. call.id \in SomeStrategies
      BY <1>1 DEF Portfolio!Call
    <3> QED
      BY <1>3, <1>5, <2>2, <3>1, <3>2, SwitchedLists
  <2> QED
    BY <1>6, <2>1, <2>2
<1>9. CASE Portfolio!Saved(i)
  <2>1. call.item \in Portfolio!Item /\ call.item.id = call.id /\ call.answer = "done"
    BY <1>4, <1>9 DEF Portfolio!Saved
  <2>2. CASE call.kind = "update"
    <3>1. page'.strategies = Portfolio!Replaced(list, call.item) /\ page' \in Portfolio!Page
      BY <1>1, <1>9, <2>1, <2>2, ReplacedLists DEF Portfolio!Saved, Portfolio!Page, Portfolio!OrNone
    <3>2. ASSUME Met(list, server, calls)
          PROVE  Portfolio!Of(list, call.id) # {} /\ Portfolio!Of(server, call.id) = {call.item}
      BY <1>5, <2>1, <2>2, <3>2 DEF ExpectsOf
    <3>3. /\ Portfolio!Once(list) => Portfolio!Once(page'.strategies)
          /\ \A s : s # call.id => Portfolio!Of(page'.strategies, s) = Portfolio!Of(list, s)
          /\ Portfolio!Of(list, call.id) # {} =>
               Portfolio!Of(page'.strategies, call.id) = {call.item}
      <4> DEFINE item == call.item
                 other == Portfolio!Replaced(list, item)
      <4>1. item \in Portfolio!Item /\ item.id = call.id /\ list \in Portfolio!Lists /\
              page'.strategies = other
        BY <1>1, <2>1, <3>1
      <4> HIDE DEF item, list, call
      <4>2. /\ Portfolio!Once(list) => Portfolio!Once(other)
            /\ Portfolio!Of(list, item.id) # {} => Portfolio!Of(other, item.id) = {item}
        BY <4>1, ReplacedLists
      <4>3. \A s : s # item.id => Portfolio!Of(other, s) = Portfolio!Of(list, s)
        BY <4>1, ReplacedLists
      <4> HIDE DEF other
      <4> QED
        BY <4>1, <4>2, <4>3 DEF item
    <3> QED
      BY <1>5, <1>6, <3>1, <3>2, <3>3
  <2>3. CASE call.kind = "create"
    <3>1. <<call.item>> \o list \in Portfolio!Lists
      BY <1>1, <2>1, LongerLists
    <3>2. page'.strategies = <<call.item>> \o list /\ page' \in Portfolio!Page
      BY <1>1, <1>9, <2>1, <2>3, <3>1 DEF Portfolio!Saved, Portfolio!Page, Portfolio!OrNone
    <3>3. ASSUME Met(list, server, calls)
          PROVE  Portfolio!Of(list, call.id) = {} /\ Portfolio!Of(server, call.id) = {call.item}
      BY <1>5, <2>1, <2>3, <3>3 DEF ExpectsOf
    <3> DEFINE longer == page'.strategies
    <3>4. longer = Append(list, call.item) \/ longer = <<call.item>> \o list
      BY <3>2
    <3> HIDE DEF longer, list, call
    <3>8. list \in Portfolio!Lists /\ call.item \in Portfolio!Item
      BY <1>1, <2>1
    <3>5. Portfolio!Once(list) /\ Portfolio!Of(list, call.item.id) = {} => Portfolio!Once(longer)
      BY <3>4, <3>8, LongerLists
    <3>6. \A s : s # call.item.id => Portfolio!Of(longer, s) = Portfolio!Of(list, s)
      BY <3>4, <3>8, LongerLists
    <3>7. Portfolio!Of(longer, call.item.id) = Portfolio!Of(list, call.item.id) \cup {call.item}
      BY <3>4, <3>8, LongerLists
    <3> QED
      BY <1>5, <1>6, <2>1, <3>2, <3>3, <3>5, <3>6, <3>7 DEF longer
  <2> QED
    BY <1>9, <2>2, <2>3 DEF Portfolio!Saved
<1>10. CASE Portfolio!SaveFails(i)
  <2>1. page' \in Portfolio!Page /\ page'.strategies = list
    BY <1>1, <1>10 DEF Portfolio!SaveFails, Portfolio!Page
  <2>2. Met(list, server, calls) => Portfolio!Of(list, call.id) = Portfolio!Of(server, call.id)
    BY <1>5, <1>10 DEF Portfolio!SaveFails, ExpectsOf
  <2> QED
    BY <1>5, <1>6, <2>1, <2>2
<1>11. CASE Portfolio!Deleted(i)
  <2>1. CASE call.answer = "done"
    <3>1. Portfolio!Without(list, call.id) \in Portfolio!Lists
      BY <1>1, WithoutLists
    <3>2. page' = [page EXCEPT !.strategies = Portfolio!Without(list, call.id),
            !.deleteTarget = None,
                               !.deleting = FALSE]
      BY <1>11, <2>1 DEF Portfolio!Deleted
    <3>3. page' \in Portfolio!Page /\ page'.strategies = Portfolio!Without(list, call.id)
      BY <1>1, <3>1, <3>2 DEF Portfolio!Page, Portfolio!OrNone
    <3>4. Met(list, server, calls) => Portfolio!Of(server, call.id) = {}
      BY <1>5, <1>11, <2>1 DEF Portfolio!Deleted, ExpectsOf
    <3>5. /\ Portfolio!Once(list) => Portfolio!Once(Portfolio!Without(list, call.id))
          /\ \A s : s # call.id =>
               Portfolio!Of(Portfolio!Without(list, call.id), s) = Portfolio!Of(list, s)
          /\ Portfolio!Of(Portfolio!Without(list, call.id), call.id) = {}
      BY <1>1, WithoutLists
    <3>6. Met(list, server, calls) =>
            /\ Portfolio!Once(page'.strategies)
            /\ Portfolio!Of(page'.strategies, call.id) = Portfolio!Of(server, call.id)
            /\ \A s : s # call.id => Portfolio!Of(page'.strategies, s) = Portfolio!Of(list, s)
      BY <1>5, <3>3, <3>4, <3>5
    <3> QED
      BY <1>6, <3>3, <3>6
  <2>2. CASE call.answer # "done"
    <3>1. page' \in Portfolio!Page /\ page'.strategies = list
      BY <1>1, <1>11, <2>2 DEF Portfolio!Deleted, Portfolio!Page
    <3>2. Met(list, server, calls) => Portfolio!Of(list, call.id) = Portfolio!Of(server, call.id)
      BY <1>5, <1>11, <2>2 DEF Portfolio!Deleted, ExpectsOf
    <3> QED
      BY <1>5, <1>6, <3>1, <3>2
  <2> QED
    BY <2>1, <2>2
<1> QED
  BY <1>7, <1>8, <1>9, <1>10, <1>11 DEF Portfolio!Arrives

LEMMA PortfolioUser ==
    ASSUME Portfolio!PortfolioInv,
           \/ Portfolio!HandleAdd \/ Portfolio!OnClose \/ Portfolio!HandleSave
           \/ Portfolio!CancelDelete \/ Portfolio!HandleDelete
           \/ \E s \in SomeStrategies : Portfolio!HandleEdit(s) \/ Portfolio!HandleToggle(s) \/
                Portfolio!AskDelete(s)
    PROVE  Portfolio!PortfolioInv'
<1>1. /\ page \in Portfolio!Page /\ page.strategies \in Portfolio!Lists
      /\ page.modalOpen \in BOOLEAN
      /\ page.editingStrategy \in Portfolio!OrNone(SomeStrategies)
      /\ page.deleteTarget \in Portfolio!OrNone(SomeStrategies)
  BY PageFields DEF Portfolio!PortfolioInv, PortfolioAlways
<1>2. CASE Portfolio!HandleAdd \/ Portfolio!OnClose \/ Portfolio!CancelDelete \/
             \E s \in SomeStrategies : Portfolio!HandleEdit(s) \/ Portfolio!AskDelete(s)
  <2>1. page' \in Portfolio!Page /\ page'.strategies = page.strategies
    BY <1>1, <1>2
    DEF Portfolio!HandleAdd, Portfolio!OnClose, Portfolio!CancelDelete, Portfolio!HandleEdit,
        Portfolio!AskDelete, Portfolio!Page, Portfolio!OrNone
  <2>2. /\ calls' = calls \/ calls' = Portfolio!Orphaned(calls)
        /\ UNCHANGED <<loads, server, behind, Portfolio!bounds>>
    BY <1>2
    DEF Portfolio!HandleAdd, Portfolio!OnClose, Portfolio!CancelDelete, Portfolio!HandleEdit,
        Portfolio!AskDelete
  <2> QED
    BY <2>1, <2>2, PortfolioWaits
<1>3. CASE Portfolio!HandleSave
  <2>1. page' \in Portfolio!Page /\ page'.strategies = page.strategies /\ Portfolio!Clicks /\
          UNCHANGED <<loads, server>>
    BY <1>1, <1>3 DEF Portfolio!HandleSave, Portfolio!Page
  <2>2. CASE page.editingStrategy # None
    <3>1. page.editingStrategy \in SomeStrategies /\ Portfolio!Send("update", page.editingStrategy)
      BY <1>1, <1>3, <2>2 DEF Portfolio!HandleSave, Portfolio!OrNone
    <3> QED
      BY <2>1, <3>1, PortfolioSent
  <2>3. CASE page.editingStrategy = None
    <3>1. PICK s \in Portfolio!Unused : Portfolio!Send("create", s)
      BY <1>3, <2>3 DEF Portfolio!HandleSave
    <3>2. s \in SomeStrategies
      BY DEF Portfolio!Unused
    <3> QED
      BY <2>1, <3>1, <3>2, PortfolioSent
  <2> QED
    BY <2>2, <2>3
<1>4. CASE Portfolio!HandleDelete
  <2>1. /\ page' \in Portfolio!Page /\ page'.strategies = page.strategies /\ Portfolio!Clicks
        /\ UNCHANGED <<loads, server>>
        /\ page.deleteTarget \in SomeStrategies /\ Portfolio!Send("delete", page.deleteTarget)
    BY <1>1, <1>4 DEF Portfolio!HandleDelete, Portfolio!Page, Portfolio!OrNone
  <2> QED
    BY <2>1, PortfolioSent
<1>5. ASSUME NEW s \in SomeStrategies, Portfolio!HandleToggle(s) PROVE Portfolio!PortfolioInv'
  <2>1. Portfolio!Switched(page.strategies, s) \in Portfolio!Lists
    BY <1>1, SwitchedLists
  <2>2. /\ page' \in Portfolio!Page /\ page'.strategies = Portfolio!Switched(page.strategies, s)
        /\ Portfolio!Clicks /\ Portfolio!Send("toggle", s) /\ UNCHANGED <<loads, server>>
    BY <1>1, <1>5, <2>1 DEF Portfolio!HandleToggle, Portfolio!Page
  <2> QED
    BY <2>2, PortfolioSent
<1> QED
  BY <1>2, <1>3, <1>4, <1>5

LEMMA PortfolioNext ==
    Portfolio!PortfolioInv /\ (Portfolio!Next \/ UNCHANGED Portfolio!vars) =>
      Portfolio!PortfolioInv'
<1> SUFFICES ASSUME Portfolio!PortfolioInv, (Portfolio!Next \/ UNCHANGED Portfolio!vars)
             PROVE Portfolio!PortfolioInv'
  OBVIOUS
<1>1. CASE UNCHANGED Portfolio!vars
  <2>1. page' = page /\ calls' = calls /\ UNCHANGED <<loads, server, behind, Portfolio!bounds>>
    BY <1>1 DEF Portfolio!vars
  <2>2. page \in Portfolio!Page
    BY DEF Portfolio!PortfolioInv, Portfolio!TypeOK
  <2> QED
    BY <2>1, <2>2, PortfolioWaits
<1>2. CASE Portfolio!Next
  BY <1>2, PortfolioLoads, PortfolioUser, PortfolioServes, PortfolioAnswers DEF Portfolio!Next
<1> QED
  BY <1>1, <1>2

LEMMA PortfolioStarts == Portfolio!Init => Portfolio!PortfolioInv
<1> SUFFICES ASSUME Portfolio!Init PROVE Portfolio!PortfolioInv
  OBVIOUS
<1> DEFINE load == [served |-> FALSE, strategies |-> <<>>]
<1>1. /\ <<>> \in Portfolio!Lists /\ DOMAIN <<>> = {}
      /\ load \in Portfolio!Load /\ load.served = FALSE
  <2>1. <<>> \in Portfolio!Lists
    BY DEF Portfolio!Lists
  <2> QED
    BY <2>1 DEF Portfolio!Load
<1>2. page \in Portfolio!Page /\ page.strategies = <<>>
  BY <1>1 DEF Portfolio!Init, Portfolio!Page, Portfolio!OrNone
<1>3. loads = <<load>> /\ calls = <<>>
  BY DEF Portfolio!Init
<1> HIDE DEF load
<1>4. loads \in Seq(Portfolio!Load) /\ Len(loads) = 1 /\ loads[1] = load /\ loads # <<>>
  BY <1>1, <1>3
<1>5. calls \in Seq(Portfolio!Call) /\ DOMAIN calls = {}
  BY <1>3
<1>6. MaxClicks \in Nat /\ MaxFailures \in Nat /\ clicks = 0 /\ failures = 0 /\ behind = FALSE
  BY BoundsAssumption DEF Portfolio!Init
<1>7. PICK item \in Portfolio!Item : server = <<item>> /\ item.edition = 0
  <2>1. PICK s \in SomeStrategies : server = <<[id |-> s, active |-> FALSE, edition |-> 0]>>
    BY DEF Portfolio!Init
  <2>2. [id |-> s, active |-> FALSE, edition |-> 0] \in Portfolio!Item
    BY <1>6 DEF Portfolio!Item
  <2> QED
    BY <2>1, <2>2
<1>8. server \in Portfolio!Lists /\ Portfolio!Once(server) /\ DOMAIN server = {1} /\
        server[1].edition = 0
  <2>1. Len(<<item>>) = 1 /\ <<item>>[1] = item /\ <<item>> \in Seq(Portfolio!Item)
    OBVIOUS
  <2>2. DOMAIN <<item>> = {1}
    BY <2>1
  <2> QED
    BY <1>7, <2>1, <2>2 DEF Portfolio!Lists, Portfolio!Once
<1>9. Portfolio!TypeOK
  <2>1. clicks \in 0 .. MaxClicks /\ failures \in 0 .. MaxFailures
    BY <1>6
  <2>2. behind \in BOOLEAN
    BY <1>6
  <2> QED
    BY <1>2, <1>4, <1>5, <1>8, <2>1, <2>2 DEF Portfolio!TypeOK
<1>10. Portfolio!EditsAreCalls
  <2>1. Portfolio!Pending = {}
    BY <1>5 DEF Portfolio!Pending
  <2>2. Cardinality(Portfolio!Pending) = 0
    BY <2>1, FS_EmptySet
  <2> QED
    BY Counted, <1>6, <1>8, <2>2 DEF Portfolio!EditsAreCalls
<1>11. Portfolio!ItemsAnswer /\ Portfolio!NewAreNew
  BY <1>5 DEF Portfolio!ItemsAnswer, Portfolio!NewAreNew
<1>12. Portfolio!Expected
  BY <1>1, <1>2, <1>3, <1>4 DEF Portfolio!Expected, Portfolio!LoadIsFresh, Portfolio!Once
<1> QED
  BY <1>4, <1>8, <1>9, <1>10, <1>11, <1>12 DEF Portfolio!PortfolioInv

LEMMA PortfolioShows == Portfolio!PortfolioInv => Portfolio!PortfolioShowsServer
<1> SUFFICES ASSUME Portfolio!PortfolioInv, loads = <<>>, calls = <<>>, ~behind
             PROVE  /\ Portfolio!ToSet(page.strategies) = Portfolio!ToSet(server)
                    /\ Len(page.strategies) = Len(server)
  BY DEF Portfolio!PortfolioShowsServer
<1>1. Met(page.strategies, server, calls)
  BY ExpectedIsMet DEF Portfolio!PortfolioInv
<1>2. DOMAIN calls = {}
  OBVIOUS
<1>3. Portfolio!Once(page.strategies) /\
        \A s \in SomeStrategies : Portfolio!Of(page.strategies, s) = Portfolio!Of(server, s)
  BY <1>1, <1>2 DEF Met
<1>4. page.strategies \in Portfolio!Lists /\ server \in Portfolio!Lists /\ Portfolio!Once(server)
  BY PageFields DEF Portfolio!PortfolioInv, PortfolioAlways
<1> QED
  BY <1>3, <1>4, SameLists

-----------------------------------------------------------------------------
(***************************************************************************)
(* The pages together.                                                     *)
(***************************************************************************)
PagesInv ==
    /\ route = "monitor" => Monitor!MonitorInv
    /\ route = "portfolio" => Portfolio!PortfolioInv
    /\ route = "data" => Data!DataInv
    /\ route = "system" => System!TypeOK

LEMMA PagesStart == Init => PagesInv
<1> SUFFICES ASSUME Init PROVE PagesInv
  OBVIOUS
<1>1. CASE route = "monitor" /\ Monitor!Init
  BY <1>1, MonitorStarts DEF PagesInv
<1>2. CASE route = "portfolio" /\ Portfolio!Init
  BY <1>2, PortfolioStarts DEF PagesInv
<1>3. CASE route = "data" /\ Data!Init
  BY <1>3, DataStarts DEF PagesInv
<1>4. CASE route = "system" /\ System!Init
  BY <1>4, InitTypes DEF PagesInv
<1> QED
  BY <1>1, <1>2, <1>3, <1>4, Starts

LEMMA PagesStep == PagesInv /\ [Next]_vars => PagesInv'
<1> SUFFICES ASSUME PagesInv, [Next]_vars PROVE PagesInv'
  OBVIOUS
<1>0. route' = route
  BY Steps
<1>1. route = "monitor" => Monitor!MonitorInv'
  BY Steps, MonitorNext DEF PagesInv
<1>2. route = "portfolio" => Portfolio!PortfolioInv'
  BY Steps, PortfolioNext DEF PagesInv
<1>3. route = "data" => Data!DataInv'
  BY Steps, DataNext DEF PagesInv
<1>4. route = "system" => System!TypeOK'
  BY Steps, NextTypes DEF PagesInv
<1> QED
  BY <1>0, <1>1, <1>2, <1>3, <1>4 DEF PagesInv

(* Every page, its calls and what the server keeps have their types on     *)
(* every route: a list shows only what the server can list, an answer in   *)
(* flight is of the kind its call asks for, and no strategy is edited more *)
(* often than calls were sent (app/monitor/page.tsx,                       *)
(* app/portfolio/page.tsx, app/data/page.tsx, app/system/page.tsx).        *)
THEOREM ListsTypeCorrect == Spec => []TypeOK
<1>1. PagesInv => TypeOK
  BY DEF PagesInv, TypeOK, Monitor!MonitorInv, Portfolio!PortfolioInv, Data!DataInv
<1> QED
  BY <1>1, PagesStart, PagesStep, PTL DEF Spec

(* A page shows what the server lists when it waits for nothing, though    *)
(* the monitor and the portfolio edit their lists instead of loading them  *)
(* again and the table of files is loaded after each call, but where calls *)
(* crossed or failed in the ways each page names                           *)
(* (app/monitor/page.tsx:115, app/portfolio/page.tsx:73,                   *)
(* app/data/page.tsx:106).                                                 *)
THEOREM ListsAreTheServers == Spec => []ListsShowServer
<1>1. PagesInv => ListsShowServer
  BY MonitorShows, PortfolioShows, DataShows DEF PagesInv, ListsShowServer
<1> QED
  BY <1>1, PagesStart, PagesStep, PTL DEF Spec
=============================================================================
