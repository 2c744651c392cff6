--------------------------- MODULE LiveTabProofs --------------------------
(***************************************************************************)
(* Proofs about LiveTab: a page nobody has left behind, for any number of  *)
(* deals, writes, visits and calls under way.                              *)
(***************************************************************************)
EXTENDS LiveTab, TLAPS

(* What the server keeps: nothing is announced before it is stored.        *)
ServerInv ==
    /\ announced \in [Deals -> Nat]
    /\ pending \subseteq [deal : Deals, by : Authors, version : Nat]
    /\ \A d \in Deals : deal[d].deal = d /\ announced[d] <= deal[d].version
    /\ \A a \in pending : a.version <= deal[a.deal].version

(* Calls that were not served have no answer; as long as nothing overtook  *)
(* anything, those that were served come first.                            *)
CallsInv ==
    /\ \A i \in DOMAIN calls : calls[i].state = "sent" => calls[i].doc = None
    /\ tab.inOrder => \A i, j \in DOMAIN calls :
          i < j /\ calls[j].state # "sent" => calls[i].state # "sent"

(* A call whose answer will replace what is shown.                         *)
Carries(c) == c.op = "get" \/ (c.op \in {"patch", "submit", "decide"} /\ c.state = "done")

(* The versions that a page on d should know of: the one that was          *)
(* announced, and those this tab has written.                              *)
Due(d) == {announced[d]} \cup {a.version : a \in {x \in pending : x.deal = d /\ x.by = "tab"}}

UpToDate(doc, d, due) == doc # None /\ doc.deal = d => \A v \in due : v <= doc.version

(* What the page will show after the calls under way is up to date.        *)
Final(cs, j) == Carries(cs[j]) /\ \A k \in DOMAIN cs : k > j => ~Carries(cs[k])
Ahead(cs, doc, d, due) ==
    /\ \A j \in DOMAIN cs : Final(cs, j) => UpToDate(cs[j].doc, d, due)
    /\ (\A j \in DOMAIN cs : ~Carries(cs[j])) => UpToDate(doc, d, due)

(* The user knows, or something is on its way that makes the page load.    *)
Warned ==
    \/ tab.conflict \/ tab.told \/ tab.timer \/ tab.error
    \/ \E i \in DOMAIN wire : wire[i].deal = tab.page /\ wire[i].by # "tab"

PageInv ==
    tab.page # None /\ ~tab.missed /\ tab.inOrder
       => Warned \/ Ahead(calls, tab.shown, tab.page, Due(tab.page))

(* Only a page has a burst window.                                         *)
BurstInv == tab.timer => tab.page # None

LiveInv == TypeOK /\ ServerInv /\ CallsInv /\ PageInv /\ BurstInv

---------------------------------------------------------------------------
(* The list of calls.                                                      *)

Ops == {"get", "list", "patch", "submit", "decide"}

LEMMA RequestTyped ==
    ASSUME NEW op \in Ops, NEW d \in Deals
    PROVE  /\ Request(op, d) \in Call
           /\ Request(op, d).op = op /\ Request(op, d).deal = d
           /\ Request(op, d).state = "sent" /\ Request(op, d).doc = None
  BY DEF Request, Call, Ops

LEMMA Appended ==
    ASSUME NEW S, NEW s \in Seq(S), NEW x \in S
    PROVE  /\ Append(s, x) \in Seq(S)
           /\ DOMAIN Append(s, x) = DOMAIN s \cup {Len(s) + 1}
           /\ \A k \in DOMAIN s : k < Len(s) + 1 /\ Append(s, x)[k] = s[k]
           /\ Append(s, x)[Len(s) + 1] = x
  OBVIOUS

LEMMA TakenOut ==
    ASSUME NEW S, NEW s \in Seq(S), NEW i \in DOMAIN s
    PROVE  /\ RemoveAt(s, i) \in Seq(S)
           /\ Len(RemoveAt(s, i)) = Len(s) - 1
           /\ \A k \in 1 .. Len(s) - 1 : RemoveAt(s, i)[k] = IF k < i THEN s[k] ELSE s[k + 1]
<1>1. SubSeq(s, 1, i - 1) \in Seq(S) /\ Len(SubSeq(s, 1, i - 1)) = i - 1
  OBVIOUS
<1>2. SubSeq(s, i + 1, Len(s)) \in Seq(S) /\ Len(SubSeq(s, i + 1, Len(s))) = Len(s) - i
  OBVIOUS
<1>3. \A k \in 1 .. i - 1 : SubSeq(s, 1, i - 1)[k] = s[k]
  OBVIOUS
<1>4. \A k \in 1 .. Len(s) - i : SubSeq(s, i + 1, Len(s))[k] = s[k + i]
  OBVIOUS
<1>. DEFINE a == SubSeq(s, 1, i - 1)  b == SubSeq(s, i + 1, Len(s))  r == a \o b
<1>5. /\ a \in Seq(S) /\ Len(a) = i - 1 /\ \A k \in 1 .. i - 1 : a[k] = s[k]
      /\ b \in Seq(S) /\ Len(b) = Len(s) - i /\ \A k \in 1 .. Len(s) - i : b[k] = s[k + i]
  BY <1>1, <1>2, <1>3, <1>4
<1>. HIDE DEF a, b
<1>6. /\ r \in Seq(S) /\ Len(r) = Len(s) - 1
      /\ \A k \in 1 .. Len(s) - 1 : r[k] = IF k < i THEN a[k] ELSE b[k - (i - 1)]
  BY <1>5
<1>. HIDE DEF r
<1>7. ASSUME NEW k \in 1 .. Len(s) - 1 PROVE r[k] = IF k < i THEN s[k] ELSE s[k + 1]
  <2>1. CASE k < i
    BY <1>5, <1>6, <2>1
  <2>2. CASE ~(k < i)
    <3>1. k - (i - 1) \in 1 .. Len(s) - i /\ (k - (i - 1)) + i = k + 1
      BY <2>2
    <3> QED
      BY <1>5, <1>6, <2>2, <3>1
  <2> QED
    BY <2>1, <2>2
<1>8. RemoveAt(s, i) = r
  BY DEF RemoveAt, r, a, b
<1> QED
  BY <1>6, <1>7, <1>8

LEMMA Replaced ==
    ASSUME NEW S, NEW s \in Seq(S), NEW i \in DOMAIN s, NEW f \in Seq(S), Len(f) <= 1
    PROVE  LET r == RemoveAt(s, i) \o f
           IN  /\ r \in Seq(S)
               /\ Len(r) = Len(s) - 1 + Len(f)
               /\ \A k \in 1 .. Len(s) - 1 : r[k] = IF k < i THEN s[k] ELSE s[k + 1]
               /\ Len(f) = 1 => r[Len(s)] = f[1]
<1>. DEFINE r == RemoveAt(s, i)
<1>1. /\ r \in Seq(S) /\ Len(r) = Len(s) - 1
      /\ \A k \in 1 .. Len(s) - 1 : r[k] = IF k < i THEN s[k] ELSE s[k + 1]
  BY TakenOut
<1>. HIDE DEF r
<1>2. /\ r \o f \in Seq(S) /\ Len(r \o f) = Len(s) - 1 + Len(f)
      /\ \A k \in 1 .. Len(s) - 1 : (r \o f)[k] = r[k]
      /\ Len(f) = 1 => (r \o f)[Len(s)] = f[1]
  BY <1>1
<1>3. \A k \in 1 .. Len(s) - 1 : (r \o f)[k] = IF k < i THEN s[k] ELSE s[k + 1]
  BY <1>1, <1>2
<1> QED
  BY <1>2, <1>3 DEF r

---------------------------------------------------------------------------
(* What the page will show, as calls come and go.                          *)

LEMMA QuietCallAdded ==
    ASSUME NEW cs \in Seq(Call), NEW c \in Call, ~Carries(c), NEW doc, NEW d, NEW due,
           Ahead(cs, doc, d, due)
    PROVE  Ahead(Append(cs, c), doc, d, due)
<1>. DEFINE ds == Append(cs, c)
<1>1. /\ DOMAIN ds = DOMAIN cs \cup {Len(cs) + 1}
      /\ \A k \in DOMAIN cs : k < Len(cs) + 1 /\ ds[k] = cs[k]
      /\ ds[Len(cs) + 1] = c
  BY Appended
<1>. HIDE DEF ds
<1>2. ASSUME NEW j \in DOMAIN ds, Final(ds, j) PROVE UpToDate(ds[j].doc, d, due)
  <2>1. j \in DOMAIN cs /\ ds[j] = cs[j]
    BY <1>1, <1>2 DEF Final
  <2>2. Final(cs, j)
    BY <1>1, <1>2, <2>1 DEF Final
  <2> QED
    BY <2>1, <2>2 DEF Ahead
<1>3. ASSUME \A j \in DOMAIN ds : ~Carries(ds[j]) PROVE UpToDate(doc, d, due)
  <2>1. \A j \in DOMAIN cs : ~Carries(cs[j])
    BY <1>1, <1>3
  <2> QED
    BY <2>1 DEF Ahead
<1>5. Ahead(ds, doc, d, due)
  BY <1>2, <1>3 DEF Ahead
<1> QED
  BY <1>5 DEF ds

LEMMA LoadAdded ==
    ASSUME NEW cs \in Seq(Call), NEW c \in Call, c.op = "get", c.doc = None,
           NEW doc, NEW d, NEW due
    PROVE  Ahead(Append(cs, c), doc, d, due)
<1>. DEFINE ds == Append(cs, c)
<1>1. /\ DOMAIN ds = DOMAIN cs \cup {Len(cs) + 1}
      /\ \A k \in DOMAIN cs : k < Len(cs) + 1 /\ ds[k] = cs[k]
      /\ ds[Len(cs) + 1] = c
  BY Appended
<1>. HIDE DEF ds
<1>2. ASSUME NEW j \in DOMAIN ds, Final(ds, j) PROVE UpToDate(ds[j].doc, d, due)
  <2>1. j = Len(cs) + 1
    BY <1>1, <1>2 DEF Final, Carries
  <2> QED
    BY <1>1, <2>1 DEF UpToDate
<1>3. ~ \A j \in DOMAIN ds : ~Carries(ds[j])
  BY <1>1 DEF Carries
<1>5. Ahead(ds, doc, d, due)
  BY <1>2, <1>3 DEF Ahead
<1> QED
  BY <1>5 DEF ds

(* The first call is answered: if it carries a document, that is shown.    *)
LEMMA FirstTaken ==
    ASSUME NEW cs \in Seq(Call), cs # <<>>, NEW f \in Seq(Call), Len(f) <= 1,
           \A k \in DOMAIN f : ~Carries(f[k]),
           NEW doc, NEW doc2, NEW d, NEW due,
           IF Carries(cs[1]) THEN doc2 = cs[1].doc ELSE doc2 = doc,
           Ahead(cs, doc, d, due)
    PROVE  Ahead(RemoveAt(cs, 1) \o f, doc2, d, due)
<1>. DEFINE ds == RemoveAt(cs, 1) \o f
<1>0. 1 \in DOMAIN cs
  OBVIOUS
<1>1. /\ ds \in Seq(Call) /\ Len(ds) = Len(cs) - 1 + Len(f)
      /\ \A k \in 1 .. Len(cs) - 1 : ds[k] = cs[k + 1]
      /\ Len(f) = 1 => ds[Len(cs)] = f[1]
  <2>. DEFINE r == RemoveAt(cs, 1)
  <2>1. LET e == RemoveAt(cs, 1) \o f
        IN  /\ e \in Seq(Call) /\ Len(e) = Len(cs) - 1 + Len(f)
            /\ \A k \in 1 .. Len(cs) - 1 : e[k] = IF k < 1 THEN cs[k] ELSE cs[k + 1]
            /\ Len(f) = 1 => e[Len(cs)] = f[1]
    BY <1>0, Replaced
  <2>. HIDE DEF r
  <2> QED
    BY <2>1
<1>. HIDE DEF ds
<1>6. /\ Len(cs) \in Nat /\ Len(f) \in Nat /\ Len(ds) \in Nat
      /\ DOMAIN ds = 1 .. Len(ds) /\ DOMAIN f = 1 .. Len(f)
  BY <1>1
<1>7. \A m \in 1 .. Len(cs) - 1 : m \in DOMAIN ds
  BY <1>1, <1>6
<1>2. ASSUME NEW j \in DOMAIN ds, Carries(ds[j]) PROVE j \in 1 .. Len(cs) - 1
  <2>1. CASE j = Len(cs)
    <3>1. Len(f) = 1
      BY <1>1, <1>6, <2>1
    <3>2. ds[j] = f[1] /\ 1 \in DOMAIN f
      BY <1>1, <1>6, <2>1, <3>1
    <3> QED
      BY <1>2, <3>2
  <2> QED
    BY <1>1, <1>6, <2>1
<1>3. ASSUME NEW j \in DOMAIN ds, Final(ds, j) PROVE UpToDate(ds[j].doc, d, due)
  <2>1. j \in 1 .. Len(cs) - 1
    BY <1>2, <1>3 DEF Final
  <2>2. ds[j] = cs[j + 1] /\ j + 1 \in DOMAIN cs
    BY <1>1, <2>1
  <2>3. ASSUME NEW k \in DOMAIN cs, k > j + 1 PROVE ~Carries(cs[k])
    <3>0. k - 1 \in 1 .. Len(cs) - 1 /\ (k - 1) + 1 = k /\ k - 1 > j
      BY <2>1, <2>3
    <3>1. k - 1 \in DOMAIN ds /\ k - 1 > j /\ ds[k - 1] = cs[k]
      BY <1>1, <1>7, <3>0
    <3> QED
      BY <1>3, <3>1 DEF Final
  <2>4. Final(cs, j + 1)
    BY <1>3, <2>2, <2>3 DEF Final
  <2> QED
    BY <2>2, <2>4 DEF Ahead
<1>4. ASSUME \A j \in DOMAIN ds : ~Carries(ds[j]) PROVE UpToDate(doc2, d, due)
  <2>1. ASSUME NEW k \in DOMAIN cs, k > 1 PROVE ~Carries(cs[k])
    <3>0. k - 1 \in 1 .. Len(cs) - 1 /\ (k - 1) + 1 = k
      BY <2>1
    <3>1. k - 1 \in DOMAIN ds /\ ds[k - 1] = cs[k]
      BY <1>1, <1>7, <3>0
    <3> QED
      BY <1>4, <3>1
  <2>2. CASE Carries(cs[1])
    BY <1>0, <2>1, <2>2 DEF Final, Ahead
  <2>3. CASE ~Carries(cs[1])
    BY <1>0, <2>1, <2>3 DEF Ahead
  <2> QED
    BY <2>2, <2>3
<1>5. Ahead(ds, doc2, d, due)
  BY <1>3, <1>4 DEF Ahead
<1> QED
  BY <1>5 DEF ds

(* A call is served whose answer will be shown, all that were sent after   *)
(* it still waiting; or one is served whose answer changes nothing shown.  *)
LEMMA CarryingServed ==
    ASSUME NEW cs \in Seq(Call), NEW ds \in Seq(Call), NEW i \in DOMAIN cs,
           DOMAIN ds = DOMAIN cs, \A j \in DOMAIN cs \ {i} : ds[j] = cs[j],
           \A j \in DOMAIN cs : j > i => cs[j].doc = None,
           NEW doc, NEW d, NEW due, Carries(ds[i]), UpToDate(ds[i].doc, d, due)
    PROVE  Ahead(ds, doc, d, due)
<1>1. ASSUME NEW j \in DOMAIN ds, Final(ds, j) PROVE UpToDate(ds[j].doc, d, due)
  <2>1. CASE j < i
    BY <1>1, <2>1 DEF Final
  <2>2. CASE j = i
    BY <2>2
  <2>3. CASE j > i
    <3>1. j \in DOMAIN cs \ {i} /\ ds[j].doc = None
      BY <2>3
    <3> QED
      BY <3>1 DEF UpToDate
  <2> QED
    BY <2>1, <2>2, <2>3
<1> QED
  BY <1>1 DEF Ahead

LEMMA QuietServed ==
    ASSUME NEW cs \in Seq(Call), NEW ds \in Seq(Call), NEW i \in DOMAIN cs,
           DOMAIN ds = DOMAIN cs, \A j \in DOMAIN cs \ {i} : ds[j] = cs[j],
           NEW doc, NEW d, NEW due, Ahead(cs, doc, d, due),
           ~Carries(cs[i]), ~Carries(ds[i])
    PROVE  Ahead(ds, doc, d, due)
<1>1. \A j \in DOMAIN cs : Carries(ds[j]) <=> Carries(cs[j])
  OBVIOUS
<1>2. \A j \in DOMAIN cs : Carries(cs[j]) => ds[j] = cs[j]
  OBVIOUS
<1> QED
  BY <1>1, <1>2 DEF Ahead, Final

---------------------------------------------------------------------------
(* Steps of the tab that leave the server alone.                           *)

LEMMA RewatchedKeeps ==
    ASSUME tab \in Tab, NEW r \in Tab
    PROVE  /\ Rewatched(r) \in Tab
           /\ Rewatched(r).page = r.page /\ Rewatched(r).shown = r.shown
           /\ Rewatched(r).conflict = r.conflict /\ Rewatched(r).told = r.told
           /\ Rewatched(r).timer = r.timer /\ Rewatched(r).error = r.error
           /\ Rewatched(r).missed = r.missed /\ Rewatched(r).inOrder = r.inOrder
<1>1. ASSUME NEW b \in BOOLEAN, NEW x \in Deals \cup {None}
      PROVE  [r EXCEPT !.joining = b, !.room = x] \in Tab
  BY DEF Tab
<1>2. ASSUME NEW b \in BOOLEAN, NEW x \in Deals \cup {None},
             NEW n, n = [r EXCEPT !.joining = b, !.room = x]
      PROVE  /\ n.page = r.page /\ n.shown = r.shown /\ n.conflict = r.conflict /\ n.told = r.told
             /\ n.timer = r.timer /\ n.error = r.error /\ n.missed = r.missed /\ n.inOrder = r.inOrder
  BY <1>2 DEF Tab
<1>3. \/ Rewatched(r) = r
      \/ \E b \in BOOLEAN, x \in Deals \cup {None} : Rewatched(r) = [r EXCEPT !.joining = b, !.room = x]
  <2>1. r.room \in Deals \cup {None}
    BY DEF Tab
  <2>. DEFINE b == Watching(r) # None
              x == IF Watching(r) = None THEN None ELSE r.room
  <2>2. b \in BOOLEAN /\ x \in Deals \cup {None}
    BY <2>1
  <2>3. Rewatched(r) = IF kind = "approver" \/ Watching(r) = Watching(tab) THEN r
                       ELSE [r EXCEPT !.joining = b, !.room = x]
    BY DEF Rewatched
  <2>. HIDE DEF b, x
  <2>4. CASE Rewatched(r) = r
    BY <2>4
  <2>5. CASE Rewatched(r) = [r EXCEPT !.joining = b, !.room = x]
    BY <2>2, <2>5, Zenon
  <2> QED
    BY <2>3, <2>4, <2>5
<1>4. CASE Rewatched(r) = r
  BY <1>4
<1>5. CASE \E b \in BOOLEAN, x \in Deals \cup {None} : Rewatched(r) = [r EXCEPT !.joining = b, !.room = x]
  <2>1. PICK b \in BOOLEAN, x \in Deals \cup {None} : Rewatched(r) = [r EXCEPT !.joining = b, !.room = x]
    BY <1>5
  <2>. DEFINE n == [r EXCEPT !.joining = b, !.room = x]
  <2>2. n \in Tab
    BY <1>1
  <2>3. /\ n.page = r.page /\ n.shown = r.shown /\ n.conflict = r.conflict /\ n.told = r.told
        /\ n.timer = r.timer /\ n.error = r.error /\ n.missed = r.missed /\ n.inOrder = r.inOrder
    BY <1>2
  <2>4. Rewatched(r) = n
    BY <2>1
  <2>. HIDE DEF n
  <2> QED
    BY <2>2, <2>3, <2>4
<1> QED
  BY <1>3, <1>4, <1>5

LEMMA ServerAlone ==
    ASSUME ServerInv, UNCHANGED <<deal, pending, announced>>
    PROVE  ServerInv'
  BY DEF ServerInv

LEMMA CallsAlone ==
    ASSUME CallsInv, calls' = calls, tab'.inOrder = tab.inOrder
    PROVE  CallsInv'
  BY DEF CallsInv

LEMMA CallAdded ==
    ASSUME calls \in Seq(Call), CallsInv, NEW c \in Call, c.state = "sent", c.doc = None,
           calls' = Append(calls, c), tab'.inOrder = tab.inOrder
    PROVE  calls' \in Seq(Call) /\ CallsInv'
<1>1. /\ calls' \in Seq(Call) /\ DOMAIN calls' = DOMAIN calls \cup {Len(calls) + 1}
      /\ \A k \in DOMAIN calls : k < Len(calls) + 1 /\ calls'[k] = calls[k]
      /\ calls'[Len(calls) + 1] = c
  BY Appended
<1>2. \A k \in DOMAIN calls' : calls'[k].state = "sent" => calls'[k].doc = None
  BY <1>1 DEF CallsInv
<1>3. ASSUME tab'.inOrder, NEW k \in DOMAIN calls', NEW m \in DOMAIN calls', k < m,
             calls'[m].state # "sent"
      PROVE  calls'[k].state # "sent"
  <2>1. m \in DOMAIN calls /\ calls'[m] = calls[m]
    BY <1>1, <1>3
  <2>2. k \in DOMAIN calls /\ calls'[k] = calls[k]
    BY <1>1, <1>3, <2>1
  <2> QED
    BY <1>3, <2>1, <2>2 DEF CallsInv
<1> QED
  BY <1>1, <1>2, <1>3 DEF CallsInv

LEMMA PageLoads ==
    ASSUME calls \in Seq(Call), NEW c \in Call, c.op = "get", c.doc = None,
           calls' = Append(calls, c)
    PROVE  PageInv'
<1>1. \A doc, d, due : Ahead(calls', doc, d, due)
  BY LoadAdded
<1> QED
  BY <1>1 DEF PageInv

LEMMA PageAlone ==
    ASSUME calls \in Seq(Call), PageInv,
           \/ calls' = calls
           \/ \E c \in Call : calls' = Append(calls, c) /\ ~Carries(c),
           tab'.page = tab.page, tab'.shown = tab.shown, tab.missed => tab'.missed,
           tab'.inOrder = tab.inOrder, UNCHANGED <<pending, announced>>,
           Warned => Warned' \/ tab'.missed
    PROVE  PageInv'
<1>1. \A doc, d, due : Ahead(calls, doc, d, due) => Ahead(calls', doc, d, due)
  BY QuietCallAdded
<1>2. Due(tab.page)' = Due(tab.page)
  BY DEF Due
<1> QED
  BY <1>1, <1>2 DEF PageInv

LEMMA LoadingKeeps ==
    ASSUME NEW r \in Tab
    PROVE  /\ Loading(r) \in Tab
           /\ Loading(r).page = r.page /\ Loading(r).shown = r.shown
           /\ Loading(r).inOrder = r.inOrder /\ Loading(r).timer = r.timer
  BY DEF Loading, Tab

LEMMA OpenKeeps ==
    ASSUME LiveInv, NEW d \in Deals, Open(d)
    PROVE  LiveInv'
<1>. DEFINE opened == [tab EXCEPT !.page = d, !.typed = FALSE, !.told = FALSE, !.missed = FALSE]
            c == Request("get", d)
<1>0. tab \in Tab /\ calls \in Seq(Call) /\ CallsInv
  BY DEF LiveInv, TypeOK
<1>1. opened \in Tab /\ opened.inOrder = tab.inOrder /\ opened.page = d
  BY <1>0 DEF Tab
<1>2. tab' = Rewatched(Loading(opened)) /\ calls' = Append(calls, c)
  BY DEF Open, Sends
<1>. HIDE DEF opened
<1>3. tab' \in Tab /\ tab'.inOrder = tab.inOrder /\ tab'.page = d
  BY <1>0, <1>1, <1>2, LoadingKeeps, RewatchedKeeps
<1>4. c \in Call /\ c.op = "get" /\ c.state = "sent" /\ c.doc = None
  BY RequestTyped DEF Ops
<1>. HIDE DEF c
<1>5. calls' \in Seq(Call) /\ CallsInv'
  BY <1>0, <1>2, <1>3, <1>4, CallAdded
<1>6. PageInv'
  BY <1>0, <1>2, <1>4, PageLoads
<1>7. TypeOK'
  BY <1>3, <1>5 DEF Open, LiveInv, TypeOK
<1>8. ServerInv'
  BY ServerAlone DEF Open, LiveInv
<1>9. BurstInv'
  BY <1>3, TabAssumption DEF BurstInv
<1> QED
  BY <1>5, <1>6, <1>7, <1>8, <1>9 DEF LiveInv

LEMMA FollowKeeps ==
    ASSUME LiveInv, NEW d \in Deals, Follow(d)
    PROVE  LiveInv'
<1>. DEFINE followed == [tab EXCEPT !.page = d, !.missed = TRUE]
<1>0. tab \in Tab
  BY DEF LiveInv, TypeOK
<1>1. followed \in Tab /\ followed.inOrder = tab.inOrder /\ followed.missed /\ followed.page = d
  BY <1>0 DEF Tab
<1>2. tab' = Rewatched(followed)
  BY DEF Follow
<1>. HIDE DEF followed
<1>3. tab' \in Tab /\ tab'.inOrder = tab.inOrder /\ tab'.missed /\ tab'.page = d
  BY <1>0, <1>1, <1>2, RewatchedKeeps
<1>4. TypeOK' /\ PageInv' /\ BurstInv'
  BY <1>3, TabAssumption DEF Follow, LiveInv, TypeOK, PageInv, BurstInv
<1>5. ServerInv' /\ CallsInv'
  BY <1>3, ServerAlone, CallsAlone DEF Follow, LiveInv
<1> QED
  BY <1>4, <1>5 DEF LiveInv

LEMMA LeaveKeeps ==
    ASSUME LiveInv, Leave
    PROVE  LiveInv'
<1>. DEFINE left == [tab EXCEPT !.page = None, !.timer = FALSE]
<1>0. tab \in Tab
  BY DEF LiveInv, TypeOK
<1>1. left \in Tab /\ left.inOrder = tab.inOrder /\ left.page = None /\ ~left.timer
  BY <1>0 DEF Tab
<1>2. tab' = Rewatched(left)
  BY DEF Leave
<1>. HIDE DEF left
<1>3. tab' \in Tab /\ tab'.inOrder = tab.inOrder /\ tab'.page = None /\ ~tab'.timer
  BY <1>0, <1>1, <1>2, RewatchedKeeps
<1>4. TypeOK' /\ PageInv' /\ BurstInv'
  BY <1>3 DEF Leave, LiveInv, TypeOK, PageInv, BurstInv
<1>5. ServerInv' /\ CallsInv'
  BY <1>3, ServerAlone, CallsAlone DEF Leave, LiveInv
<1> QED
  BY <1>4, <1>5 DEF LiveInv

(* A step that sends no load and changes nothing the page shows or knows.  *)
LEMMA AloneKeeps ==
    ASSUME LiveInv, tab' \in Tab,
           \/ calls' = calls
           \/ \E c \in Call : /\ calls' = Append(calls, c)
                              /\ ~Carries(c) /\ c.state = "sent" /\ c.doc = None,
           tab'.page = tab.page, tab'.shown = tab.shown, tab.missed => tab'.missed,
           tab'.inOrder = tab.inOrder, Warned => Warned' \/ tab'.missed,
           tab'.timer => tab.timer \/ tab.page # None,
           wire' \in Seq(Frame), UNCHANGED <<kind, deal, pending, announced>>
    PROVE  LiveInv'
<1>0. calls \in Seq(Call) /\ CallsInv
  BY DEF LiveInv, TypeOK
<1>1. calls' \in Seq(Call) /\ CallsInv'
  BY <1>0, CallAdded, CallsAlone
<1>2. PageInv'
  BY <1>0, PageAlone DEF LiveInv
<1>3. ServerInv'
  BY ServerAlone DEF LiveInv
<1>4. TypeOK'
  BY <1>1 DEF LiveInv, TypeOK
<1>5. BurstInv'
  BY DEF LiveInv, BurstInv
<1> QED
  BY <1>1, <1>2, <1>3, <1>4, <1>5 DEF LiveInv

LEMMA EditKeeps ==
    ASSUME LiveInv, Edit
    PROVE  LiveInv'
<1>0. tab \in Tab /\ wire \in Seq(Frame)
  BY DEF LiveInv, TypeOK
<1>1. tab' = [tab EXCEPT !.dirty = TRUE, !.typed = TRUE]
  BY DEF Edit
<1>2. /\ tab' \in Tab /\ tab'.page = tab.page /\ tab'.shown = tab.shown /\ tab'.missed = tab.missed
      /\ tab'.inOrder = tab.inOrder /\ tab'.conflict = tab.conflict /\ tab'.told = tab.told
      /\ tab'.timer = tab.timer /\ tab'.error = tab.error
  BY <1>0, <1>1 DEF Tab
<1>3. Warned => Warned'
  BY <1>2 DEF Edit, Warned
<1> QED
  BY <1>0, <1>2, <1>3, AloneKeeps DEF Edit

LEMMA ShownTyped ==
    ASSUME tab \in Tab, tab.shown # None
    PROVE  tab.shown.deal \in Deals /\ tab.shown.version \in Nat
  BY DEF Tab, Document

LEMMA SaveKeeps ==
    ASSUME LiveInv, NEW b \in BOOLEAN, Save(b)
    PROVE  LiveInv'
<1>. DEFINE r == Request("patch", tab.shown.deal)
            c == [r EXCEPT !.base = tab.shown.version, !.then = b]
<1>0. tab \in Tab /\ wire \in Seq(Frame) /\ tab.shown # None
  BY DEF LiveInv, TypeOK, Save, Editable, Visible
<1>1. tab' = [tab EXCEPT !.saving = TRUE, !.typed = FALSE] /\ calls' = Append(calls, c)
  BY DEF Save, Sends
<1>2. /\ tab' \in Tab /\ tab'.page = tab.page /\ tab'.shown = tab.shown /\ tab'.missed = tab.missed
      /\ tab'.inOrder = tab.inOrder /\ tab'.conflict = tab.conflict /\ tab'.told = tab.told
      /\ tab'.timer = tab.timer /\ tab'.error = tab.error
  BY <1>0, <1>1 DEF Tab
<1>3. r \in Call /\ r.op = "patch" /\ r.state = "sent" /\ r.doc = None
  BY <1>0, ShownTyped, RequestTyped DEF Ops
<1>. HIDE DEF r
<1>4. c \in Call /\ c.op = "patch" /\ c.state = "sent" /\ c.doc = None
  BY <1>0, <1>3, ShownTyped DEF Call
<1>. HIDE DEF c
<1>5. ~Carries(c)
  BY <1>4 DEF Carries
<1>6. Warned => Warned'
  BY <1>2 DEF Save, Warned
<1> QED
  BY <1>0, <1>1, <1>2, <1>4, <1>5, <1>6, AloneKeeps DEF Save

LEMMA SubmitKeeps ==
    ASSUME LiveInv, Submit
    PROVE  LiveInv'
<1>. DEFINE c == Request("submit", tab.shown.deal)
<1>0. tab \in Tab /\ wire \in Seq(Frame) /\ tab.shown # None
  BY DEF LiveInv, TypeOK, Submit, Editable, Visible
<1>1. tab' = [tab EXCEPT !.saving = TRUE] /\ calls' = Append(calls, c)
  BY DEF Submit, Sends
<1>2. /\ tab' \in Tab /\ tab'.page = tab.page /\ tab'.shown = tab.shown /\ tab'.missed = tab.missed
      /\ tab'.inOrder = tab.inOrder /\ tab'.conflict = tab.conflict /\ tab'.told = tab.told
      /\ tab'.timer = tab.timer /\ tab'.error = tab.error
  BY <1>0, <1>1 DEF Tab
<1>3. c \in Call /\ c.op = "submit" /\ c.state = "sent" /\ c.doc = None
  BY <1>0, ShownTyped, RequestTyped DEF Ops
<1>. HIDE DEF c
<1>4. ~Carries(c)
  BY <1>3 DEF Carries
<1>5. Warned => Warned'
  BY <1>2 DEF Submit, Warned
<1> QED
  BY <1>0, <1>1, <1>2, <1>3, <1>4, <1>5, AloneKeeps DEF Submit

LEMMA DecideKeeps ==
    ASSUME LiveInv, Decide
    PROVE  LiveInv'
<1>. DEFINE c == Request("decide", tab.page)
<1>0. tab \in Tab /\ wire \in Seq(Frame) /\ tab.page # None
  BY DEF LiveInv, TypeOK, Decide, Visible
<1>1. tab' = tab /\ wire' = wire /\ calls' = Append(calls, c)
  BY DEF Decide, Sends
<1>2. tab.page \in Deals
  BY <1>0 DEF Tab
<1>3. c \in Call /\ c.op = "decide" /\ c.state = "sent" /\ c.doc = None
  BY <1>2, RequestTyped DEF Ops
<1>. HIDE DEF c
<1>4. ~Carries(c)
  BY <1>3 DEF Carries
<1>5. Warned => Warned'
  BY <1>1 DEF Warned
<1> QED
  BY <1>0, <1>1, <1>3, <1>4, <1>5, AloneKeeps DEF Decide

LEMMA KeepEditingKeeps ==
    ASSUME LiveInv, KeepEditing
    PROVE  LiveInv'
<1>0. tab \in Tab /\ wire \in Seq(Frame)
  BY DEF LiveInv, TypeOK
<1>1. tab' = [tab EXCEPT !.conflict = FALSE, !.told = TRUE]
  BY DEF KeepEditing
<1>2. /\ tab' \in Tab /\ tab'.page = tab.page /\ tab'.shown = tab.shown /\ tab'.missed = tab.missed
      /\ tab'.inOrder = tab.inOrder /\ tab'.told /\ tab'.timer = tab.timer
  BY <1>0, <1>1 DEF Tab
<1>3. Warned'
  BY <1>2 DEF Warned
<1> QED
  BY <1>0, <1>2, <1>3, AloneKeeps DEF KeepEditing

(* A step that loads the page's document.                                  *)
LEMMA LoadKeeps ==
    ASSUME LiveInv, tab' \in Tab, tab'.inOrder = tab.inOrder, NEW d \in Deals,
           tab'.page = tab.page, tab'.timer => tab.timer,
           calls' = Append(calls, Request("get", d)),
           UNCHANGED <<kind, deal, pending, announced, wire>>
    PROVE  LiveInv'
<1>. DEFINE c == Request("get", d)
<1>0. calls \in Seq(Call) /\ CallsInv
  BY DEF LiveInv, TypeOK
<1>1. c \in Call /\ c.op = "get" /\ c.state = "sent" /\ c.doc = None
  BY RequestTyped DEF Ops
<1>2. calls' = Append(calls, c)
  OBVIOUS
<1>. HIDE DEF c
<1>3. calls' \in Seq(Call) /\ CallsInv'
  BY <1>0, <1>1, <1>2, CallAdded
<1>4. PageInv'
  BY <1>0, <1>1, <1>2, PageLoads
<1>5. TypeOK' /\ ServerInv' /\ BurstInv'
  BY <1>3, ServerAlone DEF LiveInv, TypeOK, BurstInv
<1> QED
  BY <1>3, <1>4, <1>5 DEF LiveInv

LEMMA ReloadLatestKeeps ==
    ASSUME LiveInv, ReloadLatest
    PROVE  LiveInv'
<1>. DEFINE r == [tab EXCEPT !.conflict = FALSE, !.told = FALSE, !.typed = FALSE]
<1>0. tab \in Tab /\ tab.shown # None
  BY DEF LiveInv, TypeOK, ReloadLatest, Visible
<1>1. r \in Tab /\ r.inOrder = tab.inOrder /\ r.page = tab.page /\ r.timer = tab.timer
  BY <1>0 DEF Tab
<1>2. tab' = Loading(r)
  BY DEF ReloadLatest
<1>. HIDE DEF r
<1>3. tab' \in Tab /\ tab'.inOrder = tab.inOrder /\ tab'.page = tab.page /\ tab'.timer = tab.timer
  BY <1>1, <1>2, LoadingKeeps
<1> QED
  BY <1>0, <1>3, ShownTyped, LoadKeeps DEF ReloadLatest, Sends

LEMMA ReloadKeeps ==
    ASSUME LiveInv, Reload
    PROVE  LiveInv'
<1>0. tab \in Tab /\ wire \in Seq(Frame)
  BY DEF LiveInv, TypeOK
<1>1. CASE tab' = [tab EXCEPT !.timer = FALSE, !.conflict = TRUE] /\ UNCHANGED calls
  <2>1. /\ tab' \in Tab /\ tab'.page = tab.page /\ tab'.shown = tab.shown /\ tab'.missed = tab.missed
        /\ tab'.inOrder = tab.inOrder /\ tab'.conflict /\ ~tab'.timer
    BY <1>0, <1>1 DEF Tab
  <2>2. Warned'
    BY <2>1 DEF Warned
  <2> QED
    BY <1>0, <1>1, <2>1, <2>2, AloneKeeps DEF Reload
<1>2. CASE tab' = Loading([tab EXCEPT !.timer = FALSE]) /\ Sends(Request("get", tab.page))
  <2>. DEFINE r == [tab EXCEPT !.timer = FALSE]
  <2>1. r \in Tab /\ r.inOrder = tab.inOrder /\ r.page = tab.page /\ ~r.timer
    BY <1>0 DEF Tab
  <2>2. tab' = Loading(r)
    BY <1>2
  <2>. HIDE DEF r
  <2>3. tab' \in Tab /\ tab'.inOrder = tab.inOrder /\ tab'.page = tab.page /\ ~tab'.timer
    BY <2>1, <2>2, LoadingKeeps
  <2>4. tab.page \in Deals
    BY <1>0 DEF Reload, LiveInv, BurstInv, Tab
  <2> QED
    BY <1>2, <2>3, <2>4, LoadKeeps DEF Reload, Sends
<1> QED
  BY <1>1, <1>2 DEF Reload

---------------------------------------------------------------------------
(* The socket.                                                             *)

LEMMA JoinKeeps ==
    ASSUME LiveInv, Join
    PROVE  LiveInv'
<1>0. tab \in Tab /\ wire \in Seq(Frame)
  BY DEF LiveInv, TypeOK
<1>1. tab' = [tab EXCEPT !.room = Watching(tab), !.joining = FALSE]
  BY DEF Join
<1>2. Watching(tab) \in Deals \cup {None}
  BY <1>0, ShownTyped DEF Watching, Tab
<1>3. /\ tab' \in Tab /\ tab'.page = tab.page /\ tab'.shown = tab.shown /\ tab'.missed = tab.missed
      /\ tab'.inOrder = tab.inOrder /\ tab'.conflict = tab.conflict /\ tab'.told = tab.told
      /\ tab'.timer = tab.timer /\ tab'.error = tab.error
  BY <1>0, <1>1, <1>2 DEF Tab
<1>4. Warned => Warned'
  BY <1>3 DEF Join, Warned
<1> QED
  BY <1>0, <1>3, <1>4, AloneKeeps DEF Join

LEMMA ReconnectKeeps ==
    ASSUME LiveInv, Reconnect
    PROVE  LiveInv'
<1>0. tab \in Tab /\ wire \in Seq(Frame)
  BY DEF LiveInv, TypeOK
<1>1. tab' = [tab EXCEPT !.online = TRUE]
  BY DEF Reconnect
<1>2. /\ tab' \in Tab /\ tab'.page = tab.page /\ tab'.shown = tab.shown /\ tab'.missed = tab.missed
      /\ tab'.inOrder = tab.inOrder /\ tab'.conflict = tab.conflict /\ tab'.told = tab.told
      /\ tab'.timer = tab.timer /\ tab'.error = tab.error
  BY <1>0, <1>1 DEF Tab
<1>3. Warned => Warned'
  BY <1>2 DEF Reconnect, Warned
<1> QED
  BY <1>0, <1>2, <1>3, AloneKeeps DEF Reconnect

LEMMA DisconnectKeeps ==
    ASSUME LiveInv, Disconnect
    PROVE  LiveInv'
<1>0. tab \in Tab /\ wire \in Seq(Frame) /\ wire' = <<>>
  BY DEF LiveInv, TypeOK, Disconnect
<1>1. tab' = [tab EXCEPT !.online = FALSE, !.room = None, !.joining = FALSE,
                         !.missed = @ \/ wire # <<>>]
  BY DEF Disconnect
<1>2. /\ tab' \in Tab /\ tab'.page = tab.page /\ tab'.shown = tab.shown
      /\ tab'.inOrder = tab.inOrder /\ tab'.conflict = tab.conflict /\ tab'.told = tab.told
      /\ tab'.timer = tab.timer /\ tab'.error = tab.error
  BY <1>0, <1>1 DEF Tab
<1>3. tab'.missed <=> tab.missed \/ wire # <<>>
  BY <1>0, <1>1 DEF Tab
<1>4. Warned => Warned' \/ tab'.missed
  BY <1>0, <1>2, <1>3 DEF Warned
<1>5. <<>> \in Seq(Frame)
  OBVIOUS
<1> QED
  BY <1>0, <1>2, <1>3, <1>4, <1>5, AloneKeeps DEF Disconnect

LEMMA DeliverKeeps ==
    ASSUME LiveInv, Deliver
    PROVE  LiveInv'
<1>. DEFINE f == Head(wire)
            heard == tab.page # None /\ ~Own(f) /\ Concerns(f)
            passed == ~heard /\ f.deal = tab.page /\ f.by # "tab"
<1>0. tab \in Tab /\ wire \in Seq(Frame) /\ wire # <<>> /\ wire' = Tail(wire)
  BY DEF LiveInv, TypeOK, Deliver
<1>1. tab' = [tab EXCEPT !.timer = @ \/ heard, !.missed = @ \/ passed]
  BY DEF Deliver
<1>2. heard \in BOOLEAN /\ passed \in BOOLEAN
  OBVIOUS
<1>3. heard => tab.page # None
  OBVIOUS
<1>4. f.deal = tab.page /\ f.by # "tab" => heard \/ passed
  OBVIOUS
<1>5. /\ Tail(wire) \in Seq(Frame)
      /\ \A i \in DOMAIN wire : i = 1 \/ (i - 1 \in DOMAIN Tail(wire) /\ Tail(wire)[i - 1] = wire[i])
  <2>1. Tail(wire) \in Seq(Frame) /\ Len(Tail(wire)) = Len(wire) - 1
    BY <1>0
  <2>2. \A k \in 1 .. Len(wire) - 1 : Tail(wire)[k] = wire[k + 1]
    BY <1>0
  <2>3. ASSUME NEW i \in DOMAIN wire, i # 1
        PROVE  i - 1 \in DOMAIN Tail(wire) /\ Tail(wire)[i - 1] = wire[i]
    <3>1. i - 1 \in 1 .. Len(wire) - 1 /\ (i - 1) + 1 = i
      BY <1>0, <2>3
    <3> QED
      BY <2>1, <2>2, <3>1
  <2> QED
    BY <2>1, <2>3
<1>6. wire[1] = f
  BY <1>0
<1>. HIDE DEF f, heard, passed
<1>7. /\ tab' \in Tab /\ tab'.page = tab.page /\ tab'.shown = tab.shown
      /\ tab'.inOrder = tab.inOrder /\ tab'.conflict = tab.conflict /\ tab'.told = tab.told
      /\ tab'.error = tab.error
      /\ (tab'.timer <=> tab.timer \/ heard) /\ (tab'.missed <=> tab.missed \/ passed)
  <2>. DEFINE b == tab.timer \/ heard  m == tab.missed \/ passed
  <2>1. b \in BOOLEAN /\ m \in BOOLEAN
    OBVIOUS
  <2>2. tab' = [tab EXCEPT !.timer = b, !.missed = m]
    BY <1>1
  <2>3. (b <=> tab.timer \/ heard) /\ (m <=> tab.missed \/ passed)
    OBVIOUS
  <2>. HIDE DEF b, m
  <2>4. /\ tab' \in Tab /\ tab'.page = tab.page /\ tab'.shown = tab.shown /\ tab'.inOrder = tab.inOrder
        /\ tab'.conflict = tab.conflict /\ tab'.told = tab.told /\ tab'.error = tab.error
        /\ tab'.timer = b /\ tab'.missed = m
    <3>1. tab' \in Tab
      BY <1>0, <2>1, <2>2 DEF Tab
    <3> QED
      BY <1>0, <2>1, <2>2, <3>1 DEF Tab
  <2> QED
    BY <2>3, <2>4
<1>8. Warned => Warned' \/ tab'.missed
  BY <1>0, <1>4, <1>5, <1>6, <1>7 DEF Warned
<1> QED
  BY <1>0, <1>3, <1>5, <1>7, <1>8, AloneKeeps DEF Deliver

---------------------------------------------------------------------------
(* The server.                                                             *)

LEMMA DueIsStored ==
    ASSUME ServerInv, deal \in [Deals -> Document], NEW d \in Deals, NEW v \in Due(d)
    PROVE  v \in Nat /\ v <= deal[d].version
  BY DEF ServerInv, Due

LEMMA DueIsStoredNext ==
    ASSUME ServerInv', deal' \in [Deals -> Document], NEW d \in Deals, NEW v \in Due(d)'
    PROVE  v \in Nat /\ v <= deal'[d].version
  BY DEF ServerInv, Due

LEMMA WriteGrows ==
    ASSUME deal \in [Deals -> Document], NEW d \in Deals, deal[d].deal = d, NEW s \in Stages,
           deal' = [deal EXCEPT ![d] = Written(d, s)]
    PROVE  /\ deal' \in [Deals -> Document]
           /\ \A e \in Deals : deal'[e].deal = deal[e].deal /\ deal[e].version <= deal'[e].version
           /\ deal'[d].version = deal[d].version + 1
<1>1. Written(d, s) \in Document /\ Written(d, s).deal = deal[d].deal
      /\ Written(d, s).version = deal[d].version + 1
  <2>1. deal[d] \in Document
    OBVIOUS
  <2> QED
    BY <2>1 DEF Written, Document
<1>2. \A e \in Deals : deal[e].version \in Nat
  BY DEF Document
<1> QED
  BY <1>1, <1>2

LEMMA StagesAreStages ==
    \A op : NextStages(op) \subseteq Stages
  BY DEF NextStages, Stages

(* What a write leaves of what the server keeps; n is what it will say.    *)
LEMMA WriteKeepsServer ==
    ASSUME ServerInv, deal \in [Deals -> Document], NEW d \in Deals, NEW s \in Stages,
           deal' = [deal EXCEPT ![d] = Written(d, s)], announced' = announced,
           \/ pending' = pending
           \/ \E by \in Authors : Announces(d, by)
    PROVE  ServerInv'
<1>1. /\ deal' \in [Deals -> Document]
      /\ \A e \in Deals : deal'[e].deal = deal[e].deal /\ deal[e].version <= deal'[e].version
      /\ deal'[d].version = deal[d].version + 1
  BY WriteGrows DEF ServerInv
<1>2. \A e \in Deals : deal[e].version \in Nat /\ deal'[e].version \in Nat
  BY <1>1 DEF Document
<1>3. ASSUME NEW a \in pending
      PROVE  a \in [deal : Deals, by : Authors, version : Nat] /\ a.version <= deal'[a.deal].version
  <2>1. a \in [deal : Deals, by : Authors, version : Nat] /\ a.version <= deal[a.deal].version
    BY DEF ServerInv
  <2>2. a.deal \in Deals /\ a.version \in Nat
    BY <2>1
  <2> QED
    BY <1>1, <1>2, <2>1, <2>2
<1>4. ASSUME NEW a \in pending'
      PROVE  a \in [deal : Deals, by : Authors, version : Nat] /\ a.version <= deal'[a.deal].version
  <2>1. CASE a \in pending
    BY <1>3, <2>1
  <2>2. CASE a \notin pending
    <3>1. PICK by \in Authors : a = [deal |-> d, by |-> by, version |-> deal[d].version + 1]
      BY <2>2 DEF Announces
    <3> QED
      BY <1>1, <1>2, <3>1
  <2> QED
    BY <2>1, <2>2
<1>5. \A e \in Deals : deal'[e].deal = e /\ announced'[e] <= deal'[e].version
  <2>1. \A e \in Deals : announced[e] \in Nat /\ announced[e] <= deal[e].version /\ deal[e].deal = e
    BY DEF ServerInv
  <2> QED
    BY <1>1, <1>2, <2>1
<1> QED
  BY <1>4, <1>5 DEF ServerInv

LEMMA OthersKeep ==
    ASSUME LiveInv, NEW d \in Deals, OthersPatch(d) \/ \E by \in {"user", "other"} : OthersMove(d, by)
    PROVE  LiveInv'
<1>0. deal \in [Deals -> Document] /\ ServerInv
  BY DEF LiveInv, TypeOK
<1>1. /\ UNCHANGED <<kind, announced, tab, calls, wire>>
      /\ pending' = pending \/ \E by \in {"user", "other"} : Announces(d, by)
  BY DEF OthersPatch, OthersMove
<1>2. PICK s \in Stages : deal' = [deal EXCEPT ![d] = Written(d, s)]
  <2>1. CASE OthersPatch(d)
    BY <2>1 DEF OthersPatch, Stages
  <2>2. ASSUME NEW by, OthersMove(d, by) PROVE \E s \in Stages : deal' = [deal EXCEPT ![d] = Written(d, s)]
    BY <2>2, StagesAreStages DEF OthersMove, Stages
  <2> QED
    BY <2>1, <2>2
<1>3. ServerInv'
  BY <1>0, <1>1, <1>2, WriteKeepsServer DEF Authors
<1>4. TypeOK'
  BY <1>0, <1>1, <1>2, WriteGrows DEF LiveInv, TypeOK, ServerInv
<1>5. Due(tab.page)' = Due(tab.page)
  BY <1>1 DEF Due, Announces
<1>6. CallsInv' /\ BurstInv'
  BY <1>1 DEF LiveInv, CallsInv, BurstInv
<1>7. Warned' <=> Warned
  BY <1>1 DEF Warned
<1>8. PageInv'
  BY <1>1, <1>5, <1>7 DEF LiveInv, PageInv
<1> QED
  BY <1>3, <1>4, <1>6, <1>8 DEF LiveInv

LEMMA AheadOfLess ==
    ASSUME NEW cs, NEW doc, NEW d, NEW due, NEW less, less \subseteq due, Ahead(cs, doc, d, due)
    PROVE  Ahead(cs, doc, d, less)
  BY DEF Ahead, UpToDate

LEMMA EmitKeeps ==
    ASSUME LiveInv, NEW a \in pending, Emit(a)
    PROVE  LiveInv'
<1>. DEFINE passed == tab.page = a.deal /\ ~Hears(a.deal) /\ a.by # "tab"
            f == [deal |-> a.deal, by |-> a.by]
<1>0. /\ tab \in Tab /\ wire \in Seq(Frame) /\ deal \in [Deals -> Document] /\ ServerInv
      /\ announced \in [Deals -> Nat]
      /\ UNCHANGED <<kind, deal, calls>>
  BY DEF LiveInv, TypeOK, Emit, ServerInv
<1>1. a.deal \in Deals /\ a.by \in Authors /\ a.version \in Nat /\ a.version <= deal[a.deal].version
  BY <1>0 DEF ServerInv
<1>2. /\ pending' = pending \ {a}
      /\ announced' = [announced EXCEPT ![a.deal] = IF a.version > @ THEN a.version ELSE @]
      /\ wire' = IF Hears(a.deal) THEN Append(wire, f) ELSE wire
      /\ tab' = [tab EXCEPT !.missed = @ \/ passed]
  BY DEF Emit
<1>3. passed \in BOOLEAN
  OBVIOUS
<1>4. f \in Frame
  BY <1>1 DEF Frame
<1>5. f.deal = a.deal /\ f.by = a.by
  OBVIOUS
<1>6. tab.page = a.deal /\ a.by # "tab" => Hears(a.deal) \/ passed
  OBVIOUS
<1>. HIDE DEF passed, f
<1>7. /\ tab' \in Tab /\ tab'.page = tab.page /\ tab'.shown = tab.shown
      /\ tab'.inOrder = tab.inOrder /\ tab'.conflict = tab.conflict /\ tab'.told = tab.told
      /\ tab'.error = tab.error /\ tab'.timer = tab.timer
      /\ (tab'.missed <=> tab.missed \/ passed)
  BY <1>0, <1>2, <1>3 DEF Tab
<1>8. /\ wire' \in Seq(Frame)
      /\ \A i \in DOMAIN wire : i \in DOMAIN wire' /\ wire'[i] = wire[i]
      /\ Hears(a.deal) => Len(wire) + 1 \in DOMAIN wire' /\ wire'[Len(wire) + 1] = f
  <2>1. CASE Hears(a.deal)
    <3>1. wire' = Append(wire, f)
      BY <1>2, <2>1
    <3> QED
      BY <1>0, <1>4, <3>1, Appended
  <2>2. CASE ~Hears(a.deal)
    BY <1>0, <1>2, <2>2
  <2> QED
    BY <2>1, <2>2
<1>9. Warned => Warned'
  BY <1>7, <1>8 DEF Warned
<1>10. tab.page = a.deal /\ a.by # "tab" => Warned' \/ tab'.missed
  BY <1>5, <1>6, <1>7, <1>8 DEF Warned
<1>11. ASSUME tab.page \in Deals, ~(tab.page = a.deal /\ a.by # "tab")
       PROVE  Due(tab.page)' \subseteq Due(tab.page)
  <2>1. tab'.page = tab.page
    BY <1>7
  <2>2. announced'[tab.page] \in Due(tab.page)
    <3>1. CASE tab.page = a.deal
      BY <1>0, <1>1, <1>2, <1>11, <3>1 DEF Due
    <3>2. CASE tab.page # a.deal
      BY <1>0, <1>2, <1>11, <3>2 DEF Due
    <3> QED
      BY <3>1, <3>2
  <2>3. {x \in pending' : x.deal = tab.page /\ x.by = "tab"} \subseteq {x \in pending : x.deal = tab.page /\ x.by = "tab"}
    BY <1>2
  <2> QED
    BY <2>1, <2>2, <2>3 DEF Due
<1>12. PageInv'
  <2>1. CASE tab.page = a.deal /\ a.by # "tab"
    BY <1>10, <2>1 DEF PageInv
  <2>2. CASE ~(tab.page = a.deal /\ a.by # "tab") /\ tab.page \in Deals
    <3>1. Due(tab.page)' \subseteq Due(tab.page)
      BY <1>11, <2>2
    <3>2. Ahead(calls, tab.shown, tab.page, Due(tab.page)) => Ahead(calls, tab.shown, tab.page, Due(tab.page)')
      BY <3>1, AheadOfLess
    <3> QED
      BY <1>0, <1>7, <1>9, <3>2 DEF LiveInv, PageInv
  <2>3. CASE tab.page \notin Deals
    <3>1. tab'.page = None
      BY <1>0, <1>7, <2>3 DEF Tab
    <3> QED
      BY <3>1 DEF PageInv
  <2> QED
    BY <2>1, <2>2, <2>3
<1>13. ServerInv'
  <2>1. announced' \in [Deals -> Nat]
    BY <1>0, <1>1, <1>2
  <2>2. \A d \in Deals : announced'[d] <= deal[d].version
    BY <1>0, <1>1, <1>2 DEF ServerInv
  <2> QED
    BY <1>0, <1>2, <2>1, <2>2 DEF ServerInv
<1>14. TypeOK' /\ CallsInv' /\ BurstInv'
  BY <1>0, <1>7, <1>8 DEF LiveInv, TypeOK, CallsInv, BurstInv
<1> QED
  BY <1>12, <1>13, <1>14 DEF LiveInv

(* The effects of serving a call: it has its outcome, its place and its    *)
(* operation, and the tab remembers if it overtook another.                *)
LEMMA ServedCall ==
    ASSUME LiveInv, NEW i \in DOMAIN calls, calls[i].state = "sent",
           NEW outcome \in {"done", "stale", "refused"}, NEW doc \in Document \cup {None},
           Answered(i, outcome, doc), NotesOrder(i)
    PROVE  /\ calls' \in Seq(Call) /\ DOMAIN calls' = DOMAIN calls
           /\ \A j \in DOMAIN calls \ {i} : calls'[j] = calls[j]
           /\ calls'[i].op = calls[i].op /\ calls'[i].state = outcome /\ calls'[i].doc = doc
           /\ tab' \in Tab /\ tab'.page = tab.page /\ tab'.shown = tab.shown
           /\ tab'.missed = tab.missed /\ tab'.conflict = tab.conflict /\ tab'.told = tab.told
           /\ tab'.error = tab.error /\ tab'.timer = tab.timer
           /\ tab'.inOrder => tab.inOrder /\ \A j \in DOMAIN calls : j > i => calls[j].doc = None
           /\ CallsInv' /\ BurstInv'
<1>0. calls \in Seq(Call) /\ tab \in Tab /\ CallsInv /\ BurstInv
  BY DEF LiveInv, TypeOK
<1>. DEFINE c == [calls[i] EXCEPT !.state = outcome, !.doc = doc]
<1>1. c \in Call /\ c.op = calls[i].op /\ c.state = outcome /\ c.doc = doc
  <2>1. calls[i] \in Call
    BY <1>0
  <2>2. \A x \in Call : LET n == [x EXCEPT !.state = outcome, !.doc = doc]
                        IN  n \in Call /\ n.op = x.op /\ n.state = outcome /\ n.doc = doc
    BY DEF Call
  <2> QED
    BY <2>1, <2>2
<1>2. calls' = [calls EXCEPT ![i] = c]
  BY <1>0 DEF Answered
<1>. HIDE DEF c
<1>3. /\ calls' \in Seq(Call) /\ DOMAIN calls' = DOMAIN calls
      /\ \A j \in DOMAIN calls \ {i} : calls'[j] = calls[j]
      /\ calls'[i] = c
  BY <1>0, <1>1, <1>2
<1>. DEFINE o == \A j \in 1 .. (i - 1) : calls[j].state # "sent"
<1>4. tab' = [tab EXCEPT !.inOrder = @ /\ o]
  BY DEF NotesOrder
<1>5. o \in BOOLEAN
  OBVIOUS
<1>6. o => \A j \in 1 .. (i - 1) : calls[j].state # "sent"
  OBVIOUS
<1>. HIDE DEF o
<1>7. /\ tab' \in Tab /\ tab'.page = tab.page /\ tab'.shown = tab.shown
      /\ tab'.missed = tab.missed /\ tab'.conflict = tab.conflict /\ tab'.told = tab.told
      /\ tab'.error = tab.error /\ tab'.timer = tab.timer
      /\ (tab'.inOrder <=> tab.inOrder /\ o)
  BY <1>0, <1>4, <1>5 DEF Tab
<1>8. ASSUME tab'.inOrder, NEW j \in DOMAIN calls, j > i PROVE calls[j].doc = None
  BY <1>0, <1>7, <1>8 DEF CallsInv
<1>9. \A j \in DOMAIN calls' : calls'[j].state = "sent" => calls'[j].doc = None
  BY <1>0, <1>1, <1>3 DEF CallsInv
<1>10. ASSUME tab'.inOrder, NEW j \in DOMAIN calls', NEW k \in DOMAIN calls', j < k,
              calls'[k].state # "sent"
       PROVE  calls'[j].state # "sent"
  <2>1. CASE j = i
    BY <1>1, <1>3, <2>1
  <2>2. CASE j # i /\ k = i
    <3>1. j \in 1 .. (i - 1)
      BY <1>0, <1>3, <1>10, <2>2
    <3> QED
      BY <1>3, <1>6, <1>7, <1>10, <2>2, <3>1
  <2>3. CASE j # i /\ k # i
    BY <1>0, <1>3, <1>7, <1>10, <2>3 DEF CallsInv
  <2> QED
    BY <2>1, <2>2, <2>3
<1>11. CallsInv'
  BY <1>9, <1>10 DEF CallsInv
<1>12. BurstInv'
  BY <1>0, <1>7 DEF BurstInv
<1> QED
  BY <1>1, <1>3, <1>7, <1>8, <1>11, <1>12

(* What the page will show after a call is served: either the answer shows *)
(* nothing, or what it shows is stored.                                    *)
LEMMA ServedPage ==
    ASSUME LiveInv, NEW i \in DOMAIN calls, calls[i].state = "sent",
           NEW outcome \in {"done", "stale", "refused"}, NEW doc \in Document \cup {None},
           Answered(i, outcome, doc), NotesOrder(i), UNCHANGED wire,
           \/ /\ (calls[i].op # "get" /\ outcome # "done") \/ calls[i].op = "list"
              /\ UNCHANGED <<pending, announced>>
           \/ /\ calls[i].op # "list" /\ outcome = "done"
              /\ \A d \in Deals : UpToDate(doc, d, Due(d)')
    PROVE  PageInv'
<1>0. calls \in Seq(Call) /\ tab \in Tab /\ PageInv
  BY DEF LiveInv, TypeOK
<1>1. /\ calls' \in Seq(Call) /\ DOMAIN calls' = DOMAIN calls
      /\ \A j \in DOMAIN calls \ {i} : calls'[j] = calls[j]
      /\ calls'[i].op = calls[i].op /\ calls'[i].state = outcome /\ calls'[i].doc = doc
      /\ tab'.page = tab.page /\ tab'.shown = tab.shown
      /\ tab'.missed = tab.missed /\ tab'.conflict = tab.conflict /\ tab'.told = tab.told
      /\ tab'.error = tab.error /\ tab'.timer = tab.timer
      /\ tab'.inOrder => tab.inOrder /\ \A j \in DOMAIN calls : j > i => calls[j].doc = None
  BY ServedCall
<1>2. Warned => Warned'
  BY <1>1 DEF Warned
<1>3. calls[i].op \in Ops
  <2>1. calls[i] \in Call
    BY <1>0
  <2> QED
    BY <2>1 DEF Call, Ops
<1>4. CASE /\ (calls[i].op # "get" /\ outcome # "done") \/ calls[i].op = "list"
           /\ UNCHANGED <<pending, announced>>
  <2>1. ~Carries(calls[i]) /\ ~Carries(calls'[i])
    BY <1>1, <1>4 DEF Carries
  <2>2. \A s, d, due : Ahead(calls, s, d, due) => Ahead(calls', s, d, due)
    BY <1>0, <1>1, <2>1, QuietServed
  <2>3. Due(tab.page)' = Due(tab.page)
    BY <1>1, <1>4 DEF Due
  <2> QED
    BY <1>0, <1>1, <1>2, <2>2, <2>3 DEF PageInv
<1>5. CASE /\ calls[i].op # "list" /\ outcome = "done"
           /\ \A d \in Deals : UpToDate(doc, d, Due(d)')
  <2>1. Carries(calls'[i])
    BY <1>1, <1>3, <1>5 DEF Carries, Ops
  <2>2. ASSUME tab'.inOrder, tab'.page # None
        PROVE  Ahead(calls', tab'.shown, tab'.page, Due(tab.page)')
    <3>1. tab.page \in Deals /\ tab'.page = tab.page
      BY <1>0, <1>1, <2>2 DEF Tab
    <3>2. UpToDate(calls'[i].doc, tab.page, Due(tab.page)')
      BY <1>1, <1>5, <3>1
    <3> QED
      BY <1>0, <1>1, <2>1, <2>2, <3>1, <3>2, CarryingServed
  <2> QED
    BY <2>2 DEF PageInv
<1> QED
  BY <1>4, <1>5

LEMMA ServeReadKeeps ==
    ASSUME LiveInv, NEW i \in DOMAIN calls, ServeRead(i)
    PROVE  LiveInv'
<1>. DEFINE doc == IF calls[i].op = "get" THEN deal[calls[i].deal] ELSE None
<1>0. /\ deal \in [Deals -> Document] /\ calls \in Seq(Call) /\ ServerInv
      /\ UNCHANGED <<kind, deal, pending, announced, wire>>
  BY DEF LiveInv, TypeOK, ServeRead
<1>1. calls[i].state = "sent" /\ calls[i].op \in {"get", "list"} /\ calls[i].deal \in Deals
  <2>1. calls[i] \in Call
    BY <1>0
  <2> QED
    BY <2>1 DEF ServeRead, Call
<1>2. Answered(i, "done", doc) /\ NotesOrder(i)
  BY DEF ServeRead
<1>3. doc \in Document \cup {None}
  BY <1>0, <1>1
<1>4. ASSUME calls[i].op = "get", NEW d \in Deals PROVE UpToDate(doc, d, Due(d)')
  <2>1. doc = deal[calls[i].deal] /\ doc.deal = calls[i].deal
    BY <1>0, <1>1, <1>4 DEF ServerInv
  <2>2. Due(d)' = Due(d)
    BY <1>0 DEF Due
  <2>3. \A v \in Due(d) : v <= deal[d].version
    BY <1>0, DueIsStored
  <2> QED
    BY <2>1, <2>2, <2>3 DEF UpToDate
<1>. HIDE DEF doc
<1>5. /\ calls' \in Seq(Call) /\ tab' \in Tab /\ CallsInv' /\ BurstInv'
  BY <1>1, <1>2, <1>3, ServedCall
<1>6. PageInv'
  BY <1>0, <1>1, <1>2, <1>3, <1>4, ServedPage
<1>7. ServerInv' /\ TypeOK'
  BY <1>0, <1>5, ServerAlone DEF LiveInv, TypeOK
<1> QED
  BY <1>5, <1>6, <1>7 DEF LiveInv

(* A write that is done shows what is stored from then on.                 *)
LEMMA StoredIsUpToDate ==
    ASSUME ServerInv', deal' \in [Deals -> Document], NEW e \in Deals, NEW d \in Deals
    PROVE  UpToDate(deal'[e], d, Due(d)')
<1>1. deal'[e].deal = e
  BY DEF ServerInv
<1>2. \A v \in Due(d)' : v <= deal'[d].version
  BY DueIsStoredNext
<1> QED
  BY <1>1, <1>2 DEF UpToDate

LEMMA ServePatchKeeps ==
    ASSUME LiveInv, NEW i \in DOMAIN calls, ServePatch(i)
    PROVE  LiveInv'
<1>0. /\ deal \in [Deals -> Document] /\ calls \in Seq(Call) /\ ServerInv
      /\ UNCHANGED <<kind, pending, announced, wire>> /\ NotesOrder(i)
  BY DEF LiveInv, TypeOK, ServePatch
<1>1. calls[i].state = "sent" /\ calls[i].op = "patch" /\ calls[i].deal \in Deals
  <2>1. calls[i] \in Call
    BY <1>0
  <2> QED
    BY <2>1 DEF ServePatch, Call
<1>2. ASSUME NEW outcome \in {"stale", "refused"}, Answered(i, outcome, None), UNCHANGED deal
      PROVE  LiveInv'
  <2>1. /\ calls' \in Seq(Call) /\ tab' \in Tab /\ CallsInv' /\ BurstInv'
    BY <1>0, <1>1, <1>2, ServedCall
  <2>2. PageInv'
    BY <1>0, <1>1, <1>2, ServedPage
  <2>3. ServerInv' /\ TypeOK'
    BY <1>0, <1>2, <2>1, ServerAlone DEF LiveInv, TypeOK
  <2> QED
    BY <2>1, <2>2, <2>3 DEF LiveInv
<1>3. ASSUME deal' = [deal EXCEPT ![calls[i].deal] = Written(calls[i].deal, "DRAFT")],
             Answered(i, "done", deal'[calls[i].deal])
      PROVE  LiveInv'
  <2>1. deal' \in [Deals -> Document] /\ ServerInv'
    BY <1>0, <1>1, <1>3, WriteGrows, WriteKeepsServer DEF Stages, ServerInv
  <2>2. deal'[calls[i].deal] \in Document
    BY <1>1, <2>1
  <2>3. \A d \in Deals : UpToDate(deal'[calls[i].deal], d, Due(d)')
    BY <1>1, <2>1, StoredIsUpToDate
  <2>4. /\ calls' \in Seq(Call) /\ tab' \in Tab /\ CallsInv' /\ BurstInv'
    BY <1>0, <1>1, <1>3, <2>2, ServedCall
  <2>5. PageInv'
    BY <1>0, <1>1, <1>3, <2>2, <2>3, ServedPage
  <2>6. TypeOK'
    BY <1>0, <2>1, <2>4 DEF LiveInv, TypeOK
  <2> QED
    BY <2>1, <2>4, <2>5, <2>6 DEF LiveInv
<1> QED
  BY <1>2, <1>3 DEF ServePatch

LEMMA ServeMoveKeeps ==
    ASSUME LiveInv, NEW i \in DOMAIN calls, ServeMove(i)
    PROVE  LiveInv'
<1>0. /\ deal \in [Deals -> Document] /\ calls \in Seq(Call) /\ ServerInv
      /\ UNCHANGED <<kind, announced, wire>> /\ NotesOrder(i)
  BY DEF LiveInv, TypeOK, ServeMove
<1>1. calls[i].state = "sent" /\ calls[i].op \in {"submit", "decide"} /\ calls[i].deal \in Deals
  <2>1. calls[i] \in Call
    BY <1>0
  <2> QED
    BY <2>1 DEF ServeMove, Call
<1>2. ASSUME Answered(i, "refused", None), UNCHANGED <<deal, pending>>
      PROVE  LiveInv'
  <2>1. /\ calls' \in Seq(Call) /\ tab' \in Tab /\ CallsInv' /\ BurstInv'
    BY <1>0, <1>1, <1>2, ServedCall
  <2>2. PageInv'
    BY <1>0, <1>1, <1>2, ServedPage
  <2>3. ServerInv' /\ TypeOK'
    BY <1>0, <1>2, <2>1, ServerAlone DEF LiveInv, TypeOK
  <2> QED
    BY <2>1, <2>2, <2>3 DEF LiveInv
<1>3. ASSUME NEW s \in Stages, deal' = [deal EXCEPT ![calls[i].deal] = Written(calls[i].deal, s)],
             Answered(i, "done", deal'[calls[i].deal]), Announces(calls[i].deal, "tab")
      PROVE  LiveInv'
  <2>1. deal' \in [Deals -> Document] /\ ServerInv'
    BY <1>0, <1>1, <1>3, WriteGrows, WriteKeepsServer DEF Authors, ServerInv
  <2>2. deal'[calls[i].deal] \in Document
    BY <1>1, <2>1
  <2>3. \A d \in Deals : UpToDate(deal'[calls[i].deal], d, Due(d)')
    BY <1>1, <2>1, StoredIsUpToDate
  <2>4. /\ calls' \in Seq(Call) /\ tab' \in Tab /\ CallsInv' /\ BurstInv'
    BY <1>0, <1>1, <1>3, <2>2, ServedCall
  <2>5. PageInv'
    BY <1>0, <1>1, <1>3, <2>2, <2>3, ServedPage
  <2>6. TypeOK'
    BY <1>0, <2>1, <2>4 DEF LiveInv, TypeOK
  <2> QED
    BY <2>1, <2>4, <2>5, <2>6 DEF LiveInv
<1>4. NextStages(calls[i].op) \subseteq Stages
  BY StagesAreStages
<1> QED
  BY <1>2, <1>3, <1>4 DEF ServeMove

---------------------------------------------------------------------------
(* Answers and failures.                                                   *)

LEMMA AppliedFields ==
    ASSUME tab \in Tab, NEW c \in Call, c.state # "sent"
    PROVE  LET r == Applied(tab, c)
           IN  /\ r \in Tab /\ r.page = tab.page /\ r.timer = tab.timer /\ r.inOrder = tab.inOrder
               /\ tab.missed => r.missed
               /\ r.shown = IF Carries(c) THEN c.doc ELSE tab.shown
               /\ tab.conflict \/ tab.told \/ tab.error
                     => r.conflict \/ r.told \/ r.error \/ r.missed
<1>0. c.doc \in Document \cup {None} /\ c.then \in BOOLEAN /\ c.op \in Ops
  BY DEF Call, Ops
<1>1. CASE c.op = "get"
  <2>. DEFINE r == [tab EXCEPT !.shown = c.doc, !.typed = FALSE, !.dirty = FALSE, !.loading = FALSE,
                              !.told = FALSE, !.missed = tab.missed \/ tab.told]
  <2>1. Applied(tab, c) = r
    BY <1>1 DEF Applied, Showing
  <2> QED
    BY <1>0, <1>1, <2>1 DEF Carries, Tab
<1>2. CASE c.op = "list"
  BY <1>2 DEF Applied, Carries, Tab
<1>3. CASE c.op = "decide" /\ c.state = "done"
  <2>. DEFINE m == tab.missed \/ tab.error
              r == [tab EXCEPT !.shown = c.doc, !.typed = FALSE, !.loading = TRUE,
                               !.error = FALSE, !.missed = m]
  <2>1. Applied(tab, c) = r
    BY <1>3 DEF Applied, Showing
  <2>2. m \in BOOLEAN /\ (m <=> tab.missed \/ tab.error)
    OBVIOUS
  <2>3. Carries(c)
    BY <1>3 DEF Carries
  <2>. HIDE DEF m
  <2>4. r \in Tab
    BY <1>0, <2>2 DEF Tab
  <2>5. /\ r.page = tab.page /\ r.timer = tab.timer /\ r.inOrder = tab.inOrder
        /\ r.shown = c.doc /\ r.missed = m /\ r.conflict = tab.conflict /\ r.told = tab.told
    BY DEF Tab
  <2> QED
    BY <2>1, <2>2, <2>3, <2>4, <2>5
<1>7. CASE c.op = "decide" /\ c.state # "done"
  BY <1>7 DEF Applied, Carries
<1>4. CASE c.op = "patch" /\ c.state = "done"
  <2>. DEFINE m == tab.missed \/ tab.conflict \/ tab.told
              r == [tab EXCEPT !.shown = c.doc, !.typed = FALSE, !.dirty = FALSE, !.conflict = FALSE,
                               !.saving = c.then, !.told = FALSE, !.missed = m]
  <2>1. Applied(tab, c) = r
    BY <1>4 DEF Applied, Showing
  <2>2. m \in BOOLEAN /\ (m <=> tab.missed \/ tab.conflict \/ tab.told)
    OBVIOUS
  <2>3. Carries(c)
    BY <1>4 DEF Carries
  <2>. HIDE DEF m
  <2>4. r \in Tab
    BY <1>0, <2>2 DEF Tab
  <2>5. /\ r.page = tab.page /\ r.timer = tab.timer /\ r.inOrder = tab.inOrder
        /\ r.shown = c.doc /\ r.missed = m
    BY DEF Tab
  <2> QED
    BY <2>1, <2>2, <2>3, <2>4, <2>5
<1>6. CASE c.op = "patch" /\ c.state # "done"
  <2>. DEFINE b == tab.conflict \/ c.state = "stale"
              r == [tab EXCEPT !.saving = FALSE, !.conflict = b]
  <2>1. Applied(tab, c) = r
    BY <1>6 DEF Applied
  <2>2. b \in BOOLEAN /\ (tab.conflict => b)
    OBVIOUS
  <2>3. ~Carries(c)
    BY <1>6 DEF Carries
  <2>. HIDE DEF b
  <2> QED
    BY <2>1, <2>2, <2>3 DEF Tab
<1>5. CASE c.op = "submit" /\ c.state = "done"
  <2>. DEFINE r == [tab EXCEPT !.shown = c.doc, !.typed = FALSE, !.saving = FALSE]
  <2>1. Applied(tab, c) = r /\ Carries(c)
    BY <1>5 DEF Applied, Showing, Carries
  <2>2. /\ r \in Tab
        /\ r.page = tab.page /\ r.timer = tab.timer /\ r.inOrder = tab.inOrder /\ r.shown = c.doc
        /\ r.missed = tab.missed /\ r.conflict = tab.conflict /\ r.told = tab.told
        /\ r.error = tab.error
    BY <1>0 DEF Tab
  <2> QED
    BY <2>1, <2>2
<1>8. CASE c.op = "submit" /\ c.state # "done"
  <2>. DEFINE r == [tab EXCEPT !.saving = FALSE]
  <2>1. Applied(tab, c) = r /\ ~Carries(c)
    BY <1>8 DEF Applied, Carries
  <2> QED
    BY <2>1 DEF Tab
<1> QED
  BY <1>0, <1>1, <1>2, <1>3, <1>4, <1>5, <1>6, <1>7, <1>8 DEF Ops

LEMMA FollowUpFields ==
    ASSUME NEW c \in Call
    PROVE  /\ FollowUp(c) \in Seq(Call) /\ Len(FollowUp(c)) <= 1
           /\ \A k \in DOMAIN FollowUp(c) : /\ ~Carries(FollowUp(c)[k])
                                           /\ FollowUp(c)[k].state = "sent"
                                           /\ FollowUp(c)[k].doc = None
<1>0. c.deal \in Deals
  BY DEF Call
<1>1. ASSUME NEW op \in {"submit", "list"}, FollowUp(c) = <<Request(op, c.deal)>>
      PROVE  /\ FollowUp(c) \in Seq(Call) /\ Len(FollowUp(c)) <= 1
             /\ \A k \in DOMAIN FollowUp(c) : /\ ~Carries(FollowUp(c)[k])
                                             /\ FollowUp(c)[k].state = "sent"
                                             /\ FollowUp(c)[k].doc = None
  <2>. DEFINE n == Request(op, c.deal)
  <2>1. n \in Call /\ n.op = op /\ n.state = "sent" /\ n.doc = None
    BY <1>0, RequestTyped DEF Ops
  <2>2. FollowUp(c) = <<n>>
    BY <1>1
  <2>. HIDE DEF n
  <2>3. ~Carries(n)
    BY <2>1 DEF Carries
  <2> QED
    BY <2>1, <2>2, <2>3
<1>2. CASE FollowUp(c) = <<>>
  BY <1>2
<1> QED
  BY <1>1, <1>2 DEF FollowUp

LEMMA AnswerKeeps ==
    ASSUME LiveInv, NEW i \in DOMAIN calls, Answer(i)
    PROVE  LiveInv'
<1>. DEFINE c == calls[i]
            a == Applied(tab, c)
            o == tab.inOrder /\ i = 1
            f == FollowUp(c)
<1>0. /\ deal \in [Deals -> Document] /\ calls \in Seq(Call) /\ tab \in Tab
      /\ ServerInv /\ CallsInv /\ BurstInv /\ PageInv
      /\ UNCHANGED <<kind, deal, pending, announced, wire>>
  BY DEF LiveInv, TypeOK, Answer
<1>1. c \in Call /\ c.state # "sent"
  BY <1>0 DEF Answer
<1>2. /\ a \in Tab /\ a.page = tab.page /\ a.timer = tab.timer /\ a.inOrder = tab.inOrder
      /\ tab.missed => a.missed
      /\ a.shown = IF Carries(c) THEN c.doc ELSE tab.shown
      /\ tab.conflict \/ tab.told \/ tab.error => a.conflict \/ a.told \/ a.error \/ a.missed
  BY <1>0, <1>1, AppliedFields
<1>3. calls' = RemoveAt(calls, i) \o f /\ tab' = Rewatched([a EXCEPT !.inOrder = @ /\ i = 1])
  BY DEF Answer
<1>4. /\ f \in Seq(Call) /\ Len(f) <= 1
      /\ \A k \in DOMAIN f : ~Carries(f[k]) /\ f[k].state = "sent" /\ f[k].doc = None
  BY <1>1, FollowUpFields
<1>5. o \in BOOLEAN /\ (o <=> tab.inOrder /\ i = 1)
  OBVIOUS
<1>. HIDE DEF a, f
<1>6. tab' = Rewatched([a EXCEPT !.inOrder = o])
  BY <1>2, <1>3
<1>. HIDE DEF o
<1>7. /\ tab' \in Tab /\ tab'.page = tab.page /\ tab'.timer = tab.timer /\ tab'.inOrder = o
      /\ tab'.missed = a.missed /\ tab'.shown = a.shown /\ tab'.conflict = a.conflict
      /\ tab'.told = a.told /\ tab'.error = a.error
  <2>. DEFINE r == [a EXCEPT !.inOrder = o]
  <2>1. /\ r \in Tab /\ r.page = a.page /\ r.timer = a.timer /\ r.inOrder = o
        /\ r.missed = a.missed /\ r.shown = a.shown /\ r.conflict = a.conflict
        /\ r.told = a.told /\ r.error = a.error
    BY <1>2, <1>5 DEF Tab
  <2>2. tab' = Rewatched(r)
    BY <1>6
  <2>. HIDE DEF r
  <2> QED
    BY <1>0, <1>2, <2>1, <2>2, RewatchedKeeps
<1>8. /\ calls' \in Seq(Call) /\ Len(calls') = Len(calls) - 1 + Len(f)
      /\ \A k \in 1 .. Len(calls) - 1 : calls'[k] = IF k < i THEN calls[k] ELSE calls[k + 1]
      /\ Len(f) = 1 => calls'[Len(calls)] = f[1]
  BY <1>0, <1>3, <1>4, Replaced
<1>9. /\ Len(calls) \in Nat /\ Len(f) \in Nat /\ Len(calls') \in Nat
      /\ DOMAIN calls' = 1 .. Len(calls') /\ DOMAIN f = 1 .. Len(f) /\ DOMAIN calls = 1 .. Len(calls)
  BY <1>0, <1>4, <1>8
<1>10. ASSUME NEW k \in DOMAIN calls'
       PROVE  \/ k \in 1 .. Len(calls) - 1
              \/ k = Len(calls) /\ calls'[k].state = "sent" /\ calls'[k].doc = None
  <2>1. CASE k = Len(calls)
    <3>1. Len(f) = 1
      BY <1>4, <1>8, <1>9, <2>1
    <3>2. 1 \in DOMAIN f /\ calls'[k] = f[1]
      BY <1>8, <1>9, <2>1, <3>1
    <3> QED
      BY <1>4, <2>1, <3>2
  <2> QED
    BY <1>4, <1>8, <1>9, <2>1
<1>11. ASSUME NEW k \in DOMAIN calls', calls'[k].state = "sent" PROVE calls'[k].doc = None
  <2>1. CASE k \in 1 .. Len(calls) - 1 /\ k < i
    BY <1>0, <1>8, <1>9, <1>11, <2>1 DEF CallsInv
  <2>2. CASE k \in 1 .. Len(calls) - 1 /\ ~(k < i)
    <3>1. calls'[k] = calls[k + 1] /\ k + 1 \in DOMAIN calls
      BY <1>8, <1>9, <2>2
    <3> QED
      BY <1>0, <1>11, <3>1 DEF CallsInv
  <2> QED
    BY <1>10, <2>1, <2>2
<1>12. ASSUME tab'.inOrder, NEW k \in DOMAIN calls', NEW m \in DOMAIN calls', k < m,
              calls'[m].state # "sent"
       PROVE  calls'[k].state # "sent"
  <2>1. tab.inOrder /\ i = 1
    BY <1>5, <1>7, <1>12
  <2>2. m \in 1 .. Len(calls) - 1
    BY <1>10, <1>12
  <2>3. k \in 1 .. Len(calls) - 1
    BY <1>9, <1>12, <2>2
  <2>4. /\ calls'[m] = calls[m + 1] /\ m + 1 \in DOMAIN calls
        /\ calls'[k] = calls[k + 1] /\ k + 1 \in DOMAIN calls /\ k + 1 < m + 1
    BY <1>8, <1>9, <1>12, <2>1, <2>2, <2>3
  <2> QED
    BY <1>0, <1>12, <2>1, <2>4 DEF CallsInv
<1>13. CallsInv'
  BY <1>11, <1>12 DEF CallsInv
<1>14. PageInv'
  <2>. SUFFICES ASSUME tab'.page # None, ~tab'.missed, tab'.inOrder
                PROVE  Warned' \/ Ahead(calls', tab'.shown, tab.page, Due(tab.page))
    <3>1. Due(tab.page)' = Due(tab.page)
      BY <1>0, <1>7 DEF Due
    <3> QED
      BY <1>7, <3>1 DEF PageInv
  <2>1. tab.page # None /\ ~tab.missed /\ tab.inOrder /\ i = 1
    BY <1>2, <1>5, <1>7
  <2>2. CASE Warned
    BY <1>0, <1>2, <1>7, <2>2 DEF Warned
  <2>3. CASE Ahead(calls, tab.shown, tab.page, Due(tab.page))
    <3>1. IF Carries(calls[1]) THEN tab'.shown = calls[1].doc ELSE tab'.shown = tab.shown
      BY <1>2, <1>7, <2>1
    <3>2. calls # <<>> /\ calls' = RemoveAt(calls, 1) \o f
      BY <1>0, <1>3, <2>1
    <3>3. \A k \in DOMAIN f : ~Carries(f[k])
      BY <1>4
    <3> QED
      BY <1>0, <1>4, <2>3, <3>1, <3>2, <3>3, FirstTaken
  <2> QED
    BY <1>0, <2>1, <2>2, <2>3 DEF PageInv
<1>15. ServerInv' /\ TypeOK' /\ BurstInv'
  BY <1>0, <1>7, <1>8, ServerAlone DEF LiveInv, TypeOK, BurstInv
<1> QED
  BY <1>13, <1>14, <1>15 DEF LiveInv

LEMMA CallFailsKeeps ==
    ASSUME LiveInv, NEW i \in DOMAIN calls, CallFails(i)
    PROVE  LiveInv'
<1>0. /\ deal \in [Deals -> Document] /\ calls \in Seq(Call) /\ tab \in Tab
      /\ ServerInv /\ CallsInv /\ BurstInv
      /\ UNCHANGED <<kind, deal, pending, announced, wire>>
      /\ tab' = Lost(tab, calls[i].op) /\ calls' = RemoveAt(calls, i)
  BY DEF LiveInv, TypeOK, CallFails
<1>1. calls[i].op \in Ops
  <2>1. calls[i] \in Call
    BY <1>0
  <2> QED
    BY <2>1 DEF Call, Ops
<1>2. /\ tab' \in Tab /\ tab'.page = tab.page /\ tab'.timer = tab.timer
      /\ tab'.inOrder = tab.inOrder /\ (tab'.missed \/ tab'.error)
  <2>1. CASE calls[i].op \in {"get", "list"}
    BY <1>0, <2>1 DEF Lost, Tab
  <2>2. CASE calls[i].op \in {"patch", "submit"}
    BY <1>0, <2>2 DEF Lost, Tab
  <2>3. CASE calls[i].op = "decide"
    BY <1>0, <2>3 DEF Lost, Tab
  <2> QED
    BY <1>1, <2>1, <2>2, <2>3 DEF Ops
<1>3. /\ calls' \in Seq(Call) /\ Len(calls') = Len(calls) - 1
      /\ \A k \in 1 .. Len(calls) - 1 : calls'[k] = IF k < i THEN calls[k] ELSE calls[k + 1]
  BY <1>0, TakenOut
<1>. DEFINE place(k) == IF k < i THEN k ELSE k + 1
<1>4. \A k \in DOMAIN calls' : place(k) \in DOMAIN calls /\ calls'[k] = calls[place(k)]
  BY <1>0, <1>3
<1>5. \A k, m \in DOMAIN calls' : k < m => place(k) < place(m)
  BY <1>0, <1>3
<1>. HIDE DEF place
<1>6. CallsInv'
  BY <1>0, <1>2, <1>4, <1>5 DEF CallsInv
<1>7. PageInv'
  BY <1>2 DEF PageInv, Warned
<1>8. ServerInv' /\ TypeOK' /\ BurstInv'
  BY <1>0, <1>2, <1>3, ServerAlone DEF LiveInv, TypeOK, BurstInv
<1> QED
  BY <1>6, <1>7, <1>8 DEF LiveInv

---------------------------------------------------------------------------
(* The theorems.                                                           *)

LEMMA LiveInitially == Init => LiveInv
<1>. SUFFICES ASSUME Init PROVE LiveInv
  OBVIOUS
<1>1. deal \in [Deals -> Document] /\ \A d \in Deals : deal[d].deal = d /\ deal[d].version = 1
  BY DEF Init, Document, Stages
<1>2. tab \in Tab /\ tab.page = None /\ ~tab.timer
  BY DEF Init, NewTab, Tab
<1>3. wire \in Seq(Frame) /\ calls \in Seq(Call) /\ calls = <<>>
  BY DEF Init
<1>4. TypeOK
  BY <1>1, <1>2, <1>3 DEF Init, TypeOK
<1>5. ServerInv
  BY <1>1 DEF Init, ServerInv
<1>6. CallsInv /\ PageInv /\ BurstInv
  BY <1>2, <1>3 DEF CallsInv, PageInv, BurstInv
<1> QED
  BY <1>4, <1>5, <1>6 DEF LiveInv

LEMMA LiveStays == LiveInv /\ [Next]_vars => LiveInv'
<1>. SUFFICES ASSUME LiveInv, [Next]_vars PROVE LiveInv'
  OBVIOUS
<1>1. CASE Uses
  BY <1>1, OpenKeeps, FollowKeeps, LeaveKeeps, EditKeeps, SaveKeeps, SubmitKeeps, KeepEditingKeeps,
     ReloadLatestKeeps, DecideKeeps DEF Uses
<1>2. CASE Serves
  BY <1>2, ServeReadKeeps, ServePatchKeeps, ServeMoveKeeps DEF Serves
<1>3. CASE Receives
  BY <1>3, AnswerKeeps DEF Receives
<1>4. CASE Join \/ Deliver \/ Reload \/ Disconnect \/ Reconnect
  BY <1>4, JoinKeeps, DeliverKeeps, ReloadKeeps, DisconnectKeeps, ReconnectKeeps
<1>5. CASE \E a \in pending : Emit(a)
  BY <1>5, EmitKeeps
<1>6. CASE \E d \in Deals : OthersPatch(d) \/ \E by \in {"user", "other"} : OthersMove(d, by)
  BY <1>6, OthersKeep
<1>7. CASE \E i \in DOMAIN calls : CallFails(i)
  BY <1>7, CallFailsKeeps
<1>8. CASE UNCHANGED vars
  BY <1>8 DEF vars, LiveInv, TypeOK, ServerInv, CallsInv, PageInv, BurstInv, Warned, Due
<1> QED
  BY <1>1, <1>2, <1>3, <1>4, <1>5, <1>6, <1>7, <1>8 DEF Next

(* What the page will show once the calls under way are answered is the    *)
(* newest state announced or written by the tab, unless the user is told   *)
(* or news passed the page by: kept by every step of tab, server and wire. *)
THEOREM LiveInvariant == Spec => []LiveInv
<1>1. Init => LiveInv
  BY LiveInitially
<1>2. LiveInv /\ [Next]_vars => LiveInv'
  BY LiveStays
<1> QED
  BY <1>1, <1>2, PTL DEF Spec

(* A page that waits for nothing shows what was announced of its deal or   *)
(* has told its user, unless it shows an error or news passed it by        *)
(* (live-refresh.ts and the stores' load).                                 *)
THEOREM NobodyStaysBehind == Spec => []NobodyIsLeftBehind
<1>1. LiveInv => NobodyIsLeftBehind
  <2>. SUFFICES ASSUME LiveInv, tab.page # None, Quiet(tab.page), ~Excused,
                       tab.shown # None, tab.page = tab.shown.deal,
                       ~tab.conflict, ~tab.told
                PROVE  tab.shown.version >= announced[tab.page]
    BY DEF LiveInv, NobodyIsLeftBehind, Current
  <2>1. ~Warned
    BY DEF Quiet, Excused, Warned
  <2>2. Ahead(calls, tab.shown, tab.page, Due(tab.page))
    BY <2>1 DEF LiveInv, PageInv, Excused
  <2>3. UpToDate(tab.shown, tab.page, Due(tab.page))
    BY <2>2 DEF Ahead, Quiet
  <2>4. announced[tab.page] <= tab.shown.version
    BY <2>3 DEF UpToDate, Due
  <2>5. announced[tab.page] \in Nat /\ tab.shown.version \in Nat
    BY DEF LiveInv, TypeOK, ServerInv, Tab, Document
  <2> QED
    BY <2>4, <2>5
<1> QED
  BY <1>1, LiveInvariant, PTL
====
