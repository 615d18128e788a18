--------------------------- MODULE PredictorProofs ---------------------------
(***************************************************************************)
(* Proof that two bits are enough to remember the last repeated outcome of *)
(* a branch, for any number of branches and outcomes.                      *)
(***************************************************************************)
EXTENDS PredictorHistory, SequenceTheorems, TLAPS

(* The outcomes of a branch, behind two that were not taken. *)
History(p) == <<FALSE, FALSE>> \o outcomes[p]

(* k is the last place where h repeats an outcome. *)
LastRepeat(h, k) ==
  /\ k \in 2 .. Len(h) /\ h[k] = h[k - 1]
  /\ \A j \in k + 1 .. Len(h) : h[j] # h[j - 1]

(* The bits of a branch with history h. *)
Remembers(bits, h) ==
  /\ bits[2] = h[Len(h)]
  /\ \E k \in 2 .. Len(h) : LastRepeat(h, k) /\ bits[1] = h[k]

HistoryInv ==
  /\ outcomes \in [Branches -> Seq(BOOLEAN)]
  /\ DOMAIN branch_map \subseteq Branches
  /\ branch_map \in [DOMAIN branch_map -> BOOLEAN \X BOOLEAN]
  /\ \A p \in Branches : p \notin DOMAIN branch_map => outcomes[p] = <<>>
  /\ \A p \in DOMAIN branch_map : Remembers(branch_map[p], History(p))

-----------------------------------------------------------------------------

LEMMA HistoryFacts ==
  ASSUME NEW s \in Seq(BOOLEAN)
  PROVE  LET h == <<FALSE, FALSE>> \o s IN
         /\ Len(s) \in Nat /\ Len(h) = Len(s) + 2
         /\ h[1] = FALSE /\ h[2] = FALSE
         /\ \A k \in 3 .. Len(h) : h[k] = s[k - 2]
<1>1. Len(s) \in Nat /\ <<FALSE, FALSE>> \in Seq(BOOLEAN) /\ Len(<<FALSE, FALSE>>) = 2
  OBVIOUS
<1> DEFINE f == <<FALSE, FALSE>>
<1>2. /\ Len(f \o s) = Len(f) + Len(s)
      /\ \A k \in 1 .. Len(f) + Len(s) : (f \o s)[k] = IF k <= Len(f) THEN f[k] ELSE s[k - Len(f)]
  BY <1>1, ConcatProperties
<1>3. f[1] = FALSE /\ f[2] = FALSE
  OBVIOUS
<1> QED BY <1>1, <1>2, <1>3

(* A new outcome extends the history. *)
LEMMA HistoryGrows ==
  ASSUME NEW s \in Seq(BOOLEAN), NEW o \in BOOLEAN
  PROVE  LET h  == <<FALSE, FALSE>> \o s
             h2 == <<FALSE, FALSE>> \o Append(s, o)
         IN  /\ Len(h) \in Nat /\ Len(h) >= 2 /\ Len(h2) = Len(h) + 1
             /\ h2[Len(h) + 1] = o
             /\ \A k \in 1 .. Len(h) : h2[k] = h[k]
<1> DEFINE h == <<FALSE, FALSE>> \o s
           t == Append(s, o)
           h2 == <<FALSE, FALSE>> \o t
<1>1. t \in Seq(BOOLEAN) /\ Len(t) = Len(s) + 1 /\ t[Len(s) + 1] = o
      /\ \A k \in 1 .. Len(s) : t[k] = s[k]
  OBVIOUS
<1> HIDE DEF t
<1>2. /\ Len(s) \in Nat /\ Len(h) = Len(s) + 2 /\ h[1] = FALSE /\ h[2] = FALSE
      /\ \A k \in 3 .. Len(h) : h[k] = s[k - 2]
  BY HistoryFacts
<1>3. /\ Len(h2) = Len(t) + 2 /\ h2[1] = FALSE /\ h2[2] = FALSE
      /\ \A k \in 3 .. Len(h2) : h2[k] = t[k - 2]
  BY <1>1, HistoryFacts
<1> HIDE DEF h, h2
<1>4. h2[Len(h) + 1] = o
  <2>1. Len(h) + 1 \in 3 .. Len(h2) /\ (Len(h) + 1) - 2 = Len(s) + 1
    BY <1>1, <1>2, <1>3
  <2> QED BY <1>1, <1>3, <2>1
<1>5. ASSUME NEW k \in 1 .. Len(h) PROVE h2[k] = h[k]
  <2>1. k = 1 \/ k = 2 \/ (k \in 3 .. Len(h) /\ k \in 3 .. Len(h2) /\ k - 2 \in 1 .. Len(s))
    BY <1>1, <1>2, <1>3
  <2> QED BY <1>1, <1>2, <1>3, <2>1
<1> QED BY <1>1, <1>2, <1>3, <1>4, <1>5 DEF h, h2, t

(* Training on an outcome keeps what the bits remember. *)
LEMMA TrainedRemembers ==
  ASSUME NEW s \in Seq(BOOLEAN), NEW bits \in BOOLEAN \X BOOLEAN, NEW taken \in {0, 1},
         Remembers(bits, <<FALSE, FALSE>> \o s)
  PROVE  Remembers(Trained(bits, taken), <<FALSE, FALSE>> \o Append(s, taken = 1))
<1> DEFINE o  == taken = 1
           h  == <<FALSE, FALSE>> \o s
           h2 == <<FALSE, FALSE>> \o Append(s, o)
           b2 == Trained(bits, taken)
<1>1. o \in BOOLEAN
  OBVIOUS
<1>2. b2[2] = o /\ b2[1] = IF bits[2] = o THEN o ELSE bits[1]
  BY DEF Trained
<1>3. Remembers(bits, h)
  OBVIOUS
<1> SUFFICES Remembers(b2, h2)
  OBVIOUS
<1> HIDE DEF o, b2
<1>4. /\ Len(h) \in Nat /\ Len(h) >= 2 /\ Len(h2) = Len(h) + 1 /\ h2[Len(h) + 1] = o
      /\ \A k \in 1 .. Len(h) : h2[k] = h[k]
  BY <1>1, HistoryGrows
<1> HIDE DEF h, h2
<1>5. Len(h) \in 1 .. Len(h) /\ h2[Len(h)] = bits[2]
  BY <1>3, <1>4 DEF Remembers
<1>6. CASE bits[2] = o
  <2> DEFINE k == Len(h) + 1
  <2>1. k \in 2 .. Len(h2) /\ k - 1 = Len(h) /\ \A j \in k + 1 .. Len(h2) : FALSE
    BY <1>4
  <2>2. h2[k] = h2[k - 1]
    BY <1>4, <1>5, <1>6, <2>1
  <2>3. b2[1] = h2[k] /\ b2[2] = h2[Len(h2)]
    BY <1>2, <1>4, <1>6
  <2> HIDE DEF k
  <2> QED BY <2>1, <2>2, <2>3 DEF Remembers, LastRepeat
<1>7. CASE bits[2] # o
  <2>1. PICK k \in 2 .. Len(h) : LastRepeat(h, k) /\ bits[1] = h[k]
    BY <1>3 DEF Remembers
  <2>2. k \in 2 .. Len(h2) /\ k \in 1 .. Len(h) /\ k - 1 \in 1 .. Len(h)
    BY <1>4
  <2>3. h2[k] = h2[k - 1]
    BY <1>4, <2>1, <2>2 DEF LastRepeat
  <2>4. ASSUME NEW j \in k + 1 .. Len(h2) PROVE h2[j] # h2[j - 1]
    <3>1. CASE j \in k + 1 .. Len(h)
      <4>1. j \in 1 .. Len(h) /\ j - 1 \in 1 .. Len(h)
        BY <1>4, <2>2, <3>1
      <4> QED BY <1>4, <2>1, <3>1, <4>1 DEF LastRepeat
    <3>2. CASE j = Len(h) + 1
      <4>1. j - 1 = Len(h)
        BY <1>4, <3>2
      <4> QED BY <1>4, <1>5, <1>7, <3>2, <4>1
    <3> QED BY <1>4, <2>2, <3>1, <3>2
  <2>5. b2[1] = h2[k] /\ b2[2] = h2[Len(h2)]
    BY <1>2, <1>4, <1>7, <2>1, <2>2
  <2> QED BY <2>2, <2>3, <2>4, <2>5 DEF Remembers, LastRepeat
<1> QED BY <1>6, <1>7

LEMMA InitRemembers == Init => HistoryInv
BY DEF Init, HistoryInv

LEMMA FetchRemembers ==
  ASSUME HistoryInv, NEW p \in Branches, Fetch(p) PROVE HistoryInv'
<1>1. /\ outcomes' = outcomes
      /\ DOMAIN branch_map' = DOMAIN branch_map \cup {p}
      /\ \A q \in DOMAIN branch_map' :
           branch_map'[q] = IF q \in DOMAIN branch_map THEN branch_map[q] ELSE <<FALSE, FALSE>>
      /\ branch_map' \in [DOMAIN branch_map' -> BOOLEAN \X BOOLEAN]
  BY DEF Fetch, Touched, HistoryInv
<1>2. ASSUME NEW q \in DOMAIN branch_map' PROVE Remembers(branch_map'[q], History(q)')
  <2>1. CASE q \in DOMAIN branch_map
    BY <1>1, <2>1 DEF HistoryInv, History
  <2>2. CASE q \notin DOMAIN branch_map
    <3> DEFINE h == <<FALSE, FALSE>> \o <<>>
    <3>1. History(q)' = h /\ branch_map'[q] = <<FALSE, FALSE>>
      BY <1>1, <2>2 DEF HistoryInv, History
    <3>2. <<>> \in Seq(BOOLEAN) /\ Len(<<>>) = 0
      OBVIOUS
    <3>3. Len(h) = 2 /\ h[1] = FALSE /\ h[2] = FALSE
      BY <3>2, HistoryFacts
    <3> HIDE DEF h
    <3>4. 2 \in 2 .. 2 /\ 2 - 1 = 1 /\ \A j \in 2 + 1 .. 2 : FALSE
      OBVIOUS
    <3>5. LastRepeat(h, 2)
      BY <3>3, <3>4 DEF LastRepeat
    <3> DEFINE bits == <<FALSE, FALSE>>
    <3>6. bits[1] = FALSE /\ bits[2] = FALSE
      OBVIOUS
    <3> HIDE DEF bits
    <3>7. 2 \in 2 .. Len(h)
      BY <3>3
    <3>8. bits[2] = h[Len(h)] /\ bits[1] = h[2]
      BY <3>3, <3>6
    <3>9. Remembers(bits, h)
      BY <3>5, <3>7, <3>8, Zenon DEF Remembers
    <3> QED BY <3>1, <3>9 DEF bits
  <2> QED BY <2>1, <2>2
<1> QED BY <1>1, <1>2 DEF HistoryInv

LEMMA RetireRemembers ==
  ASSUME HistoryInv, NEW p \in Branches, NEW taken \in {0, 1}, Retire(p, taken)
  PROVE  HistoryInv'
<1> DEFINE o == taken = 1
<1>1. /\ p \in DOMAIN branch_map /\ outcomes \in [Branches -> Seq(BOOLEAN)]
      /\ branch_map[p] \in BOOLEAN \X BOOLEAN
      /\ branch_map' = [branch_map EXCEPT ![p] = Trained(branch_map[p], taken)]
      /\ outcomes' = [outcomes EXCEPT ![p] = Append(outcomes[p], o)]
  BY DEF Retire, Update, HistoryInv
<1>2. o \in BOOLEAN
  OBVIOUS
<1>3. Trained(branch_map[p], taken) \in BOOLEAN \X BOOLEAN
  BY <1>1 DEF Trained
<1>4. Remembers(Trained(branch_map[p], taken), <<FALSE, FALSE>> \o Append(outcomes[p], o))
  BY <1>1, TrainedRemembers DEF HistoryInv, History
<1> HIDE DEF o
<1>5. Append(outcomes[p], o) \in Seq(BOOLEAN)
  BY <1>1, <1>2
<1>6. /\ DOMAIN branch_map' = DOMAIN branch_map
      /\ branch_map' \in [DOMAIN branch_map -> BOOLEAN \X BOOLEAN]
      /\ outcomes' \in [Branches -> Seq(BOOLEAN)]
  BY <1>1, <1>3, <1>5 DEF HistoryInv
<1>7. ASSUME NEW q \in DOMAIN branch_map PROVE Remembers(branch_map'[q], History(q)')
  <2>1. CASE q = p
    BY <1>1, <1>4, <2>1 DEF History
  <2>2. CASE q # p
    <3>1. branch_map'[q] = branch_map[q] /\ outcomes'[q] = outcomes[q]
      BY <1>1, <2>2 DEF HistoryInv
    <3> QED BY <3>1 DEF HistoryInv, History
  <2> QED BY <2>1, <2>2
<1>8. \A q \in Branches : q \notin DOMAIN branch_map => outcomes'[q] = <<>>
  BY <1>1 DEF HistoryInv
<1> QED BY <1>6, <1>7, <1>8 DEF HistoryInv

LEMMA RememberedIsPredicted == ASSUME HistoryInv PROVE PredictsLastRepeatedOutcome
<1> SUFFICES ASSUME NEW p \in DOMAIN branch_map
             PROVE  LET h       == <<FALSE, FALSE>> \o outcomes[p]
                        repeats == {k \in 2 .. Len(h) : h[k] = h[k - 1]}
                        latest  == CHOOSE k \in repeats : \A j \in repeats : j <= k
                    IN  Predict(branch_map, p) = h[latest]
  BY DEF PredictsLastRepeatedOutcome
<1> DEFINE h       == <<FALSE, FALSE>> \o outcomes[p]
           repeats == {k \in 2 .. Len(h) : h[k] = h[k - 1]}
           latest  == CHOOSE k \in repeats : \A j \in repeats : j <= k
<1>1. Len(h) \in Nat
  BY HistoryFacts DEF HistoryInv
<1>2. Remembers(branch_map[p], h)
  BY DEF HistoryInv, History
<1>3. Predict(branch_map, p) = branch_map[p][1]
  BY DEF Predict, Touched
<1> HIDE DEF h
<1>4. PICK k \in 2 .. Len(h) : LastRepeat(h, k) /\ branch_map[p][1] = h[k]
  BY <1>2 DEF Remembers
<1>5. k \in repeats
  BY <1>4 DEF LastRepeat
<1>6. ASSUME NEW j \in repeats PROVE j <= k
  <2> SUFFICES ASSUME j > k PROVE FALSE
    BY <1>1
  <2>1. j \in k + 1 .. Len(h) /\ h[j] = h[j - 1]
    BY <1>1
  <2> QED BY <1>4, <2>1 DEF LastRepeat
<1>7. ASSUME NEW m \in repeats, \A j \in repeats : j <= m PROVE m = k
  <2>1. m <= k /\ k <= m /\ m \in Nat /\ k \in Nat
    BY <1>1, <1>5, <1>6, <1>7
  <2> QED BY <2>1
<1>8. latest = k
  BY <1>5, <1>6, <1>7
<1> QED BY <1>3, <1>4, <1>8 DEF h

(* However fetches and retirements of the branches interleave, a branch is *)
(* predicted as it went the last time it went the same way twice in a row  *)
(* (predict and update), and no other branch changes that.                 *)
THEOREM PredictionIsLastRepeat == Spec => []PredictsLastRepeatedOutcome
<1>1. Init => HistoryInv
  BY InitRemembers
<1>2. HistoryInv /\ [Next]_<<branch_map, outcomes>> => HistoryInv'
  <2>1. ASSUME HistoryInv, UNCHANGED <<branch_map, outcomes>> PROVE HistoryInv'
    BY <2>1 DEF HistoryInv, History
  <2> QED BY <2>1, FetchRemembers, RetireRemembers DEF Next
<1>3. HistoryInv => PredictsLastRepeatedOutcome
  BY RememberedIsPredicted
<1> QED BY <1>1, <1>2, <1>3, PTL DEF Spec
=============================================================================
