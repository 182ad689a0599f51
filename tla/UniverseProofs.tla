--------------------------- MODULE UniverseProofs ---------------------------
(***************************************************************************)
(* Proofs about Universe, for any symbols, market data, thresholds and     *)
(* bounds: the operator's orders are honoured by every screen. The first   *)
(* part is about sequences: what Kept keeps, by induction over the         *)
(* sequence.                                                               *)
(***************************************************************************)
EXTENDS Universe, SequenceTheorems, WellFoundedInduction, TLAPS

-----------------------------------------------------------------------------
(* Induction, over a set of numbers in place of a predicate. *)

LEMMA Induction ==
  ASSUME NEW T, 0 \in T, \A n \in Nat : n \in T => n + 1 \in T
  PROVE  Nat \subseteq T
<1> SUFFICES ASSUME Nat \ T # {} PROVE FALSE
  OBVIOUS
<1> DEFINE R == OpToRel(<, Nat)
<1>1. IsWellFoundedOn(R, Nat)
  BY NatLessThanWellFounded
<1>2. PICK n \in Nat \ T : \A m \in Nat \ T : <<m, n>> \notin R
  BY <1>1, WFMin
<1>3. \A m \in Nat \ T : ~(m < n)
  BY <1>2 DEF OpToRel
<1>4. n # 0 /\ n - 1 \in Nat /\ n - 1 < n
  OBVIOUS
<1>5. n - 1 \in T
  BY <1>3, <1>4
<1>6. (n - 1) + 1 \in T
  BY <1>4, <1>5
<1> QED BY <1>6

-----------------------------------------------------------------------------
(* Kept *)

\* f holds what is kept of the first i elements, for every i up to n.
Step(f, seq, set, i) ==
  IF i = 0 THEN <<>> ELSE IF seq[i] \in set THEN Append(f[i - 1], seq[i]) ELSE f[i - 1]

Keeps(f, seq, set, n) == f = [i \in 0 .. n |-> Step(f, seq, set, i)]

LEMMA KeepsEach ==
  ASSUME NEW f, NEW seq, NEW set, NEW n \in Nat
  PROVE  Keeps(f, seq, set, n) <=> /\ f = [i \in 0 .. n |-> f[i]]
                                   /\ \A i \in 0 .. n : f[i] = Step(f, seq, set, i)
BY Zenon DEF Keeps

LEMMA KeepsExists ==
  ASSUME NEW S, NEW seq \in Seq(S), NEW set
  PROVE  \A n \in Nat : \E f : Keeps(f, seq, set, n)
<1> DEFINE T == {n \in Nat : \E f : Keeps(f, seq, set, n)}
<1>1. 0 \in T
  <2> DEFINE f == [i \in 0 .. 0 |-> <<>>]
  <2>1. Keeps(f, seq, set, 0)
    BY DEF Keeps, Step
  <2> QED BY <2>1
<1>2. ASSUME NEW n \in Nat, n \in T PROVE n + 1 \in T
  <2>1. PICK f : Keeps(f, seq, set, n)
    BY <1>2
  <2>2. \A i \in 0 .. n : f[i] = Step(f, seq, set, i)
    BY <2>1, KeepsEach
  <2> DEFINE last == Step(f, seq, set, n + 1)
             g == [i \in 0 .. n + 1 |-> IF i = n + 1 THEN last ELSE f[i]]
  <2> HIDE DEF last
  <2>3. /\ g = [i \in 0 .. n + 1 |-> g[i]] /\ g[n + 1] = last
        /\ \A i \in 0 .. n : g[i] = f[i]
    OBVIOUS
  <2> HIDE DEF g
  <2>4. \A i \in 0 .. n + 1 : g[i] = Step(g, seq, set, i)
    <3> TAKE i \in 0 .. n + 1
    <3>1. Step(g, seq, set, i) = Step(f, seq, set, i)
      <4>1. i # 0 => i - 1 \in 0 .. n
        OBVIOUS
      <4>2. i # 0 => g[i - 1] = f[i - 1]
        BY <2>3, <4>1
      <4> QED BY <4>2 DEF Step
    <3>2. i = n + 1 \/ i \in 0 .. n
      OBVIOUS
    <3> QED BY <2>2, <2>3, <3>1, <3>2 DEF last
  <2>6. Keeps(g, seq, set, n + 1)
    BY <2>3, <2>4, KeepsEach
  <2> QED BY <2>6
<1> HIDE DEF T
<1>3. Nat \subseteq T
  BY <1>1, <1>2, Induction
<1> QED BY <1>3 DEF T

LEMMA Appended ==
  ASSUME NEW S, NEW s \in Seq(S), NEW x \in S
  PROVE  Append(s, x) \in Seq(S) /\ ToSet(Append(s, x)) = ToSet(s) \cup {x}
<1> DEFINE a == Append(s, x)
           k == Len(s)
<1>1. /\ k \in Nat /\ a \in Seq(S) /\ Len(a) = k + 1 /\ a[k + 1] = x
      /\ \A i \in 1 .. k : a[i] = s[i]
  BY AppendProperties, LenProperties
<1>2. DOMAIN a = 1 .. k + 1 /\ DOMAIN s = 1 .. k
  BY <1>1, LenProperties
<1> HIDE DEF a, k
<1>3. ToSet(a) \subseteq ToSet(s) \cup {x}
  BY <1>1, <1>2 DEF ToSet
<1>4. ToSet(s) \cup {x} \subseteq ToSet(a)
  <2>1. ASSUME NEW i \in 1 .. k PROVE s[i] \in ToSet(a)
    <3>1. i \in DOMAIN a /\ a[i] = s[i]
      BY <1>1, <1>2
    <3> QED BY <3>1 DEF ToSet
  <2>2. x \in ToSet(a)
    BY <1>1, <1>2 DEF ToSet
  <2> QED BY <1>2, <2>1, <2>2 DEF ToSet
<1> QED BY <1>1, <1>3, <1>4 DEF a

\* What is kept: a sequence of the elements that belong to the set.
LEMMA KeptIs ==
  ASSUME NEW S, NEW seq \in Seq(S), NEW set
  PROVE  Kept(seq, set) \in Seq(S) /\ ToSet(Kept(seq, set)) = ToSet(seq) \cap set
<1> DEFINE k == Len(seq)
           f == CHOOSE g : Keeps(g, seq, set, k)
<1>1. k \in Nat /\ \A i \in 1 .. k : seq[i] \in S
  OBVIOUS
<1>2. Keeps(f, seq, set, k)
  BY <1>1, KeepsExists
<1>3. Kept(seq, set) = f[k]
  BY DEF Kept, Keeps, Step
<1> HIDE DEF f, k
<1>4. /\ f[0] = <<>>
      /\ \A i \in 1 .. k : f[i] = IF seq[i] \in set THEN Append(f[i - 1], seq[i]) ELSE f[i - 1]
  <2>1. \A i \in 0 .. k : f[i] = Step(f, seq, set, i)
    BY <1>1, <1>2, KeepsEach
  <2>2. f[0] = <<>>
    <3>1. 0 \in 0 .. k
      BY <1>1
    <3> QED BY <2>1, <3>1 DEF Step
  <2>3. ASSUME NEW i \in 1 .. k
        PROVE  f[i] = IF seq[i] \in set THEN Append(f[i - 1], seq[i]) ELSE f[i - 1]
    <3>1. i \in 0 .. k /\ i # 0
      BY <1>1
    <3> QED BY <2>1, <3>1 DEF Step
  <2> QED BY <2>2, <2>3
<1> DEFINE T == {n \in Nat : n <= k => /\ f[n] \in Seq(S)
                                      /\ ToSet(f[n]) = {seq[i] : i \in 1 .. n} \cap set}
<1>5. 0 \in T
  <2>1. f[0] \in Seq(S) /\ ToSet(f[0]) = {}
    BY <1>4 DEF ToSet
  <2> QED BY <2>1
<1>6. ASSUME NEW n \in Nat, n \in T PROVE n + 1 \in T
  <2> SUFFICES ASSUME n + 1 <= k
               PROVE  /\ f[n + 1] \in Seq(S)
                      /\ ToSet(f[n + 1]) = {seq[i] : i \in 1 .. n + 1} \cap set
    OBVIOUS
  <2>1. f[n] \in Seq(S) /\ ToSet(f[n]) = {seq[i] : i \in 1 .. n} \cap set
    BY <1>1, <1>6
  <2>2. /\ n + 1 \in 1 .. k /\ seq[n + 1] \in S
        /\ f[n + 1] = IF seq[n + 1] \in set THEN Append(f[n], seq[n + 1]) ELSE f[n]
    BY <1>1, <1>4
  <2>3. {seq[i] : i \in 1 .. n + 1} = {seq[i] : i \in 1 .. n} \cup {seq[n + 1]}
    <3>1. 1 .. n + 1 = (1 .. n) \cup {n + 1}
      OBVIOUS
    <3> QED BY <3>1
  <2>4. CASE seq[n + 1] \in set
    <3>1. f[n + 1] = Append(f[n], seq[n + 1])
      BY <2>2, <2>4
    <3>2. f[n + 1] \in Seq(S) /\ ToSet(f[n + 1]) = ToSet(f[n]) \cup {seq[n + 1]}
      BY <2>1, <2>2, <3>1, Appended
    <3> QED BY <2>1, <2>3, <2>4, <3>2
  <2>5. CASE seq[n + 1] \notin set
    BY <2>1, <2>2, <2>3, <2>5
  <2> QED BY <2>4, <2>5
<1> HIDE DEF T
<1>7. k \in T
  BY <1>1, <1>5, <1>6, Induction
<1>8. ToSet(seq) = {seq[i] : i \in 1 .. k}
  BY DEF ToSet, k
<1> QED BY <1>1, <1>3, <1>7, <1>8 DEF T
-----------------------------------------------------------------------------
(* Types. *)

Entry == [sym : Symbols, row : Row]
Rows == Row \cup {NoRow}
Orders == [kind : {"add", "remove"}, sym : Symbols, row : Rows]
Refresh == [at : {"idle", "load", "write"}, todo : Seq(Entry)]
Screening ==
  [left : Seq(Symbols), eligible : SUBSET Symbols, nonEligible : SUBSET Symbols,
   rejected : SUBSET Symbols, in : SUBSET Symbols, out : SUBSET Symbols]

\* What a step needs to know of every variable. The terms of an instrument have
\* changed once per move at most.
TableInv ==
  /\ budget \in [edits : Nat, moves : 0 .. MaxMoves, faults : Nat]
  /\ market \in [Symbols -> [listing : Listings, terms : 1 .. budget.moves + 1]]
  /\ rows \in [Symbols -> Rows] /\ refresh \in [Processes -> Refresh]
  /\ command \in Orders \cup {NoCommand}
  /\ bot \in {"preflight", "refresh", "read", "screen"}
  /\ wish \in [Symbols -> {"none", "in", "out"}] /\ screen \in Screening

LEMMA EntriesType ==
  ASSUME NEW seq \in Seq(Entry)
  PROVE  ToSet(seq) \subseteq Entry
BY DEF ToSet

LEMMA ScanAllType ==
  ASSUME TableInv
  PROVE  /\ ScanAll \in Seq(Entry)
         /\ \A e \in ToSet(ScanAll) : e.row = ScanRow(e.sym)
<1> DEFINE unpriced == {s \in Symbols : market[s].listing = "unpriced"}
           passing == {s \in Symbols : Passes(s)}
           ranked == Kept(ByTurnover, passing \ unpriced) \o Kept(ByTurnover, passing \cap unpriced)
           kept == IF Len(ranked) > LightScanMax THEN SubSeq(ranked, 1, LightScanMax) ELSE ranked
           r == [i \in DOMAIN kept |-> [sym |-> kept[i], row |-> ScanRow(kept[i])]]
<1>1. ScanAll = r
  BY DEF ScanAll
<1>2. ranked \in Seq(Symbols)
  <2>1. /\ Kept(ByTurnover, passing \ unpriced) \in Seq(Symbols)
        /\ Kept(ByTurnover, passing \cap unpriced) \in Seq(Symbols)
    BY UniverseAssumption, KeptIs
  <2> QED BY <2>1, ConcatProperties
<1> HIDE DEF ranked
<1>3. kept \in Seq(Symbols)
  BY <1>2, UniverseAssumption, SubSeqProperties
<1> HIDE DEF kept
<1>4. \A s \in Symbols : ScanRow(s) \in Row
  <2> TAKE s \in Symbols
  <2>1. budget.moves \in 0 .. MaxMoves /\ market[s].terms \in 1 .. budget.moves + 1
    BY DEF TableInv
  <2>2. market[s].terms \in 0 .. MaxMoves + 1
    BY <2>1, UniverseAssumption
  <2> QED BY <2>2 DEF ScanRow, Row
<1>5. DOMAIN kept = 1 .. Len(kept) /\ Len(kept) \in Nat /\ \A i \in DOMAIN kept : kept[i] \in Symbols
  BY <1>3
<1> DEFINE E(s) == [sym |-> s, row |-> ScanRow(s)]
<1>6. \A s \in Symbols : E(s) \in Entry /\ E(s).row = ScanRow(E(s).sym)
  BY <1>4 DEF Entry
<1>7. r = [i \in 1 .. Len(kept) |-> E(kept[i])]
  BY <1>5
<1> HIDE DEF E, r
<1>8. r \in Seq(Entry)
  BY <1>5, <1>6, <1>7
<1>9. \A e \in ToSet(r) : \E i \in 1 .. Len(kept) : e = E(kept[i])
  BY <1>5, <1>7 DEF ToSet
<1> QED BY <1>1, <1>5, <1>6, <1>8, <1>9

LEMMA MergedType ==
  ASSUME TableInv, NEW todo \in Seq(Entry)
  PROVE  /\ Merged(todo) \in Seq(Entry)
         /\ \A e \in ToSet(Merged(todo)) :
              e \in ToSet(todo) \/ (e.row = rows[e.sym] /\ rows[e.sym].force)
<1> DEFINE extra == {s \in Symbols : /\ rows[s] # NoRow /\ rows[s].force
                                    /\ \A e \in ToSet(todo) : e.sym # s}
           names == Kept(ByName, extra)
           E(s) == [sym |-> s, row |-> rows[s]]
           r == [i \in DOMAIN names |-> E(names[i])]
<1>1. Merged(todo) = todo \o r
  BY DEF Merged
<1>2. names \in Seq(Symbols) /\ ToSet(names) \subseteq extra
  BY UniverseAssumption, KeptIs
<1>3. \A s \in extra : s \in Symbols /\ rows[s] \in Row /\ rows[s].force
  BY DEF TableInv, Rows
<1> HIDE DEF names, extra
<1>4. /\ DOMAIN names = 1 .. Len(names) /\ Len(names) \in Nat
      /\ \A i \in DOMAIN names : names[i] \in extra
  BY <1>2 DEF ToSet
<1>5. \A s \in extra : E(s) \in Entry /\ E(s).row = rows[E(s).sym] /\ rows[E(s).sym].force
  BY <1>3 DEF Entry
<1> HIDE DEF E
<1>6. r \in Seq(Entry) /\ \A i \in DOMAIN r : r[i].row = rows[r[i].sym] /\ rows[r[i].sym].force
  BY <1>4, <1>5
<1> HIDE DEF r
<1>7. todo \o r \in Seq(Entry)
  BY <1>6, ConcatProperties
<1>8. ASSUME NEW i \in DOMAIN (todo \o r)
      PROVE  (todo \o r)[i] \in ToSet(todo) \/ \E j \in DOMAIN r : (todo \o r)[i] = r[j]
  <2> DEFINE k == Len(todo)
             l == Len(r)
  <2>1. /\ k \in Nat /\ l \in Nat /\ DOMAIN todo = 1 .. k /\ DOMAIN r = 1 .. l
        /\ DOMAIN (todo \o r) = 1 .. k + l
        /\ \A j \in 1 .. k + l : (todo \o r)[j] = IF j <= k THEN todo[j] ELSE r[j - k]
    BY <1>6, ConcatProperties, LenProperties
  <2> HIDE DEF k, l
  <2>2. CASE i <= k
    <3>1. i \in DOMAIN todo /\ (todo \o r)[i] = todo[i]
      BY <2>1, <2>2
    <3> QED BY <3>1 DEF ToSet
  <2>3. CASE ~(i <= k)
    <3>1. i - k \in DOMAIN r /\ (todo \o r)[i] = r[i - k]
      BY <2>1, <2>3
    <3> QED BY <3>1
  <2> QED BY <2>2, <2>3
<1>9. \A e \in ToSet(todo \o r) : \E i \in DOMAIN (todo \o r) : e = (todo \o r)[i]
  BY DEF ToSet
<1> QED BY <1>1, <1>6, <1>7, <1>8, <1>9

\* The entries left to write are among those there were.
LEMMA TailType ==
  ASSUME NEW S, NEW seq \in Seq(S), seq # <<>>
  PROVE  /\ Tail(seq) \in Seq(S) /\ Head(seq) \in S
         /\ ToSet(seq) = {Head(seq)} \cup ToSet(Tail(seq))
<1> DEFINE k == Len(seq)
           t == Tail(seq)
<1>1. /\ k \in Nat \ {0} /\ t \in Seq(S) /\ Len(t) = k - 1 /\ Head(seq) = seq[1] /\ seq[1] \in S
      /\ \A i \in 1 .. k - 1 : t[i] = seq[i + 1]
  BY HeadTailProperties, EmptySeq, LenProperties
<1>2. DOMAIN t = 1 .. k - 1 /\ DOMAIN seq = 1 .. k
  BY <1>1, LenProperties
<1> HIDE DEF k, t
<1>3. ASSUME NEW i \in 1 .. k PROVE seq[i] \in {seq[1]} \cup ToSet(t)
  <2>1. CASE i = 1
    BY <2>1
  <2>2. CASE i # 1
    <3>1. i - 1 \in DOMAIN t /\ t[i - 1] = seq[i]
      BY <1>1, <1>2, <2>2
    <3> QED BY <3>1 DEF ToSet
  <2> QED BY <2>1, <2>2
<1>4. ASSUME NEW i \in 1 .. k - 1 PROVE t[i] \in ToSet(seq)
  <2>1. i + 1 \in DOMAIN seq /\ t[i] = seq[i + 1]
    BY <1>1, <1>2
  <2> QED BY <2>1 DEF ToSet
<1>5. seq[1] \in ToSet(seq)
  BY <1>1, <1>2 DEF ToSet
<1> QED BY <1>1, <1>2, <1>3, <1>4, <1>5 DEF ToSet, t

LEMMA InitTable == Init => TableInv
<1> SUFFICES ASSUME Init PROVE TableInv
  OBVIOUS
<1>1. budget \in [edits : Nat, moves : 0 .. MaxMoves, faults : Nat] /\ budget.moves = 0
  BY UniverseAssumption DEF Init
<1>2. market \in [Symbols -> [listing : Listings, terms : 1 .. budget.moves + 1]]
  <2>1. 1 .. budget.moves + 1 = {1}
    BY <1>1
  <2> QED BY <2>1 DEF Init
<1>3. rows \in [Symbols -> Rows] /\ refresh \in [Processes -> Refresh]
  BY DEF Init, Rows, Idle, Refresh
<1> QED BY <1>1, <1>2, <1>3 DEF Init, TableInv, NoScreen, Screening

\* A failed call takes one of the faults that are left.
LEMMA FaultTakes ==
  ASSUME TableInv, Fault
  PROVE  budget' \in [edits : Nat, moves : 0 .. MaxMoves, faults : Nat]
         /\ budget'.moves = budget.moves
BY DEF TableInv, Fault

\* The steps of a refresh: the table gets entries, the refresh loses them.
LEMMA RefreshTable ==
  ASSUME TableInv, NEW p \in Processes, RefreshUniverse(p)
  PROVE  TableInv'
<1>0. refresh[p] \in Refresh /\ refresh[p].todo \in Seq(Entry)
  BY DEF TableInv, Refresh
<1>1. CASE Scan(p)
  <2> DEFINE r == [at |-> "load", todo |-> ScanAll]
  <2>1. r \in Refresh
    BY ScanAllType DEF Refresh
  <2>2. refresh' = [refresh EXCEPT ![p] = r] /\ UNCHANGED <<market, rows, command, bot, screen>>
    BY <1>1 DEF Scan
  <2> HIDE DEF r
  <2>3. refresh' \in [Processes -> Refresh]
    BY <2>1, <2>2 DEF TableInv
  <2>4. wish' \in [Symbols -> {"none", "in", "out"}]
    BY <1>1 DEF Scan, TableInv
  <2>5. /\ budget' \in [edits : Nat, moves : 0 .. MaxMoves, faults : Nat]
        /\ budget'.moves = budget.moves
    <3> DEFINE n == IF p = "cli" THEN budget.edits + 1 ELSE budget.edits
    <3>1. budget' = [budget EXCEPT !.edits = n]
      BY <1>1 DEF Scan
    <3>2. n \in Nat
      BY DEF TableInv
    <3> HIDE DEF n
    <3> QED BY <3>1, <3>2 DEF TableInv
  <2> QED BY <2>2, <2>3, <2>4, <2>5 DEF TableInv
<1>2. CASE GetAll(p)
  <2>1. UNCHANGED <<market, rows, command, bot, screen, wish>>
    BY <1>2 DEF GetAll
  <2>2. PICK todo \in Seq(Entry) : refresh' = [refresh EXCEPT ![p] = [at |-> "write", todo |-> todo]]
    <3>1. CASE refresh' = [refresh EXCEPT ![p] = [at |-> "write", todo |-> Merged(@.todo)]]
      BY <1>0, <3>1, MergedType
    <3>2. CASE refresh' = [refresh EXCEPT ![p].at = "write"]
      <4>1. [refresh[p] EXCEPT !.at = "write"] = [at |-> "write", todo |-> refresh[p].todo]
        BY <1>0 DEF Refresh
      <4> QED BY <1>0, <3>2, <4>1
    <3> QED BY <1>2, <3>1, <3>2 DEF GetAll
  <2>3. refresh' \in [Processes -> Refresh]
    <3>1. [at |-> "write", todo |-> todo] \in Refresh
      BY DEF Refresh
    <3> QED BY <2>2, <3>1 DEF TableInv
  <2>4. /\ budget' \in [edits : Nat, moves : 0 .. MaxMoves, faults : Nat]
        /\ budget'.moves = budget.moves
    BY <1>2, FaultTakes DEF GetAll, TableInv
  <2> QED BY <2>1, <2>3, <2>4 DEF TableInv
<1>3. CASE InsertOrUpdate(p)
  <2> DEFINE e == Head(refresh[p].todo)
  <2>1. refresh[p].todo # <<>> /\ UNCHANGED <<market, command, bot, screen, wish>>
    BY <1>3 DEF InsertOrUpdate
  <2>2. e \in Entry /\ Tail(refresh[p].todo) \in Seq(Entry)
    BY <1>0, <2>1, TailType
  <2>3. \/ rows' = [rows EXCEPT ![e.sym] = e.row] /\ UNCHANGED budget
        \/ Fault /\ UNCHANGED rows
    BY <1>3 DEF InsertOrUpdate, Upsert
  <2> DEFINE t == Tail(refresh[p].todo)
  <2>4. refresh' = [refresh EXCEPT ![p].todo = t]
    BY <1>3 DEF InsertOrUpdate
  <2> HIDE DEF e, t
  <2>5. rows' \in [Symbols -> Rows]
    BY <2>2, <2>3 DEF TableInv, Entry, Rows
  <2>6. refresh' \in [Processes -> Refresh]
    <3>1. t \in Seq(Entry)
      BY <2>2 DEF t
    <3>2. [refresh[p] EXCEPT !.todo = t] \in Refresh
      BY <1>0, <3>1 DEF Refresh
    <3> QED BY <2>4, <3>2 DEF TableInv
  <2>7. /\ budget' \in [edits : Nat, moves : 0 .. MaxMoves, faults : Nat]
        /\ budget'.moves = budget.moves
    BY <2>3, FaultTakes DEF TableInv
  <2> QED BY <2>1, <2>5, <2>6, <2>7 DEF TableInv
<1>4. CASE RefreshDone(p)
  <2>1. /\ refresh' = [refresh EXCEPT ![p] = Idle] /\ bot' = AfterRefresh(p)
        /\ UNCHANGED <<market, rows, command, screen, wish, budget>>
    BY <1>4 DEF RefreshDone
  <2>2. refresh' \in [Processes -> Refresh]
    BY <2>1 DEF TableInv, Idle, Refresh
  <2>3. bot' \in {"preflight", "refresh", "read", "screen"}
    BY <2>1 DEF TableInv, AfterRefresh, Processes
  <2> QED BY <2>1, <2>2, <2>3 DEF TableInv
<1> QED BY <1>1, <1>2, <1>3, <1>4 DEF RefreshUniverse

\* The operator's commands.
LEMMA CommandTable ==
  ASSUME TableInv,
         \/ \E kind \in {"add", "remove"}, s \in Symbols : GetBySymbol(kind, s)
         \/ AddForceInclude \/ RemoveSymbol \/ CommandFails
  PROVE  TableInv'
<1>1. ASSUME NEW kind \in {"add", "remove"}, NEW s \in Symbols, GetBySymbol(kind, s)
      PROVE  TableInv'
  <2>1. UNCHANGED <<market, rows, refresh, bot, screen, wish>>
    BY <1>1 DEF GetBySymbol
  <2>2. PICK row \in Rows : command' = [kind |-> kind, sym |-> s, row |-> row]
    BY <1>1 DEF GetBySymbol, TableInv, Rows
  <2>3. command' \in Orders
    BY <2>2 DEF Orders
  <2>4. /\ budget' \in [edits : Nat, moves : 0 .. MaxMoves, faults : Nat]
        /\ budget'.moves = budget.moves
    <3> DEFINE n == budget.edits + 1
               k == budget.faults + 1
    <3>1. n \in Nat /\ k \in Nat
      BY DEF TableInv
    <3>2. budget' = [budget EXCEPT !.edits = n] \/ budget' = [budget EXCEPT !.edits = n, !.faults = k]
      BY <1>1 DEF GetBySymbol
    <3>3. budget \in [edits : Nat, moves : 0 .. MaxMoves, faults : Nat]
      BY DEF TableInv
    <3> HIDE DEF n, k
    <3> QED BY <3>1, <3>2, <3>3
  <2> QED BY <2>1, <2>3, <2>4 DEF TableInv
<1>2. ASSUME NEW row, row \in Rows, NEW s \in Symbols, NEW w \in {"none", "in", "out"},
             command' = NoCommand, UNCHANGED <<market, refresh, bot, screen, budget>>,
             rows' = [rows EXCEPT ![s] = row], wish' = [wish EXCEPT ![s] = w]
      PROVE  TableInv'
  BY <1>2 DEF TableInv
<1>3. ASSUME command.kind \in {"add", "remove"}
      PROVE  command \in Orders /\ AddedRow(command.row) \in Row /\ RemovedRow(command.row) \in Row
  <2>1. command \in Orders
    BY <1>3 DEF TableInv, NoCommand
  <2>2. command.row = NoRow \/ command.row \in Row
    BY <2>1 DEF Orders, Rows
  <2>3. 0 \in 0 .. MaxMoves + 1
    BY UniverseAssumption
  <2> QED BY <2>1, <2>2, <2>3 DEF AddedRow, RemovedRow, Row
<1>4. CASE AddForceInclude
  <2>1. /\ command.kind = "add" /\ command' = NoCommand
        /\ rows' = [rows EXCEPT ![command.sym] = AddedRow(command.row)]
        /\ wish' = [wish EXCEPT ![command.sym] = "in"]
        /\ UNCHANGED <<market, refresh, bot, screen, budget>>
    BY <1>4 DEF AddForceInclude
  <2>2. command.sym \in Symbols /\ AddedRow(command.row) \in Rows
    BY <1>3, <2>1 DEF Orders, Rows
  <2> QED BY <1>2, <2>1, <2>2
<1>5. CASE RemoveSymbol
  <2> DEFINE w == IF \E p \in Processes : Knows(p, command.sym) THEN "none" ELSE "out"
  <2>1. /\ command.kind = "remove" /\ command' = NoCommand
        /\ rows' = [rows EXCEPT ![command.sym] = RemovedRow(command.row)]
        /\ wish' = [wish EXCEPT ![command.sym] = w]
        /\ UNCHANGED <<market, refresh, bot, screen, budget>>
    BY <1>5 DEF RemoveSymbol
  <2>2. command.sym \in Symbols /\ RemovedRow(command.row) \in Rows
    BY <1>3, <2>1 DEF Orders, Rows
  <2>3. w \in {"none", "in", "out"}
    OBVIOUS
  <2> HIDE DEF w
  <2> QED BY <1>2, <2>1, <2>2, <2>3
<1>6. CASE CommandFails
  <2>1. Fault /\ command' = NoCommand /\ UNCHANGED <<market, rows, refresh, bot, screen, wish>>
    BY <1>6 DEF CommandFails
  <2> QED BY <2>1, FaultTakes DEF TableInv
<1> QED BY <1>1, <1>4, <1>5, <1>6

\* The screen: it takes one symbol after the other, whatever it finds of it.
LEMMA JudgedType ==
  ASSUME NEW sc \in Screening, NEW s \in Symbols, NEW feed \in Feeds
  PROVE  /\ Judged(sc, s, feed) \in Screening
         /\ LET j == Judged(sc, s, feed)
            IN  /\ j.left = sc.left /\ j.in = sc.in /\ j.out = sc.out
                /\ j.eligible \cup j.nonEligible \cup j.rejected =
                     {s} \cup sc.eligible \cup sc.nonEligible \cup sc.rejected
<1> DEFINE j == Judged(sc, s, feed)
           candidate == Gathered(feed) /\ Chosen(feed) > 0
           fit == Eligible(feed)
<1>1. j = CASE ~candidate        -> [sc EXCEPT !.rejected = sc.rejected \cup {s}]
            [] candidate /\ fit  -> [sc EXCEPT !.eligible = sc.eligible \cup {s}]
            [] candidate /\ ~fit -> [sc EXCEPT !.nonEligible = sc.nonEligible \cup {s}]
  BY DEF Judged
<1> HIDE DEF candidate, fit, j
<1>2. \/ j = [sc EXCEPT !.rejected = sc.rejected \cup {s}]
      \/ j = [sc EXCEPT !.eligible = sc.eligible \cup {s}]
      \/ j = [sc EXCEPT !.nonEligible = sc.nonEligible \cup {s}]
  BY <1>1
<1> QED BY <1>2 DEF Screening, j

LEMMA ScreenTable ==
  ASSUME TableInv, Screen
  PROVE  TableInv'
<1>1. CASE GetUniverse
  <2>1. UNCHANGED <<market, rows, refresh, command, wish>>
    BY <1>1 DEF GetUniverse
  <2>2. CASE bot' = "refresh" /\ Fault /\ UNCHANGED screen
    BY <2>1, <2>2, FaultTakes DEF TableInv
  <2>3. CASE ~(bot' = "refresh" /\ Fault /\ UNCHANGED screen)
    <3> DEFINE l == Kept(ByName, {s \in Symbols : rows[s] # NoRow /\ ~rows[s].black})
               i == {s \in Symbols : wish[s] = "in"}
               o == {s \in Symbols : wish[s] = "out"}
    <3>1. /\ screen' = [NoScreen EXCEPT !.left = l, !.in = i, !.out = o]
          /\ bot' = "screen" /\ UNCHANGED budget
      BY <1>1, <2>3 DEF GetUniverse
    <3>2. l \in Seq(Symbols) /\ i \in SUBSET Symbols /\ o \in SUBSET Symbols
      BY UniverseAssumption, KeptIs
    <3> HIDE DEF l, i, o
    <3>3. screen' \in Screening
      BY <3>1, <3>2 DEF NoScreen, Screening
    <3> QED BY <2>1, <3>1, <3>3 DEF TableInv
  <2> QED BY <2>2, <2>3
<1>2. CASE evaluateSymbol
  <2>1. UNCHANGED <<market, rows, refresh, command, bot, wish, budget>> /\ screen.left # <<>>
    BY <1>2 DEF evaluateSymbol
  <2> DEFINE t == Tail(screen.left)
             sc == [screen EXCEPT !.left = t]
  <2>2. t \in Seq(Symbols) /\ Head(screen.left) \in Symbols
    BY <2>1, TailType DEF TableInv, Screening
  <2>3. PICK feed \in Feeds : screen' = Judged(sc, Head(screen.left), feed)
    BY <1>2 DEF evaluateSymbol
  <2> HIDE DEF t
  <2>4. sc \in Screening
    BY <2>2 DEF TableInv, Screening
  <2> HIDE DEF sc
  <2>5. screen' \in Screening
    BY <2>2, <2>3, <2>4, JudgedType
  <2> QED BY <2>1, <2>5 DEF TableInv
<1>3. CASE ScreenDone
  <2>1. /\ bot' = "refresh" /\ screen' = NoScreen
        /\ UNCHANGED <<market, rows, refresh, command, wish, budget>>
    BY <1>3 DEF ScreenDone
  <2>2. NoScreen \in Screening
    BY DEF NoScreen, Screening
  <2> QED BY <2>1, <2>2 DEF TableInv
<1> QED BY <1>1, <1>2, <1>3 DEF Screen

LEMMA MoveTable ==
  ASSUME TableInv, Move
  PROVE  TableInv'
<1>1. PICK s \in Symbols, l \in Listings, dt \in {0, 1} :
        market' = [market EXCEPT ![s] = [listing |-> l, terms |-> market[s].terms + dt]]
  BY DEF Move
<1>2. /\ budget.moves < MaxMoves /\ budget' = [budget EXCEPT !.moves = budget.moves + 1]
      /\ UNCHANGED <<rows, refresh, command, bot, screen, wish>>
  BY DEF Move
<1>3. /\ budget' \in [edits : Nat, moves : 0 .. MaxMoves, faults : Nat]
      /\ budget'.moves = budget.moves + 1 /\ budget.moves \in Nat
  <2> DEFINE n == budget.moves + 1
  <2>1. budget.moves \in 0 .. MaxMoves
    BY DEF TableInv
  <2>2. n \in 0 .. MaxMoves /\ budget.moves \in Nat
    BY <1>2, <2>1, UniverseAssumption
  <2>3. budget' = [budget EXCEPT !.moves = n]
    BY <1>2
  <2> HIDE DEF n
  <2>4. budget' \in [edits : Nat, moves : 0 .. MaxMoves, faults : Nat] /\ budget'.moves = n
    BY <2>2, <2>3 DEF TableInv
  <2> QED BY <2>2, <2>4 DEF n
<1> DEFINE r == [listing |-> l, terms |-> market[s].terms + dt]
           Old == [listing : Listings, terms : 1 .. budget.moves + 1]
           New == [listing : Listings, terms : 1 .. budget'.moves + 1]
<1>4. market \in [Symbols -> Old]
  BY DEF TableInv
<1>5. r \in New
  BY <1>3, <1>4
<1>6. \A x \in Old : x \in New
  BY <1>3
<1> HIDE DEF Old, New, r
<1>7. market' \in [Symbols -> New]
  BY <1>1, <1>4, <1>5, <1>6 DEF r
<1> QED BY <1>2, <1>3, <1>7 DEF TableInv, New

LEMMA NextTable ==
  ASSUME TableInv, [Next]_vars
  PROVE  TableInv'
<1>1. CASE ScanFails
  <2>1. UNCHANGED <<market, rows, refresh, command, screen, wish>> /\ Fault
        /\ bot' \in {"read", "preflight"}
    BY <1>1 DEF ScanFails
  <2> QED BY <2>1, FaultTakes DEF TableInv
<1>2. CASE Crash
  <2>1. /\ bot' = "preflight" /\ screen' = NoScreen /\ Fault
        /\ refresh' = [refresh EXCEPT !["bot"] = Idle]
        /\ UNCHANGED <<market, rows, command, wish>>
    BY <1>2 DEF Crash
  <2>2. NoScreen \in Screening /\ Idle \in Refresh
    BY DEF NoScreen, Screening, Idle, Refresh
  <2>3. refresh' \in [Processes -> Refresh]
    BY <2>1, <2>2 DEF TableInv
  <2> QED BY <2>1, <2>2, <2>3, FaultTakes DEF TableInv
<1>3. CASE UNCHANGED vars
  BY <1>3 DEF vars, TableInv
<1> QED BY <1>1, <1>2, <1>3, RefreshTable, ScreenTable, CommandTable, MoveTable DEF Next

\* Type correctness: whatever the operator, the exchange and the faults do, the
\* table and every copy of its rows under way hold rows that are well formed.
THEOREM TypeCorrect == Spec => []UniverseTypeOK
<1>1. TableInv => UniverseTypeOK
  <2> SUFFICES ASSUME TableInv PROVE UniverseTypeOK
    OBVIOUS
  <2>1. \A p \in Processes : /\ refresh[p].at \in {"idle", "load", "write"}
                             /\ ToSet(refresh[p].todo) \subseteq Entry
    BY EntriesType DEF TableInv, Refresh
  <2>2. ToSet(screen.left) \cup screen.in \cup screen.out \subseteq Symbols
    BY DEF TableInv, Screening, ToSet
  <2>3. market \in [Symbols -> [listing : Listings, terms : 1 .. MaxMoves + 1]]
    <3>1. budget.moves \in 0 .. MaxMoves
      BY DEF TableInv
    <3>2. 1 .. budget.moves + 1 \subseteq 1 .. MaxMoves + 1
      BY <3>1, UniverseAssumption
    <3>3. \A s \in Symbols : market[s] \in [listing : Listings, terms : 1 .. budget.moves + 1]
      BY DEF TableInv
    <3>4. \A s \in Symbols : market[s] \in [listing : Listings, terms : 1 .. MaxMoves + 1]
      BY <3>2, <3>3
    <3> QED BY <3>4 DEF TableInv
  <2> QED BY <2>1, <2>2, <2>3 DEF UniverseTypeOK, TableInv, Rows, Entry
<1> QED BY <1>1, InitTable, NextTable, PTL DEF Spec
-----------------------------------------------------------------------------
(* The operator's orders. *)

Todo(p) == ToSet(refresh[p].todo)

\* A symbol the operator added has a row off the blacklist and every copy of a
\* row under way is off it too; one the operator removed has a row on it, and
\* no refresh has it in hand. No row is forced and blacklisted, or a refresh
\* could take up a removed one.
TableOrders ==
  /\ \A s \in Symbols : rows[s].force => ~rows[s].black
  /\ \A p \in Processes : \A e \in Todo(p) : ~e.row.black
  /\ \A s \in Symbols : wish[s] = "in" => rows[s] # NoRow /\ ~rows[s].black
  /\ \A s \in Symbols : wish[s] = "out" =>
       /\ rows[s] # NoRow /\ rows[s].black
       /\ \A p \in Processes : \A e \in Todo(p) : e.sym # s

LEMMA RowExists == NoRow \notin Row
BY UniverseAssumption DEF NoRow, Row

LEMMA NothingToDo == ToSet(<<>>) = {}
BY DEF ToSet

LEMMA OrderRows ==
  ASSUME TableInv, command.kind \in {"add", "remove"}
  PROVE  /\ command.sym \in Symbols
         /\ AddedRow(command.row) \in Row /\ ~AddedRow(command.row).black
         /\ RemovedRow(command.row) \in Row /\ RemovedRow(command.row).black
         /\ ~RemovedRow(command.row).force
<1>1. command \in Orders
  BY DEF TableInv, NoCommand
<1>2. command.row = NoRow \/ command.row \in Row
  BY <1>1 DEF Orders, Rows
<1>3. 0 \in 0 .. MaxMoves + 1
  BY UniverseAssumption
<1> QED BY <1>1, <1>2, <1>3 DEF AddedRow, RemovedRow, Row, Orders

LEMMA RefreshOrders ==
  ASSUME TableInv, TableOrders, NEW p \in Processes, RefreshUniverse(p)
  PROVE  TableOrders'
<1>0. /\ refresh[p].todo \in Seq(Entry) /\ refresh \in [Processes -> Refresh]
      /\ rows \in [Symbols -> Rows]
  BY DEF TableInv, Refresh
\* What becomes of the entries in hand, and of the wishes and the rows.
<1>1. ASSUME NEW todo, NEW at, refresh' = [refresh EXCEPT ![p] = [at |-> at, todo |-> todo]]
      PROVE  Todo(p)' = ToSet(todo) /\ \A q \in Processes : q # p => Todo(q)' = Todo(q)
  BY <1>0, <1>1 DEF Todo
<1>2. CASE Scan(p)
  <2>1. /\ refresh' = [refresh EXCEPT ![p] = [at |-> "load", todo |-> ScanAll]]
        /\ rows' = rows
        /\ wish' = [s \in Symbols |-> IF s \in Scanned THEN "none" ELSE wish[s]]
    BY <1>2 DEF Scan
  <2>2. Todo(p)' = ToSet(ScanAll) /\ \A q \in Processes : q # p => Todo(q)' = Todo(q)
    BY <1>1, <2>1
  <2>3. \A e \in ToSet(ScanAll) : ~e.row.black /\ e.sym \in Scanned
    <3>1. SUFFICES ASSUME NEW e \in ToSet(ScanAll)
                   PROVE  ~e.row.black /\ e.sym \in Scanned
      OBVIOUS
    <3>2. e.row = ScanRow(e.sym)
      BY ScanAllType
    <3>3. ~ScanRow(e.sym).black
      BY DEF ScanRow
    <3>4. e.sym \in Scanned
      BY DEF Scanned
    <3> QED BY <3>2, <3>3, <3>4
  <2>4. \A s \in Symbols : wish'[s] # "none" => wish'[s] = wish[s] /\ s \notin Scanned
    BY <2>1
  <2> QED BY <2>1, <2>2, <2>3, <2>4 DEF TableOrders
<1>3. CASE GetAll(p)
  <2>1. UNCHANGED <<rows, wish>>
    BY <1>3 DEF GetAll
  <2>2. PICK todo : /\ refresh' = [refresh EXCEPT ![p] = [at |-> "write", todo |-> todo]]
                    /\ \/ todo = refresh[p].todo
                       \/ todo = Merged(refresh[p].todo)
    <3>1. CASE refresh' = [refresh EXCEPT ![p] = [at |-> "write", todo |-> Merged(@.todo)]]
      BY <3>1
    <3>2. CASE refresh' = [refresh EXCEPT ![p].at = "write"]
      <4>1. [refresh[p] EXCEPT !.at = "write"] = [at |-> "write", todo |-> refresh[p].todo]
        BY <1>0 DEF Refresh
      <4> QED BY <3>2, <4>1
    <3> QED BY <1>3, <3>1, <3>2 DEF GetAll
  <2>3. Todo(p)' = ToSet(todo) /\ \A q \in Processes : q # p => Todo(q)' = Todo(q)
    BY <1>1, <2>2
  <2>4. \A e \in ToSet(todo) :
          e \in Todo(p) \/ (e.sym \in Symbols /\ e.row = rows[e.sym] /\ rows[e.sym].force)
    <3>1. CASE todo = refresh[p].todo
      <4>1. ToSet(todo) = Todo(p)
        BY <3>1 DEF Todo
      <4> QED BY <4>1
    <3>2. CASE todo = Merged(refresh[p].todo)
      <4>1. Todo(p) = ToSet(refresh[p].todo)
        BY DEF Todo
      <4>2. refresh[p].todo \in Seq(Entry)
        BY <1>0
      <4>3. /\ todo \in Seq(Entry)
            /\ \A e \in ToSet(todo) :
                 e \in ToSet(refresh[p].todo) \/ (e.row = rows[e.sym] /\ rows[e.sym].force)
        BY <3>2, <4>2, MergedType
      <4>4. \A e \in ToSet(todo) : e.sym \in Symbols
        BY <4>3, EntriesType DEF Entry
      <4> QED BY <4>1, <4>3, <4>4
    <3> QED BY <2>2, <3>1, <3>2
  <2> QED BY <2>1, <2>3, <2>4 DEF TableOrders
<1>4. CASE InsertOrUpdate(p)
  <2> DEFINE e == Head(refresh[p].todo)
             t == Tail(refresh[p].todo)
  <2>1. refresh[p].todo # <<>> /\ wish' = wish
    BY <1>4 DEF InsertOrUpdate
  <2>2. e \in Entry /\ e \in Todo(p) /\ ToSet(t) \subseteq Todo(p)
    BY <1>0, <2>1, TailType DEF Todo
  <2>3. rows' = [rows EXCEPT ![e.sym] = e.row] \/ rows' = rows
    BY <1>4 DEF InsertOrUpdate, Upsert
  <2>4. refresh' = [refresh EXCEPT ![p].todo = t]
    BY <1>4 DEF InsertOrUpdate
  <2> HIDE DEF e, t
  <2>5. Todo(p)' = ToSet(t) /\ \A q \in Processes : q # p => Todo(q)' = Todo(q)
    BY <1>0, <2>4 DEF Todo, Refresh
  <2>6. /\ e.sym \in Symbols /\ e.row # NoRow /\ ~e.row.black
        /\ \A s \in Symbols : wish[s] = "out" => e.sym # s
    BY <2>2, RowExists DEF TableOrders, Entry
  <2>7. \A s \in Symbols : rows'[s] = rows[s] \/ (s = e.sym /\ rows'[s] = e.row)
    BY <1>0, <2>3
  <2> QED BY <2>1, <2>2, <2>5, <2>6, <2>7 DEF TableOrders
<1>5. CASE RefreshDone(p)
  <2>1. /\ refresh' = [refresh EXCEPT ![p] = [at |-> "idle", todo |-> <<>>]]
        /\ UNCHANGED <<rows, wish>>
    BY <1>5 DEF RefreshDone, Idle
  <2>2. Todo(p)' = {} /\ \A q \in Processes : q # p => Todo(q)' = Todo(q)
    BY <1>1, <2>1, NothingToDo
  <2> QED BY <2>1, <2>2 DEF TableOrders
<1> QED BY <1>2, <1>3, <1>4, <1>5 DEF RefreshUniverse

LEMMA TableOrdersKept ==
  ASSUME TableInv, TableOrders, [Next]_vars
  PROVE  TableOrders'
<1>0. rows \in [Symbols -> Rows] /\ wish \in [Symbols -> {"none", "in", "out"}]
  BY DEF TableInv
<1>1. CASE AddForceInclude
  <2>1. /\ command.kind = "add" /\ refresh' = refresh
        /\ rows' = [rows EXCEPT ![command.sym] = AddedRow(command.row)]
        /\ wish' = [wish EXCEPT ![command.sym] = "in"]
    BY <1>1 DEF AddForceInclude
  <2> DEFINE s == command.sym
             r == AddedRow(command.row)
  <2>2. s \in Symbols /\ r # NoRow /\ ~r.black
    BY <2>1, OrderRows, RowExists
  <2>3. rows' = [rows EXCEPT ![s] = r] /\ wish' = [wish EXCEPT ![s] = "in"]
    BY <2>1
  <2> HIDE DEF s, r
  <2>4. /\ rows'[s] = r /\ wish'[s] = "in"
        /\ \A q \in Symbols : q # s => rows'[q] = rows[q] /\ wish'[q] = wish[q]
    BY <1>0, <2>2, <2>3
  <2>5. \A p \in Processes : Todo(p)' = Todo(p)
    BY <2>1 DEF Todo
  <2> QED BY <2>2, <2>4, <2>5 DEF TableOrders
<1>2. CASE RemoveSymbol
  <2> DEFINE s == command.sym
             r == RemovedRow(command.row)
             w == IF \E p \in Processes : Knows(p, s) THEN "none" ELSE "out"
  <2>1. /\ command.kind = "remove" /\ refresh' = refresh
        /\ rows' = [rows EXCEPT ![s] = r] /\ wish' = [wish EXCEPT ![s] = w]
    BY <1>2 DEF RemoveSymbol
  <2>2. s \in Symbols /\ r # NoRow /\ r.black /\ ~r.force
    BY <2>1, OrderRows, RowExists
  <2>3. w # "in" /\ (w = "out" => \A p \in Processes : \A e \in Todo(p) : e.sym # s)
    BY DEF Knows, Todo
  <2> HIDE DEF s, r, w
  <2>4. /\ rows'[s] = r /\ wish'[s] = w
        /\ \A q \in Symbols : q # s => rows'[q] = rows[q] /\ wish'[q] = wish[q]
    BY <1>0, <2>1, <2>2
  <2>5. \A p \in Processes : Todo(p)' = Todo(p)
    BY <2>1 DEF Todo
  <2> QED BY <2>2, <2>3, <2>4, <2>5 DEF TableOrders
<1>3. CASE Crash
  <2>1. refresh' = [refresh EXCEPT !["bot"] = Idle] /\ UNCHANGED <<rows, wish>>
    BY <1>3 DEF Crash
  <2>2. \A p \in Processes : Todo(p)' = {} \/ Todo(p)' = Todo(p)
    BY <2>1, NothingToDo DEF TableInv, Todo, Idle
  <2> QED BY <2>1, <2>2 DEF TableOrders
<1>4. CASE \/ ScanFails \/ Screen \/ CommandFails \/ Move \/ UNCHANGED vars
           \/ \E kind \in {"add", "remove"}, s \in Symbols : GetBySymbol(kind, s)
  <2>1. UNCHANGED <<rows, refresh, wish>>
    BY <1>4 DEF ScanFails, Screen, GetUniverse, evaluateSymbol, ScreenDone, CommandFails, Move,
                vars, GetBySymbol
  <2> QED BY <2>1 DEF TableOrders, Todo
<1> QED BY <1>1, <1>2, <1>3, <1>4, RefreshOrders DEF Next

\* Every symbol of the screen is judged or still to come, and nothing else is.
ScreenOrders ==
  LET judged == JudgedSymbols \cup ToSet(screen.left) IN
  judged \cap screen.out = {} /\ screen.in \subseteq judged

LEMMA ScreenOrdersKept ==
  ASSUME TableInv, TableOrders, ScreenOrders, [Next]_vars
  PROVE  ScreenOrders'
<1>1. CASE UNCHANGED screen
  BY <1>1 DEF ScreenOrders, JudgedSymbols
<1>2. CASE screen' = NoScreen
  BY <1>2, NothingToDo DEF ScreenOrders, JudgedSymbols, NoScreen
<1>3. CASE GetUniverse /\ ~UNCHANGED screen
  <2> DEFINE listed == {s \in Symbols : rows[s] # NoRow /\ ~rows[s].black}
             l == Kept(ByName, listed)
             i == {s \in Symbols : wish[s] = "in"}
             o == {s \in Symbols : wish[s] = "out"}
  <2>1. screen' = [NoScreen EXCEPT !.left = l, !.in = i, !.out = o]
    BY <1>3 DEF GetUniverse
  <2>2. ToSet(l) = listed
    BY UniverseAssumption, KeptIs DEF Symbols
  <2>3. i \subseteq listed /\ o \cap listed = {}
    BY DEF TableOrders
  <2> HIDE DEF listed, l, i, o
  <2>4. /\ screen'.left = l /\ screen'.in = i /\ screen'.out = o
        /\ screen'.eligible = {} /\ screen'.nonEligible = {} /\ screen'.rejected = {}
    BY <2>1 DEF NoScreen
  <2> QED BY <2>2, <2>3, <2>4 DEF ScreenOrders, JudgedSymbols
<1>4. CASE evaluateSymbol
  <2> DEFINE t == Tail(screen.left)
             s == Head(screen.left)
             sc == [screen EXCEPT !.left = t]
  <2>1. /\ screen.left # <<>> /\ screen.left \in Seq(Symbols)
        /\ t \in Seq(Symbols) /\ s \in Symbols /\ ToSet(screen.left) = {s} \cup ToSet(t)
    BY <1>4, TailType DEF evaluateSymbol, TableInv, Screening
  <2>2. PICK feed \in Feeds : screen' = Judged(sc, s, feed)
    BY <1>4 DEF evaluateSymbol
  <2> HIDE DEF t, s
  <2>4. /\ sc \in Screening /\ sc.left = t /\ sc.in = screen.in /\ sc.out = screen.out
        /\ sc.eligible = screen.eligible /\ sc.nonEligible = screen.nonEligible
        /\ sc.rejected = screen.rejected
    BY <2>1 DEF TableInv, Screening
  <2> HIDE DEF sc
  <2>5. screen'.left = t /\ screen'.in = screen.in /\ screen'.out = screen.out
    BY <2>1, <2>2, <2>4, JudgedType
  <2>6. JudgedSymbols' = JudgedSymbols \cup {s}
    BY <2>1, <2>2, <2>4, JudgedType DEF JudgedSymbols
  <2> QED BY <2>1, <2>5, <2>6 DEF ScreenOrders
<1>5. ASSUME ~UNCHANGED screen, screen' # NoScreen PROVE GetUniverse \/ evaluateSymbol
  BY <1>5
  DEF Next, vars, RefreshUniverse, Scan, GetAll, InsertOrUpdate, RefreshDone, ScanFails, Screen,
      ScreenDone, GetBySymbol, AddForceInclude, RemoveSymbol, CommandFails, Move, Crash
<1> QED BY <1>1, <1>2, <1>3, <1>4, <1>5

\* Whatever the bot's refresh, the command line's, failed calls and crashes do
\* between the operator's order and the screen, every symbol added by force is
\* judged by every screen that reads the table later, and no symbol removed is.
THEOREM OrdersAreHonoured == Spec => []OrdersHonoured
<1> DEFINE Inv == TableInv /\ TableOrders /\ ScreenOrders
<1>1. Init => Inv
  <2> SUFFICES ASSUME Init PROVE TableOrders /\ ScreenOrders
    BY InitTable
  <2>1. TableOrders
    BY NothingToDo DEF Init, TableOrders, Todo, Idle, NoRow
  <2>2. ScreenOrders
    BY NothingToDo DEF Init, ScreenOrders, JudgedSymbols, NoScreen
  <2> QED BY <2>1, <2>2
<1>2. Inv /\ [Next]_vars => Inv'
  BY NextTable, TableOrdersKept, ScreenOrdersKept
<1>3. Inv => OrdersHonoured
  BY DEF ScreenOrders, OrdersHonoured
<1> QED BY <1>1, <1>2, <1>3, PTL DEF Spec

=============================================================================
