-------------------------- MODULE RiskCheckProofs ---------------------------
(***************************************************************************)
(* RiskCheck, for every configuration, candidate, symbol, account and      *)
(* reply: what an approved plan loses, its levels, its margin, and what a  *)
(* failed review decides.                                                  *)
(***************************************************************************)
EXTENDS RiskCheck, WellFoundedInduction, TLAPS

-----------------------------------------------------------------------------
(* Chains of early returns and sets of reasons. *)

LEMMA MinIs ==
  ASSUME NEW S \in SUBSET Nat, S # {}
  PROVE  Min(S) \in S /\ \A n \in S : Min(S) <= n
<1>1. IsWellFoundedOn(OpToRel(<, Nat), Nat)
  BY NatLessThanWellFounded
<1>2. PICK m \in S : \A n \in S : <<n, m>> \notin OpToRel(<, Nat)
  BY <1>1, WFMin
<1>3. \A n \in S : ~(n < m)
  BY <1>2 DEF OpToRel
<1>4. \E x \in S : \A y \in S : x =< y
  BY <1>3
<1> QED BY <1>4 DEF Min

\* Every failure of the chain has a name.
Named(chain) == \A n \in DOMAIN chain : chain[n][2] => chain[n][1] # ""

\* Whatever the chain, one that returns no name has no link that holds.
LEMMA NoFailure ==
  ASSUME NEW chain, DOMAIN chain \in SUBSET Nat, Named(chain),
         FirstFailure(chain) = "" \/ FirstHit(chain) = ""
  PROVE  \A n \in DOMAIN chain : ~chain[n][2]
<1> DEFINE hit == {n \in DOMAIN chain : chain[n][2]}
<1> SUFFICES ASSUME hit # {} PROVE FALSE
  OBVIOUS
<1>1. Min(hit) \in hit
  BY MinIs
<1>2. chain[Min(hit)][1] = ""
  BY DEF FirstFailure, FirstHit
<1> QED BY <1>1, <1>2 DEF Named

LEMMA HitsNone ==
  ASSUME NEW conditions, Hits(conditions) = {}
  PROVE  \A c \in DOMAIN conditions : ~conditions[c]
  BY DEF Hits

-----------------------------------------------------------------------------
(* The review. *)

LEMMA FirstFailureIs ==
  ASSUME NEW chain, NEW N \in Nat, DOMAIN chain = 1 .. N,
         NEW k \in 1 .. N, chain[k][2], \A j \in 1 .. k - 1 : ~chain[j][2]
  PROVE  FirstFailure(chain) = chain[k][1]
<1> DEFINE hit == {n \in DOMAIN chain : chain[n][2]}
<1>1. k \in hit /\ hit \in SUBSET Nat
  OBVIOUS
<1>2. Min(hit) \in hit /\ Min(hit) <= k
  BY <1>1, MinIs
<1>3. Min(hit) = k
  <2>1. Min(hit) \in 1 .. N /\ chain[Min(hit)][2]
    BY <1>2
  <2> DEFINE m == Min(hit)
  <2> HIDE DEF m
  <2>2. m \in 1 .. N /\ chain[m][2] /\ m <= k
    BY <1>2, <2>1 DEF m
  <2>3. ~(m \in 1 .. k - 1)
    BY <2>2
  <2> QED BY <2>2, <2>3 DEF m
<1> QED BY <1>1, <1>3 DEF FirstFailure

LEMMA NoneFails ==
  ASSUME NEW chain, \A n \in DOMAIN chain : ~chain[n][2]
  PROVE  FirstFailure(chain) = ""
  BY DEF FirstFailure

\* The attempt that counts came after nothing but those that are repeated.
LEMMA SettledAttempt ==
  ASSUME NEW r \in Replies
  PROVE  /\ FinalAttempt(r.tries) \in Attempts
         /\ FinalAttempt(r.tries) \notin {"error", "5xx"} =>
              \E n \in 1 .. 3 : /\ r.tries[n] = FinalAttempt(r.tries)
                                /\ \A k \in 1 .. n - 1 : r.tries[k] \in {"5xx", "error"}
         /\ \A n \in 1 .. 3 :
              /\ r.tries[n] \notin {"error", "5xx"}
              /\ \A k \in 1 .. n - 1 : r.tries[k] \in {"5xx", "error"}
              => FinalAttempt(r.tries) = r.tries[n]
<1> DEFINE settled == {n \in 1 .. 3 : r.tries[n] \notin {"error", "5xx"}}
           m == Min(settled)
<1>1. \A n \in 1 .. 3 : r.tries[n] \in Attempts
  BY DecisionAssumption
<1>2. CASE settled = {}
  <2>1. FinalAttempt(r.tries) = r.tries[3]
    BY <1>2 DEF FinalAttempt
  <2>2. \A n \in 1 .. 3 : r.tries[n] \in {"error", "5xx"}
    BY <1>2
  <2> QED BY <1>1, <2>1, <2>2
<1>3. CASE settled # {}
  <2>1. m \in settled /\ \A n \in settled : m <= n
    BY <1>3, MinIs
  <2>2. FinalAttempt(r.tries) = r.tries[m]
    BY <1>3 DEF FinalAttempt
  <2> HIDE DEF m
  <2>3. \A k \in 1 .. m - 1 : k \in 1 .. 3 /\ k \notin settled
    BY <2>1
  <2>4. ASSUME NEW n \in 1 .. 3, r.tries[n] \notin {"error", "5xx"},
               \A k \in 1 .. n - 1 : r.tries[k] \in {"5xx", "error"}
        PROVE  m = n
    <3>1. n \in settled /\ m <= n
      BY <2>1, <2>4
    <3>2. ~(m \in 1 .. n - 1)
      BY <2>1, <2>4
    <3> QED BY <2>1, <3>1, <3>2
  <2> QED BY <1>1, <2>1, <2>2, <2>3, <2>4
<1> QED BY <1>2, <1>3

\* What a call ends in, by the attempt that counts and the body.
LEMMA CallFailureIs ==
  ASSUME NEW r \in Replies
  PROVE  LET final == FinalAttempt(r.tries)
         IN  /\ final = "cancelled" => CallFailure(r) = "CANCELED"
             /\ final = "error" => CallFailure(r) = "API_ERROR"
             /\ final = "5xx" => CallFailure(r) = "RESPONSE_READ_ERROR"
             /\ final = "4xx" => CallFailure(r) = "API_STATUS"
             /\ final = "ok" /\ r.body = "garbled" => CallFailure(r) = "INVALID_JSON"
             /\ final = "ok" /\ r.body = "api_error" =>
                  CallFailure(r) = "API_ERROR_IN_RESPONSE"
             /\ final = "ok" /\ r.body = "no_choices" => CallFailure(r) = "NO_CHOICES"
             /\ final = "ok" /\ r.body \in {"not_json", "answer"} => CallFailure(r) = ""
<1> DEFINE final == FinalAttempt(r.tries)
           a == <<"CANCELED", final = "cancelled">>
           b == <<"API_ERROR", final = "error">>
           c == <<"RESPONSE_READ_ERROR", final = "5xx">>
           d == <<"API_STATUS", final = "4xx">>
           e == <<"INVALID_JSON", r.body = "garbled">>
           f == <<"API_ERROR_IN_RESPONSE", r.body = "api_error">>
           g == <<"NO_CHOICES", r.body = "no_choices">>
           chain == <<a, b, c, d, e, f, g>>
<1>1. CallFailure(r) = FirstFailure(chain)
  BY DEF CallFailure
<1>2. /\ a[1] = "CANCELED" /\ a[2] = (final = "cancelled")
      /\ b[1] = "API_ERROR" /\ b[2] = (final = "error")
      /\ c[1] = "RESPONSE_READ_ERROR" /\ c[2] = (final = "5xx")
      /\ d[1] = "API_STATUS" /\ d[2] = (final = "4xx")
      /\ e[1] = "INVALID_JSON" /\ e[2] = (r.body = "garbled")
      /\ f[1] = "API_ERROR_IN_RESPONSE" /\ f[2] = (r.body = "api_error")
      /\ g[1] = "NO_CHOICES" /\ g[2] = (r.body = "no_choices")
  BY Zenon
<1> HIDE DEF a, b, c, d, e, f, g, final
<1>3. /\ DOMAIN chain = 1 .. 7 /\ 7 \in Nat
      /\ chain[1] = a /\ chain[2] = b /\ chain[3] = c /\ chain[4] = d
      /\ chain[5] = e /\ chain[6] = f /\ chain[7] = g
  OBVIOUS
<1> HIDE DEF chain
<1>4. ASSUME NEW k \in 1 .. 7, chain[k][2], \A j \in 1 .. k - 1 : ~chain[j][2]
      PROVE  FirstFailure(chain) = chain[k][1]
  BY <1>3, <1>4, FirstFailureIs
<1> DEFINE Below(k) == \A j \in 1 .. k - 1 : ~chain[j][2]
<1>5. /\ Below(1)
      /\ ~a[2] => Below(2)
      /\ ~a[2] /\ ~b[2] => Below(3)
      /\ ~a[2] /\ ~b[2] /\ ~c[2] => Below(4)
      /\ ~a[2] /\ ~b[2] /\ ~c[2] /\ ~d[2] => Below(5)
      /\ ~a[2] /\ ~b[2] /\ ~c[2] /\ ~d[2] /\ ~e[2] => Below(6)
      /\ ~a[2] /\ ~b[2] /\ ~c[2] /\ ~d[2] /\ ~e[2] /\ ~f[2] => Below(7)
      /\ ~a[2] /\ ~b[2] /\ ~c[2] /\ ~d[2] /\ ~e[2] /\ ~f[2] /\ ~g[2] =>
           \A n \in DOMAIN chain : ~chain[n][2]
  <2>1. Below(1)
    <3>1. \A j \in 1 .. 1 - 1 : FALSE
      OBVIOUS
    <3> QED BY <1>3, <3>1, Zenon
  <2>2. ~a[2] => Below(2)
    <3>1. \A j \in 1 .. 2 - 1 : j = 1
      OBVIOUS
    <3> QED BY <1>3, <3>1, Zenon
  <2>3. ~a[2] /\ ~b[2] => Below(3)
    <3>1. \A j \in 1 .. 3 - 1 : j = 1 \/ j = 2
      OBVIOUS
    <3> QED BY <1>3, <3>1, Zenon
  <2>4. ~a[2] /\ ~b[2] /\ ~c[2] => Below(4)
    <3>1. \A j \in 1 .. 4 - 1 : j = 1 \/ j = 2 \/ j = 3
      OBVIOUS
    <3> QED BY <1>3, <3>1, Zenon
  <2>5. ~a[2] /\ ~b[2] /\ ~c[2] /\ ~d[2] => Below(5)
    <3>1. \A j \in 1 .. 5 - 1 : j = 1 \/ j = 2 \/ j = 3 \/ j = 4
      OBVIOUS
    <3> QED BY <1>3, <3>1, Zenon
  <2>6. ~a[2] /\ ~b[2] /\ ~c[2] /\ ~d[2] /\ ~e[2] => Below(6)
    <3>1. \A j \in 1 .. 6 - 1 : j = 1 \/ j = 2 \/ j = 3 \/ j = 4 \/ j = 5
      OBVIOUS
    <3> QED BY <1>3, <3>1, Zenon
  <2>7. ~a[2] /\ ~b[2] /\ ~c[2] /\ ~d[2] /\ ~e[2] /\ ~f[2] => Below(7)
    <3>1. \A j \in 1 .. 7 - 1 : j = 1 \/ j = 2 \/ j = 3 \/ j = 4 \/ j = 5 \/ j = 6
      OBVIOUS
    <3> QED BY <1>3, <3>1, Zenon
  <2>8. ~a[2] /\ ~b[2] /\ ~c[2] /\ ~d[2] /\ ~e[2] /\ ~f[2] /\ ~g[2] =>
          \A n \in DOMAIN chain : ~chain[n][2]
    <3>1. \A j \in 1 .. 7 : j = 1 \/ j = 2 \/ j = 3 \/ j = 4 \/ j = 5 \/ j = 6 \/ j = 7
      OBVIOUS
    <3> QED BY <1>3, <3>1, Zenon
  <2> QED BY <2>1, <2>2, <2>3, <2>4, <2>5, <2>6, <2>7, <2>8
<1>6. ASSUME NEW k \in 1 .. 7, chain[k][2], Below(k)
      PROVE  CallFailure(r) = chain[k][1]
  BY <1>1, <1>4, <1>6
<1> HIDE DEF Below
<1>7. /\ 1 \in 1 .. 7 /\ 2 \in 1 .. 7 /\ 3 \in 1 .. 7 /\ 4 \in 1 .. 7 /\ 5 \in 1 .. 7
      /\ 6 \in 1 .. 7 /\ 7 \in 1 .. 7
  OBVIOUS
<1>8. /\ final = "cancelled" => CallFailure(r) = "CANCELED"
      /\ final = "error" => CallFailure(r) = "API_ERROR"
      /\ final = "5xx" => CallFailure(r) = "RESPONSE_READ_ERROR"
      /\ final = "4xx" => CallFailure(r) = "API_STATUS"
  BY <1>2, <1>3, <1>5, <1>6, <1>7
<1>9. final = "ok" => ~a[2] /\ ~b[2] /\ ~c[2] /\ ~d[2]
  BY <1>2
<1>10. /\ final = "ok" /\ r.body = "garbled" => CallFailure(r) = "INVALID_JSON"
       /\ final = "ok" /\ r.body = "api_error" => CallFailure(r) = "API_ERROR_IN_RESPONSE"
       /\ final = "ok" /\ r.body = "no_choices" => CallFailure(r) = "NO_CHOICES"
  BY <1>2, <1>3, <1>5, <1>6, <1>7, <1>9
<1>11. final = "ok" /\ r.body \in {"not_json", "answer"} => CallFailure(r) = ""
  <2>1. final = "ok" /\ r.body \in {"not_json", "answer"} => ~e[2] /\ ~f[2] /\ ~g[2]
    BY <1>2
  <2>2. final = "ok" /\ r.body \in {"not_json", "answer"} =>
          \A n \in DOMAIN chain : ~chain[n][2]
    BY <1>5, <1>9, <2>1
  <2> QED BY <1>1, <2>2, NoneFails
<1> QED BY <1>8, <1>10, <1>11 DEF final

LEMMA AnswerInvalid ==
  ASSUME NEW mode, NEW r \in Replies,
         \/ ~Readable(r) \/ ~r.complete
         \/ r.action \notin Actions \/ r.multiplier \notin 1 .. 100
  PROVE  ReviewInvalid(mode, r) # ""
<1> DEFINE a == <<"JSON_PARSE_FAILED", ~Readable(r)>>
           b == <<"MISSING_FIELD", ~r.complete>>
           c == <<"FORBIDDEN_ACTION", r.action \notin AllowedActionsForMode(mode)>>
           d == <<"INVALID_SIZE_MULTIPLIER", r.multiplier <= 0 \/ r.multiplier > 100>>
           e == <<"FORBIDDEN_CHANGE", r.entryMode \notin {"", "market", "limit_retest"}>>
           f == <<"INVALID_CONFIDENCE", r.confidence < 0 \/ r.confidence > 100>>
           chain == <<a, b, c, d, e, f>>
<1>1. ReviewInvalid(mode, r) = FirstFailure(chain)
  BY DEF ReviewInvalid
<1>2. a[2] \/ b[2] \/ c[2] \/ d[2]
  <2>1. r.action \notin Actions => r.action \notin AllowedActionsForMode(mode)
    BY DEF AllowedActionsForMode
  <2>2. r.multiplier \notin 1 .. 100 => r.multiplier <= 0 \/ r.multiplier > 100
    <3>1. r.multiplier \in Int
      BY DecisionAssumption
    <3> QED BY <3>1
  <2> QED BY <2>1, <2>2, Zenon
<1>3. a[1] # "" /\ b[1] # "" /\ c[1] # "" /\ d[1] # "" /\ e[1] # "" /\ f[1] # ""
  BY Zenon
<1> HIDE DEF a, b, c, d, e, f
<1>4. /\ DOMAIN chain = 1 .. 6 /\ chain[1] = a /\ chain[2] = b /\ chain[3] = c
      /\ chain[4] = d /\ chain[5] = e /\ chain[6] = f
  OBVIOUS
<1> HIDE DEF chain
<1>5. Named(chain)
  <2> SUFFICES ASSUME NEW n \in 1 .. 6 PROVE chain[n][1] # ""
    BY <1>4 DEF Named
  <2>1. n = 1 \/ n = 2 \/ n = 3 \/ n = 4 \/ n = 5 \/ n = 6
    OBVIOUS
  <2> QED BY <1>3, <1>4, <2>1, Zenon
<1>6. \E n \in DOMAIN chain : chain[n][2]
  <2>1. {1, 2, 3, 4} \subseteq DOMAIN chain
    BY <1>4
  <2> QED BY <1>2, <1>4, <2>1, Zenon
<1>7. FirstFailure(chain) # ""
  <2>1. DOMAIN chain \in SUBSET Nat
    BY <1>4
  <2> QED BY <1>5, <1>6, <2>1, NoFailure
<1> QED BY <1>1, <1>7

LEMMA InRange ==
  /\ \A x \in 1 .. 100 : ~(x <= 0 \/ x > 100)
  /\ \A x \in 0 .. 100 : ~(x < 0 \/ x > 100)
  OBVIOUS

LEMMA AnswerValid ==
  ASSUME NEW mode, NEW r \in Replies
  PROVE  /\ Readable(r) /\ r.complete /\ r.action \in AllowedActionsForMode(mode)
         /\ r.multiplier \in 1 .. 100 /\ r.confidence \in 0 .. 100
         /\ r.entryMode \in {"", "market", "limit_retest"}
         => ReviewInvalid(mode, r) = ""
<1> DEFINE a == <<"JSON_PARSE_FAILED", ~Readable(r)>>
           b == <<"MISSING_FIELD", ~r.complete>>
           c == <<"FORBIDDEN_ACTION", r.action \notin AllowedActionsForMode(mode)>>
           d == <<"INVALID_SIZE_MULTIPLIER", r.multiplier <= 0 \/ r.multiplier > 100>>
           e == <<"FORBIDDEN_CHANGE", r.entryMode \notin {"", "market", "limit_retest"}>>
           f == <<"INVALID_CONFIDENCE", r.confidence < 0 \/ r.confidence > 100>>
           chain == <<a, b, c, d, e, f>>
           sound == /\ Readable(r) /\ r.complete /\ r.action \in AllowedActionsForMode(mode)
                    /\ r.multiplier \in 1 .. 100 /\ r.confidence \in 0 .. 100
                    /\ r.entryMode \in {"", "market", "limit_retest"}
<1>1. ReviewInvalid(mode, r) = FirstFailure(chain)
  BY DEF ReviewInvalid
<1>2. sound => ~a[2] /\ ~b[2] /\ ~c[2] /\ ~d[2] /\ ~e[2] /\ ~f[2]
  BY InRange, Zenon
<1> HIDE DEF a, b, c, d, e, f, sound
<1>3. /\ DOMAIN chain = 1 .. 6 /\ chain[1] = a /\ chain[2] = b /\ chain[3] = c
      /\ chain[4] = d /\ chain[5] = e /\ chain[6] = f
  OBVIOUS
<1> HIDE DEF chain
<1>4. sound => \A n \in DOMAIN chain : ~chain[n][2]
  <2>1. \A n \in 1 .. 6 : n = 1 \/ n = 2 \/ n = 3 \/ n = 4 \/ n = 5 \/ n = 6
    OBVIOUS
  <2> QED BY <1>2, <1>3, <2>1, Zenon
<1>5. sound => ReviewInvalid(mode, r) = ""
  BY <1>1, <1>4, NoneFails
<1> QED BY <1>5 DEF sound

\* A review was heard: the words of ReviewFailsSafe.
Heard(spent, r) ==
  /\ ReviewCap = 0 \/ spent < ReviewCap
  /\ r.key /\ r.complete
  /\ \E n \in 1 .. 3 :
       /\ \A k \in 1 .. n - 1 : r.tries[k] \in {"5xx", "error"}
       /\ \/ r.tries[n] = "ok" /\ r.body = "answer"
          \/ /\ r.tries[n] = "4xx" \/ (r.tries[n] = "ok" /\ r.body # "not_json")
             /\ r.unwrapped
  /\ r.action \in Actions /\ r.multiplier \in 1 .. 100

\* The text the client leaves is a review exactly when an attempt settled that
\* could carry one.
LEMMA ReadableIs ==
  ASSUME NEW r \in Replies, r.key
  PROVE  Readable(r) <=>
         \E n \in 1 .. 3 :
           /\ \A k \in 1 .. n - 1 : r.tries[k] \in {"5xx", "error"}
           /\ \/ r.tries[n] = "ok" /\ r.body = "answer"
              \/ /\ r.tries[n] = "4xx" \/ (r.tries[n] = "ok" /\ r.body # "not_json")
                 /\ r.unwrapped
<1> DEFINE final == FinalAttempt(r.tries)
           Carries(t) == \/ t = "ok" /\ r.body = "answer"
                         \/ /\ t = "4xx" \/ (t = "ok" /\ r.body # "not_json")
                            /\ r.unwrapped
<1>1. final \in Attempts /\ r.body \in Bodies /\ r.unwrapped \in BOOLEAN
  BY SettledAttempt, DecisionAssumption
<1>2. Readable(r) <=> Carries(final)
  <2>1. CASE final \in {"cancelled", "error", "5xx"}
    <3>1. CallFailure(r) \in {"CANCELED", "API_ERROR", "RESPONSE_READ_ERROR"}
      BY <2>1, CallFailureIs
    <3>2. RawResponse(r) = "nothing"
      BY <3>1 DEF RawResponse
    <3> QED BY <2>1, <3>2 DEF Readable
  <2>2. CASE final = "4xx" \/ (final = "ok" /\ r.body \in {"garbled", "api_error", "no_choices"})
    <3>1. CallFailure(r) \in {"API_STATUS", "INVALID_JSON", "API_ERROR_IN_RESPONSE", "NO_CHOICES"}
      BY <2>2, CallFailureIs
    <3>2. RawResponse(r) = "body"
      BY <3>1 DEF RawResponse
    <3> QED BY <2>2, <3>2 DEF Readable
  <2>3. CASE final = "ok" /\ r.body \in {"not_json", "answer"}
    <3>1. CallFailure(r) = ""
      BY <2>3, CallFailureIs
    <3>2. RawResponse(r) = "content"
      BY <3>1 DEF RawResponse
    <3> QED BY <2>3, <3>2 DEF Readable
  <2> QED BY <1>1, <2>1, <2>2, <2>3 DEF Attempts, Bodies
<1>3. Carries(final) => \E n \in 1 .. 3 : /\ \A k \in 1 .. n - 1 : r.tries[k] \in {"5xx", "error"}
                                          /\ Carries(r.tries[n])
  <2>1. Carries(final) => final \notin {"error", "5xx"}
    OBVIOUS
  <2>2. final \notin {"error", "5xx"} =>
          \E n \in 1 .. 3 : /\ r.tries[n] = final
                            /\ \A k \in 1 .. n - 1 : r.tries[k] \in {"5xx", "error"}
    BY SettledAttempt
  <2> HIDE DEF final
  <2> QED BY <2>1, <2>2
<1>4. ASSUME NEW n \in 1 .. 3, \A k \in 1 .. n - 1 : r.tries[k] \in {"5xx", "error"},
             Carries(r.tries[n])
      PROVE  Carries(final)
  <2>1. r.tries[n] \notin {"error", "5xx"}
    BY <1>4
  <2>2. final = r.tries[n]
    BY <1>4, <2>1, SettledAttempt
  <2> HIDE DEF final
  <2> QED BY <1>4, <2>2
<1> HIDE DEF final
<1> QED BY <1>2, <1>3, <1>4

\* A sound answer that rejects, in a mode that lets it.
Rejects(mode, spent, r) ==
  /\ Heard(spent, r) /\ mode \in {"veto", "review"}
  /\ r.action = "REJECT" /\ r.exact /\ r.confidence \in 0 .. 100
  /\ r.entryMode \in {"", "market", "limit_retest"}

LEMMA ReviewIsSafe ==
  ASSUME NEW mode, NEW spent \in {0, ReviewCap}, NEW r \in Replies
  PROVE  /\ ~Heard(spent, r) => Review(mode, spent, r) = applyFallback(mode)
                                \/ (mode = "off" /\ Review(mode, spent, r) = "APPROVE")
         /\ mode \in {"off", "audit_only"} => Review(mode, spent, r) = "APPROVE"
         /\ Rejects(mode, spent, r) => Review(mode, spent, r) = "REJECT"
<1> DEFINE called == ReviewCall(spent, r).called
           invalid == ReviewInvalid(mode, r)
<1>1. called = (ReviewCap = 0 \/ spent < ReviewCap)
  <2> DEFINE c == ~(ReviewCap > 0 /\ spent >= ReviewCap)
             cost == IF c /\ RawResponse(r) = "content" THEN r.cost ELSE 0
  <2>1. ReviewCall(spent, r) = [called |-> c, cost |-> cost]
    BY Zenon DEF ReviewCall
  <2>2. c = (ReviewCap = 0 \/ spent < ReviewCap)
    BY AdviceAssumption
  <2> HIDE DEF c, cost
  <2> QED BY <2>1, <2>2
<1>2. ASSUME ~Heard(spent, r) PROVE ~called \/ invalid # ""
  <2>1. ~r.key => ~Readable(r)
    BY DEF Readable, RawResponse
  <2>2. ~r.key \/ ~Readable(r) \/ ~r.complete \/ r.action \notin Actions
          \/ r.multiplier \notin 1 .. 100 => invalid # ""
    BY <2>1, AnswerInvalid
  <2>3. called => ~r.key \/ ~Readable(r) \/ ~r.complete \/ r.action \notin Actions
                    \/ r.multiplier \notin 1 .. 100
    BY <1>1, <1>2, ReadableIs DEF Heard
  <2> QED BY <2>2, <2>3
<1>3. Review(mode, spent, r) =
        IF mode = "off" THEN "APPROVE"
        ELSE IF ~called \/ invalid # "" THEN applyFallback(mode)
        ELSE ApplyAnswer(mode, r)
  BY Zenon DEF Review
<1>4. ASSUME Rejects(mode, spent, r) PROVE Review(mode, spent, r) = "REJECT"
  <2>1. r.key /\ r.complete /\ r.multiplier \in 1 .. 100 /\ called
    BY <1>1, <1>4, Zenon DEF Rejects, Heard
  <2>2. Readable(r)
    BY <1>4, <2>1, ReadableIs, Zenon DEF Rejects, Heard
  <2>3. r.action \in AllowedActionsForMode(mode)
    BY <1>4 DEF Rejects, AllowedActionsForMode, Actions
  <2>4. invalid = ""
    BY <1>4, <2>1, <2>2, <2>3, AnswerValid, Zenon DEF Rejects
  <2>5. ApplyAnswer(mode, r) = "REJECT" /\ mode # "off"
    BY <1>4 DEF Rejects, ApplyAnswer
  <2> HIDE DEF called, invalid
  <2> QED BY <1>3, <2>1, <2>4, <2>5
<1> HIDE DEF called, invalid
<1>5. ~Heard(spent, r) => Review(mode, spent, r) = applyFallback(mode)
                          \/ (mode = "off" /\ Review(mode, spent, r) = "APPROVE")
  BY <1>2, <1>3, Zenon
<1>6. ASSUME mode \in {"off", "audit_only"} PROVE Review(mode, spent, r) = "APPROVE"
  <2>1. applyFallback(mode) = "APPROVE"
    BY <1>6 DEF applyFallback
  <2>2. mode = "audit_only" => ApplyAnswer(mode, r) = "APPROVE"
    BY DEF ApplyAnswer
  <2> QED BY <1>3, <1>6, <2>1, <2>2
<1> QED BY <1>4, <1>5, <1>6

-----------------------------------------------------------------------------
(* The arithmetic of a plan. *)

LEMMA DivIs ==
  ASSUME NEW a \in Int, NEW d \in Int, d > 0
  PROVE  /\ a \div d \in Int /\ d * (a \div d) <= a /\ a < d * (a \div d) + d
  OBVIOUS

\* Rounding to the nearest step is off by half a step at most.
LEMMA RoundIs ==
  ASSUME NEW num \in Int, NEW den \in Int, NEW step \in Int, den > 0, step > 0
  PROVE  /\ RoundTo(num, den, step) \in Int
         /\ num >= 0 => RoundTo(num, den, step) >= 0
         /\ 2 * (RoundTo(num, den, step) * den) <= 2 * num + den * step
<1> DEFINE a == 2 * num + den * step
           d == 2 * den * step
           q == a \div d
<1>1. den * step \in Int /\ den * step > 0
  OBVIOUS
<1>2. a \in Int /\ d \in Int /\ d > 0
  <2>1. d = 2 * (den * step)
    OBVIOUS
  <2> QED BY <1>1, <2>1
<1> HIDE DEF a, d
<1>3. q \in Int /\ d * q <= a /\ a < d * q + d
  BY <1>2, DivIs
<1>4. RoundTo(num, den, step) = q * step
  BY DEF RoundTo, a, d
<1> HIDE DEF q
<1>5. 2 * ((q * step) * den) = d * q
  BY <1>3 DEF d
<1>6. ASSUME num >= 0 PROVE q * step >= 0
  <2>1. a >= 0
    BY <1>1, <1>6 DEF a
  <2>2. ~(q < 0)
    <3>1. q < 0 => d * q + d <= 0
      BY <1>2, <1>3
    <3>2. d * q \in Int
      BY <1>2, <1>3
    <3> QED BY <1>2, <1>3, <2>1, <3>1, <3>2
  <2> QED BY <1>3, <2>2
<1> QED BY <1>3, <1>4, <1>5, <1>6 DEF a

\* Prices a tick apart are a tick apart after the rounding.
LEMMA RoundApart ==
  ASSUME NEW x \in Int, NEW y \in Int, NEW step \in Int, step > 0, x + step <= y
  PROVE  RoundTo(x, 1, step) + step <= RoundTo(y, 1, step)
<1> DEFINE d == 2 * step
           p == (2 * x + step) \div d
           q == (2 * y + step) \div d
<1>1. d \in Int /\ d > 0
  OBVIOUS
<1>2. RoundTo(x, 1, step) = p * step /\ RoundTo(y, 1, step) = q * step
  BY DEF RoundTo
<1>3. 2 * x + step + d <= 2 * y + step
  OBVIOUS
<1> HIDE DEF d
<1>4. p \in Int /\ d * p <= 2 * x + step
  BY <1>1, DivIs
<1>5. q \in Int /\ 2 * y + step < d * q + d
  BY <1>1, DivIs
<1> HIDE DEF p, q
<1>6. d * p < d * q
  <2>1. d * p \in Int /\ d * q \in Int
    BY <1>1, <1>4, <1>5
  <2> QED BY <1>1, <1>3, <1>4, <1>5, <2>1
<1>7. p + 1 <= q
  BY <1>1, <1>4, <1>5, <1>6
<1>8. (p + 1) * step <= q * step
  BY <1>4, <1>5, <1>7
<1>9. (p + 1) * step = p * step + step
  BY <1>4
<1> QED BY <1>2, <1>8, <1>9

-----------------------------------------------------------------------------
(* What it takes to be approved. *)

LEMMA SoundInput ==
  ASSUME NEW c, NEW i, NEW b, CandidateReasons(c, i, b) = {}
  PROVE  /\ b.equity > 0 /\ c.entry > 0 /\ c.sl > 0 /\ c.entry # c.sl
         /\ ProposedReasons(c, i, b, LotQty(RiskPct(c), c.entry, c.sl, i, b)) = {}
         /\ RoundedReasons(c, roundToTickSize(c.entry, i), roundToTickSize(c.sl, i)) = {}
<1> DEFINE e == <<"INVALID_EQUITY", ~FinitePositive(b.equity)>>
           f == <<"INVALID_ENTRY", ~FinitePositive(c.entry)>>
           g == <<"SL_MISSING", ~FinitePositive(c.sl)>>
           h == <<"RISK_TOO_SMALL", RiskPct(c) < Cfg.min_risk_pct>>
           k == <<"invalid_risk_distance", c.entry = c.sl>>
           chain == <<e, f, g, h, k>>
           early == FirstHit(chain)
           proposed == ProposedReasons(c, i, b, LotQty(RiskPct(c), c.entry, c.sl, i, b))
           rounded == RoundedReasons(c, roundToTickSize(c.entry, i), roundToTickSize(c.sl, i))
           book == BookReasons(c, b)
<1>1. CandidateReasons(c, i, b) =
        IF early # "" THEN {early} ELSE UNION {proposed, rounded, book}
  BY DEF CandidateReasons
<1>2. e[1] # "" /\ f[1] # "" /\ g[1] # "" /\ h[1] # "" /\ k[1] # ""
  BY Zenon
<1> HIDE DEF early, proposed, rounded, book
<1>3. early = "" /\ proposed = {} /\ rounded = {}
  BY <1>1
<1>4. e[2] = ~(b.equity > 0) /\ f[2] = ~(c.entry > 0) /\ g[2] = ~(c.sl > 0)
      /\ k[2] = (c.entry = c.sl)
  BY Zenon DEF FinitePositive
<1> HIDE DEF e, f, g, h, k
<1>5. /\ DOMAIN chain = 1 .. 5 /\ chain[1] = e /\ chain[2] = f /\ chain[3] = g
      /\ chain[4] = h /\ chain[5] = k
  OBVIOUS
<1>6. FirstHit(chain) = ""
  BY <1>3 DEF early
<1> HIDE DEF chain
<1>7. Named(chain)
  <2> SUFFICES ASSUME NEW n \in 1 .. 5 PROVE chain[n][1] # ""
    BY <1>5 DEF Named
  <2>1. n = 1 \/ n = 2 \/ n = 3 \/ n = 4 \/ n = 5
    OBVIOUS
  <2> QED BY <1>2, <1>5, <2>1, Zenon
<1>8. \A n \in DOMAIN chain : ~chain[n][2]
  <2>1. DOMAIN chain \in SUBSET Nat
    BY <1>5
  <2> QED BY <1>6, <1>7, <2>1, NoFailure
<1>9. ~e[2] /\ ~f[2] /\ ~g[2] /\ ~k[2]
  <2>1. {1, 2, 3, 5} \subseteq DOMAIN chain
    BY <1>5
  <2> QED BY <1>5, <1>8, <2>1, Zenon
<1> QED BY <1>3, <1>4, <1>9, Zenon DEF proposed, rounded

LEMMA SoundProposal ==
  ASSUME NEW c, NEW i, NEW b, NEW qty, ProposedReasons(c, i, b, qty) = {}
  PROVE  /\ StopSide(c.side, c.entry, c.sl)
         /\ \A n \in 1 .. Len(c.tps) : TargetSide(c.side, c.entry, c.tps[n])
         /\ c.tps # <<>> => ~(c.rr <= 0) /\ ~(c.rr > 0 /\ c.rr < Cfg.risk_min_rr)
         /\ ~MarginExceedsAvailable(qty * c.entry, b, i)
<1> DEFINE value == qty * c.entry
           stop == ~StopSide(c.side, c.entry, c.sl)
           target == \E n \in 1 .. Len(c.tps) : ~TargetSide(c.side, c.entry, c.tps[n])
           noRR == c.tps # <<>> /\ c.rr <= 0
           lowRR == c.tps # <<>> /\ c.rr > 0 /\ c.rr < Cfg.risk_min_rr
           close == c.tps # <<>> /\ Distance(c.tps[1], c.sl) < Max({i.tick, 1})
           margin == MarginExceedsAvailable(value, b, i)
           none == qty <= 0 \/ (i.lot > 0 /\ qty < i.lot)
           small == i.minNotional > 0 /\ value < i.minNotional
           chain == [SL_WRONG_SIDE |-> stop, TP_WRONG_SIDE |-> target, INVALID_RR |-> noRR,
                     RR_BELOW_MIN |-> lowRR, TP_SL_TOO_CLOSE |-> close,
                     MARGIN_EXCEEDS_AVAILABLE |-> margin, INVALID_QTY |-> none,
                     BELOW_MIN_NOTIONAL |-> small]
<1>1. Hits(chain) = {}
  BY Zenon DEF ProposedReasons
<1> HIDE DEF stop, target, noRR, lowRR, close, margin, none, small
<1>2. /\ {"SL_WRONG_SIDE", "TP_WRONG_SIDE", "INVALID_RR", "RR_BELOW_MIN",
          "MARGIN_EXCEEDS_AVAILABLE"} \subseteq DOMAIN chain
      /\ chain["SL_WRONG_SIDE"] = stop /\ chain["TP_WRONG_SIDE"] = target
      /\ chain["INVALID_RR"] = noRR /\ chain["RR_BELOW_MIN"] = lowRR
      /\ chain["MARGIN_EXCEEDS_AVAILABLE"] = margin
  OBVIOUS
<1> HIDE DEF chain
<1>3. ~stop /\ ~target /\ ~noRR /\ ~lowRR /\ ~margin
  BY <1>1, <1>2, HitsNone, Zenon
<1> QED BY <1>3, Zenon DEF stop, target, noRR, lowRR, margin, value

LEMMA SoundRounding ==
  ASSUME NEW c, NEW entry, NEW sl, RoundedReasons(c, entry, sl) = {}
  PROVE  /\ StopSide(c.side, entry, sl)
         /\ ~(entry > 0 /\ Distance(entry, sl) * 1000 < MinStopPct(entry) * entry)
<1> DEFINE side == ~StopSide(c.side, entry, sl)
           close == entry > 0 /\ Distance(entry, sl) * 1000 < MinStopPct(entry) * entry
           chain == [SL_EQUALS_ENTRY_AFTER_ROUNDING |-> side,
                     SL_TOO_CLOSE_AFTER_ROUNDING |-> close]
<1>1. Hits(chain) = {}
  BY Zenon DEF RoundedReasons
<1> HIDE DEF side, close
<1>2. /\ {"SL_EQUALS_ENTRY_AFTER_ROUNDING", "SL_TOO_CLOSE_AFTER_ROUNDING"} \subseteq DOMAIN chain
      /\ chain["SL_EQUALS_ENTRY_AFTER_ROUNDING"] = side
      /\ chain["SL_TOO_CLOSE_AFTER_ROUNDING"] = close
  OBVIOUS
<1> HIDE DEF chain
<1>3. ~side /\ ~close
  BY <1>1, <1>2, HitsNone, Zenon
<1> QED BY <1>3, Zenon DEF side, close

\* The risk granted, rounded down at every factor, is within the product.
LEMMA RiskWithinGrant ==
  ASSUME NEW c \in Candidates
  PROVE  LET base == IF Cfg.base_risk_pct < Cfg.risk_max_per_trade_pct
                     THEN Cfg.base_risk_pct ELSE Cfg.risk_max_per_trade_pct
             half == IF c.action = "REDUCE_SIZE" THEN 5 ELSE 10
             btc == IF c.side = "LONG" /\ c.btcBearish THEN 7 ELSE 10
             weak == IF c.side = "LONG" /\ c.underperforms THEN 6 ELSE 10
         IN  /\ RiskPct(c) \in Nat
             /\ (base * half * btc * weak) \div 1000 \in Int
             /\ RiskPct(c) <= (base * half * btc * weak) \div 1000
<1> DEFINE base == IF Cfg.base_risk_pct < Cfg.risk_max_per_trade_pct
                   THEN Cfg.base_risk_pct ELSE Cfg.risk_max_per_trade_pct
           half == IF c.action = "REDUCE_SIZE" THEN 5 ELSE 10
           btc == IF c.side = "LONG" /\ c.btcBearish THEN 7 ELSE 10
           weak == IF c.side = "LONG" /\ c.underperforms THEN 6 ELSE 10
           least == Min({Cfg.base_risk_pct, Cfg.risk_max_per_trade_pct})
           afterScore == IF c.action = "REDUCE_SIZE" THEN least \div 2 ELSE least
           afterBtc == IF c.side = "LONG" /\ c.btcBearish
                       THEN (afterScore * 7) \div 10 ELSE afterScore
           pct == IF c.side = "LONG" /\ c.underperforms THEN (afterBtc * 6) \div 10 ELSE afterBtc
           all == base * half * btc * weak
<1>1. Cfg.base_risk_pct \in Nat /\ Cfg.risk_max_per_trade_pct \in Nat
  BY DecisionAssumption
<1>2. least = base /\ base \in Nat
  <2>1. /\ least \in {Cfg.base_risk_pct, Cfg.risk_max_per_trade_pct}
        /\ least <= Cfg.base_risk_pct /\ least <= Cfg.risk_max_per_trade_pct
    BY <1>1, MinIs
  <2> QED BY <1>1, <2>1
<1>3. RiskPct(c) = pct
  BY DEF RiskPct
<1> HIDE DEF least, base
<1>4. afterScore \in Nat /\ 10 * afterScore <= base * half
  BY <1>2
<1> HIDE DEF afterScore
<1>5. afterBtc \in Nat /\ 10 * afterBtc <= afterScore * btc
  BY <1>4
<1> HIDE DEF afterBtc
<1>6. pct \in Nat /\ 10 * pct <= afterBtc * weak
  BY <1>5
<1> HIDE DEF pct
<1>7. half \in {5, 10} /\ btc \in {7, 10} /\ weak \in {6, 10}
  OBVIOUS
<1> HIDE DEF half, btc, weak
<1>8. all \in Int /\ 1000 * pct <= all
  <2>1. 100 * pct <= (10 * afterBtc) * weak /\ (10 * afterBtc) * weak <= (afterScore * btc) * weak
    BY <1>4, <1>5, <1>6, <1>7
  <2>2. 10 * ((afterScore * btc) * weak) <= ((base * half) * btc) * weak
    BY <1>2, <1>4, <1>7
  <2>3. all = ((base * half) * btc) * weak /\ all \in Int
    BY <1>2, <1>7
  <2>4. (afterScore * btc) * weak \in Int /\ (10 * afterBtc) * weak \in Int
    BY <1>4, <1>5, <1>7
  <2> HIDE DEF all
  <2> QED BY <1>6, <2>1, <2>2, <2>3, <2>4
<1> HIDE DEF all
<1>9. all \div 1000 \in Int /\ pct <= all \div 1000
  BY <1>6, <1>8
<1> QED BY <1>3, <1>6, <1>9 DEF all, base, half, btc, weak

-----------------------------------------------------------------------------
(* Questions and answers. *)

Asked == [kind : {"candidate"}, c : Candidates, i : Infos, b : Accounts]
Reviews == [kind : {"review"}, mode : Modes, spent : {0, ReviewCap}, reply : Replies]

\* The inductive invariant: an answer belongs to its question.
DecisionInv ==
  /\ question \in {None} \cup Asked \cup Reviews
  /\ \/ answer = None
     \/ /\ question \in Asked
        /\ answer = [kind |-> "plan",
                     result |-> ValidateCandidate(question.c, question.i, question.b)]
     \/ /\ question \in Reviews
        /\ answer = [kind |-> "action",
                     action |-> Review(question.mode, question.spent, question.reply)]

LEMMA DecisionInvHolds == Spec => []DecisionInv
<1>1. Init => DecisionInv
  BY DEF Init, DecisionInv
<1>2. ASSUME DecisionInv, [Next]_vars PROVE DecisionInv'
  <2>1. /\ None.kind = "none"
        /\ \A x \in Asked : x.kind = "candidate"
        /\ \A x \in Reviews : x.kind = "review"
    BY DEF None, Asked, Reviews
  <2>2. CASE AskCandidate
    <3>1. question' \in Asked
      BY <2>2 DEF AskCandidate, Asked
    <3>2. question \notin Asked /\ question \notin Reviews /\ answer' = answer
      BY <2>1, <2>2 DEF AskCandidate
    <3> QED BY <1>2, <3>1, <3>2 DEF DecisionInv
  <2>3. CASE AskReview
    <3>1. question' \in Reviews
      BY <2>3 DEF AskReview, Reviews
    <3>2. question \notin Asked /\ question \notin Reviews /\ answer' = answer
      BY <2>1, <2>3 DEF AskReview
    <3> QED BY <1>2, <3>1, <3>2 DEF DecisionInv
  <2>4. CASE AnswerCandidate
    <3>1. question \in Asked /\ question' = question
      BY <1>2, <2>1, <2>4 DEF AnswerCandidate, DecisionInv
    <3> QED BY <2>4, <3>1 DEF AnswerCandidate, DecisionInv
  <2>5. CASE AnswerReview
    <3>1. question \in Reviews /\ question' = question
      BY <1>2, <2>1, <2>5 DEF AnswerReview, DecisionInv
    <3> QED BY <2>5, <3>1 DEF AnswerReview, DecisionInv
  <2>6. CASE UNCHANGED vars
    BY <1>2, <2>6 DEF vars, DecisionInv
  <2> QED BY <1>2, <2>2, <2>3, <2>4, <2>5, <2>6 DEF Next
<1> QED BY <1>1, <1>2, PTL DEF Spec

\* An approved plan comes from a candidate without a reason against it.
LEMMA ApprovedPlan ==
  ASSUME DecisionInv, Approved
  PROVE  /\ question.c \in Candidates /\ question.i \in Infos /\ question.b \in Accounts
         /\ CandidateReasons(question.c, question.i, question.b) = {}
         /\ Plan = OrderPlan(question.c, question.i, question.b)
<1>1. question \in Asked
      /\ answer.result = ValidateCandidate(question.c, question.i, question.b)
  <2>1. answer # None
    BY DEF Approved, None
  <2>2. answer # [kind |-> "action",
                  action |-> Review(question.mode, question.spent, question.reply)]
    BY DEF Approved
  <2> QED BY <2>1, <2>2 DEF DecisionInv
<1>2. question.c \in Candidates /\ question.i \in Infos /\ question.b \in Accounts
  BY <1>1 DEF Asked
<1> DEFINE reasons == CandidateReasons(question.c, question.i, question.b)
           plan == OrderPlan(question.c, question.i, question.b)
           none == reasons = {}
           sent == IF none THEN plan ELSE [symbol |-> question.c.symbol]
<1>3. answer.result = [approved |-> none, reasons |-> reasons, plan |-> sent]
  BY <1>1, Zenon DEF ValidateCandidate
<1> HIDE DEF none, sent
<1>4. answer.result.approved = none /\ answer.result.plan = sent
  BY <1>3
<1>5. none
  BY <1>4, Zenon DEF Approved
<1>6. reasons = {} /\ answer.result.plan = plan
  BY <1>4, <1>5, Zenon DEF none, sent
<1> QED BY <1>2, <1>6 DEF Plan

LEMMA PlanParts ==
  ASSUME NEW c, NEW i, NEW b, NEW p, p = OrderPlan(c, i, b)
  PROVE  /\ p.side = c.side
         /\ p.entry = roundToTickSize(c.entry, i)
         /\ p.sl = roundToTickSize(c.sl, i)
         /\ p.leverage = PlanLeverage(i)
         /\ p.entry = p.sl => p.qty = LotQty(RiskPct(c), c.entry, c.sl, i, b)
         /\ p.entry # p.sl => p.qty = LotQty(RiskPct(c), p.entry, p.sl, i, b)
         /\ p.tps = [n \in 1 .. Len(c.tps) |-> roundToTickSize(c.tps[n], i)]
  BY DEF OrderPlan

\* The same of the plan of an approved candidate, in the words of the question.
LEMMA ApprovedParts ==
  ASSUME DecisionInv, Approved
  PROVE  /\ Plan.side = question.c.side
         /\ Plan.entry = roundToTickSize(question.c.entry, question.i)
         /\ Plan.sl = roundToTickSize(question.c.sl, question.i)
         /\ Plan.leverage = PlanLeverage(question.i)
         /\ Plan.entry # Plan.sl =>
              Plan.qty = LotQty(RiskPct(question.c), Plan.entry, Plan.sl,
                                question.i, question.b)
<1>1. Plan = OrderPlan(question.c, question.i, question.b)
  BY ApprovedPlan
<1> QED BY <1>1 DEF OrderPlan

LEMMA RoundOne ==
  ASSUME NEW x \in Int, NEW step \in Int, step > 0
  PROVE  RoundTo(x, 1, step) \in Int /\ (x >= 0 => RoundTo(x, 1, step) >= 0)
<1>1. 1 \in Int /\ 1 > 0
  OBVIOUS
<1> QED BY <1>1, RoundIs

LEMMA RoundedPrice ==
  ASSUME NEW i \in Infos, NEW x \in Int
  PROVE  roundToTickSize(x, i) \in Int /\ (x >= 0 => roundToTickSize(x, i) >= 0)
<1>1. i.tick \in Int
  BY DecisionAssumption
<1>2. CASE i.tick <= 0
  BY <1>2 DEF roundToTickSize
<1>3. CASE ~(i.tick <= 0)
  <2>1. i.tick > 0
    BY <1>1, <1>3
  <2>2. RoundTo(x, 1, i.tick) \in Int /\ (x >= 0 => RoundTo(x, 1, i.tick) >= 0)
    BY <1>1, <2>1, RoundOne
  <2> QED BY <1>3, <2>2 DEF roundToTickSize
<1> QED BY <1>2, <1>3

\* The quantity rounded to the nearest lot exceeds the one that risks the grant
\* by half a lot at most.
LEMMA QtyWithinRisk ==
  ASSUME NEW i \in Infos, NEW b \in Accounts, NEW pct \in Nat, b.equity > 0,
         NEW entry \in Int, NEW sl \in Int, UnitRisk(entry, sl) \in Int,
         UnitRisk(entry, sl) > 0
  PROVE  LET q == LotQty(pct, entry, sl, i, b)
             u == UnitRisk(entry, sl)
         IN  /\ q \in Int
             /\ 2 * (q * u) <= 2 * (b.equity * pct) + u * i.lot
<1> DEFINE q == LotQty(pct, entry, sl, i, b)
           u == UnitRisk(entry, sl)
           e == b.equity * pct
<1>1. i.lot \in Nat /\ b.equity \in Int
  BY DecisionAssumption
<1>2. e \in Int
  BY <1>1
<1>3. q = IF i.lot <= 0 THEN e \div u ELSE RoundTo(e, u, i.lot)
  BY DEF LotQty
<1> HIDE DEF e, q, u
<1>4. u \in Int /\ u > 0
  BY DEF u
<1>5. CASE i.lot <= 0
  <2>1. i.lot = 0 /\ u * i.lot = 0
    BY <1>1, <1>4, <1>5
  <2>2. q \in Int /\ u * q <= e
    BY <1>2, <1>3, <1>4, <1>5, DivIs
  <2>3. q * u = u * q /\ u * q \in Int
    BY <1>4, <2>2
  <2>4. 2 * (q * u) <= 2 * e + u * i.lot
    BY <1>2, <2>1, <2>2, <2>3
  <2> QED BY <2>2, <2>4 DEF e, q, u
<1>6. CASE ~(i.lot <= 0)
  <2>1. i.lot \in Int /\ i.lot > 0
    BY <1>1, <1>6
  <2>2. q \in Int /\ 2 * (q * u) <= 2 * e + u * i.lot
    BY <1>2, <1>3, <1>4, <1>6, <2>1, RoundIs
  <2> QED BY <2>2 DEF e, q, u
<1> QED BY <1>5, <1>6

-----------------------------------------------------------------------------
(* The theorems. *)

\* What an approved plan loses at its stop, in the words of its own numbers.
LEMMA PlanLoss ==
  ASSUME DecisionInv, Approved
  PROVE  /\ {Plan.qty, Plan.entry, UnitLoss, Granted, question.i.lot, Cfg.fee_taker} \subseteq Int
         /\ Plan.entry >= 0 /\ Granted >= 0 /\ question.i.lot >= 0 /\ Cfg.fee_taker >= 0
         /\ 2 * (Plan.qty * UnitLoss - Granted) <= (question.i.lot + 1) * UnitLoss
         /\ Plan.entry * (300 + 2 * Cfg.fee_taker) <= UnitLoss
<1> DEFINE c == question.c
           i == question.i
           b == question.b
           entry == roundToTickSize(c.entry, i)
           sl == roundToTickSize(c.sl, i)
           u == UnitRisk(entry, sl)
           pct == RiskPct(c)
           q == LotQty(pct, entry, sl, i, b)
<1>1. /\ c \in Candidates /\ i \in Infos /\ b \in Accounts
      /\ CandidateReasons(c, i, b) = {} /\ Plan = OrderPlan(c, i, b)
  BY ApprovedPlan
<1>2. /\ b.equity > 0 /\ c.entry > 0 /\ c.sl > 0
      /\ StopSide(c.side, entry, sl)
      /\ ~(entry > 0 /\ Distance(entry, sl) * 1000 < MinStopPct(entry) * entry)
  BY <1>1, SoundInput, SoundRounding
<1>3. /\ c.entry \in Int /\ c.sl \in Int /\ c.side \in {"LONG", "SHORT"}
      /\ i.lot \in Nat /\ b.equity \in Int /\ Cfg.fee_taker \in Nat
  BY <1>1, DecisionAssumption
<1>5. /\ Plan.side = c.side /\ Plan.entry = entry /\ Plan.sl = sl
      /\ entry # sl => Plan.qty = q
  <2>1. Plan.side = c.side /\ Plan.entry = entry /\ Plan.sl = sl
    BY ApprovedParts
  <2>2. Plan.entry # Plan.sl => Plan.qty = LotQty(pct, Plan.entry, Plan.sl, i, b)
    BY ApprovedParts
  <2> QED BY <2>1, <2>2
<1> HIDE DEF c, i, b
<1>4. entry \in Int /\ sl \in Int /\ entry >= 0
  BY <1>1, <1>2, <1>3, RoundedPrice
<1> HIDE DEF entry, sl, q
<1>6. entry # sl
  BY <1>2, <1>4 DEF StopSide
<1>7. UnitLoss = u
  <2> DEFINE fees == 2 * entry * Cfg.fee_taker
  <2>1. UnitLoss = 100000 * (IF c.side = "LONG" THEN entry - sl ELSE sl - entry) + fees
    <3>1. Plan.side = c.side /\ Plan.entry = entry /\ Plan.sl = sl
      BY <1>5
    <3>2. CASE c.side = "LONG"
      <4>1. Plan.side = "LONG"
        BY <3>1, <3>2
      <4>2. UnitLoss = 100000 * (Plan.entry - Plan.sl) + 2 * Plan.entry * Cfg.fee_taker
        BY <4>1 DEF UnitLoss
      <4> QED BY <3>1, <3>2, <4>2
    <3>3. CASE ~(c.side = "LONG")
      <4>1. ~(Plan.side = "LONG")
        BY <3>1, <3>3
      <4>2. UnitLoss = 100000 * (Plan.sl - Plan.entry) + 2 * Plan.entry * Cfg.fee_taker
        BY <4>1 DEF UnitLoss
      <4> QED BY <3>1, <3>3, <4>2
    <3> QED BY <3>2, <3>3
  <2>2. u = Distance(entry, sl) * 100000 + fees
    BY DEF UnitRisk
  <2>3. Distance(entry, sl) = IF c.side = "LONG" THEN entry - sl ELSE sl - entry
    BY <1>2, <1>3, <1>4 DEF Distance, StopSide
  <2>4. Distance(entry, sl) \in Int
    BY <1>4 DEF Distance
  <2> HIDE DEF fees, u
  <2> QED BY <2>1, <2>2, <2>3, <2>4
<1>8. u \in Int /\ u > 0
  <2>1. 2 * entry * Cfg.fee_taker \in Int /\ 2 * entry * Cfg.fee_taker >= 0
    BY <1>3, <1>4
  <2>2. Distance(entry, sl) \in Int /\ Distance(entry, sl) > 0
    BY <1>4, <1>6 DEF Distance
  <2> QED BY <2>1, <2>2 DEF UnitRisk
<1> HIDE DEF u, pct
<1>9. pct \in Nat /\ Granted \in Int /\ b.equity * pct <= Granted
  <2> DEFINE base == IF Cfg.base_risk_pct < Cfg.risk_max_per_trade_pct
                     THEN Cfg.base_risk_pct ELSE Cfg.risk_max_per_trade_pct
             half == IF c.action = "REDUCE_SIZE" THEN 5 ELSE 10
             btc == IF c.side = "LONG" /\ c.btcBearish THEN 7 ELSE 10
             weak == IF c.side = "LONG" /\ c.underperforms THEN 6 ELSE 10
             share == (base * half * btc * weak) \div 1000
  <2>1. pct \in Nat /\ share \in Int /\ pct <= share
    BY <1>1, RiskWithinGrant DEF pct
  <2>2. Granted = b.equity * share
    BY DEF Granted, b, c
  <2> HIDE DEF share
  <2> QED BY <1>2, <1>3, <2>1, <2>2
<1>10. q \in Int /\ 2 * (q * u) <= 2 * (b.equity * pct) + u * i.lot
  BY <1>1, <1>2, <1>4, <1>8, <1>9, QtyWithinRisk DEF q, u
<1>11. b.equity * pct \in Int /\ q * u \in Int /\ u * i.lot \in Int
  BY <1>3, <1>8, <1>9, <1>10
<1>12. (i.lot + 1) * u = u * i.lot + u
  BY <1>3, <1>8
<1>13. 2 * (q * u - Granted) <= (i.lot + 1) * u
  BY <1>8, <1>9, <1>10, <1>11, <1>12
<1>14. Plan.qty = q
  BY <1>5, <1>6
<1>15. question.i.lot = i.lot
  BY DEF i
<1>16. Granted >= 0
  <2>1. b.equity * pct >= 0
    BY <1>2, <1>3, <1>9
  <2> QED BY <1>9, <1>11, <2>1
<1>17. entry * (300 + 2 * Cfg.fee_taker) <= u
  <2> DEFINE far == Distance(entry, sl)
             fees == 2 * entry * Cfg.fee_taker
  <2>1. far \in Int /\ far >= 0 /\ fees \in Int
    BY <1>3, <1>4 DEF Distance
  <2>2. u = far * 100000 + fees
    BY DEF u, UnitRisk
  <2>3. MinStopPct(entry) \in {3, 5, 10, 15}
    BY DEF MinStopPct
  <2> HIDE DEF far
  <2>4. 300 * entry <= far * 100000
    <3>1. CASE entry > 0
      <4>1. ~(far * 1000 < MinStopPct(entry) * entry)
        BY <1>2, <3>1 DEF far
      <4>2. 3 * entry <= MinStopPct(entry) * entry /\ MinStopPct(entry) * entry \in Int
        BY <1>4, <2>3
      <4> QED BY <1>4, <2>1, <4>1, <4>2
    <3>2. CASE entry = 0
      BY <2>1, <3>2
    <3> QED BY <1>4, <3>1, <3>2
  <2>5. entry * (300 + 2 * Cfg.fee_taker) = 300 * entry + fees
    BY <1>3, <1>4
  <2> HIDE DEF fees
  <2> QED BY <1>4, <2>1, <2>2, <2>4, <2>5
<1>18. Plan.entry = entry
  BY <1>5
<1>19. {Plan.qty, Plan.entry, UnitLoss, Granted, question.i.lot, Cfg.fee_taker} \subseteq Int
       /\ Plan.entry >= 0 /\ question.i.lot >= 0 /\ Cfg.fee_taker >= 0
  <2>1. i.lot \in Int /\ i.lot >= 0 /\ Cfg.fee_taker \in Int /\ Cfg.fee_taker >= 0
    BY <1>3
  <2> HIDE DEF q, u
  <2> QED BY <1>4, <1>7, <1>8, <1>9, <1>10, <1>14, <1>15, <1>18, <2>1
<1> QED BY <1>7, <1>13, <1>14, <1>15, <1>16, <1>17, <1>18, <1>19, Zenon

\* engine.go:584 sizes a plan "so that net loss at SL (including entry+exit fees)
\* matches the target riskAmount": whatever the modifiers, the prices, the ticks
\* and the lots, an approved plan loses at most the granted risk and half a lot.
THEOREM LossStaysWithinRisk == Spec => []LossWithinRisk
<1>1. ASSUME DecisionInv PROVE LossWithinRisk
  BY <1>1, PlanLoss DEF LossWithinRisk
<1> QED BY <1>1, DecisionInvHolds, PTL

\* Rounding to ticks moves neither the stop nor a target of an approved plan
\* across its entry, the target as long as the proposed stop was a tick away: for
\* a configuration that asks for a reward of no less than the risk (min_rr is 1.4
\* unless set), and candidates whose every target keeps the ratio they state.
THEOREM LevelsStand ==
  ASSUME Cfg.risk_min_rr >= 100,
         \A c \in Candidates : \A n \in 1 .. Len(c.tps) :
           c.rr * Distance(c.entry, c.sl) <= 100 * Distance(c.tps[n], c.entry)
  PROVE  Spec => []LevelsSurviveRounding
<1>1. ASSUME DecisionInv PROVE LevelsSurviveRounding
  <2> SUFFICES ASSUME Approved PROVE LevelsSurviveRounding
    BY DEF LevelsSurviveRounding
  <2> DEFINE c == question.c
             i == question.i
             b == question.b
             entry == roundToTickSize(c.entry, i)
             sl == roundToTickSize(c.sl, i)
  <2>1. /\ c \in Candidates /\ i \in Infos /\ b \in Accounts
        /\ CandidateReasons(c, i, b) = {} /\ Plan = OrderPlan(c, i, b)
    BY <1>1, ApprovedPlan
  <2>2. /\ c.entry \in Int /\ c.sl \in Int /\ c.side \in {"LONG", "SHORT"} /\ c.rr \in Int
        /\ c.tps \in Seq(Int) /\ i.tick \in Int /\ Cfg.risk_min_rr \in Nat
    BY <2>1, DecisionAssumption
  <2>3. /\ StopSide(c.side, c.entry, c.sl) /\ StopSide(c.side, entry, sl)
        /\ \A n \in 1 .. Len(c.tps) : TargetSide(c.side, c.entry, c.tps[n])
        /\ c.tps # <<>> => ~(c.rr <= 0) /\ ~(c.rr > 0 /\ c.rr < Cfg.risk_min_rr)
    <3> DEFINE none == CandidateReasons(c, i, b) = {}
    <3>1. none
      BY <2>1
    <3>2. ProposedReasons(c, i, b, LotQty(RiskPct(c), c.entry, c.sl, i, b)) = {}
      BY <3>1, SoundInput
    <3>3. /\ StopSide(c.side, c.entry, c.sl)
          /\ \A n \in 1 .. Len(c.tps) : TargetSide(c.side, c.entry, c.tps[n])
          /\ c.tps # <<>> => ~(c.rr <= 0) /\ ~(c.rr > 0 /\ c.rr < Cfg.risk_min_rr)
      BY <3>2, SoundProposal
    <3>4. StopSide(c.side, entry, sl)
      BY <3>1, SoundInput, SoundRounding, ZenonT(60)
    <3> QED BY <3>3, <3>4
  <2> HIDE DEF c, i, b
  <2>4. Plan.side = c.side /\ Plan.entry = entry /\ Plan.sl = sl
        /\ Plan.tps = [n \in 1 .. Len(c.tps) |-> roundToTickSize(c.tps[n], i)]
    BY <2>1, PlanParts
  <2>5. entry \in Int /\ sl \in Int
    BY <2>1, <2>2, RoundedPrice
  <2>6. ASSUME i.tick <= Distance(c.entry, c.sl), NEW n \in 1 .. Len(c.tps)
        PROVE  TargetSide(c.side, entry, roundToTickSize(c.tps[n], i))
    <3> DEFINE tp == c.tps[n]
               risk == Distance(c.entry, c.sl)
               reward == Distance(tp, c.entry)
    <3>1. tp \in Int /\ c.tps # <<>>
      BY <2>2, <2>6
    <3>2. c.rr >= 100
      BY <2>2, <2>3, <3>1
    <3>3. c.rr * risk <= 100 * reward
      BY <2>1
    <3>4. TargetSide(c.side, c.entry, tp)
      BY <2>3
    <3> HIDE DEF tp
    <3>5. risk \in Int /\ risk > 0 /\ reward \in Int
      <4>1. c.entry \in Int /\ c.sl \in Int /\ tp \in Int
        BY <2>2, <3>1
      <4>2. c.entry # c.sl
        <5>1. StopSide(c.side, c.entry, c.sl)
          BY <2>3
        <5> QED BY <4>1, <5>1 DEF StopSide
      <4>3. risk \in Int /\ risk > 0
        BY <4>1, <4>2 DEF Distance
      <4>4. reward \in Int
        BY <4>1 DEF Distance
      <4> QED BY <4>3, <4>4
    <3> HIDE DEF risk, reward
    <3>6. risk <= reward
      <4>1. 100 * risk <= c.rr * risk /\ c.rr * risk \in Int
        <5>1. PICK k \in Nat : c.rr = 100 + k
          <6>1. c.rr \in Int
            BY <2>2
          <6>2. c.rr - 100 \in Nat /\ c.rr = 100 + (c.rr - 100)
            BY <3>2, <6>1
          <6> QED BY <6>2
        <5>2. k * risk \in Int /\ k * risk >= 0
          BY <3>5
        <5>3. (100 + k) * risk = 100 * risk + k * risk
          BY <3>5
        <5> QED BY <3>5, <5>1, <5>2, <5>3
      <4> QED BY <3>3, <3>5, <4>1
    <3>7. i.tick <= reward
      BY <2>2, <2>6, <3>5, <3>6 DEF risk
    <3>8. CASE i.tick <= 0
      BY <3>4, <3>8 DEF roundToTickSize, entry, tp
    <3>9. CASE i.tick > 0 /\ c.side = "LONG"
      <4>1. c.entry + i.tick <= tp
        <5>1. c.entry \in Int /\ i.tick \in Int /\ tp \in Int
          BY <2>2, <3>1
        <5>2. tp > c.entry
          BY <3>4, <3>9 DEF TargetSide
        <5>3. reward = tp - c.entry
          BY <5>1, <5>2 DEF Distance, reward
        <5> QED BY <3>7, <5>1, <5>3
      <4>2. entry + i.tick <= roundToTickSize(tp, i)
        <5>1. RoundTo(c.entry, 1, i.tick) + i.tick <= RoundTo(tp, 1, i.tick)
          BY <2>2, <3>1, <3>9, <4>1, RoundApart
        <5>2. ~(i.tick <= 0)
          BY <2>2, <3>9
        <5> QED BY <5>1, <5>2 DEF roundToTickSize, entry
      <4>3. roundToTickSize(tp, i) \in Int
        BY <2>1, <3>1, RoundedPrice
      <4> HIDE DEF entry
      <4> QED BY <2>2, <2>5, <3>9, <4>2, <4>3 DEF TargetSide, tp
    <3>10. CASE i.tick > 0 /\ c.side = "SHORT"
      <4>1. tp + i.tick <= c.entry
        <5>1. c.entry \in Int /\ i.tick \in Int /\ tp \in Int
          BY <2>2, <3>1
        <5>2. tp < c.entry
          BY <3>4, <3>10 DEF TargetSide
        <5>3. reward = c.entry - tp
          BY <5>1, <5>2 DEF Distance, reward
        <5> QED BY <3>7, <5>1, <5>3
      <4>2. roundToTickSize(tp, i) + i.tick <= entry
        <5>1. RoundTo(tp, 1, i.tick) + i.tick <= RoundTo(c.entry, 1, i.tick)
          BY <2>2, <3>1, <3>10, <4>1, RoundApart
        <5>2. ~(i.tick <= 0)
          BY <2>2, <3>10
        <5> QED BY <5>1, <5>2 DEF roundToTickSize, entry
      <4>3. roundToTickSize(tp, i) \in Int
        BY <2>1, <3>1, RoundedPrice
      <4> HIDE DEF entry
      <4> QED BY <2>2, <2>5, <3>10, <4>2, <4>3 DEF TargetSide, tp
    <3> QED BY <2>2, <3>8, <3>9, <3>10
  <2>7. i.tick <= Max({c.entry - c.sl, c.sl - c.entry}) => i.tick <= Distance(c.entry, c.sl)
    <3> DEFINE S == {c.entry - c.sl, c.sl - c.entry}
    <3>1. \E x \in S : \A y \in S : x >= y
      BY <2>2
    <3>2. Max(S) \in S
      BY <3>1 DEF Max
    <3>3. c.entry \in Int /\ c.sl \in Int /\ i.tick \in Int
      BY <2>2
    <3>4. Max(S) <= Distance(c.entry, c.sl) /\ Max(S) \in Int
      BY <3>2, <3>3 DEF Distance
    <3>5. Distance(c.entry, c.sl) \in Int
      BY <3>3 DEF Distance
    <3> HIDE DEF S
    <3> QED BY <3>3, <3>4, <3>5 DEF S
  <2> HIDE DEF entry, sl
  <2>8. IF Plan.side = "LONG" THEN Plan.sl < Plan.entry ELSE Plan.sl > Plan.entry
    BY <2>3, <2>4 DEF StopSide
  <2>9. ASSUME i.tick <= Max({c.entry - c.sl, c.sl - c.entry}), NEW n \in DOMAIN Plan.tps
        PROVE  IF Plan.side = "LONG" THEN Plan.tps[n] > Plan.entry
                                     ELSE Plan.tps[n] < Plan.entry
    <3>1. n \in 1 .. Len(c.tps) /\ Plan.tps[n] = roundToTickSize(c.tps[n], i)
      BY <2>4
    <3>2. TargetSide(c.side, entry, roundToTickSize(c.tps[n], i))
      BY <2>6, <2>7, <2>9, <3>1
    <3> QED BY <2>4, <3>1, <3>2 DEF TargetSide
  <2> QED BY <2>8, <2>9 DEF LevelsSurviveRounding, c, i
<1> QED BY <1>1, DecisionInvHolds, PTL

\* The margin is checked on the prices as proposed and nothing checks the plan
\* that is sized again from the rounded ones (engine.go:645, :661): whatever the
\* ticks and lots, what such a plan is worth is bounded by the risk it was granted
\* over the least distance of a stop and the fees.
THEOREM ValuesAreBounded == Spec => []ValueBounded
<1>1. ASSUME DecisionInv PROVE ValueBounded
  <2> SUFFICES ASSUME Approved
               PROVE  (2 * Plan.qty - (question.i.lot + 1))
                        * (Plan.entry * (300 + 2 * Cfg.fee_taker)) <= 2 * Granted
    BY DEF ValueBounded
  <2> DEFINE lots == question.i.lot + 1
             m == 2 * Plan.qty - lots
             least == Plan.entry * (300 + 2 * Cfg.fee_taker)
             q == Plan.qty
             u == UnitLoss
             g == Granted
  <2>1. /\ {q, u, g, lots, least} \subseteq Int /\ least >= 0 /\ g >= 0
        /\ 2 * (q * u - g) <= lots * u /\ least <= u
    <3>1. /\ {Plan.qty, Plan.entry, UnitLoss, Granted, question.i.lot, Cfg.fee_taker} \subseteq Int
          /\ Plan.entry >= 0 /\ Cfg.fee_taker >= 0
      BY <1>1, PlanLoss
    <3>2. least \in Int /\ least >= 0 /\ lots \in Int
      BY <3>1
    <3> QED BY <1>1, <3>1, <3>2, PlanLoss
  <2>2. m = 2 * q - lots
    OBVIOUS
  <2> HIDE DEF lots, m, least, q, u, g
  <2>3. m * u <= 2 * g
    <3>1. (2 * q - lots) * u = 2 * (q * u) - lots * u /\ q * u \in Int /\ lots * u \in Int
      BY <2>1
    <3> QED BY <2>1, <2>2, <3>1
  <2>4. CASE m > 0
    <3>1. m * least <= m * u /\ m * least \in Int /\ m * u \in Int
      BY <2>1, <2>2, <2>4
    <3> QED BY <2>1, <2>3, <3>1 DEF m, least, lots, g
  <2>5. CASE m <= 0
    <3>1. m * least <= 0 /\ m * least \in Int
      BY <2>1, <2>2, <2>5
    <3> QED BY <2>1, <3>1 DEF m, least, lots, g
  <2> QED BY <2>1, <2>2, <2>4, <2>5
<1> QED BY <1>1, DecisionInvHolds, PTL

\* Whichever of its many failures a review meets, in whatever order the attempts
\* fail, the candidate is rejected in veto mode and passes unchanged in the
\* others (reviewer.go:302); outside veto and review the model decides nothing.
THEOREM ReviewsFailSafe == Spec => []ReviewFailsSafe
<1>1. ASSUME DecisionInv PROVE ReviewFailsSafe
  <2> SUFFICES ASSUME Reviewed PROVE ReviewFailsSafe
    BY DEF ReviewFailsSafe
  <2>1. /\ question \in Reviews
        /\ answer.action = Review(question.mode, question.spent, question.reply)
    <3> DEFINE action == Review(question.mode, question.spent, question.reply)
               result == ValidateCandidate(question.c, question.i, question.b)
    <3>1. answer # None
      BY DEF Reviewed, None
    <3>2. answer # [kind |-> "plan", result |-> result]
      BY DEF Reviewed
    <3>3. question \in Reviews /\ answer = [kind |-> "action", action |-> action]
      BY <1>1, <3>1, <3>2 DEF DecisionInv
    <3> QED BY <3>3
  <2>2. question.spent \in {0, ReviewCap} /\ question.reply \in Replies
    BY <2>1 DEF Reviews
  <2> DEFINE mode == question.mode
             r == question.reply
             heard == Heard(question.spent, r)
  <2> DEFINE decided == Review(mode, question.spent, r)
             sound == Rejects(mode, question.spent, r)
  <2>3. /\ ~heard => decided = applyFallback(mode) \/ (mode = "off" /\ decided = "APPROVE")
        /\ mode \in {"off", "audit_only"} => decided = "APPROVE"
        /\ sound => decided = "REJECT"
    BY <2>2, ReviewIsSafe
  <2>4. mode = "off" => mode # "veto"
    OBVIOUS
  <2> HIDE DEF heard, sound, decided
  <2>5. /\ ~heard => answer.action = (IF mode = "veto" THEN "REJECT" ELSE "APPROVE")
        /\ mode \in {"off", "audit_only"} => answer.action = "APPROVE"
        /\ sound => answer.action = "REJECT"
    BY <2>1, <2>3, <2>4 DEF applyFallback, decided
  <2> QED BY <2>5, Zenon DEF ReviewFailsSafe, heard, sound, Rejects, Heard
<1> QED BY <1>1, DecisionInvHolds, PTL
====
