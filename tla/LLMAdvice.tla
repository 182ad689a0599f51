----------------------------- MODULE LLMAdvice ------------------------------
(***************************************************************************)
(* The two language-model calls of a cycle: the veto of client.go, asked   *)
(* before the risk engine, and the reviewer of reviewer.go with its client *)
(* review_client.go, asked after it. Each is one HTTP call with retries, a *)
(* chain of checks on what comes back, and a fallback for every failure.   *)
(*                                                                         *)
(* A reply is what the network and the model produce for one call:         *)
(*   tries      the outcome of each of the three attempts,                 *)
(*   body       how far the body can be decoded,                           *)
(*   unwrapped  whether a body that is no chat answer is itself the JSON   *)
(*              of one,                                                    *)
(*   the fields of the answer, and cost, what the call adds to the budget  *)
(*   (0 when the provider reports no usage).                               *)
(* Confidence and multipliers are percentages.                             *)
(***************************************************************************)
EXTENDS Integers, Sequences, SequencesExt, FiniteSetsExt

CONSTANTS VetoBudget, \* llm.budget.max_cost_usd_per_day; 0 switches it off
          ReviewCap,  \* llm_review.daily_cost_cap_usd; 0 switches it off
          ReviewMode  \* llm_review.mode

ASSUME AdviceAssumption ==
  /\ VetoBudget \in Nat /\ ReviewCap \in Nat
  /\ ReviewMode \in {"off", "audit_only", "veto", "review"}

Attempts == {"ok", "4xx", "5xx", "error", "cancelled"}
Bodies == {"garbled", "api_error", "no_choices", "not_json", "answer"}

\* The first link of a chain of early returns that applies, or "".
FirstFailure(chain) ==
  LET hit == {n \in DOMAIN chain : chain[n][2]}
  IN  IF hit = {} THEN "" ELSE chain[Min(hit)][1]

\* Three attempts, repeated on a network error or a 5xx: the one that counts is
\* the first of another kind, else the last. A 5xx that is last has had its
\* body closed, so reading it fails.
FinalAttempt(tries) ==
  LET settled == {n \in 1 .. 3 : tries[n] \notin {"error", "5xx"}}
  IN  IF settled = {} THEN tries[3] ELSE tries[Min(settled)]

CallFailure(reply) ==
  LET final == FinalAttempt(reply.tries)
  IN  FirstFailure(<<
  <<"CANCELED", final = "cancelled">>,
  <<"API_ERROR", final = "error">>,
  <<"RESPONSE_READ_ERROR", final = "5xx">>,
  <<"API_STATUS", final = "4xx">>,
  <<"INVALID_JSON", reply.body = "garbled">>,
  <<"API_ERROR_IN_RESPONSE", reply.body = "api_error">>,
  <<"NO_CHOICES", reply.body = "no_choices">> >>)

-----------------------------------------------------------------------------
\* The veto. `spent' is the client's dailyCost when the call checks it.

ValidVeto(reply) ==
  /\ reply.decision \in {"ALLOW_MARKET", "ALLOW_LIMIT_RETEST", "REDUCE_SIZE", "BLOCK"}
  /\ reply.decision = "REDUCE_SIZE" => reply.multiplier \in {0, 25, 50, 75, 100}

VetoFailureNoBudget(spent, reply) == FirstFailure(<<
  <<"MISSING_API_KEY", ~reply.key>>,
  <<CallFailure(reply), CallFailure(reply) # "">>,
  <<"INVALID_DECISION_JSON", reply.body = "not_json">>,
  <<"VALIDATION_FAILED", ~ValidVeto(reply)>> >>)

VetoFailure(spent, reply) == FirstFailure(<<
  <<"LLM_BUDGET_EXCEEDED", VetoBudget > 0 /\ spent >= VetoBudget>>,
  <<"MISSING_API_KEY", ~reply.key>>,
  <<CallFailure(reply), CallFailure(reply) # "">>,
  <<"INVALID_DECISION_JSON", reply.body = "not_json">>,
  <<"VALIDATION_FAILED", ~ValidVeto(reply)>>,
  <<"LOW_CONFIDENCE", reply.confidence < 75>> >>)

fallbackAllows ==
  [decision |-> "ALLOW_MARKET", confidence |-> 100, multiplier |-> 100, status |-> "fallback"]

fallbackDecision ==
  [decision |-> "BLOCK", confidence |-> 0, multiplier |-> 0, status |-> "fallback"]

VetoRequest(spent, reply) ==
  IF VetoFailure(spent, reply) # "" THEN fallbackDecision
  ELSE [decision |-> reply.decision, confidence |-> reply.confidence,
        multiplier |-> reply.multiplier, status |-> "answered"]

\* Only a valid and confident answer is added to the day's cost.
VetoCost(spent, reply) == IF VetoFailure(spent, reply) = "" THEN reply.cost ELSE 0

-----------------------------------------------------------------------------
\* The reviewer. An action is a word with its spelling: the validator compares
\* without regard to case, the reviewer with.

Actions == {"APPROVE", "APPROVE_RETEST_ONLY", "REDUCE_SIZE", "REJECT"}

AllowedActionsForMode(mode) ==
  CASE mode \in {"audit_only", "review"} -> Actions
    [] mode = "veto" -> Actions \ {"APPROVE_RETEST_ONLY"}
    [] OTHER -> {}

\* The text the client hands on as the answer's: nothing, the whole body of an
\* answer it could not take apart, or the content of the first choice.
RawResponse(reply) ==
  LET failure == CallFailure(reply)
  IN  IF ~reply.key \/ failure \in {"CANCELED", "API_ERROR", "RESPONSE_READ_ERROR"}
      THEN "nothing"
      ELSE IF failure # "" THEN "body" ELSE "content"

Readable(reply) ==
  \/ RawResponse(reply) = "body" /\ reply.unwrapped
  \/ RawResponse(reply) = "content" /\ reply.body # "not_json"

\* The client: only the cap keeps it from calling. Whatever goes wrong after it
\* is marked invalid, which the reviewer does not look at: it validates the text.
\* Content is paid for, JSON or not.
ReviewCall(spent, reply) ==
  LET called == ~(ReviewCap > 0 /\ spent >= ReviewCap)
  IN  [called |-> called,
       cost |-> IF called /\ RawResponse(reply) = "content" THEN reply.cost ELSE 0]

ReviewInvalidAnyAction(mode, reply) == FirstFailure(<<
  <<"JSON_PARSE_FAILED", ~Readable(reply)>>,
  <<"MISSING_FIELD", ~reply.complete>>,
  <<"INVALID_SIZE_MULTIPLIER", reply.multiplier <= 0 \/ reply.multiplier > 100>> >>)

ReviewInvalid(mode, reply) == FirstFailure(<<
  <<"JSON_PARSE_FAILED", ~Readable(reply)>>,
  <<"MISSING_FIELD", ~reply.complete>>,
  <<"FORBIDDEN_ACTION", reply.action \notin AllowedActionsForMode(mode)>>,
  <<"INVALID_SIZE_MULTIPLIER", reply.multiplier <= 0 \/ reply.multiplier > 100>>,
  <<"FORBIDDEN_CHANGE", reply.entryMode \notin {"", "market", "limit_retest"}>>,
  <<"INVALID_CONFIDENCE", reply.confidence < 0 \/ reply.confidence > 100>> >>)

applyFallback(mode) == IF mode = "veto" THEN "REJECT" ELSE "APPROVE"

\* A valid answer, as each mode applies it.
ApplyAnswer(mode, reply) ==
  IF mode = "audit_only" \/ ~reply.exact THEN "APPROVE"
  ELSE IF mode = "veto" /\ reply.action = "APPROVE_RETEST_ONLY" THEN "APPROVE"
  ELSE reply.action

Review(mode, spent, reply) ==
  IF mode = "off" THEN "APPROVE"
  ELSE IF ~ReviewCall(spent, reply).called \/ ReviewInvalid(mode, reply) # ""
  THEN applyFallback(mode) ELSE ApplyAnswer(mode, reply)

ReviewCost(mode, spent, reply) ==
  IF mode = "off" THEN 0 ELSE ReviewCall(spent, reply).cost
=============================================================================
