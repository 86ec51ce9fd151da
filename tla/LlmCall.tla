-------------------------------- MODULE LlmCall --------------------------------
(****************************************************************************)
(* One logical classification call: the tries it makes on the wire, and the *)
(* verdict the classifier draws from it.                                    *)
(*                                                                          *)
(* Source: services/nlp/llm_client.py, services/nlp/classifier.py.          *)
(*                                                                          *)
(* A call changes no state of the system, so it is a set: of everything it  *)
(* may come to.  Time is counted in ticks of the backoff's base.  What a    *)
(* provider bills is the assumption llm_client.py states: an answer that    *)
(* began to arrive is billed, a refusal (4xx, 429, 5xx) and a connection    *)
(* never made are not, a connection lost on the way may be.                 *)
(****************************************************************************)
EXTENDS Integers

CONSTANTS
    RetryAfter,   \* the delays a provider asks for
    NoDelay,      \* a failure without a usable Retry-After
    Deployment    \* settings.classifier_backend

ASSUME RetryAfterAssumption == RetryAfter \subseteq Nat /\ NoDelay \notin Nat
ASSUME DeploymentAssumption == Deployment \in {"auto", "local", "llm", "heuristic"}

(* RetryPolicy: attempts counts the first, budget is of waits alone.        *)
RetryPolicy(attempts, budget, cap) ==
    [attempts |-> attempts, budget |-> budget, cap |-> cap]

-----------------------------------------------------------------------------
(* A try ends with an answer or an LlmCallError: its category, whether the  *)
(* provider charges for it, and the delay it asks for.                      *)
End(category, bills, asked) ==
    [category : {category}, bills : bills, asked : asked]

(* _parse_retry_after: a delay, or none that can be read.                   *)
Delays == RetryAfter \cup {NoDelay}

(* The destination policy of a custom provider stops it.                    *)
Stopped == End("blocked_by_policy", {0}, {NoDelay})

(* The provider answers with a status that is no success.                   *)
Refused == UNION { End(c, {0}, Delays) : c \in {"http_429", "http_5xx", "http_4xx"} }

(* No connection was made, or it broke with the request under way.          *)
Unsent == End("connect_failed", {0}, {NoDelay})
Astray == End("connection_failed", {0, 1}, {NoDelay})

(* The answer began to arrive and did not end before the deadline.          *)
Late == End("timed_out", {1}, {NoDelay})

(* It arrived: in the shape that was asked for, or not.                     *)
Answered == End("ok", {1}, {NoDelay}) \cup End("invalid_response", {1}, {NoDelay})

(* _call_once.                                                              *)
Tries == Stopped \cup Refused \cup Unsent \cup Astray \cup Late \cup Answered

(* A bug: the failure on the way is retried as well.                        *)
RetryableOnTheWay(category) ==
    category \in {"http_429", "http_5xx", "connect_failed", "connection_failed"}

(* _is_retryable_category: nothing was delivered, or it was refused.        *)
Retryable(category) == category \in {"http_429", "http_5xx", "connect_failed"}

(* The wait before try n + 1: what was asked, or the backoff, up to the cap.*)
Wait(asked, n, policy) ==
    LET wait == IF asked = NoDelay THEN 2 ^ (n - 1) ELSE asked
    IN  IF wait < policy.cap THEN wait ELSE policy.cap

(* The wait does not fit in what is left of the budget: give up now.        *)
TooLong(wait, left) == wait > left

(* The n-th try, with so much left of the budget: it ends the call, or its  *)
(* bill and its wait come to those of a call of the later tries.            *)
TriesFrom(policy, n, left, later) ==
    UNION { LET wait == Wait(t.asked, n, policy)
            IN  IF \/ n = policy.attempts
                   \/ ~Retryable(t.category)
                   \/ TooLong(wait, left)
                THEN {[category |-> t.category, bills |-> t.bills, waited |-> 0]}
                ELSE { [r EXCEPT !.bills = @ + t.bills, !.waited = @ + wait] :
                       r \in later[left - wait] }
          : t \in Tries }

(* call_chat_completion: what the tries of one call add up to.              *)
Calls(policy) ==
    LET call[n \in 1 .. policy.attempts] ==
          [left \in Int |-> TriesFrom(policy, n, left, call[n + 1])]
    IN  call[1][policy.budget]

-----------------------------------------------------------------------------
(* ClassificationAttempt: whether there is a verdict, and counted, its      *)
(* provider_call_succeeded.                                                 *)
ClassificationAttempt == [verdict : BOOLEAN, counted : BOOLEAN]

Attempt(verdict, counted) == [verdict |-> verdict, counted |-> counted]

(* _heuristic_attempt, and the encoder's answer: no request was made.       *)
FreeAttempt == Attempt(TRUE, FALSE)

(* _llm_user_failure_fallback: the encoder, if the user opted in and it was *)
(* not tried before, may serve; otherwise there is no verdict.              *)
Fallback(counted, localTried, routing) ==
    {Attempt(FALSE, counted)} \cup
    (IF routing.fallbackLocal /\ ~localTried THEN {Attempt(TRUE, counted)} ELSE {})

(* _classify_llm_user: an error, or an answer that may still not parse.     *)
ClassifyLlmUser(localTried, routing, policy) ==
    UNION { IF call.category = "ok"
            THEN {Attempt(TRUE, TRUE)} \cup Fallback(TRUE, localTried, routing)
            ELSE Fallback(FALSE, localTried, routing)
          : call \in Calls(policy) }

(* _classify_llm: only mode "user" reaches a provider.                      *)
ClassifyLlm(localTried, routing, policy) ==
    IF routing.mode = "user" THEN ClassifyLlmUser(localTried, routing, policy)
                             ELSE {FreeAttempt}

(* _classify_attempt.  On the deployment's default the user's key comes     *)
(* before the encoder; a backend named for the run is honoured to the       *)
(* letter, and "local" never reaches a key.                                 *)
Attempts(backend, routing, policy) ==
    LET effective == IF backend = "default" THEN Deployment ELSE backend
        encoder   == effective \in {"local", "auto"}
        keyFirst  == backend = "default" /\ routing.mode = "user"
    IN  IF effective = "heuristic" THEN {FreeAttempt}
        ELSE IF encoder /\ ~keyFirst
             THEN {FreeAttempt} \cup
                  (IF backend = "local" THEN {} ELSE ClassifyLlm(TRUE, routing, policy))
        ELSE ClassifyLlm(FALSE, routing, policy)

Routing == [mode : {"off", "server", "user"}, fallbackLocal : BOOLEAN]
================================================================================
