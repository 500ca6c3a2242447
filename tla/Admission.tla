------------------------------ MODULE Admission -------------------------------
(***************************************************************************)
(* The admission webhook's server (internal/admission/server.go) and the   *)
(* API server that asks it about writes.  The API server sends a request   *)
(* for each write, waits for a while, and goes by the failure policy of    *)
(* the webhook's registration when no usable answer has come by then.      *)
(***************************************************************************)
EXTENDS Naturals, KongFile

CONSTANTS Policy,        \* failurePolicy, "Fail" or "Ignore"
          Operations,    \* what the registration's rules ask about
          Resources,     \* and of which resources
          MaxReviews     \* at most this many writes

ASSUME AdmissionAssumption ==
    /\ Policy \in {"Fail", "Ignore"}
    /\ Operations \subseteq {"CREATE", "UPDATE", "DELETE"}
    /\ MaxReviews \in Nat

VARIABLES webhook,       \* the server: "off", "starting", "serving", "failed"
          reviews        \* the writes, with what is answered and decided; a
                         \* write's uid is its place in the sequence

\* An answer: an AdmissionReview with a response, an HTTP error, or none yet.
Answer == [status: {"none", "error", "response"}, uid: Nat, allowed: BOOLEAN]

NoAnswer == [status |-> "none", uid |-> 0, allowed |-> FALSE]
HttpError == [status |-> "error", uid |-> 0, allowed |-> FALSE]

Verdict == {"pending", "stored", "denied", "failed"}

Review == [operation: Operations, resource: Resources, spec: AllSpecs,
           answer: Answer, verdict: Verdict]

AdmissionTypeOK ==
    /\ webhook \in {"off", "starting", "serving", "failed"}
    /\ reviews \in Seq(Review)

AdmissionInit ==
    /\ webhook = "off"
    /\ reviews = <<>>

-----------------------------------------------------------------------------
\* setupAdmissionServer starts the server, which may find that the address is
\* taken, or is none.  Its error is logged, and nobody tries again.
ListenAndServeTLS(addr) ==
    /\ webhook = "starting"
    /\ webhook' \in IF addr = "off" THEN {"failed"} ELSE {"serving", "failed"}
    /\ UNCHANGED reviews

\* request.Object is empty in the review of a DELETE.
Decodes(review) == review.operation # "DELETE"

\* Seeded bug: the uid of the request is not copied.
handleValidationNoUid(uid, review) ==
    IF review.resource = "kongfiles" /\ Decodes(review)
    THEN [status |-> "response", allowed |-> ValidateKongFile(review.spec)]
    ELSE HttpError

\* Seeded bug: every resource is a KongFile.
handleValidationAny(uid, review) ==
    IF Decodes(review)
    THEN [status |-> "response", uid |-> uid,
          allowed |-> review.resource # "kongfiles" \/ ValidateKongFile(review.spec)]
    ELSE HttpError

handleValidation(uid, review) ==
    IF review.resource = "kongfiles" /\ Decodes(review)
    THEN [status |-> "response", uid |-> uid, allowed |-> ValidateKongFile(review.spec)]
    ELSE HttpError

\* One request is answered, perhaps too late.
ServeHTTP(uid) ==
    /\ webhook = "serving"
    /\ reviews[uid].answer = NoAnswer
    /\ reviews' = [reviews EXCEPT ![uid].answer = handleValidation(uid, reviews[uid])]
    /\ UNCHANGED webhook

-----------------------------------------------------------------------------
\* Somebody writes an object, and the API server asks the webhook.
Submit(operation, resource, spec) ==
    /\ Len(reviews) < MaxReviews
    /\ reviews' = Append(reviews, [operation |-> operation, resource |-> resource,
                                   spec |-> spec, answer |-> NoAnswer, verdict |-> "pending"])
    /\ UNCHANGED webhook

Usable(uid) ==
    /\ reviews[uid].answer.status = "response"
    /\ reviews[uid].answer.uid = uid

ByPolicy == IF Policy = "Ignore" THEN "stored" ELSE "failed"

\* The API server takes the answer, or, when there is none or no usable one
\* (nobody listens, an error, a timeout), goes by its policy.
Decide(uid) ==
    /\ reviews[uid].verdict = "pending"
    /\ reviews' = [reviews EXCEPT ![uid].verdict =
                      IF Usable(uid)
                      THEN IF reviews[uid].answer.allowed THEN "stored" ELSE "denied"
                      ELSE ByPolicy]
    /\ UNCHANGED webhook

AdmissionNext(addr) ==
    \/ ListenAndServeTLS(addr)
    \/ \E uid \in DOMAIN reviews : ServeHTTP(uid) \/ Decide(uid)
    \/ \E operation \in Operations, resource \in Resources, spec \in AllSpecs :
          Submit(operation, resource, spec)
=============================================================================
