------------------------------ MODULE FetchRetry ------------------------------
(***************************************************************************)
(* One request of the sync command to GitHub: fetchWithRetry and the       *)
(* reading of the response by its callers, fetchRelease and downloadAsset. *)
(***************************************************************************)
EXTENDS Integers, Sequences, SequencesExt

CONSTANTS
  MaxAttempts, \* fetchMaxAttempts
  Status       \* the statuses that GitHub answers with

VARIABLE fetch \* the step, the attempt, the outcome of each one

ASSUME FetchAssumption ==
  /\ MaxAttempts \in Nat \ {0}
  /\ Status \subseteq 100 .. 599

RetryableHttpStatuses == {408, 429, 500, 502, 503, 504}

\* The outcome of an attempt without a response: a network error or a timeout.
NetworkError == 0

Outcome == Status \cup {NetworkError}

Ok(status) == status \in 200 .. 299

Ended == {"fetched", "failed"}

NoFetch == [step |-> "none", attempt |-> 1, outcomes |-> << >>]

FetchInit == fetch = NoFetch

BeginFetch ==
  /\ fetch = NoFetch
  /\ fetch' = [fetch EXCEPT !.step = "fetch"]

\* After the outcome of an attempt, the next step of the loop.
Attempted(outcome, step) ==
  fetch' = [fetch EXCEPT !.step = step, !.outcomes = Append(@, outcome)]

\* Mutation: only a response that is not to be retried is the answer.
RespondUnbounded(status) ==
  /\ fetch.step = "fetch"
  /\ Attempted(status, IF status \notin RetryableHttpStatuses THEN "response" ELSE "sleep")

\* A response: the answer if it is not to be retried, or is the last one.
Respond(status) ==
  /\ fetch.step = "fetch"
  /\ Attempted(status,
               IF status \notin RetryableHttpStatuses \/ fetch.attempt = MaxAttempts
                 THEN "response" ELSE "sleep")

\* No response: an error if it is the last attempt.
Disconnect ==
  /\ fetch.step = "fetch"
  /\ Attempted(NetworkError, IF fetch.attempt = MaxAttempts THEN "failed" ELSE "sleep")

\* The pause before the next attempt.
Sleep ==
  /\ fetch.step = "sleep"
  /\ fetch' = [fetch EXCEPT !.step = "fetch", !.attempt = @ + 1]

\* Mutation: any answer is taken for the release or the asset.
ReadAnyBody ==
  /\ fetch.step = "response"
  /\ fetch' = [fetch EXCEPT !.step = "fetched"]

\* The callers: the body of an answer that is ok, in the time of the attempt.
ReadBody ==
  /\ fetch.step = "response" /\ Ok(Last(fetch.outcomes))
  /\ fetch' = [fetch EXCEPT !.step = "fetched"]

\* Mutation: after a body that does not arrive, everything again.
RejectAgain ==
  /\ fetch.step = "response"
  /\ fetch' = [NoFetch EXCEPT !.step = "fetch"]

\* The answer is an error, or its body does not arrive in time: no retry.
Reject ==
  /\ fetch.step = "response"
  /\ fetch' = [fetch EXCEPT !.step = "failed"]

FetchStep ==
  \/ \E status \in Status : Respond(status)
  \/ Disconnect \/ Sleep \/ ReadBody \/ Reject

\* The release, the asset or the error goes to the caller.
EndFetch ==
  /\ fetch.step \in Ended
  /\ fetch' = NoFetch

FetchNext == BeginFetch \/ FetchStep \/ EndFetch

FetchSpec == FetchInit /\ [][FetchNext]_fetch

-----------------------------------------------------------------------------
(* Correctness.                                                            *)

\* The attempts a fetch has made so far never exceed MaxAttempts, and it goes
\* on after none but a transient outcome (fetchWithRetry:485-508).
RetriesAreDue ==
  /\ Len(fetch.outcomes) <= MaxAttempts
  /\ \A i \in DOMAIN fetch.outcomes :
       i < Len(fetch.outcomes) =>
         fetch.outcomes[i] \in RetryableHttpStatuses \cup {NetworkError}

\* A fetch never gives up while it may try again, and its result is that of
\* its last attempt: a release or an asset is taken only from a response that
\* is ok, whatever came before it (fetchWithRetry:492-503, fetchRelease:453).
LastAttemptCounts ==
  /\ fetch.step \in Ended \cup {"response"} => fetch.outcomes # << >>
  /\ fetch.step \in {"failed", "response"} =>
       \/ Last(fetch.outcomes) \notin RetryableHttpStatuses \cup {NetworkError}
       \/ Len(fetch.outcomes) = MaxAttempts
  /\ fetch.step = "fetched" => Ok(Last(fetch.outcomes))

\* Every fetch comes to an end: no answer of GitHub keeps the sync command in
\* its loop (fetchWithRetry:485-508).
FetchEnds == fetch.step = "fetch" ~> fetch.step \in Ended

=============================================================================
