--------------------------- MODULE FetchRetryProofs ---------------------------
(***************************************************************************)
(* Proofs about FetchRetry, for every bound on the attempts and every set  *)
(* of statuses.                                                            *)
(***************************************************************************)
EXTENDS FetchRetry, SequenceTheorems, TLAPS

Transient == RetryableHttpStatuses \cup {NetworkError}

Steps == {"none", "fetch", "sleep", "response", "fetched", "failed"}

FetchType ==
  fetch \in [step : Steps, attempt : 1 .. MaxAttempts, outcomes : Seq(Outcome)]

\* Before an attempt as many outcomes as attempts before it, and one more after.
Counts ==
  Len(fetch.outcomes) =
    IF fetch.step \in {"none", "fetch"} THEN fetch.attempt - 1 ELSE fetch.attempt

\* All outcomes but that of the attempt being made, or just made, are transient.
PastTransient ==
  \A i \in 1 .. Len(fetch.outcomes) : i < fetch.attempt => fetch.outcomes[i] \in Transient

\* What the last outcome is at each step.
LastFits ==
  /\ fetch.step = "sleep" =>
       /\ fetch.attempt < MaxAttempts
       /\ fetch.outcomes[fetch.attempt] \in Transient
  /\ fetch.step \in {"response", "failed"} =>
       fetch.outcomes[fetch.attempt] \notin Transient \/ fetch.attempt = MaxAttempts
  /\ fetch.step = "fetched" => Ok(fetch.outcomes[fetch.attempt])

FetchInv == FetchType /\ Counts /\ PastTransient /\ LastFits

\* The last of a sequence that is not empty.
LEMMA LastIsAt ==
  ASSUME NEW S, NEW s \in Seq(S), s # << >>
  PROVE  Len(s) \in Nat \ {0} /\ Last(s) = s[Len(s)]
  BY EmptySeq DEF Last

LEMMA InitFetchInv ==
  FetchInit => FetchInv
<1>1. MaxAttempts \in Nat \ {0}
  BY FetchAssumption
<1> QED
  BY <1>1 DEF FetchInit, NoFetch, FetchInv, FetchType, Steps, Counts, PastTransient, LastFits

\* What an attempt with a given outcome and next step keeps.
LEMMA AttemptedFetchInv ==
  ASSUME FetchInv, fetch.step = "fetch",
         NEW outcome \in Outcome, NEW step \in {"sleep", "response", "failed"},
         Attempted(outcome, step),
         step = "sleep" => fetch.attempt < MaxAttempts /\ outcome \in Transient,
         step \in {"response", "failed"} =>
           outcome \notin Transient \/ fetch.attempt = MaxAttempts
  PROVE  FetchInv'
<1> DEFINE n == fetch.attempt
           o == fetch.outcomes
<1>1. /\ fetch \in [step : Steps, attempt : 1 .. MaxAttempts, outcomes : Seq(Outcome)]
      /\ MaxAttempts \in Nat \ {0}
      /\ n \in 1 .. MaxAttempts /\ o \in Seq(Outcome) /\ Len(o) = n - 1
  BY FetchAssumption DEF FetchInv, FetchType, Counts
<1>2. /\ fetch' = [fetch EXCEPT !.step = step, !.outcomes = Append(o, outcome)]
      /\ fetch'.step = step /\ fetch'.attempt = n
      /\ fetch'.outcomes = Append(o, outcome)
  BY <1>1 DEF Attempted
<1>3. /\ Append(o, outcome) \in Seq(Outcome)
      /\ Len(Append(o, outcome)) = n
      /\ Append(o, outcome)[n] = outcome
      /\ \A i \in 1 .. n : i < n => Append(o, outcome)[i] = o[i]
  BY <1>1
<1>4. FetchType'
  BY <1>1, <1>2, <1>3 DEF FetchType, Steps
<1>5. Counts'
  BY <1>2, <1>3 DEF Counts
<1>6. PastTransient'
  BY <1>1, <1>2, <1>3 DEF PastTransient, FetchInv
<1>7. LastFits'
  BY <1>2, <1>3 DEF LastFits
<1> QED
  BY <1>4, <1>5, <1>6, <1>7 DEF FetchInv

\* A step that changes nothing but the step of the fetch after its answer.
LEMMA SettledFetchInv ==
  ASSUME FetchInv, fetch.step = "response", NEW step \in {"fetched", "failed"},
         fetch' = [fetch EXCEPT !.step = step],
         step = "fetched" => Ok(Last(fetch.outcomes))
  PROVE  FetchInv'
<1>1. /\ fetch \in [step : Steps, attempt : 1 .. MaxAttempts, outcomes : Seq(Outcome)]
      /\ MaxAttempts \in Nat \ {0}
      /\ Len(fetch.outcomes) = fetch.attempt
  BY FetchAssumption DEF FetchInv, FetchType, Counts
<1>2. /\ fetch'.step = step /\ fetch'.attempt = fetch.attempt
      /\ fetch'.outcomes = fetch.outcomes
  BY <1>1
<1>3. fetch.outcomes # << >>
  BY <1>1
<1>4. Last(fetch.outcomes) = fetch.outcomes[fetch.attempt]
  BY <1>1, <1>3, LastIsAt
<1>5. FetchType' /\ Counts' /\ PastTransient'
  BY <1>1, <1>2 DEF FetchInv, FetchType, Counts, PastTransient, Steps
<1>6. LastFits'
  BY <1>2, <1>4 DEF LastFits, FetchInv
<1> QED
  BY <1>5, <1>6 DEF FetchInv

LEMMA NextFetchInv ==
  ASSUME FetchInv, [FetchNext]_fetch
  PROVE  FetchInv'
<1> USE FetchAssumption
<1>0. /\ fetch \in [step : Steps, attempt : 1 .. MaxAttempts, outcomes : Seq(Outcome)]
      /\ MaxAttempts \in Nat \ {0}
  BY DEF FetchInv, FetchType
<1>1. CASE BeginFetch
  <2>1. /\ fetch'.step = "fetch" /\ fetch'.attempt = 1 /\ fetch'.outcomes = << >>
        /\ fetch' = [step |-> "fetch", attempt |-> 1, outcomes |-> << >>]
    BY <1>1 DEF BeginFetch, NoFetch
  <2>2. FetchType'
    BY <1>0, <2>1 DEF FetchType, Steps
  <2>3. Counts' /\ PastTransient' /\ LastFits'
    BY <2>1 DEF Counts, PastTransient, LastFits
  <2> QED
    BY <2>2, <2>3 DEF FetchInv
<1>2. ASSUME NEW status \in Status, Respond(status)
      PROVE  FetchInv'
  <2>1. status \in Outcome /\ status # NetworkError
    BY DEF Outcome, NetworkError
  <2> DEFINE step == IF status \notin RetryableHttpStatuses \/ fetch.attempt = MaxAttempts
                       THEN "response" ELSE "sleep"
  <2>2. fetch.step = "fetch" /\ Attempted(status, step)
    BY <1>2 DEF Respond
  <2>3. step = "sleep" => fetch.attempt < MaxAttempts /\ status \in Transient
    BY <1>0 DEF Transient
  <2>4. step = "response" => status \notin Transient \/ fetch.attempt = MaxAttempts
    BY <2>1 DEF Transient
  <2> QED
    BY <2>1, <2>2, <2>3, <2>4, AttemptedFetchInv
<1>3. CASE Disconnect
  <2> DEFINE step == IF fetch.attempt = MaxAttempts THEN "failed" ELSE "sleep"
  <2>1. fetch.step = "fetch" /\ Attempted(NetworkError, step)
    BY <1>3 DEF Disconnect
  <2>2. NetworkError \in Outcome /\ NetworkError \in Transient
    BY DEF Outcome, Transient
  <2>3. step = "sleep" => fetch.attempt < MaxAttempts
    BY <1>0
  <2> QED
    BY <2>1, <2>2, <2>3, AttemptedFetchInv
<1>4. CASE Sleep
  <2>1. /\ fetch'.step = "fetch" /\ fetch'.attempt = fetch.attempt + 1
        /\ fetch'.outcomes = fetch.outcomes
        /\ Len(fetch.outcomes) = fetch.attempt
        /\ fetch.attempt < MaxAttempts
        /\ fetch.outcomes[fetch.attempt] \in Transient
    BY <1>0, <1>4 DEF Sleep, FetchInv, Counts, LastFits
  <2>2. FetchType'
    <3>1. fetch' = [fetch EXCEPT !.step = "fetch", !.attempt = fetch.attempt + 1]
      BY <1>4 DEF Sleep
    <3>2. fetch.attempt + 1 \in 1 .. MaxAttempts /\ "fetch" \in Steps
      BY <1>0, <2>1 DEF Steps
    <3> QED
      BY <1>0, <3>1, <3>2 DEF FetchType
  <2>3. PastTransient'
    BY <1>0, <2>1 DEF PastTransient, FetchInv
  <2> QED
    BY <1>0, <2>1, <2>2, <2>3 DEF FetchInv, Counts, LastFits
<1>5. CASE ReadBody
  BY <1>5, SettledFetchInv DEF ReadBody
<1>6. CASE Reject
  BY <1>6, SettledFetchInv DEF Reject
<1>7. CASE EndFetch
  BY <1>7, InitFetchInv DEF EndFetch, NoFetch, FetchInv, FetchType, Steps, Counts,
                            PastTransient, LastFits
<1>8. CASE UNCHANGED fetch
  BY <1>8 DEF FetchInv, FetchType, Counts, PastTransient, LastFits
<1> QED
  BY <1>1, <1>2, <1>3, <1>4, <1>5, <1>6, <1>7, <1>8 DEF FetchNext, FetchStep

LEMMA FetchInvRetries ==
  FetchInv => RetriesAreDue /\ LastAttemptCounts
<1> SUFFICES ASSUME FetchInv PROVE RetriesAreDue /\ LastAttemptCounts
  OBVIOUS
<1>1. /\ fetch.step \in Steps /\ fetch.attempt \in 1 .. MaxAttempts
      /\ fetch.outcomes \in Seq(Outcome) /\ MaxAttempts \in Nat \ {0}
  BY FetchAssumption DEF FetchInv, FetchType
<1>2. DOMAIN fetch.outcomes = 1 .. Len(fetch.outcomes) /\ Len(fetch.outcomes) \in Nat
  BY <1>1
<1>3. RetriesAreDue
  BY <1>1, <1>2 DEF RetriesAreDue, FetchInv, Counts, PastTransient, Transient
<1>4. ASSUME fetch.step \in Ended \cup {"response"}
      PROVE  /\ Len(fetch.outcomes) = fetch.attempt /\ fetch.outcomes # << >>
             /\ Last(fetch.outcomes) = fetch.outcomes[fetch.attempt]
  <2>1. Len(fetch.outcomes) = fetch.attempt
    BY <1>4 DEF FetchInv, Counts, Ended
  <2>2. fetch.outcomes # << >>
    BY <1>1, <2>1
  <2> QED
    BY <1>1, <2>1, <2>2, LastIsAt
<1>5. LastAttemptCounts
  BY <1>1, <1>4 DEF LastAttemptCounts, FetchInv, LastFits, Transient, Ended
<1> QED
  BY <1>3, <1>5

-----------------------------------------------------------------------------
\* Every fetch of the sync command makes as many attempts as it may, retries
\* what it should, and results in its last attempt, however many attempts are
\* configured (fetchWithRetry:479-512).
THEOREM RetriesAreCorrect ==
  FetchSpec => [](RetriesAreDue /\ LastAttemptCounts)
<1>1. FetchInit => FetchInv
  BY InitFetchInv
<1>2. FetchInv /\ [FetchNext]_fetch => FetchInv'
  BY NextFetchInv
<1>3. FetchInv => RetriesAreDue /\ LastAttemptCounts
  BY FetchInvRetries
<1> QED
  BY <1>1, <1>2, <1>3, PTL DEF FetchSpec

=============================================================================
