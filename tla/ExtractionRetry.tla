--------------------------- MODULE ExtractionRetry --------------------------
(***************************************************************************)
(* How one run of the pipeline asks the vision model until it has an       *)
(* answer: extractWithRetries and defaultBackoff of                        *)
(* internal/pipeline/pipeline.go.  What an answer holds is up to the       *)
(* module that extends this one; here it is found or it is not.            *)
(*                                                                         *)
(* A time.Duration is an int64.  It is the set of the positions of its one *)
(* bits, the sign being position WordBits - 1, so that a shift may lose    *)
(* bits as it does in the program.  The jitter of a fifth is left out.     *)
(***************************************************************************)
EXTENDS Integers

CONSTANTS
  ExtractMaxAttempts,  \* config.PipelineConfig.ExtractMaxAttempts
  WordBits,            \* 64
  BaseBits,            \* the bits of backoffBase, a second in nanoseconds
  CapShift             \* backoffCap is backoffBase shifted so far

ASSUME RetryAssumption ==
  /\ ExtractMaxAttempts \in Int
  /\ WordBits \in Nat \ {0} /\ CapShift \in Nat
  /\ BaseBits \subseteq 0..(WordBits - 2 - CapShift)

VARIABLES
  pc,       \* where the run is
  attempt,  \* the loop's counter, 0 outside of it
  wait      \* the duration of the sleep in progress

retryVars == <<pc, attempt, wait>>

RetryPcs == {"start", "try", "sleep", "found", "nothing", "canceled"}

RetryInit == pc = "start" /\ attempt = 0 /\ wait = {}

-----------------------------------------------------------------------------
(* defaultBackoff *)

Shifted(bits, k) == {b + k : b \in bits} \cap 0..(WordBits - 1)
Negative(bits)   == WordBits - 1 \in bits

\* The highest bit in which two numbers differ decides.
Exceeds(x, y) ==
  \E b \in x \ y : \A c \in y \ x : c < b

Cap == Shifted(BaseBits, CapShift)

\* Mutant of Backoff: the product is not checked for its sign.
BackoffUnsigned(n) ==
  LET d == Shifted(BaseBits, n - 1) IN
  IF ~Negative(d) /\ Exceeds(d, Cap) THEN Cap ELSE d

Backoff(n) ==
  LET d == Shifted(BaseBits, n - 1) IN
  IF Negative(d) \/ Exceeds(d, Cap) THEN Cap ELSE d

-----------------------------------------------------------------------------
(* extractWithRetries *)

StartExtraction ==
  /\ pc = "start"
  /\ IF ExtractMaxAttempts < 1 THEN pc' = "nothing" /\ UNCHANGED attempt
                               ELSE pc' = "try" /\ attempt' = 1
  /\ UNCHANGED wait

\* Questions, a partial extraction, an unknown code, or no answer after the last
\* attempt: whatever came last is returned.
ExtractReturns ==
  /\ pc = "try"
  /\ pc' \in {"found", "nothing"}
  /\ attempt' = 0
  /\ UNCHANGED wait

\* An error, an unreadable image or one without questions is tried again.
ExtractBacksOff ==
  /\ pc = "try" /\ attempt < ExtractMaxAttempts
  /\ pc' = "sleep"
  /\ wait' = Backoff(attempt)
  /\ UNCHANGED attempt

WakesUp ==
  /\ pc = "sleep"
  /\ pc' = "try"
  /\ attempt' = attempt + 1
  /\ wait' = {}

\* The context ends, also during a sleep.
ExtractionCanceled ==
  /\ pc \in {"try", "sleep"}
  /\ pc' = "canceled"
  /\ attempt' = 0
  /\ wait' = {}

RetryStep ==
  \/ StartExtraction \/ ExtractReturns \/ ExtractBacksOff \/ WakesUp
  \/ ExtractionCanceled

-----------------------------------------------------------------------------
\* The comment on defaultBackoff: one second, two, four, eight, and eight from
\* then on, although the shifted product leaves the int64 long before the last
\* of the attempts.  From the 56th sleep on it is zero, and this is false.
BackoffIsCapped ==
  pc = "sleep" =>
    wait = Shifted(BaseBits, IF attempt - 1 < CapShift THEN attempt - 1 ELSE CapShift)
=============================================================================
