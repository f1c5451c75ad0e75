------------------------------ MODULE Adapter ------------------------------
(***************************************************************************)
(* What app/providers makes of a failed call: the ProviderAPIError that    *)
(* _raise_for_status builds from a response, or that stands for a timeout  *)
(* (504) or a connection that is not made (502), both without a header.    *)
(***************************************************************************)
EXTENDS Integers

CONSTANT None       \* the None of a Retry-After

\* The status of a failure and its Retry-After: `value` seconds from now, said in
\* seconds or as a date, or nothing at all.
Failure == [status : Nat, form : {"absent", "seconds", "date"}, value : Int]

TRANSIENT_STATUS_CODES == {429, 500, 502, 503, 504}
TERMINAL_PROVIDER_STATUS_CODES == {401, 402, 403, 404}

Retryable(error) ==
    error.status \in TRANSIENT_STATUS_CODES \ TERMINAL_PROVIDER_STATUS_CODES

\* Only a number survives: float() does not read a date.
RetryAfter(error) == IF error.form = "seconds" THEN error.value ELSE None

\* Once its output has begun, a stream can only time out or lose its connection.
CutsOff(error) == error.status \in {502, 504} /\ error.form = "absent"
=============================================================================
